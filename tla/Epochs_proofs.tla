---------------------------- MODULE Epochs_proofs ----------------------------
(***************************************************************************)
(* Proofs about PowTarget and Epochs: the arithmetic on digits computes    *)
(* the products and quotients it stands for, for every base and every      *)
(* number of digits, and the node's targets and seeds follow the chain,    *)
(* for every tree of blocks.                                               *)
(***************************************************************************)
EXTENDS Epochs, DataTheorems

(***************************************************************************)
(* Powers of two and quotients.                                            *)
(***************************************************************************)

\* Exponents add.
LEMMA TwoToSum ==
    ASSUME NEW m \in Nat, NEW n \in Nat
    PROVE  TwoTo[m + n] = TwoTo[m] * TwoTo[n]
  <1> DEFINE Good == {k \in Nat : TwoTo[m + k] = TwoTo[m] * TwoTo[k]}
  <1>1. 0 \in Good
    BY TwoToValues
  <1>2. ASSUME NEW k \in Nat, k \in Good PROVE k + 1 \in Good
    <2>1. m + (k + 1) = (m + k) + 1 /\ m + k \in Nat
      OBVIOUS
    <2>2. TwoTo[m + (k + 1)] = 2 * TwoTo[m + k] /\ TwoTo[k + 1] = 2 * TwoTo[k]
      BY <2>1, TwoToValues
    <2>3. TwoTo[m] \in Nat /\ TwoTo[k] \in Nat
      BY TwoToValues
    <2>4. TwoTo[m + k] = TwoTo[m] * TwoTo[k]
      BY <1>2
    <2>5. \A x, y \in Nat : 2 * (x * y) = x * (2 * y)
      OBVIOUS
    <2> QED
      BY <2>2, <2>3, <2>4, <2>5
  <1> HIDE DEF Good
  <1>3. n \in Good
    BY <1>1, <1>2, NatSetInduction
  <1> QED
    BY <1>3 DEF Good

\* Base^i.
Power(i) == TwoTo[BaseBits * i]

\* Powers of the base grow by the base.
LEMMA PowerValues ==
    /\ Base \in Nat /\ Base > 1 /\ Base > 0
    /\ Power(0) = 1
    /\ \A i \in Nat : Power(i) \in Nat /\ Power(i) > 0 /\ Power(i + 1) = Power(i) * Base
  <1>1. BaseBits \in Nat /\ BaseBits - 1 \in Nat
    BY PowAssumption
  <1>2. Base = 2 * TwoTo[BaseBits - 1] /\ TwoTo[BaseBits - 1] \in Nat \ {0}
    <2>1. (BaseBits - 1) + 1 = BaseBits
      BY <1>1
    <2> QED
      BY <1>1, <2>1, TwoToValues DEF Base
  <1>3. ASSUME NEW i \in Nat
        PROVE  Power(i) \in Nat /\ Power(i) > 0 /\ Power(i + 1) = Power(i) * Base
    <2>1. BaseBits * i \in Nat /\ BaseBits * (i + 1) = BaseBits * i + BaseBits
      BY <1>1
    <2>2. TwoTo[BaseBits * i + BaseBits] = TwoTo[BaseBits * i] * TwoTo[BaseBits]
      BY <1>1, <2>1, TwoToSum
    <2>3. TwoTo[BaseBits * i] \in Nat \ {0}
      BY <2>1, TwoToValues
    <2> QED
      BY <2>1, <2>2, <2>3 DEF Power, Base
  <1>4. Power(0) = 1
    <2>1. BaseBits * 0 = 0
      BY <1>1
    <2> QED
      BY <2>1, TwoToValues DEF Power
  <1> QED
    BY <1>2, <1>3, <1>4

\* The quotient and the remainder are the only ones.
LEMMA QuotientUnique ==
    ASSUME NEW a \in Nat, NEW d \in Nat, d > 0, NEW q \in Nat, NEW r \in Nat, r < d,
           a = d * q + r
    PROVE  a \div d = q /\ a % d = r
  OBVIOUS

\* A quotient and a remainder make the number again.
LEMMA QuotientIs ==
    ASSUME NEW a \in Nat, NEW d \in Nat, d > 0
    PROVE  /\ a \div d \in Nat /\ a % d \in Nat /\ a % d < d
           /\ a = d * (a \div d) + (a % d)
  OBVIOUS

\* Two divisions are one by the product.
LEMMA QuotientTwice ==
    ASSUME NEW a \in Nat, NEW b \in Nat, NEW c \in Nat, b > 0, c > 0
    PROVE  a \div (b * c) = (a \div b) \div c
  <1> DEFINE q == a \div b
             r == a % b
             s == q \div c
             t == q % c
  <1>1. q \in Nat /\ r \in Nat /\ r < b /\ a = b * q + r
    BY QuotientIs
  <1>2. s \in Nat /\ t \in Nat /\ t < c /\ q = c * s + t
    <2> HIDE DEF q
    <2> QED
      BY <1>1, QuotientIs
  <1> HIDE DEF q, r, s, t
  <1>3. a = (b * c) * s + (b * t + r)
    <2>1. b * (c * s + t) = (b * c) * s + b * t
      BY <1>1, <1>2
    <2> QED
      BY <1>1, <1>2, <2>1
  <1>4. b * t + r \in Nat /\ b * t + r < b * c /\ b * c \in Nat /\ b * c > 0
    <2>1. t + 1 <= c
      BY <1>2
    <2>2. b * (t + 1) <= b * c
      BY <1>2, <2>1
    <2>3. b * (t + 1) = b * t + b /\ b * t \in Nat /\ b * c \in Nat
      BY <1>2
    <2> QED
      BY <1>1, <2>2, <2>3
  <1> DEFINE bc == b * c
             u == b * t + r
  <1> HIDE DEF bc, u
  <1>5. a = bc * s + u /\ u \in Nat /\ u < bc /\ bc \in Nat /\ bc > 0
    BY <1>3, <1>4 DEF bc, u
  <1>6. a \div bc = s
    BY <1>2, <1>5, QuotientUnique
  <1> QED
    BY <1>6 DEF bc, s, q

(***************************************************************************)
(* Numbers and their digits.                                               *)
(***************************************************************************)

\* The equation of the numbers that the first digits make.
IsNumber(g, digits, len) ==
    g = [i \in 0..len |-> IF i = 0 THEN 0 ELSE g[i - 1] * Base + digits[i]]

\* It has a solution.
LEMMA NumberExists ==
    ASSUME NEW len \in Nat, NEW digits, \A i \in 1..len : digits[i] \in Nat
    PROVE  \E g : IsNumber(g, digits, len)
  <1> DEFINE S == Nat
             zero == 0
             step == [p \in (1..len) \X S |-> p[2] * Base + digits[p[1]]]
  <1>1. step \in [(1..len) \X S -> S] /\ zero \in S
    <2>1. \A x \in Nat, y \in Nat : x * Base + y \in Nat
      BY PowerValues
    <2>2. \A p \in (1..len) \X S : p[2] \in Nat /\ digits[p[1]] \in Nat
      OBVIOUS
    <2>3. \A p \in (1..len) \X S : p[2] * Base + digits[p[1]] \in Nat
      BY <2>1, <2>2
    <2> QED
      BY <2>3
  <1>2. \A i \in 1..len, n \in S : step[<<i, n>>] = n * Base + digits[i]
    OBVIOUS
  <1> HIDE DEF step, zero
  <1>3. PICK g \in [0..len -> S] : Follows(g, zero, step, len)
    <2> HIDE DEF S
    <2> QED
      BY <1>1, RecursionExists
  <1>4. ASSUME NEW i \in 0..len
        PROVE  g[i] = IF i = 0 THEN 0 ELSE g[i - 1] * Base + digits[i]
    <2>1. CASE i # 0
      <3>1. i \in 1..len /\ i - 1 \in 0..len
        BY <2>1
      <3>2. g[i] = step[<<i, g[i - 1]>>] /\ g[i - 1] \in S
        BY <1>3, <3>1 DEF Follows
      <3>3. step[<<i, g[i - 1]>>] = g[i - 1] * Base + digits[i]
        BY <1>2, <3>1, <3>2
      <3> QED
        BY <2>1, <3>2, <3>3
    <2> QED
      BY <1>3, <2>1 DEF Follows, zero
  <1>5. IsNumber(g, digits, len)
    BY <1>3, <1>4 DEF IsNumber
  <1> QED
    BY <1>5

\* The number of the first digits does not depend on how many there are.
LEMMA NumberIs ==
    ASSUME NEW len \in Nat, NEW digits, \A i \in 1..len : digits[i] \in Nat
    PROVE  /\ Number(digits, 0) = 0
           /\ \A i \in 0..len : Number(digits, i) \in Nat
           /\ \A i \in 0..(len - 1) :
                 Number(digits, i + 1) = Number(digits, i) * Base + digits[i + 1]
  <1> DEFINE upto == [n \in 0..len |-> CHOOSE g : IsNumber(g, digits, n)]
  <1>1. ASSUME NEW n \in 0..len
        PROVE  IsNumber(upto[n], digits, n) /\ Number(digits, n) = upto[n][n]
    <2>1. \E g : IsNumber(g, digits, n)
      <3>1. n \in Nat /\ \A i \in 1..n : digits[i] \in Nat
        OBVIOUS
      <3> QED
        BY <3>1, NumberExists
    <2>2. IsNumber(CHOOSE g : IsNumber(g, digits, n), digits, n)
      BY <2>1
    <2>3. Number(digits, n) = (CHOOSE g : IsNumber(g, digits, n))[n]
      BY DEF Number, IsNumber
    <2> QED
      BY <2>2, <2>3
  <1> HIDE DEF upto
  <1>2. ASSUME NEW n \in 0..len
        PROVE  /\ upto[n][0] = 0
               /\ \A i \in 1..n : upto[n][i] = upto[n][i - 1] * Base + digits[i]
    <2>1. 0 \in 0..n /\ \A i \in 1..n : i \in 0..n /\ i # 0
      OBVIOUS
    <2> QED
      BY <1>1, <2>1 DEF IsNumber
  <1>3. ASSUME NEW n \in 0..len
        PROVE  \A i \in 0..n : upto[n][i] \in Nat
    <2> DEFINE Good == {i \in 0..n : upto[n][i] \in Nat}
    <2>1. 0 \in Good
      BY <1>2
    <2>2. ASSUME NEW i \in 0..(n - 1), i \in Good PROVE i + 1 \in Good
      <3>1. i + 1 \in 1..n /\ (i + 1) - 1 = i /\ i + 1 \in 0..n
        OBVIOUS
      <3>2. upto[n][i + 1] = upto[n][i] * Base + digits[i + 1]
        BY <1>2, <3>1
      <3>3. digits[i + 1] \in Nat /\ upto[n][i] \in Nat /\ Base \in Nat
        BY <2>2, <3>1, PowerValues
      <3> QED
        BY <3>1, <3>2, <3>3
    <2> HIDE DEF Good
    <2>3. \A i \in 0..n : i \in Good
      BY <2>1, <2>2, IntervalInduction
    <2> QED
      BY <2>3 DEF Good
  <1>4. ASSUME NEW n \in 0..(len - 1)
        PROVE  upto[n + 1][n] = upto[n][n]
    <2> DEFINE Good == {i \in 0..n : upto[n + 1][i] = upto[n][i]}
    <2>1. n \in 0..len /\ n + 1 \in 0..len
      OBVIOUS
    <2>2. 0 \in Good
      BY <1>2, <2>1
    <2>3. ASSUME NEW i \in 0..(n - 1), i \in Good PROVE i + 1 \in Good
      <3>1. i + 1 \in 1..n /\ i + 1 \in 1..(n + 1) /\ (i + 1) - 1 = i /\ i + 1 \in 0..n
        OBVIOUS
      <3>2. /\ upto[n][i + 1] = upto[n][i] * Base + digits[i + 1]
            /\ upto[n + 1][i + 1] = upto[n + 1][i] * Base + digits[i + 1]
        BY <1>2, <2>1, <3>1
      <3> QED
        BY <2>3, <3>1, <3>2
    <2> HIDE DEF Good
    <2>4. n \in Nat /\ n \in 0..n
      OBVIOUS
    <2>5. \A i \in 0..n : i \in Good
      BY <2>2, <2>3, <2>4, IntervalInduction
    <2> QED
      BY <2>4, <2>5 DEF Good
  <1>5. ASSUME NEW i \in 0..(len - 1)
        PROVE  Number(digits, i + 1) = Number(digits, i) * Base + digits[i + 1]
    <2>1. i \in 0..len /\ i + 1 \in 0..len /\ i + 1 \in 1..(i + 1) /\ (i + 1) - 1 = i
      OBVIOUS
    <2>2. upto[i + 1][i + 1] = upto[i + 1][i] * Base + digits[i + 1]
      <3>1. \A j \in 1..(i + 1) : upto[i + 1][j] = upto[i + 1][j - 1] * Base + digits[j]
        BY <1>2, <2>1
      <3> QED
        BY <2>1, <3>1
    <2> QED
      BY <1>1, <1>4, <2>1, <2>2
  <1>6. ASSUME NEW i \in 0..len PROVE Number(digits, i) \in Nat
    <2>1. i \in 0..i
      OBVIOUS
    <2> QED
      BY <1>1, <1>3, <2>1
  <1>7. Number(digits, 0) = 0
    <2>1. 0 \in 0..len
      OBVIOUS
    <2> QED
      BY <1>1, <1>2, <2>1
  <1> QED
    BY <1>5, <1>6, <1>7

\* The digits of a number that has room make the number again.
THEOREM DigitsMakeNumber ==
    ASSUME NEW len \in Nat, NEW n \in Nat, n < Power(len)
    PROVE  /\ \A i \in 1..len : ToDigits(n, len)[i] \in 0..(Base - 1)
           /\ Number(ToDigits(n, len), len) = n
  <1> DEFINE digits == ToDigits(n, len)
             part(i) == n \div Power(len - i)
             Good == {i \in 0..len : Number(digits, i) = part(i)}
  <1>1. ASSUME NEW i \in 1..len
        PROVE  /\ digits[i] = part(i) % Base
               /\ part(i) \in Nat
               /\ part(i) % Base \in 0..(Base - 1)
    <2>1. len - i \in Nat
      OBVIOUS
    <2>2. Power(len - i) \in Nat /\ Power(len - i) > 0 /\ Base \in Nat /\ Base > 0
      BY <2>1, PowerValues
    <2>3. part(i) \in Nat
      BY <2>2, QuotientIs
    <2>4. digits[i] = part(i) % Base
      BY DEF ToDigits, Power
    <2> HIDE DEF part, digits
    <2>5. part(i) % Base \in Nat /\ part(i) % Base < Base
      BY <2>2, <2>3, QuotientIs
    <2> QED
      BY <2>2, <2>3, <2>4, <2>5
  <1> HIDE DEF digits
  <1>2. \A i \in 1..len : digits[i] \in Nat
    BY <1>1, PowerValues
  <1>3. 0 \in Good
    <2>1. part(0) = 0
      <3>1. len - 0 = len /\ Power(len) \in Nat /\ Power(len) > 0
        BY PowerValues
      <3>2. n = Power(len) * 0 + n
        BY <3>1
      <3>3. n \div Power(len) = 0
        BY <3>1, <3>2, QuotientUnique
      <3> QED
        BY <3>1, <3>3
    <2> HIDE DEF part
    <2> QED
      BY <1>2, <2>1, NumberIs
  <1>4. ASSUME NEW i \in 0..(len - 1), i \in Good PROVE i + 1 \in Good
    <2>1. i + 1 \in 1..len /\ len - (i + 1) \in Nat /\ len - i = (len - (i + 1)) + 1
      OBVIOUS
    <2> DEFINE P == Power(len - (i + 1))
               q == n \div P
    <2>2. P \in Nat /\ P > 0 /\ Power(len - i) = P * Base /\ Base \in Nat /\ Base > 0
      BY <2>1, PowerValues
    <2>3. part(i + 1) = q /\ part(i) = n \div (P * Base)
      BY <2>2
    <2> HIDE DEF P
    <2>4. n \div (P * Base) = q \div Base
      BY <2>2, QuotientTwice
    <2>5. q \in Nat
      BY <2>2, QuotientIs
    <2> HIDE DEF q
    <2>6. q = Base * (q \div Base) + (q % Base)
      BY <2>2, <2>5, QuotientIs
    <2>7. digits[i + 1] = q % Base
      BY <1>1, <2>1, <2>3
    <2>8. Number(digits, i) = q \div Base
      BY <1>4, <2>3, <2>4
    <2>9. Number(digits, i + 1) = Number(digits, i) * Base + digits[i + 1]
      BY <1>2, NumberIs
    <2>10. \A x \in Int : x * Base = Base * x
      BY <2>2
    <2>11. q \div Base \in Int
      BY <2>2, <2>5, QuotientIs
    <2>12. Number(digits, i + 1) = q
      BY <2>6, <2>7, <2>8, <2>9, <2>10, <2>11
    <2> HIDE DEF part
    <2> QED
      BY <2>1, <2>3, <2>12
  <1>5. len \in 0..len /\ part(len) = n
    <2>1. len - len = 0
      OBVIOUS
    <2> QED
      BY <2>1, PowerValues
  <1> HIDE DEF Good, part
  <1>6. \A i \in 0..len : i \in Good
    BY <1>3, <1>4, IntervalInduction
  <1> QED
    BY <1>1, <1>5, <1>6 DEF Good, digits

\* f has digits up to len; g has those of f from k on.
HasDigits(f, len) == \A i \in 1..len : f[i] \in Nat
IsRest(g, len, f, k) == \A i \in 1..len : g[i] = f[k + i]

\* A number is its first k digits, moved up, and the number of the rest.
LEMMA NumberSplit ==
    ASSUME NEW k \in Nat, NEW len \in Nat, NEW f, NEW g,
           HasDigits(f, k + len), IsRest(g, len, f, k)
    PROVE  Number(f, k + len) = Number(f, k) * Power(len) + Number(g, len)
  <1> DEFINE Good == {i \in 0..len : Number(f, k + i) = Number(f, k) * Power(i) + Number(g, i)}
  <1> USE DEF HasDigits, IsRest
  <1>1. \A i \in 1..len : g[i] \in Nat
    OBVIOUS
  <1>2. k + len \in Nat /\ k \in 0..(k + len)
    OBVIOUS
  <1>3. Number(f, k) \in Nat
    BY <1>2, NumberIs
  <1>4. 0 \in Good
    <2>1. Number(g, 0) = 0
      BY <1>1, NumberIs
    <2>2. Power(0) = 1 /\ k + 0 = k
      BY PowerValues
    <2> QED
      BY <1>3, <2>1, <2>2
  <1>5. ASSUME NEW i \in 0..(len - 1), i \in Good PROVE i + 1 \in Good
    <2>1. /\ i + 1 \in 1..len /\ k + (i + 1) = (k + i) + 1 /\ i \in Nat /\ i \in 0..len
          /\ k + i \in 0..((k + len) - 1)
      OBVIOUS
    <2>2. Number(f, (k + i) + 1) = Number(f, k + i) * Base + f[(k + i) + 1]
      BY <1>2, <2>1, NumberIs
    <2>3. Number(g, i + 1) = Number(g, i) * Base + g[i + 1]
      BY <1>1, NumberIs
    <2>4. Power(i + 1) = Power(i) * Base /\ Power(i) \in Nat /\ Base \in Nat
      BY <2>1, PowerValues
    <2>5. Number(g, i) \in Nat
      BY <1>1, <2>1, NumberIs
    <2>6. g[i + 1] = f[(k + i) + 1] /\ g[i + 1] \in Nat
      BY <1>1, <2>1
    <2>7. Number(f, k + i) = Number(f, k) * Power(i) + Number(g, i)
      BY <1>5
    <2> DEFINE h == Number(f, k)
               w == Power(i)
               r == Number(g, i)
               d == g[i + 1]
    <2>8. h \in Nat /\ w \in Nat /\ r \in Nat /\ d \in Nat
      BY <1>3, <2>4, <2>5, <2>6
    <2>9. Number(f, k + (i + 1)) = (h * w + r) * Base + d
      BY <2>1, <2>2, <2>6, <2>7
    <2>10. Number(g, i + 1) = r * Base + d /\ Power(i + 1) = w * Base
      BY <2>3, <2>4
    <2> HIDE DEF h, w, r, d
    <2>11. (h * w + r) * Base + d = h * (w * Base) + (r * Base + d)
      BY <2>4, <2>8
    <2> QED
      BY <2>1, <2>9, <2>10, <2>11 DEF h
  <1> HIDE DEF Good
  <1>6. len \in 0..len /\ \A i \in 0..len : i \in Good
    BY <1>4, <1>5, IntervalInduction
  <1> QED
    BY <1>6 DEF Good

\* The same digits make the same number.
LEMMA NumberSame ==
    ASSUME NEW len \in Nat, NEW f, NEW g, \A i \in 1..len : f[i] \in Nat /\ f[i] = g[i]
    PROVE  Number(f, len) = Number(g, len)
  <1> DEFINE k == 0
  <1>1. k \in Nat /\ k + len = len /\ \A i \in 1..len : k + i = i
    OBVIOUS
  <1>2. Number(f, k) = 0
    BY NumberIs
  <1> HIDE DEF k
  <1>3. HasDigits(f, k + len) /\ IsRest(g, len, f, k)
    BY <1>1 DEF HasDigits, IsRest
  <1>4. Number(f, k + len) = Number(f, k) * Power(len) + Number(g, len)
    BY <1>1, <1>3, NumberSplit
  <1>5. Power(len) \in Nat /\ Number(g, len) \in Nat
    <2>1. len \in 0..len /\ \A i \in 1..len : g[i] \in Nat
      OBVIOUS
    <2> QED
      BY <2>1, NumberIs, PowerValues
  <1> QED
    BY <1>1, <1>2, <1>4, <1>5

\* A digit that is not 0 makes a number that is not 0.
LEMMA NumberPositive ==
    ASSUME NEW len \in Nat, NEW f, \A i \in 1..len : f[i] \in Nat,
           NEW k \in 1..len, f[k] # 0
    PROVE  Number(f, len) > 0
  <1> DEFINE Good == {i \in 0..len : i >= k => Number(f, i) > 0}
  <1>1. 0 \in Good
    OBVIOUS
  <1>2. ASSUME NEW i \in 0..(len - 1), i \in Good PROVE i + 1 \in Good
    <2>1. i + 1 \in 1..len /\ i + 1 \in 0..len /\ i \in 0..len
      OBVIOUS
    <2> SUFFICES ASSUME i + 1 >= k PROVE Number(f, i + 1) > 0
      BY <2>1
    <2>2. Number(f, i + 1) = Number(f, i) * Base + f[i + 1]
      BY NumberIs
    <2>3. Number(f, i) \in Nat /\ f[i + 1] \in Nat
      BY <2>1, NumberIs
    <2>4. i >= k => Number(f, i) > 0
      BY <1>2
    <2> DEFINE n == Number(f, i)
               d == f[i + 1]
    <2>5. n \in Nat /\ d \in Nat /\ (n > 0 \/ d > 0)
      <3>1. i >= k \/ i + 1 = k
        OBVIOUS
      <3>2. d \in Nat /\ (i + 1 = k => d # 0)
        BY <2>3
      <3> QED
        BY <2>3, <2>4, <3>1, <3>2
    <2> HIDE DEF n, d
    <2>6. n * Base + d > 0
      <3>1. Base \in Nat /\ Base > 0
        BY PowerValues
      <3>2. n * Base \in Nat /\ (n > 0 => n * Base > 0)
        BY <2>5, <3>1
      <3> QED
        BY <2>5, <3>2
    <2> QED
      BY <2>1, <2>2, <2>6 DEF n, d
  <1> HIDE DEF Good
  <1>3. len \in 0..len /\ \A i \in 0..len : i \in Good
    BY <1>1, <1>2, IntervalInduction
  <1> QED
    BY <1>3 DEF Good

\* Digits that are 0 make 0.
LEMMA NumberZero ==
    ASSUME NEW len \in Nat, NEW f, \A i \in 1..len : f[i] = 0
    PROVE  Number(f, len) = 0
  <1> DEFINE Good == {i \in 0..len : Number(f, i) = 0}
  <1>1. \A i \in 1..len : f[i] \in Nat
    OBVIOUS
  <1>2. 0 \in Good
    BY <1>1, NumberIs
  <1>3. ASSUME NEW i \in 0..(len - 1), i \in Good PROVE i + 1 \in Good
    <2>1. i + 1 \in 1..len /\ i + 1 \in 0..len
      OBVIOUS
    <2>2. Number(f, i + 1) = Number(f, i) * Base + f[i + 1]
      BY <1>1, NumberIs
    <2>3. 0 * Base + 0 = 0
      BY PowerValues
    <2> QED
      BY <1>3, <2>1, <2>2, <2>3
  <1> HIDE DEF Good
  <1>4. len \in 0..len /\ \A i \in 0..len : i \in Good
    BY <1>2, <1>3, IntervalInduction
  <1> QED
    BY <1>4 DEF Good

(***************************************************************************)
(* The product.                                                            *)
(***************************************************************************)

\* The equation of the columns of Mul256.
IsColumn(g, a, k) ==
    g = [c \in 0..Digits |-> IF c = 0 THEN 0 ELSE a[Digits + 1 - c] * k + g[c - 1] \div Base]

\* It has a solution.
LEMMA ColumnExists ==
    ASSUME NEW a \in [1..Digits -> Nat], NEW k \in Nat
    PROVE  \E g : IsColumn(g, a, k)
  <1> DEFINE S == Nat
             zero == 0
             step == [p \in (1..Digits) \X S |-> a[Digits + 1 - p[1]] * k + p[2] \div Base]
  <1>1. step \in [(1..Digits) \X S -> S] /\ zero \in S
    <2>1. ASSUME NEW x \in Nat, NEW y \in Nat PROVE x * k + y \div Base \in Nat
      <3>1. Base \in Nat /\ Base > 0
        BY PowerValues
      <3>2. y \div Base \in Nat /\ x * k \in Nat
        BY <3>1, QuotientIs
      <3> QED
        BY <3>2
    <2>2. \A p \in (1..Digits) \X S : p[2] \in Nat /\ a[Digits + 1 - p[1]] \in Nat
      BY PowAssumption
    <2>3. \A p \in (1..Digits) \X S : a[Digits + 1 - p[1]] * k + p[2] \div Base \in Nat
      BY <2>1, <2>2
    <2> QED
      BY <2>3
  <1>2. \A i \in 1..Digits, n \in S : step[<<i, n>>] = a[Digits + 1 - i] * k + n \div Base
    OBVIOUS
  <1> HIDE DEF step, zero
  <1>3. PICK g \in [0..Digits -> S] : Follows(g, zero, step, Digits)
    <2> HIDE DEF S
    <2> QED
      BY <1>1, PowAssumption, RecursionExists
  <1>4. ASSUME NEW c \in 0..Digits
        PROVE  g[c] = IF c = 0 THEN 0 ELSE a[Digits + 1 - c] * k + g[c - 1] \div Base
    <2>1. CASE c # 0
      <3>1. c \in 1..Digits /\ c - 1 \in 0..Digits
        BY <2>1, PowAssumption
      <3>2. g[c] = step[<<c, g[c - 1]>>] /\ g[c - 1] \in S
        BY <1>3, <3>1 DEF Follows
      <3>3. step[<<c, g[c - 1]>>] = a[Digits + 1 - c] * k + g[c - 1] \div Base
        BY <1>2, <3>1, <3>2
      <3> QED
        BY <2>1, <3>2, <3>3
    <2> QED
      BY <1>3, <2>1 DEF Follows, zero
  <1>5. IsColumn(g, a, k)
    BY <1>3, <1>4 DEF IsColumn
  <1> QED
    BY <1>5

\* A column and its carry.
LEMMA ColumnIs ==
    ASSUME NEW a \in [1..Digits -> 0..(Base - 1)], NEW k \in Nat, NEW g, IsColumn(g, a, k)
    PROVE  /\ g[0] = 0
           /\ \A c \in 0..Digits : g[c] \in Nat /\ g[c] \div Base \in 0..k
           /\ \A c \in 1..Digits : g[c] = a[Digits + 1 - c] * k + g[c - 1] \div Base
  <1>1. Digits \in Nat /\ Base \in Nat /\ Base > 1 /\ Base > 0
    BY PowAssumption, PowerValues
  <1>2. g[0] = 0 /\ \A c \in 1..Digits : g[c] = a[Digits + 1 - c] * k + g[c - 1] \div Base
    <2>1. 0 \in 0..Digits /\ \A c \in 1..Digits : c \in 0..Digits /\ c # 0
      BY <1>1
    <2> QED
      BY <2>1 DEF IsColumn
  <1> DEFINE Good == {c \in 0..Digits : g[c] \in Nat /\ g[c] \div Base \in 0..k}
  <1>3. 0 \in Good
    BY <1>1, <1>2
  <1>4. ASSUME NEW c \in 0..(Digits - 1), c \in Good PROVE c + 1 \in Good
    <2>1. c + 1 \in 1..Digits /\ (c + 1) - 1 = c /\ Digits + 1 - (c + 1) \in 1..Digits
      BY <1>1
    <2> DEFINE x == a[Digits + 1 - (c + 1)]
               y == g[c] \div Base
    <2>2. g[c + 1] = x * k + y
      BY <1>2, <2>1
    <2>3. x \in 0..(Base - 1) /\ y \in 0..k
      BY <1>4, <2>1
    <2> HIDE DEF x, y
    <2>4. x * k + y \in Nat /\ x * k + y <= Base * k
      <3>1. x \in Nat /\ y \in Nat /\ x <= Base - 1 /\ y <= k
        BY <1>1, <2>3
      <3>2. x * k \in Nat /\ x * k <= (Base - 1) * k
        BY <1>1, <3>1
      <3>3. (Base - 1) * k + k = Base * k /\ (Base - 1) * k \in Nat /\ Base * k \in Nat
        BY <1>1
      <3> QED
        BY <3>1, <3>2, <3>3
    <2> DEFINE z == x * k + y
    <2>5. z \in Nat /\ z <= Base * k /\ g[c + 1] = z
      BY <2>2, <2>4
    <2> HIDE DEF z
    <2>6. z \div Base \in Nat /\ z \div Base <= k
      <3>1. z \div Base \in Nat /\ Base * (z \div Base) <= z
        <4>1. /\ z \div Base \in Nat /\ z % Base \in Nat
              /\ z = Base * (z \div Base) + (z % Base)
          BY <1>1, <2>5, QuotientIs
        <4>2. Base * (z \div Base) \in Int
          BY <1>1, <4>1
        <4> QED
          BY <4>1, <4>2
      <3> DEFINE w == z \div Base
      <3>2. w \in Nat /\ Base * w <= Base * k
        <4>1. Base * w \in Nat /\ Base * k \in Nat
          BY <1>1, <3>1
        <4> QED
          BY <2>5, <3>1, <4>1
      <3> HIDE DEF w
      <3>3. w <= k
        BY <1>1, <3>2
      <3> QED
        BY <3>1, <3>3 DEF w
    <2> QED
      BY <1>1, <2>1, <2>5, <2>6
  <1> HIDE DEF Good
  <1>5. \A c \in 0..Digits : c \in Good
    BY <1>1, <1>3, <1>4, IntervalInduction
  <1> QED
    BY <1>2, <1>5 DEF Good

\* mul256_u64 multiplies, for a factor that the digits of the carry can hold.
THEOREM ProductIsExact ==
    ASSUME NEW a \in [1..Digits -> 0..(Base - 1)], NEW k \in Nat, k < Power(SpanDigits)
    PROVE  /\ \A i \in 1..(SpanDigits + Digits) : Mul256(a, k)[i] \in 0..(Base - 1)
           /\ Number(Mul256(a, k), SpanDigits + Digits) = Number(a, Digits) * k
  <1>1. Digits \in Nat /\ SpanDigits \in Nat /\ Base \in Nat /\ Base > 1 /\ Base > 0
    BY PowAssumption, PowerValues
  <1> DEFINE column == CHOOSE g : IsColumn(g, a, k)
             carry == ToDigits(column[Digits] \div Base, SpanDigits)
             p == Mul256(a, k)
  <1>2. IsColumn(column, a, k)
    <2>1. a \in [1..Digits -> Nat]
      BY <1>1
    <2>2. \E g : IsColumn(g, a, k)
      BY <2>1, ColumnExists
    <2> QED
      BY <2>2
  <1>3. p = [i \in 1..(SpanDigits + Digits) |->
                IF i <= SpanDigits THEN carry[i] ELSE column[SpanDigits + Digits + 1 - i] % Base]
    BY DEF Mul256, IsColumn
  <1> HIDE DEF column
  <1>4. /\ column[0] = 0
        /\ \A c \in 0..Digits : column[c] \in Nat /\ column[c] \div Base \in 0..k
        /\ \A c \in 1..Digits : column[c] = a[Digits + 1 - c] * k + column[c - 1] \div Base
    BY <1>2, ColumnIs
  <1>5. /\ \A i \in 1..SpanDigits : carry[i] \in 0..(Base - 1)
        /\ Number(carry, SpanDigits) = column[Digits] \div Base
    <2>1. Digits \in 0..Digits
      BY <1>1
    <2>2. Power(SpanDigits) \in Nat
      BY <1>1, PowerValues
    <2> DEFINE n == column[Digits] \div Base
    <2>3. n \in Nat /\ n < Power(SpanDigits)
      BY <1>4, <2>1, <2>2
    <2> HIDE DEF n
    <2>4. /\ \A i \in 1..SpanDigits : ToDigits(n, SpanDigits)[i] \in 0..(Base - 1)
          /\ Number(ToDigits(n, SpanDigits), SpanDigits) = n
      BY <1>1, <2>3, DigitsMakeNumber
    <2> QED
      BY <2>4 DEF n
  <1> HIDE DEF carry, p
  <1>6. \A i \in 1..SpanDigits : p[i] = carry[i]
    BY <1>1, <1>3
  <1>7. \A i \in 1..Digits : p[SpanDigits + i] = column[Digits + 1 - i] % Base
    <2>1. \A i \in 1..Digits : /\ SpanDigits + i \in 1..(SpanDigits + Digits)
                               /\ ~(SpanDigits + i <= SpanDigits)
                               /\ SpanDigits + Digits + 1 - (SpanDigits + i) = Digits + 1 - i
      BY <1>1
    <2> QED
      BY <1>3, <2>1
  <1>8. ASSUME NEW i \in 1..(SpanDigits + Digits) PROVE p[i] \in 0..(Base - 1)
    <2>1. CASE i <= SpanDigits
      BY <1>1, <1>5, <1>6, <2>1
    <2>2. CASE ~(i <= SpanDigits)
      <3>1. i - SpanDigits \in 1..Digits /\ SpanDigits + (i - SpanDigits) = i
        BY <1>1, <2>2
      <3> DEFINE j == i - SpanDigits
                 c == Digits + 1 - j
      <3>2. c \in 0..Digits /\ p[i] = column[c] % Base
        <4>1. j \in 1..Digits /\ SpanDigits + j = i
          BY <3>1
        <4> HIDE DEF j
        <4>2. Digits + 1 - j \in 0..Digits
          BY <1>1, <4>1
        <4>3. p[SpanDigits + j] = column[Digits + 1 - j] % Base
          BY <1>7, <4>1
        <4> QED
          BY <4>1, <4>2, <4>3
      <3> HIDE DEF c
      <3>3. column[c] \in Nat
        BY <1>4, <3>2
      <3>4. column[c] % Base \in Nat /\ column[c] % Base < Base
        BY <1>1, <3>3, QuotientIs
      <3> QED
        BY <1>1, <3>2, <3>4
    <2> QED
      BY <2>1, <2>2
  <1>9. (\A i \in 1..(SpanDigits + Digits) : p[i] \in Nat) /\ (\A i \in 1..Digits : a[i] \in Nat)
    BY <1>1, <1>8
  <1> DEFINE Good == {i \in 0..Digits : Number(p, SpanDigits + i)
                          = Number(a, i) * k + column[Digits - i] \div Base}
  <1>10. 0 \in Good
    <2>1. Number(p, SpanDigits) = Number(carry, SpanDigits)
      <3>1. \A i \in 1..SpanDigits : p[i] \in Nat /\ p[i] = carry[i]
        BY <1>1, <1>6, <1>9
      <3> QED
        BY <1>1, <3>1, NumberSame
    <2>2. Number(a, 0) = 0
      BY <1>1, <1>9, NumberIs
    <2>3. /\ Digits - 0 = Digits /\ SpanDigits + 0 = SpanDigits
          /\ 0 \in 0..Digits /\ Digits \in 0..Digits
      BY <1>1
    <2>4. column[Digits] \div Base \in Nat
      BY <1>4, <2>3
    <2>5. 0 * k + column[Digits] \div Base = column[Digits] \div Base
      BY <2>4
    <2> QED
      BY <1>5, <2>1, <2>2, <2>3, <2>5
  <1>11. ASSUME NEW i \in 0..(Digits - 1), i \in Good PROVE i + 1 \in Good
    <2>1. /\ i + 1 \in 1..Digits /\ i \in 0..Digits /\ i + 1 \in 0..Digits
          /\ SpanDigits + (i + 1) = (SpanDigits + i) + 1
          /\ SpanDigits + i \in 0..((SpanDigits + Digits) - 1)
          /\ Digits - i \in 1..Digits /\ Digits - i \in 0..Digits
          /\ Digits + 1 - (i + 1) = Digits - i /\ Digits + 1 - (Digits - i) = i + 1
          /\ (Digits - i) - 1 = Digits - (i + 1) /\ Digits - (i + 1) \in 0..Digits
          /\ SpanDigits + Digits \in Nat
      BY <1>1
    <2> DEFINE c == column[Digits - i]
               n == Number(a, i)
               x == a[i + 1]
               below == column[Digits - (i + 1)] \div Base
    <2>2. c \in Nat /\ n \in Nat /\ x \in Nat /\ below \in Nat
      <3>1. c \in Nat /\ below \in Nat
        <4>1. \A e \in 0..Digits : column[e] \in Nat /\ column[e] \div Base \in Nat
          BY <1>4
        <4>2. Digits - i \in 0..Digits /\ Digits - (i + 1) \in 0..Digits
          BY <2>1
        <4> QED
          BY <4>1, <4>2
      <3>2. n \in Nat
        BY <1>1, <1>9, <2>1, NumberIs
      <3>3. x \in Nat
        BY <1>9, <2>1
      <3> QED
        BY <3>1, <3>2, <3>3
    <2>3. c = x * k + below
      BY <1>4, <2>1
    <2>4. Number(p, (SpanDigits + i) + 1)
              = Number(p, SpanDigits + i) * Base + p[(SpanDigits + i) + 1]
      BY <1>9, <2>1, NumberIs
    <2>5. p[(SpanDigits + i) + 1] = c % Base
      BY <1>7, <2>1
    <2>6. Number(p, SpanDigits + i) = n * k + c \div Base
      BY <1>11
    <2>7. Number(a, i + 1) = n * Base + x
      BY <1>1, <1>9, NumberIs
    <2>8. Number(p, SpanDigits + (i + 1)) = (n * k + c \div Base) * Base + (c % Base)
      BY <2>1, <2>4, <2>5, <2>6
    <2> HIDE DEF c, n, x, below
    <2> DEFINE q == c \div Base
               r == c % Base
    <2>9. q \in Nat /\ r \in Nat /\ c = Base * q + r
      BY <1>1, <2>2, QuotientIs
    <2> HIDE DEF q, r
    <2>10. (n * k + q) * Base + r = (n * Base + x) * k + below
      <3>1. (n * k + q) * Base + r = (n * k) * Base + (Base * q + r)
        BY <1>1, <2>2, <2>9
      <3>2. (n * Base + x) * k + below = (n * k) * Base + (x * k + below)
        BY <1>1, <2>2
      <3> QED
        BY <2>3, <2>9, <3>1, <3>2
    <2>11. Number(p, SpanDigits + (i + 1)) = Number(a, i + 1) * k + below
      BY <2>7, <2>8, <2>10 DEF q, r
    <2> QED
      BY <2>1, <2>11 DEF below
  <1> HIDE DEF Good
  <1>12. \A i \in 0..Digits : i \in Good
    BY <1>1, <1>10, <1>11, IntervalInduction
  <1>13. Number(p, SpanDigits + Digits) = Number(a, Digits) * k + column[0] \div Base
    <2>1. Digits \in 0..Digits /\ Digits - Digits = 0
      BY <1>1
    <2> QED
      BY <1>12, <2>1 DEF Good
  <1>14. Number(a, Digits) * k \in Nat /\ 0 \div Base = 0
    <2>1. Digits \in 0..Digits
      BY <1>1
    <2>2. Number(a, Digits) \in Nat
      BY <1>1, <1>9, <2>1, NumberIs
    <2> QED
      BY <1>1, <2>2
  <1> QED
    BY <1>4, <1>8, <1>13, <1>14 DEF p

(***************************************************************************)
(* The quotient.                                                           *)
(***************************************************************************)

\* The equation of the remainders of Div320.
IsRem(g, a, d) ==
    g = [i \in 0..(SpanDigits + Digits) |-> IF i = 0 THEN 0 ELSE (g[i - 1] * Base + a[i]) % d]

\* It has a solution.
LEMMA RemExists ==
    ASSUME NEW a, \A i \in 1..(SpanDigits + Digits) : a[i] \in Nat, NEW d \in Nat, d > 0
    PROVE  \E g : IsRem(g, a, d)
  <1> DEFINE S == Nat
             zero == 0
             n == SpanDigits + Digits
             step == [p \in (1..n) \X S |-> (p[2] * Base + a[p[1]]) % d]
  <1>1. n \in Nat
    BY PowAssumption
  <1> HIDE DEF n
  <1>2. step \in [(1..n) \X S -> S] /\ zero \in S
    <2>1. ASSUME NEW x \in Nat, NEW y \in Nat PROVE (x * Base + y) % d \in Nat
      <3>1. x * Base + y \in Nat
        BY PowerValues
      <3> QED
        BY <3>1, QuotientIs
    <2>2. \A p \in (1..n) \X S : p[2] \in Nat /\ a[p[1]] \in Nat
      BY DEF n
    <2>3. \A p \in (1..n) \X S : (p[2] * Base + a[p[1]]) % d \in Nat
      BY <2>1, <2>2
    <2> QED
      BY <2>3
  <1>3. \A i \in 1..n, x \in S : step[<<i, x>>] = (x * Base + a[i]) % d
    OBVIOUS
  <1> HIDE DEF step, zero
  <1>4. PICK g \in [0..n -> S] : Follows(g, zero, step, n)
    <2> HIDE DEF S
    <2> QED
      BY <1>1, <1>2, RecursionExists
  <1>5. ASSUME NEW i \in 0..n
        PROVE  g[i] = IF i = 0 THEN 0 ELSE (g[i - 1] * Base + a[i]) % d
    <2>1. CASE i # 0
      <3>1. i \in 1..n /\ i - 1 \in 0..n
        BY <1>1, <2>1
      <3>2. g[i] = step[<<i, g[i - 1]>>] /\ g[i - 1] \in S
        BY <1>4, <3>1 DEF Follows
      <3>3. step[<<i, g[i - 1]>>] = (g[i - 1] * Base + a[i]) % d
        BY <1>3, <3>1, <3>2
      <3> QED
        BY <2>1, <3>2, <3>3
    <2> QED
      BY <1>4, <2>1 DEF Follows, zero
  <1>6. IsRem(g, a, d)
    BY <1>4, <1>5 DEF IsRem, n
  <1> QED
    BY <1>6

\* div320_u64 divides, for digits of the dividend that are below the base: the
\* quotient is exact, or does not fit a target and is reported as an overflow.
THEOREM QuotientIsExact ==
    ASSUME NEW a, \A i \in 1..(SpanDigits + Digits) : a[i] \in 0..(Base - 1),
           NEW d \in Nat, d > 0
    PROVE  LET exact == Number(a, SpanDigits + Digits) \div d
               result == Div320(a, d)
           IN  /\ exact \in Nat
               /\ result.overflow => exact > MaxTarget
               /\ ~result.overflow => Number(result.out, Digits) = exact
  <1> DEFINE n == SpanDigits + Digits
             rem == CHOOSE g : IsRem(g, a, d)
             quotient == [i \in 1..(SpanDigits + Digits) |-> (rem[i - 1] * Base + a[i]) \div d]
             result == Div320(a, d)
  <1>1. /\ Digits \in Nat /\ SpanDigits \in Nat /\ Base \in Nat /\ Base > 0 /\ n \in Nat
        /\ \A i \in 1..n : a[i] \in Nat
    BY PowAssumption, PowerValues
  <1>2. IsRem(rem, a, d)
    <2>1. \E g : IsRem(g, a, d)
      BY <1>1, RemExists
    <2> QED
      BY <2>1
  <1>3. /\ result.out = [i \in 1..Digits |-> quotient[SpanDigits + i] % Base]
        /\ result.overflow <=> \E i \in 1..SpanDigits : quotient[i] # 0
    BY DEF Div320, IsRem
  <1> HIDE DEF rem, result
  <1>4. /\ rem[0] = 0
        /\ \A i \in 1..n : rem[i] = (rem[i - 1] * Base + a[i]) % d
    <2>1. 0 \in 0..n /\ \A i \in 1..n : i \in 0..n /\ i # 0
      BY <1>1
    <2> QED
      BY <1>2, <2>1 DEF IsRem
  <1>5. \A i \in 0..n : rem[i] \in Nat /\ rem[i] < d
    <2> DEFINE Good == {i \in 0..n : rem[i] \in Nat /\ rem[i] < d}
    <2>1. 0 \in Good
      BY <1>1, <1>4
    <2>2. ASSUME NEW i \in 0..(n - 1), i \in Good PROVE i + 1 \in Good
      <3>1. i + 1 \in 1..n /\ i + 1 \in 0..n /\ (i + 1) - 1 = i
        BY <1>1
      <3> DEFINE x == rem[i] * Base + a[i + 1]
      <3>2. rem[i + 1] = x % d
        BY <1>4, <3>1
      <3>3. x \in Nat
        <4>1. rem[i] \in Nat /\ a[i + 1] \in Nat
          BY <1>1, <2>2, <3>1
        <4> QED
          BY <1>1, <4>1
      <3> HIDE DEF x
      <3>4. x % d \in Nat /\ x % d < d
        BY <3>3, QuotientIs
      <3> QED
        BY <3>1, <3>2, <3>4
    <2> HIDE DEF Good
    <2>3. \A i \in 0..n : i \in Good
      BY <1>1, <2>1, <2>2, IntervalInduction
    <2> QED
      BY <2>3 DEF Good
  <1>6. ASSUME NEW i \in 1..n
        PROVE  /\ quotient[i] \in 0..(Base - 1)
               /\ rem[i - 1] * Base + a[i] = d * quotient[i] + rem[i]
    <2>1. i - 1 \in 0..n /\ i \in 0..n
      BY <1>1
    <2> DEFINE r == rem[i - 1]
               x == r * Base + a[i]
               q == quotient[i]
    <2>2. r \in Nat /\ r < d /\ a[i] \in Nat /\ a[i] <= Base - 1
      BY <1>1, <1>5, <2>1
    <2>3. q = x \div d /\ rem[i] = x % d
      BY <1>4
    <2> HIDE DEF r, q
    <2>4. x \in Nat /\ x < d * Base
      <3>1. r + 1 <= d
        BY <2>2
      <3>2. (r + 1) * Base <= d * Base
        BY <1>1, <2>2, <3>1
      <3>3. (r + 1) * Base = r * Base + Base /\ r * Base \in Nat /\ d * Base \in Nat
        BY <1>1, <2>2
      <3> QED
        BY <1>1, <2>2, <3>2, <3>3
    <2> HIDE DEF x
    <2>5. q \in Nat /\ rem[i] \in Nat /\ x = d * q + rem[i]
      BY <2>3, <2>4, QuotientIs
    <2>6. q < Base
      <3>1. d * q < d * Base
        <4>1. d * q \in Nat /\ d * Base \in Nat
          BY <1>1, <2>5
        <4> QED
          BY <2>4, <2>5, <4>1
      <3> QED
        BY <1>1, <2>5, <3>1
    <2> QED
      BY <1>1, <2>5, <2>6 DEF q, x, r
  <1> HIDE DEF quotient
  <1>7. \A i \in 1..n : quotient[i] \in Nat
    BY <1>1, <1>6
  <1> DEFINE Good == {i \in 0..n : Number(a, i) = d * Number(quotient, i) + rem[i]}
  <1>8. 0 \in Good
    <2>1. Number(a, 0) = 0 /\ Number(quotient, 0) = 0
      BY <1>1, <1>7, NumberIs
    <2> QED
      BY <1>1, <1>4, <2>1
  <1>9. ASSUME NEW i \in 0..(n - 1), i \in Good PROVE i + 1 \in Good
    <2>1. i + 1 \in 1..n /\ i + 1 \in 0..n /\ (i + 1) - 1 = i /\ i \in 0..n
      BY <1>1
    <2> DEFINE Q == Number(quotient, i)
               r == rem[i]
               x == a[i + 1]
               q == quotient[i + 1]
               next == rem[i + 1]
    <2>2. Q \in Nat
      BY <1>1, <1>7, <2>1, NumberIs
    <2>3. r \in Nat /\ next \in Nat /\ x \in Nat /\ q \in Nat
      BY <1>1, <1>5, <1>7, <2>1
    <2>4. r * Base + x = d * q + next
      BY <1>6, <2>1
    <2>5. Number(a, i + 1) = Number(a, i) * Base + x
      BY <1>1, NumberIs
    <2>6. Number(quotient, i + 1) = Q * Base + q
      BY <1>1, <1>7, NumberIs
    <2>7. Number(a, i) = d * Q + r
      BY <1>9
    <2> HIDE DEF Q, r, x, q, next
    <2>8. (d * Q + r) * Base + x = d * (Q * Base + q) + next
      <3>1. (d * Q + r) * Base + x = d * (Q * Base) + (r * Base + x)
        BY <1>1, <2>2, <2>3
      <3>2. d * (Q * Base + q) + next = d * (Q * Base) + (d * q + next)
        BY <1>1, <2>2, <2>3
      <3> QED
        BY <2>4, <3>1, <3>2
    <2>9. Number(a, i + 1) = d * Number(quotient, i + 1) + next
      BY <2>5, <2>6, <2>7, <2>8
    <2> QED
      BY <2>1, <2>9 DEF next
  <1> HIDE DEF Good
  <1> DEFINE total == Number(a, n)
             exact == Number(quotient, n)
             front == Number(quotient, SpanDigits)
             out == result.out
  <1>10. total \div d = exact /\ exact \in Nat
    <2>1. n \in 0..n /\ \A i \in 0..n : i \in Good
      BY <1>1, <1>8, <1>9, IntervalInduction
    <2>2. total = d * exact + rem[n]
      BY <2>1 DEF Good
    <2>3. rem[n] \in Nat /\ rem[n] < d
      BY <1>5, <2>1
    <2>4. exact \in Nat
      BY <1>1, <1>7, <2>1, NumberIs
    <2>5. total \in Nat
      BY <1>1, <2>1, NumberIs
    <2> HIDE DEF total, exact
    <2> QED
      BY <2>2, <2>3, <2>4, <2>5, QuotientUnique
  <1>11. /\ \A i \in 1..Digits : out[i] = quotient[SpanDigits + i]
         /\ \A i \in 1..Digits : out[i] \in Nat
    <2>1. ASSUME NEW i \in 1..Digits
          PROVE  out[i] = quotient[SpanDigits + i] /\ out[i] \in Nat
      <3> DEFINE q == quotient[SpanDigits + i]
      <3>1. SpanDigits + i \in 1..n
        BY <1>1
      <3>2. q \in 0..(Base - 1)
        BY <1>6, <3>1
      <3>3. out[i] = q % Base
        BY <1>3
      <3> HIDE DEF q
      <3>4. q % Base = q /\ q \in Nat
        BY <1>1, <3>2
      <3> QED
        BY <3>3, <3>4 DEF q
    <2> QED
      BY <2>1
  <1>12. exact = front * Power(Digits) + Number(out, Digits)
    <2>1. \A i \in 1..(SpanDigits + Digits) : quotient[i] \in Nat
      BY <1>7
    <2> HIDE DEF out
    <2>2. HasDigits(quotient, SpanDigits + Digits) /\ IsRest(out, Digits, quotient, SpanDigits)
      BY <1>11, <2>1 DEF HasDigits, IsRest
    <2>3. Number(quotient, SpanDigits + Digits)
              = Number(quotient, SpanDigits) * Power(Digits) + Number(out, Digits)
      BY <1>1, <2>2, NumberSplit
    <2> QED
      BY <2>3
  <1>13. front \in Nat /\ Number(out, Digits) \in Nat
    <2>1. SpanDigits \in 0..n /\ Digits \in 0..Digits
      BY <1>1
    <2>2. front \in Nat
      BY <1>1, <1>7, <2>1, NumberIs
    <2> HIDE DEF out, front
    <2>3. Number(out, Digits) \in Nat
      BY <1>1, <1>11, <2>1, NumberIs
    <2> QED
      BY <2>2, <2>3
  <1>14. Power(Digits) \in Nat /\ Power(Digits) = MaxTarget + 1
    <2>1. Power(Digits) \in Nat /\ MaxTarget = Power(Digits) - 1
      BY <1>1, PowerValues DEF MaxTarget, Power
    <2> QED
      BY <2>1
  <1>15. ASSUME result.overflow PROVE exact > MaxTarget
    <2>1. PICK i \in 1..SpanDigits : quotient[i] # 0
      BY <1>3, <1>15
    <2>2. front > 0
      BY <1>1, <1>7, <2>1, NumberPositive
    <2>3. front * Power(Digits) >= Power(Digits)
      BY <1>13, <1>14, <2>2
    <2> DEFINE w == front * Power(Digits)
    <2>4. w \in Nat /\ exact = w + Number(out, Digits) /\ w >= MaxTarget + 1
      BY <1>12, <1>13, <1>14, <2>3
    <2>5. MaxTarget \in Int
      BY <1>1, PowerValues DEF MaxTarget, Power
    <2> HIDE DEF exact, front, out, w
    <2> QED
      BY <1>13, <2>4, <2>5
  <1>16. ASSUME ~result.overflow PROVE Number(out, Digits) = exact
    <2>1. \A i \in 1..SpanDigits : quotient[i] = 0
      BY <1>3, <1>16
    <2>2. front = 0
      BY <1>1, <2>1, NumberZero
    <2> HIDE DEF exact, front, out
    <2> QED
      BY <1>12, <1>13, <1>14, <2>2
  <1> QED
    BY <1>10, <1>15, <1>16 DEF result

(***************************************************************************)
(* Retargeting and the work of a block.                                    *)
(***************************************************************************)

\* The spans that count for a retargeting, and the target after one.
Limited(span) == Clamp(span, Timespan \div 4, Timespan * 4)
Retargeted(prev, span) == Clamp((prev * Limited(span)) \div Timespan, MinTarget, MaxTarget)

\* The limits of the targets, and the ideal span.
LEMMA TargetBounds ==
    /\ MinTarget \in Nat /\ MaxTarget \in Nat /\ 0 < MinTarget /\ MinTarget <= MaxTarget
    /\ Power(Digits) = MaxTarget + 1
    /\ Timespan \in Nat /\ Timespan = 4 * (Timespan \div 4) /\ Timespan \div 4 \in Nat
    /\ Timespan \div 4 > 0
  <1>1. Power(Digits) \in Nat /\ Power(Digits) > 0 /\ MaxTarget = Power(Digits) - 1
    BY PowAssumption, PowerValues DEF MaxTarget, Power
  <1>2. MinTarget \in Nat /\ MinTarget > 0 /\ MinTarget < Power(Digits)
    BY PowAssumption DEF Power
  <1>3. Timespan \in Nat /\ Timespan > 0 /\ Timespan % 4 = 0
    BY PowAssumption
  <1>4. Timespan = 4 * (Timespan \div 4) /\ Timespan \div 4 \in Nat /\ Timespan \div 4 > 0
    BY <1>3
  <1> QED
    BY <1>1, <1>2, <1>3, <1>4

\* A limited span is within its limits, and its product has room.
LEMMA LimitedIs ==
    ASSUME NEW span \in Int
    PROVE  /\ Limited(span) \in Nat /\ Limited(span) >= 1
           /\ Timespan \div 4 <= Limited(span) /\ Limited(span) <= Timespan * 4
           /\ Limited(span) < Power(SpanDigits)
  <1>1. Timespan * 4 < Power(SpanDigits) /\ Power(SpanDigits) \in Nat
    <2>1. 4 * Timespan < Power(SpanDigits) /\ Timespan \in Nat /\ SpanDigits \in Nat
      BY PowAssumption DEF Power
    <2>2. Power(SpanDigits) \in Nat
      BY <2>1, PowerValues
    <2>3. 4 * Timespan = Timespan * 4
      BY <2>1
    <2> QED
      BY <2>1, <2>2, <2>3
  <1> DEFINE q == Timespan \div 4
  <1>2. Timespan \in Nat /\ q \in Nat /\ q > 0 /\ Timespan = 4 * q
    BY TargetBounds
  <1>3. Limited(span) = Clamp(span, q, Timespan * 4)
    BY DEF Limited
  <1> HIDE DEF q
  <1>4. Limited(span) \in Nat /\ q <= Limited(span) /\ Limited(span) <= Timespan * 4
    BY <1>2, <1>3 DEF Clamp
  <1> QED
    BY <1>1, <1>2, <1>4 DEF q

\* adjust_target computes, in its digits and with its limits, the exact target:
\* the previous one times the limited span over the ideal one, within bounds.
THEOREM AdjustTargetIsExact ==
    ASSUME NEW prev \in 0..MaxTarget, NEW actual \in Int
    PROVE  /\ AdjustTarget(prev, actual) = Retargeted(prev, actual)
           /\ AdjustTarget(prev, actual) \in MinTarget..MaxTarget
  <1> DEFINE span == Limited(actual)
             a == ToDigits(prev, Digits)
             product == Mul256(a, span)
             quotient == Div320(product, Timespan)
             exact == (prev * span) \div Timespan
  <1>1. span \in Nat /\ span >= 1 /\ span <= Timespan * 4 /\ span < Power(SpanDigits)
    BY LimitedIs
  <1>2. Clamp(span, 1, Timespan * 4) = span
    BY <1>1, TargetBounds DEF Clamp
  <1>3. AdjustTarget(prev, actual) = IF quotient.overflow THEN MaxTarget
                                     ELSE Clamp(Number(quotient.out, Digits), MinTarget, MaxTarget)
    BY <1>2 DEF AdjustTarget, Limited
  <1> HIDE DEF span
  <1>4. a \in [1..Digits -> 0..(Base - 1)] /\ Number(a, Digits) = prev
    <2>1. Digits \in Nat /\ prev \in Nat /\ prev < Power(Digits)
      BY PowAssumption, TargetBounds
    <2>2. /\ \A i \in 1..Digits : a[i] \in 0..(Base - 1)
          /\ Number(a, Digits) = prev
      BY <2>1, DigitsMakeNumber
    <2>3. a = [i \in 1..Digits |-> a[i]]
      BY DEF ToDigits
    <2> HIDE DEF a
    <2> QED
      BY <2>2, <2>3
  <1> HIDE DEF a
  <1>5. /\ \A i \in 1..(SpanDigits + Digits) : product[i] \in 0..(Base - 1)
        /\ Number(product, SpanDigits + Digits) = prev * span
    BY <1>1, <1>4, ProductIsExact
  <1> HIDE DEF product
  <1>6. /\ exact \in Nat
        /\ quotient.overflow => exact > MaxTarget
        /\ ~quotient.overflow => Number(quotient.out, Digits) = exact
    <2>1. Timespan \in Nat /\ Timespan > 0
      BY PowAssumption
    <2> QED
      BY <1>5, <2>1, QuotientIsExact
  <1> HIDE DEF quotient
  <1>7. Retargeted(prev, actual) = Clamp(exact, MinTarget, MaxTarget)
    BY DEF Retargeted, span
  <1> HIDE DEF exact
  <1>8. Clamp(exact, MinTarget, MaxTarget) \in MinTarget..MaxTarget
    BY <1>6, TargetBounds DEF Clamp
  <1>9. quotient.overflow => Clamp(exact, MinTarget, MaxTarget) = MaxTarget
    BY <1>6, TargetBounds DEF Clamp
  <1> QED
    BY <1>3, <1>6, <1>7, <1>8, <1>9

\* A retargeting makes a target at most four times as high or as low, where
\* the limits of all targets leave it room.
LEMMA RetargetedSwing ==
    ASSUME NEW prev \in MinTarget..MaxTarget, NEW span \in Int
    PROVE  /\ Retargeted(prev, span) <= 4 * prev
           /\ prev <= 4 * (Retargeted(prev, span) + 1)
  <1> DEFINE w == Limited(span)
             q == Timespan \div 4
             exact == (prev * w) \div Timespan
             new == Retargeted(prev, span)
  <1>1. /\ Timespan \in Nat /\ q \in Nat /\ q > 0 /\ Timespan = 4 * q
        /\ MinTarget \in Nat /\ MaxTarget \in Nat /\ MinTarget > 0 /\ prev \in Nat
    BY TargetBounds
  <1>2. w \in Nat /\ q <= w /\ w <= Timespan * 4
    BY LimitedIs
  <1>3. new = Clamp(exact, MinTarget, MaxTarget)
    BY DEF Retargeted
  <1> HIDE DEF w, q, new
  <1> DEFINE p == prev * w
             r == p % Timespan
  <1>4. p \in Nat /\ prev * q <= p /\ p <= prev * (Timespan * 4)
    <2>1. prev * q <= prev * w /\ prev * w <= prev * (Timespan * 4) /\ prev * w \in Nat
      BY <1>1, <1>2
    <2> QED
      BY <2>1
  <1> HIDE DEF p
  <1>5. exact \in Nat /\ r \in Nat /\ r < Timespan /\ p = Timespan * exact + r
    BY <1>1, <1>4, QuotientIs DEF p
  <1> HIDE DEF exact, r
  <1>6. exact <= 4 * prev
    <2>1. Timespan * exact <= prev * (Timespan * 4)
      <3>1. Timespan * exact \in Nat /\ prev * (Timespan * 4) \in Nat
        BY <1>1, <1>5
      <3> QED
        BY <1>4, <1>5, <3>1
    <2>2. prev * (Timespan * 4) = Timespan * (4 * prev)
      BY <1>1
    <2>3. Timespan > 0 /\ 4 * prev \in Nat
      BY <1>1
    <2> QED
      BY <1>1, <1>5, <2>1, <2>2, <2>3
  <1>7. prev <= 4 * (exact + 1)
    <2>1. prev * q <= Timespan * (exact + 1)
      <3>1. Timespan * (exact + 1) = Timespan * exact + Timespan
        BY <1>1, <1>5
      <3>2. Timespan * exact \in Nat /\ prev * q \in Nat
        BY <1>1, <1>5
      <3> QED
        BY <1>1, <1>4, <1>5, <3>1, <3>2
    <2>2. Timespan * (exact + 1) = (4 * (exact + 1)) * q
      BY <1>1, <1>5
    <2>3. 4 * (exact + 1) \in Nat
      BY <1>5
    <2> QED
      BY <1>1, <2>1, <2>2, <2>3
  <1>8. new <= 4 * prev
    BY <1>1, <1>3, <1>5, <1>6 DEF Clamp
  <1>9. prev <= 4 * (new + 1)
    BY <1>1, <1>3, <1>5, <1>7 DEF Clamp
  <1> QED
    BY <1>8, <1>9 DEF new

\* The equations of the remainders and of the quotients of BlockWork256.
Bits == BaseBits * Digits
IsBitRem(g, t) ==
    g = [i \in 0..(Bits + 1) |->
            IF i = 0 THEN 0 ELSE LET r == Fed(g[i - 1], i) IN IF r >= t THEN r - t ELSE r]
IsBitQuot(q, g, t) ==
    q = [i \in 0..(Bits + 1) |->
            IF i = 0 THEN 0 ELSE 2 * q[i - 1] + (IF Fed(g[i - 1], i) >= t THEN 1 ELSE 0)]

\* Both have a solution: first that of the remainders.
LEMMA BitRemExists ==
    ASSUME NEW t \in Nat
    PROVE  \E g : IsBitRem(g, t)
  <1> DEFINE S == Int
             zero == 0
             n == Bits + 1
             left(x, i) == IF Fed(x, i) >= t THEN Fed(x, i) - t ELSE Fed(x, i)
             step == [p \in (1..n) \X S |-> left(p[2], p[1])]
  <1>1. n \in Nat
    BY PowAssumption DEF Bits
  <1> HIDE DEF n
  <1>2. step \in [(1..n) \X S -> S] /\ zero \in S
    <2>1. \A x \in Int, i \in Int : left(x, i) \in Int
      BY DEF Fed
    <2>2. \A p \in (1..n) \X S : p[2] \in Int /\ p[1] \in Int
      BY <1>1
    <2> HIDE DEF left
    <2>3. \A p \in (1..n) \X S : left(p[2], p[1]) \in Int
      BY <2>1, <2>2
    <2> QED
      BY <2>3
  <1>3. \A i \in 1..n, x \in S : step[<<i, x>>] = left(x, i)
    OBVIOUS
  <1> HIDE DEF step, zero, left
  <1>4. PICK g \in [0..n -> S] : Follows(g, zero, step, n)
    <2> HIDE DEF S
    <2> QED
      BY <1>1, <1>2, RecursionExists
  <1>5. ASSUME NEW i \in 0..n
        PROVE  g[i] = IF i = 0 THEN 0 ELSE left(g[i - 1], i)
    <2>1. CASE i # 0
      <3>1. i \in 1..n /\ i - 1 \in 0..n
        BY <1>1, <2>1
      <3>2. g[i] = step[<<i, g[i - 1]>>] /\ g[i - 1] \in S
        BY <1>4, <3>1 DEF Follows
      <3>3. step[<<i, g[i - 1]>>] = left(g[i - 1], i)
        BY <1>3, <3>1, <3>2
      <3> QED
        BY <2>1, <3>2, <3>3
    <2> QED
      BY <1>4, <2>1 DEF Follows, zero
  <1>6. g = [i \in 0..n |-> IF i = 0 THEN 0 ELSE left(g[i - 1], i)]
    BY <1>4, <1>5
  <1>7. IsBitRem(g, t)
    BY <1>6 DEF IsBitRem, n, left
  <1> QED
    BY <1>7

\* Then that of the quotients.
LEMMA BitQuotExists ==
    ASSUME NEW t \in Nat, NEW g
    PROVE  \E q : IsBitQuot(q, g, t)
  <1> DEFINE S == Nat
             zero == 0
             n == Bits + 1
             bit(i) == IF Fed(g[i - 1], i) >= t THEN 1 ELSE 0
             step == [p \in (1..n) \X S |-> 2 * p[2] + bit(p[1])]
  <1>1. n \in Nat
    BY PowAssumption DEF Bits
  <1> HIDE DEF n
  <1>2. step \in [(1..n) \X S -> S] /\ zero \in S
    <2>1. \A i : bit(i) \in Nat
      OBVIOUS
    <2> HIDE DEF bit
    <2>2. \A p \in (1..n) \X S : 2 * p[2] + bit(p[1]) \in Nat
      BY <2>1
    <2> QED
      BY <2>2
  <1>3. \A i \in 1..n, x \in S : step[<<i, x>>] = 2 * x + bit(i)
    OBVIOUS
  <1> HIDE DEF step, zero, bit
  <1>4. PICK q \in [0..n -> S] : Follows(q, zero, step, n)
    <2> HIDE DEF S
    <2> QED
      BY <1>1, <1>2, RecursionExists
  <1>5. ASSUME NEW i \in 0..n
        PROVE  q[i] = IF i = 0 THEN 0 ELSE 2 * q[i - 1] + bit(i)
    <2>1. CASE i # 0
      <3>1. i \in 1..n /\ i - 1 \in 0..n
        BY <1>1, <2>1
      <3>2. q[i] = step[<<i, q[i - 1]>>] /\ q[i - 1] \in S
        BY <1>4, <3>1 DEF Follows
      <3>3. step[<<i, q[i - 1]>>] = 2 * q[i - 1] + bit(i)
        BY <1>3, <3>1, <3>2
      <3> QED
        BY <2>1, <3>2, <3>3
    <2> QED
      BY <1>4, <2>1 DEF Follows, zero
  <1>6. q = [i \in 0..n |-> IF i = 0 THEN 0 ELSE 2 * q[i - 1] + bit(i)]
    BY <1>4, <1>5
  <1>7. IsBitQuot(q, g, t)
    BY <1>6 DEF IsBitQuot, n, bit
  <1> QED
    BY <1>7

\* block_work divides: the bits that the restoring division puts together are
\* those of the quotient of 2^256 by the target.
THEOREM BlockWorkIsExact ==
    ASSUME NEW t \in Nat, t > 0
    PROVE  /\ BlockWork256(t) = (MaxTarget + 1) \div t
           /\ BlockWork256(t) \in Nat
  <1> DEFINE n == Bits + 1
             rem == CHOOSE g : IsBitRem(g, t)
             quot == CHOOSE q : IsBitQuot(q, rem, t)
  <1>1. IsBitRem(rem, t)
    BY BitRemExists
  <1>2. BlockWork256(t) = quot[BaseBits * Digits + 1]
    BY DEF BlockWork256, IsBitRem, IsBitQuot, Bits
  <1> HIDE DEF rem
  <1>3. IsBitQuot(quot, rem, t)
    BY BitQuotExists
  <1> HIDE DEF quot
  <1>4. BaseBits * Digits \in Nat /\ n \in Nat /\ n = Bits + 1 /\ Bits \in Nat
        /\ Bits = BaseBits * Digits
    BY PowAssumption DEF Bits
  <1>5. /\ rem[0] = 0 /\ quot[0] = 0
        /\ \A i \in 1..n : /\ rem[i] = LET r == Fed(rem[i - 1], i) IN IF r >= t THEN r - t ELSE r
                           /\ quot[i] = 2 * quot[i - 1] + (IF Fed(rem[i - 1], i) >= t THEN 1 ELSE 0)
    <2>1. 0 \in 0..n /\ \A i \in 1..n : i \in 0..n /\ i # 0
      BY <1>4
    <2> QED
      BY <1>1, <1>3, <2>1 DEF IsBitRem, IsBitQuot
  <1> DEFINE value(i) == IF i = 0 THEN 0 ELSE TwoTo[i - 1]
             Good == {i \in 0..n : /\ rem[i] \in Nat /\ rem[i] < t /\ quot[i] \in Nat
                                   /\ value(i) = t * quot[i] + rem[i]}
  <1> HIDE DEF n
  <1>6. \A i \in Nat : value(i) \in Nat /\ value(i + 1) = Fed(value(i), i + 1)
    <2> SUFFICES ASSUME NEW i \in Nat
                 PROVE  value(i) \in Nat /\ value(i + 1) = Fed(value(i), i + 1)
      OBVIOUS
    <2>1. CASE i = 0
      <3>1. value(0) = 0 /\ value(0 + 1) = 1
        BY TwoToValues
      <3> QED
        BY <2>1, <3>1 DEF Fed
    <2>2. CASE i # 0
      <3>1. i - 1 \in Nat /\ (i - 1) + 1 = i /\ (i + 1) - 1 = i /\ i + 1 # 0 /\ i + 1 # 1
        BY <2>2
      <3>2. value(i) = TwoTo[i - 1] /\ value(i + 1) = TwoTo[i]
        BY <2>2, <3>1
      <3>3. TwoTo[i - 1] \in Nat /\ TwoTo[(i - 1) + 1] = 2 * TwoTo[i - 1]
        BY <3>1, TwoToValues
      <3> QED
        BY <3>1, <3>2, <3>3 DEF Fed
    <2> QED
      BY <2>1, <2>2
  <1>7. 0 \in Good
    BY <1>4, <1>5
  <1>8. ASSUME NEW i \in 0..(n - 1), i \in Good PROVE i + 1 \in Good
    <2>1. i + 1 \in 1..n /\ i + 1 \in 0..n /\ (i + 1) - 1 = i /\ i \in Nat
      BY <1>4
    <2> DEFINE bit == IF i + 1 = 1 THEN 1 ELSE 0
               r == rem[i]
               q == quot[i]
               fed == 2 * r + bit
    <2>2. r \in Nat /\ r < t /\ q \in Nat /\ value(i) = t * q + r
      BY <1>8
    <2>3. value(i + 1) = 2 * value(i) + bit
      BY <1>6, <2>1 DEF Fed
    <2>4. /\ rem[i + 1] = IF fed >= t THEN fed - t ELSE fed
          /\ quot[i + 1] = 2 * q + (IF fed >= t THEN 1 ELSE 0)
      BY <1>5, <2>1 DEF Fed
    <2>5. bit \in 0..1
      OBVIOUS
    <2> HIDE DEF r, q, bit, value
    <2>6. fed \in Nat /\ fed < 2 * t
      BY <2>2, <2>5
    <2>7. value(i + 1) = 2 * (t * q) + fed
      <3>1. t * q \in Nat
        BY <2>2
      <3> QED
        BY <2>2, <2>3, <2>5, <3>1
    <2> HIDE DEF fed
    <2>8. t * (2 * q) = 2 * (t * q) /\ t * (2 * q + 1) = 2 * (t * q) + t /\ t * q \in Nat
      BY <2>2
    <2>9. CASE fed >= t
      <3>1. rem[i + 1] = fed - t /\ quot[i + 1] = 2 * q + 1
        BY <2>4, <2>9
      <3>2. value(i + 1) = t * (2 * q + 1) + (fed - t)
        BY <2>6, <2>7, <2>8
      <3>3. fed - t \in Nat /\ fed - t < t /\ 2 * q + 1 \in Nat
        BY <2>2, <2>6, <2>9
      <3> QED
        BY <2>1, <3>1, <3>2, <3>3
    <2>10. CASE ~(fed >= t)
      <3>1. rem[i + 1] = fed /\ quot[i + 1] = 2 * q
        BY <2>2, <2>4, <2>10
      <3>2. value(i + 1) = t * (2 * q) + fed
        BY <2>6, <2>7, <2>8
      <3>3. fed \in Nat /\ fed < t /\ 2 * q \in Nat
        BY <2>2, <2>6, <2>10
      <3> QED
        BY <2>1, <3>1, <3>2, <3>3
    <2> QED
      BY <2>9, <2>10
  <1>9. n \in Good
    <2> HIDE DEF Good
    <2>1. n \in 0..n
      BY <1>4
    <2> QED
      BY <1>4, <1>7, <1>8, <2>1, IntervalInduction
  <1>10. value(n) = MaxTarget + 1 /\ value(n) \in Nat
    <2>1. n - 1 = BaseBits * Digits /\ n # 0
      BY <1>4
    <2>2. value(n) = Power(Digits)
      BY <2>1 DEF Power
    <2>3. Power(Digits) \in Nat
      BY PowAssumption, PowerValues
    <2> QED
      BY <2>2, <2>3, TargetBounds
  <1>11. quot[n] \in Nat /\ rem[n] \in Nat /\ rem[n] < t /\ value(n) = t * quot[n] + rem[n]
    BY <1>9
  <1> HIDE DEF value, Good
  <1>12. value(n) \div t = quot[n]
    BY <1>10, <1>11, QuotientUnique
  <1>13. BlockWork256(t) = quot[n]
    BY <1>2, <1>4
  <1> QED
    BY <1>10, <1>11, <1>12, <1>13

(***************************************************************************)
(* Heights and epochs.                                                     *)
(***************************************************************************)

EpochOf(h) == h \div EpochBlocks

\* A height above 0 is at the boundary of an epoch, right after the last block
\* of the one before, or in the epoch of the height below.
LEMMA EpochOfNext ==
    ASSUME NEW h \in Nat
    PROVE  /\ EpochOf(h) \in Nat
           /\ (h + 1) % EpochBlocks = 0 =>
                  /\ EpochOf(h + 1) = EpochOf(h) + 1
                  /\ EpochBlocks * EpochOf(h + 1) = h + 1
           /\ (h + 1) % EpochBlocks # 0 => EpochOf(h + 1) = EpochOf(h)
  BY EpochAssumption DEF EpochOf

\* Epoch 0 starts at height 0.
LEMMA EpochOfZero == EpochOf(0) = 0 /\ 0 % EpochBlocks = 0
  BY EpochAssumption DEF EpochOf

\* A height is in its epoch, and a higher one is not in an earlier epoch.
LEMMA EpochBounds ==
    ASSUME NEW h \in Nat
    PROVE  /\ EpochBlocks * EpochOf(h) <= h
           /\ EpochBlocks * EpochOf(h) \in Nat
           /\ \A k \in 0..h : EpochOf(k) <= EpochOf(h)
  <1>1. EpochBlocks * EpochOf(h) <= h /\ EpochBlocks * EpochOf(h) \in Nat
    BY EpochAssumption DEF EpochOf
  <1>2. ASSUME NEW k \in 0..h PROVE EpochOf(k) <= EpochOf(h)
    BY EpochAssumption DEF EpochOf
  <1> QED
    BY <1>1, <1>2

(***************************************************************************)
(* What every step keeps: types, and the ancestors of a recorded block.    *)
(***************************************************************************)

Target == MinTarget..MaxTarget

TInv ==
    /\ work \in [blocks -> Nat] /\ blocks \subseteq Block /\ IsFiniteSet(blocks)
    /\ tip \in blocks \cup {Zero}
    /\ epochTargets \in Seq(Target) /\ Len(epochTargets) >= 1
    /\ alive \in BOOLEAN /\ restarted \in BOOLEAN

Linked(b) ==
    /\ Path[b] \subseteq blocks
    /\ Height[b] # 0 => Parent[b] \in blocks /\ Height[b] = Height[Parent[b]] + 1

\* What the tree says of a block.
LEMMA PathOf ==
    ASSUME NEW b \in Block
    PROVE  /\ Parent[b] \in Block \cup {Zero} /\ Height[b] \in Nat /\ b # Zero
           /\ Path[b] = Path[Parent[b]] \cup {b} /\ b \notin Path[Parent[b]]
           /\ b \in Path[b] /\ Path[b] \subseteq Block
           /\ Path[Zero] = {}
  BY TreeAssumption, PathAssumption

\* The first target, and the target by which a block is judged, are targets.
LEMMA TargetForIs ==
    ASSUME TInv, NEW h \in Nat
    PROVE  TargetFor(h) \in Target
  <1>1. InitialTarget \in Target
    BY EpochAssumption DEF Target
  <1> DEFINE e == h \div EpochBlocks
  <1>2. e \in Nat
    BY EpochAssumption
  <1>3. TargetFor(h) = IF e < Len(epochTargets) THEN epochTargets[e + 1] ELSE InitialTarget
    BY DEF TargetFor
  <1> HIDE DEF e
  <1>4. e < Len(epochTargets) => epochTargets[e + 1] \in Target
    BY <1>2 DEF TInv
  <1> QED
    BY <1>1, <1>3, <1>4

\* A height that a chain has, has a timestamp.
LEMMA TimeAtIs ==
    ASSUME NEW t \in Block, NEW h, OnChain(t, h) # {}
    PROVE  TimeAt(t, h) \in Nat
  <1>1. (CHOOSE b \in OnChain(t, h) : TRUE) \in Block
    BY PathOf DEF OnChain
  <1> QED
    BY <1>1, EpochAssumption DEF TimeAt

\* What a recorded block adds to the store.
LEMMA Recorded ==
    ASSUME TInv, NEW b \in Block, Record(b)
    PROVE  /\ blocks' = blocks \cup {b}
           /\ work' \in [blocks' -> Nat] /\ IsFiniteSet(blocks')
           /\ tip' \in blocks' /\ tip' \in Block /\ IsBest(work', tip')
           /\ \A a \in blocks \ {b} : work'[a] = work[a]
           /\ work'[b] = (IF Parent[b] \in blocks THEN work[Parent[b]] ELSE 0)
                             + BlockWork256(TargetFor(Height[b]))
           /\ Parent[b] \in blocks \cup {Zero} /\ HeaderValid(b)
           /\ b \notin knownBlocks /\ knownBlocks' = knownBlocks \cup {b} /\ alive
  <1> DEFINE below == IF Parent[b] \in blocks THEN work[Parent[b]] ELSE 0
             total == below + BlockWork256(TargetFor(Height[b]))
  <1>1. work' = [a \in blocks \cup {b} |-> IF a = b THEN total ELSE work[a]]
    BY DEF Record
  <1>2. total \in Nat
    <2>1. TargetFor(Height[b]) \in Target
      BY PathOf, TargetForIs
    <2>2. TargetFor(Height[b]) \in Nat /\ TargetFor(Height[b]) > 0
      BY <2>1, TargetBounds DEF Target
    <2>3. BlockWork256(TargetFor(Height[b])) \in Nat
      BY <2>2, BlockWorkIsExact
    <2>4. below \in Nat
      BY DEF TInv
    <2> HIDE DEF below
    <2> QED
      BY <2>3, <2>4
  <1> HIDE DEF total
  <1>3. blocks' = blocks \cup {b} /\ work' \in [blocks' -> Nat]
    BY <1>1, <1>2 DEF TInv, blocks
  <1>4. \E best \in DOMAIN work' : IsBest(work', best) /\ tip' = best
    BY DEF Record
  <1>5. tip' \in blocks' /\ IsBest(work', tip')
    BY <1>4 DEF blocks
  <1>6. work'[b] = total /\ \A a \in blocks \ {b} : work'[a] = work[a]
    BY <1>1
  <1>7. IsFiniteSet(blocks')
    BY <1>3, FS_AddElement DEF TInv
  <1>8. /\ Parent[b] \in blocks \cup {Zero} /\ HeaderValid(b)
        /\ b \notin knownBlocks /\ knownBlocks' = knownBlocks \cup {b} /\ alive
    BY DEF Record
  <1> QED
    BY <1>3, <1>5, <1>6, <1>7, <1>8 DEF total, TInv

\* A boundary block appends a target, or finds none to compute it from.
LEMMA NextTargetIs ==
    ASSUME TInv, NEW t \in Block, NEW h \in Nat, h # 0, h % EpochBlocks = 0, IndexOK(t, h)
    PROVE  /\ NextTarget(t, h) \in Target
           /\ OnChain(t, h - EpochBlocks) # {} /\ OnChain(t, h - 1) # {} =>
                  /\ h \div EpochBlocks \in 1..Len(epochTargets)
                  /\ NextTarget(t, h) = Retargeted(epochTargets[h \div EpochBlocks],
                                            TimeAt(t, h - 1) - TimeAt(t, h - EpochBlocks))
  <1>1. InitialTarget \in Target
    BY EpochAssumption DEF Target
  <1>2. CASE OnChain(t, h - EpochBlocks) = {} \/ OnChain(t, h - 1) = {}
    BY <1>1, <1>2 DEF NextTarget
  <1>3. CASE ~(OnChain(t, h - EpochBlocks) = {} \/ OnChain(t, h - 1) = {})
    <2> DEFINE e == h \div EpochBlocks
               span == TimeAt(t, h - 1) - TimeAt(t, h - EpochBlocks)
    <2>1. e \in Nat /\ e # 0
      BY EpochAssumption
    <2>2. e <= Len(epochTargets)
      BY <1>3 DEF IndexOK
    <2>3. NextTarget(t, h) = AdjustTarget(epochTargets[e], span)
      BY <1>3 DEF NextTarget
    <2>4. span \in Int
      <3>1. TimeAt(t, h - 1) \in Nat /\ TimeAt(t, h - EpochBlocks) \in Nat
        BY <1>3, TimeAtIs
      <3> QED
        BY <3>1
    <2> HIDE DEF span, e
    <2>5. e \in 1..Len(epochTargets) /\ epochTargets[e] \in Target
      BY <2>1, <2>2 DEF TInv
    <2>6. epochTargets[e] \in 0..MaxTarget
      BY <2>5, TargetBounds DEF Target
    <2>7. /\ AdjustTarget(epochTargets[e], span) = Retargeted(epochTargets[e], span)
          /\ AdjustTarget(epochTargets[e], span) \in Target
      BY <2>4, <2>6, AdjustTargetIsExact DEF Target
    <2> QED
      BY <2>3, <2>5, <2>7 DEF e, span
  <1> QED
    BY <1>2, <1>3

\* What the two ways to accept a block do to the targets.
LEMMA BoundaryAccepted ==
    ASSUME TInv, NEW b \in Block, AcceptBoundary(b)
    PROVE  /\ Height[b] = 0 => epochTargets' = epochTargets
           /\ Height[b] # 0 => /\ NextTarget(tip', Height[b]) \in Target
                               /\ epochTargets' = Append(epochTargets, NextTarget(tip', Height[b]))
                               /\ IndexOK(tip', Height[b])
  <1>1. Record(b) /\ Retarget(Height[b]) /\ Height[b] % EpochBlocks = 0
    BY DEF AcceptBoundary
  <1>2. tip' \in Block /\ Height[b] \in Nat
    BY <1>1, Recorded, PathOf
  <1>3. Height[b] # 0 => IndexOK(tip', Height[b])
    BY <1>1 DEF Retarget
  <1>4. PICK t : t = tip'
    OBVIOUS
  <1>5. Height[b] # 0 => NextTarget(t, Height[b]) \in Target
    BY <1>1, <1>2, <1>3, <1>4, NextTargetIs
  <1>6. epochTargets' = IF Height[b] = 0 THEN epochTargets
                        ELSE Append(epochTargets, NextTarget(t, Height[b]))
    BY <1>1, <1>4 DEF Retarget
  <1> QED
    BY <1>3, <1>4, <1>5, <1>6

\* The types and the finiteness hold at first.
LEMMA TypeInit == Init => TInv
  <1> SUFFICES ASSUME Init PROVE TInv
    OBVIOUS
  <1>1. work \in [{} -> Nat] /\ blocks = {}
    BY DEF Init, blocks
  <1>2. InitialTarget \in Target
    BY EpochAssumption DEF Target
  <1>3. epochTargets \in Seq(Target) /\ Len(epochTargets) >= 1
    BY <1>2 DEF Init
  <1> QED
    BY <1>1, <1>3, FS_EmptySet DEF TInv, Init

\* Every step keeps them.
LEMMA TypeNext == TInv /\ [Next]_vars => TInv'
  <1> SUFFICES ASSUME TInv, [Next]_vars PROVE TInv'
    OBVIOUS
  <1>1. ASSUME NEW b \in Block, Record(b)
        PROVE  /\ (work \in [blocks -> Nat] /\ blocks \subseteq Block /\ IsFiniteSet(blocks))'
               /\ (tip \in blocks \cup {Zero})'
    BY <1>1, Recorded DEF TInv
  <1>2. ASSUME NEW b \in Block, AcceptBlock(b) PROVE TInv'
    BY <1>1, <1>2 DEF AcceptBlock, TInv
  <1>3. ASSUME NEW b \in Block, AcceptBoundary(b) PROVE TInv'
    <2>1. (epochTargets \in Seq(Target) /\ Len(epochTargets) >= 1)'
      <3>1. CASE Height[b] = 0
        BY <1>3, <3>1, BoundaryAccepted DEF TInv
      <3>2. CASE Height[b] # 0
        <4>1. PICK n \in Target : epochTargets' = Append(epochTargets, n)
          BY <1>3, <3>2, BoundaryAccepted
        <4> QED
          BY <4>1 DEF TInv
      <3> QED
        BY <3>1, <3>2
    <2> QED
      BY <1>1, <1>3, <2>1 DEF AcceptBoundary, TInv
  <1>4. ASSUME NEW b \in Block, AcceptPanics(b) PROVE TInv'
    BY <1>1, <1>4 DEF AcceptPanics, TInv
  <1>5. CASE Restart
    <2>1. InitialTarget \in Target
      BY EpochAssumption DEF Target
    <2>2. (epochTargets \in Seq(Target) /\ Len(epochTargets) >= 1)'
      BY <1>5, <2>1 DEF Restart
    <2>3. blocks' = blocks
      BY <1>5 DEF Restart, blocks
    <2> QED
      BY <1>5, <2>2, <2>3 DEF Restart, TInv
  <1>6. CASE UNCHANGED vars
    BY <1>6 DEF vars, TInv, blocks
  <1> QED
    BY <1>2, <1>3, <1>4, <1>5, <1>6 DEF Next

(***************************************************************************)
(* Seeds.                                                                  *)
(***************************************************************************)

\* SeedOfEpoch for a block.
SeedRight(b) ==
    LET start == EpochBlocks * EpochOf(Height[b])
    IN  start > 0 => SeedFrom[b] \in OnChain(b, start - 1)

SInv == \A b \in blocks : Linked(b) /\ SeedRight(b)

\* A block that passes the header check has its ancestors below it, and the
\* seed of its epoch if its parent has that of its own.
LEMMA RecordLinks ==
    ASSUME TInv, SInv, NEW b \in Block, Record(b)
    PROVE  SInv'
  <1>1. /\ blocks' = blocks \cup {b} /\ HeaderValid(b)
        /\ Parent[b] \in blocks \cup {Zero} /\ blocks \subseteq Block
    BY Recorded DEF TInv
  <1>2. /\ Height[b] \in Nat /\ Path[b] = Path[Parent[b]] \cup {b}
        /\ Path[Zero] = {} /\ Zero \notin blocks
    BY <1>1, PathOf DEF TInv
  <1>3. Path[b] \subseteq blocks \cup {b}
    <2>1. Parent[b] \in blocks => Path[Parent[b]] \subseteq blocks
      BY DEF SInv, Linked
    <2> QED
      BY <1>1, <1>2, <2>1
  <1>4. Height[b] # 0 => Parent[b] \in blocks /\ Height[b] = Height[Parent[b]] + 1 /\ SeedOK(b)
    BY <1>1 DEF HeaderValid, HeaderOK
  <1>5. SeedRight(b)
    <2>1. CASE Height[b] = 0
      <3>1. EpochBlocks * EpochOf(Height[b]) = 0
        BY <2>1, EpochOfZero, EpochAssumption
      <3> QED
        BY <3>1 DEF SeedRight
    <2>2. CASE Height[b] # 0
      <3> DEFINE p == Parent[b]
                 h == Height[p]
      <3>1. /\ p \in blocks /\ p \in Block /\ h \in Nat /\ Height[b] = h + 1 /\ SeedOK(b)
            /\ p \in Path[b] /\ Path[p] \subseteq Path[b] /\ SeedRight(p)
        BY <1>1, <1>2, <1>4, <2>2, PathOf DEF SInv
      <3>2. CASE Height[b] % EpochBlocks = 0
        <4>1. EpochBlocks * EpochOf(Height[b]) = h + 1
          BY <3>1, <3>2, EpochOfNext
        <4>2. SeedFrom[b] = p
          BY <3>1, <3>2 DEF SeedOK
        <4>3. p \in OnChain(b, h)
          BY <3>1 DEF OnChain
        <4>4. (h + 1) - 1 = h
          BY <3>1
        <4> QED
          BY <4>1, <4>2, <4>3, <4>4 DEF SeedRight
      <3>3. CASE Height[b] % EpochBlocks # 0
        <4>1. EpochOf(Height[b]) = EpochOf(h)
          BY <3>1, <3>3, EpochOfNext
        <4>2. SeedFrom[b] = SeedFrom[p]
          BY <3>1, <3>3 DEF SeedOK
        <4>3. \A k : OnChain(p, k) \subseteq OnChain(b, k)
          BY <3>1 DEF OnChain
        <4>4. EpochBlocks * EpochOf(h) > 0 =>
                  SeedFrom[p] \in OnChain(p, EpochBlocks * EpochOf(h) - 1)
          BY <3>1 DEF SeedRight
        <4> QED
          BY <4>1, <4>2, <4>3, <4>4 DEF SeedRight
      <3> QED
        BY <3>2, <3>3
    <2> QED
      BY <2>1, <2>2
  <1>6. ASSUME NEW a \in blocks' PROVE Linked(a)' /\ SeedRight(a)'
    <2>1. CASE a \in blocks
      <3>1. Linked(a) /\ SeedRight(a)
        BY <2>1 DEF SInv
      <3> QED
        BY <1>1, <3>1 DEF Linked, SeedRight, OnChain
    <2>2. CASE a = b
      <3>1. Linked(b)'
        BY <1>1, <1>3, <1>4 DEF Linked
      <3> QED
        BY <1>5, <2>2, <3>1 DEF SeedRight, OnChain
    <2> QED
      BY <1>1, <1>6, <2>1, <2>2
  <1> QED
    BY <1>6 DEF SInv

\* No block is recorded at first.
LEMMA SeedInit == Init => SInv
  BY DEF Init, SInv, blocks

\* Every step keeps the links and the seeds.
LEMMA SeedNext == TInv /\ SInv /\ [Next]_vars => SInv'
  <1> SUFFICES ASSUME TInv, SInv, [Next]_vars PROVE SInv'
    OBVIOUS
  <1>1. ASSUME NEW b \in Block, Record(b) PROVE SInv'
    BY <1>1, RecordLinks
  <1>2. ASSUME blocks' = blocks PROVE SInv'
    BY <1>2 DEF SInv, Linked, SeedRight, OnChain
  <1>3. CASE Restart \/ UNCHANGED vars
    BY <1>2, <1>3 DEF Restart, vars, blocks
  <1> QED
    BY <1>1, <1>3 DEF Next, AcceptBlock, AcceptBoundary, AcceptPanics

\* Every block of the active chain carries the seed of its epoch.
THEOREM SeedsCorrect == Spec => []SeedOfEpoch
  <1>1. TInv /\ SInv => SeedOfEpoch
    <2> SUFFICES ASSUME TInv, SInv, NEW b \in Path[tip] PROVE SeedRight(b)
      BY DEF SeedOfEpoch, SeedRight, EpochOf
    <2>1. b \in blocks
      <3>1. tip \in blocks \cup {Zero} /\ Path[Zero] = {}
        BY PathAssumption DEF TInv
      <3>2. tip \in blocks
        BY <3>1
      <3> QED
        BY <3>2 DEF SInv, Linked
    <2> QED
      BY <2>1 DEF SInv
  <1> QED
    BY <1>1, TypeInit, TypeNext, SeedInit, SeedNext, PTL DEF Spec

(***************************************************************************)
(* The index of the retargeting.                                           *)
(***************************************************************************)

\* Until a restart, no recorded block is in an epoch without an entry.
AInv == ~restarted => alive /\ \A b \in blocks : EpochOf(Height[b]) < Len(epochTargets)

\* The node is alive at first.
LEMMA AliveInit == Init => AInv
  BY DEF Init, AInv, blocks

\* Every step keeps an entry for the epoch of every recorded block, so that the
\* panic of AcceptPanics needs a restart.
LEMMA AliveNext == TInv /\ SInv /\ AInv /\ [Next]_vars => AInv'
  <1> SUFFICES ASSUME TInv, SInv, AInv, [Next]_vars, ~restarted' PROVE AInv'
    BY DEF AInv
  <1>1. CASE UNCHANGED vars
    BY <1>1 DEF vars, AInv, blocks
  <1>2. CASE Next
    <2>1. PICK b \in Block : AcceptBlock(b) \/ AcceptBoundary(b) \/ AcceptPanics(b)
      BY <1>2 DEF Next, Restart
    <2>2. Record(b) /\ ~restarted
      BY <2>1 DEF AcceptBlock, AcceptBoundary, AcceptPanics
    <2>3. alive /\ \A a \in blocks : EpochOf(Height[a]) < Len(epochTargets)
      BY <2>2 DEF AInv
    <2> DEFINE p == Parent[b]
               h == Height[p]
    <2>4. /\ blocks' = blocks \cup {b} /\ Height[b] \in Nat /\ blocks \subseteq Block
          /\ Height[b] # 0 => p \in blocks /\ Height[b] = h + 1 /\ h \in Nat
      <3>1. /\ blocks' = blocks \cup {b} /\ HeaderValid(b)
            /\ Height[b] \in Nat /\ blocks \subseteq Block
        BY <2>2, Recorded, PathOf DEF TInv
      <3>2. Height[b] # 0 => p \in blocks /\ Height[b] = h + 1
        BY <3>1 DEF HeaderValid, HeaderOK
      <3> QED
        BY <3>1, <3>2, PathOf
    <2>5. CASE AcceptBlock(b)
      <3>1. Height[b] % EpochBlocks # 0
        BY <2>5 DEF AcceptBlock
      <3>2. Height[b] # 0
        BY <3>1, EpochOfZero
      <3>3. EpochOf(Height[b]) < Len(epochTargets)
        BY <2>3, <2>4, <3>1, <3>2, EpochOfNext
      <3> QED
        BY <2>3, <2>4, <2>5, <3>3 DEF AcceptBlock, AInv
    <2>6. CASE AcceptBoundary(b)
      <3>1. CASE Height[b] = 0
        <4>1. epochTargets' = epochTargets /\ Len(epochTargets) >= 1 /\ Len(epochTargets) \in Nat
          BY <2>6, <3>1, BoundaryAccepted DEF TInv
        <4>2. EpochOf(Height[b]) < Len(epochTargets)
          BY <3>1, <4>1, EpochOfZero
        <4> QED
          BY <2>3, <2>4, <2>6, <4>1, <4>2 DEF AcceptBoundary, AInv
      <3>2. CASE Height[b] # 0
        <4>1. PICK n \in Target : epochTargets' = Append(epochTargets, n)
          BY <2>6, <3>2, BoundaryAccepted
        <4>2. Len(epochTargets') = Len(epochTargets) + 1 /\ Len(epochTargets) \in Nat
          BY <4>1 DEF TInv
        <4>3. EpochOf(Height[b]) = EpochOf(h) + 1 /\ EpochOf(h) \in Nat
          BY <2>4, <2>6, <3>2, EpochOfNext DEF AcceptBoundary
        <4>4. EpochOf(h) < Len(epochTargets)
          BY <2>3, <2>4, <3>2
        <4>5. ASSUME NEW a \in blocks' PROVE EpochOf(Height[a]) < Len(epochTargets')
          <5>1. CASE a = b
            BY <4>2, <4>3, <4>4, <5>1
          <5>2. CASE a \in blocks
            <6>1. EpochOf(Height[a]) < Len(epochTargets) /\ EpochOf(Height[a]) \in Nat
              BY <2>3, <2>4, <5>2, PathOf, EpochOfNext
            <6> QED
              BY <4>2, <6>1
          <5> QED
            BY <2>4, <5>1, <5>2
        <4>6. alive'
          BY <2>3, <2>6 DEF AcceptBoundary
        <4> QED
          BY <4>5, <4>6 DEF AInv
      <3> QED
        BY <3>1, <3>2
    <2>7. CASE AcceptPanics(b)
      <3>1. Height[b] % EpochBlocks = 0 /\ Height[b] # 0 /\ ~IndexOK(tip', Height[b])
        BY <2>7 DEF AcceptPanics
      <3>2. EpochOf(Height[b]) = EpochOf(h) + 1 /\ EpochOf(h) \in Nat
        BY <2>4, <3>1, EpochOfNext
      <3>3. EpochOf(h) < Len(epochTargets) /\ Len(epochTargets) \in Nat
        BY <2>3, <2>4, <3>1 DEF TInv
      <3>4. ~(EpochOf(Height[b]) <= Len(epochTargets))
        BY <3>1 DEF IndexOK, EpochOf
      <3> QED
        BY <3>2, <3>3, <3>4
    <2> QED
      BY <2>1, <2>5, <2>6, <2>7
  <1> QED
    BY <1>1, <1>2

\* Until it is restarted, no order of blocks makes the node index an epoch that
\* epoch_targets does not have.
THEOREM NodeStaysAlive == Spec => []NodeAlive
  <1>1. AInv => NodeAlive
    BY DEF AInv, NodeAlive
  <1> QED
    BY <1>1, TypeInit, TypeNext, SeedInit, SeedNext, AliveInit, AliveNext, PTL DEF Spec

(***************************************************************************)
(* One chain.  The targets of a chain, which ChainTarget takes from its    *)
(* timestamps, do not change as the chain grows.                           *)
(***************************************************************************)

\* The chain has a timestamp wherever the targets up to an epoch look for one.
SpansOK(t, epoch) == \A e \in 1..epoch : EpochSpan(t, e) \in Int

\* The equation of the targets.
IsTargets(g, t, epoch) ==
    g = [e \in 0..epoch |->
            IF e = 0 THEN InitialTarget
            ELSE LET limited == Clamp(EpochSpan(t, e), Timespan \div 4, Timespan * 4)
                 IN  Clamp((g[e - 1] * limited) \div Timespan, MinTarget, MaxTarget)]

\* A retargeted target is a target.
LEMMA RetargetedIs ==
    ASSUME NEW prev \in Target, NEW span \in Int
    PROVE  Retargeted(prev, span) \in Target
  <1>1. prev \in 0..MaxTarget
    BY TargetBounds DEF Target
  <1> QED
    BY <1>1, AdjustTargetIsExact DEF Target

\* It has a solution.
LEMMA TargetsExist ==
    ASSUME NEW t, NEW n \in Nat, SpansOK(t, n)
    PROVE  \E g : IsTargets(g, t, n)
  <1> DEFINE step == [p \in (1..n) \X Target |-> Retargeted(p[2], EpochSpan(t, p[1]))]
  <1>1. step \in [(1..n) \X Target -> Target] /\ InitialTarget \in Target
    <2>1. \A p \in (1..n) \X Target : Retargeted(p[2], EpochSpan(t, p[1])) \in Target
      BY RetargetedIs DEF SpansOK
    <2>2. InitialTarget \in Target
      BY EpochAssumption DEF Target
    <2> QED
      BY <2>1, <2>2
  <1>2. \A i \in 1..n, x \in Target : step[<<i, x>>] = Retargeted(x, EpochSpan(t, i))
    OBVIOUS
  <1> HIDE DEF step
  <1>3. PICK g \in [0..n -> Target] : Follows(g, InitialTarget, step, n)
    BY <1>1, RecursionExists
  <1>4. ASSUME NEW e \in 0..n
        PROVE  g[e] = IF e = 0 THEN InitialTarget ELSE Retargeted(g[e - 1], EpochSpan(t, e))
    <2>1. CASE e # 0
      <3>1. e \in 1..n /\ e - 1 \in 0..n
        BY <2>1
      <3>2. g[e] = step[<<e, g[e - 1]>>] /\ g[e - 1] \in Target
        BY <1>3, <3>1 DEF Follows
      <3>3. step[<<e, g[e - 1]>>] = Retargeted(g[e - 1], EpochSpan(t, e))
        BY <1>2, <3>1, <3>2
      <3> QED
        BY <2>1, <3>2, <3>3
    <2> QED
      BY <1>3, <2>1 DEF Follows
  <1>5. g = [e \in 0..n |-> IF e = 0 THEN InitialTarget ELSE Retargeted(g[e - 1], EpochSpan(t, e))]
    BY <1>3, <1>4
  <1>6. IsTargets(g, t, n)
    BY <1>5 DEF IsTargets, Retargeted, Limited
  <1> QED
    BY <1>6

\* The target of an epoch comes from the one before it.
LEMMA ChainTargetIs ==
    ASSUME NEW t, NEW n \in Nat, SpansOK(t, n)
    PROVE  /\ ChainTarget(t, 0) = InitialTarget
           /\ \A e \in 0..n : ChainTarget(t, e) \in Target
           /\ \A e \in 0..(n - 1) :
                 ChainTarget(t, e + 1) = Retargeted(ChainTarget(t, e), EpochSpan(t, e + 1))
  <1> DEFINE upto == [m \in 0..n |-> CHOOSE g : IsTargets(g, t, m)]
  <1>1. ASSUME NEW m \in 0..n
        PROVE  /\ ChainTarget(t, m) = upto[m][m]
               /\ upto[m][0] = InitialTarget
               /\ \A i \in 1..m : upto[m][i] = Retargeted(upto[m][i - 1], EpochSpan(t, i))
    <2>1. \E g : IsTargets(g, t, m)
      <3>1. m \in Nat /\ SpansOK(t, m)
        BY DEF SpansOK
      <3> QED
        BY <3>1, TargetsExist
    <2>2. IsTargets(CHOOSE g : IsTargets(g, t, m), t, m)
      BY <2>1
    <2>3. ChainTarget(t, m) = (CHOOSE g : IsTargets(g, t, m))[m]
      BY DEF ChainTarget, IsTargets
    <2>4. IsTargets(upto[m], t, m) /\ ChainTarget(t, m) = upto[m][m]
      BY <2>2, <2>3
    <2> HIDE DEF upto
    <2>5. 0 \in 0..m /\ \A i \in 1..m : i \in 0..m /\ i # 0
      OBVIOUS
    <2> QED
      BY <2>4, <2>5 DEF IsTargets, Retargeted, Limited
  <1> HIDE DEF upto
  <1>2. ASSUME NEW m \in 0..n PROVE \A i \in 0..m : upto[m][i] \in Target
    <2> DEFINE Good == {i \in 0..m : upto[m][i] \in Target}
    <2>1. 0 \in Good
      <3>1. InitialTarget \in Target
        BY EpochAssumption DEF Target
      <3> QED
        BY <1>1, <3>1
    <2>2. ASSUME NEW i \in 0..(m - 1), i \in Good PROVE i + 1 \in Good
      <3>1. i + 1 \in 1..m /\ i + 1 \in 1..n /\ (i + 1) - 1 = i /\ i + 1 \in 0..m
        OBVIOUS
      <3>2. upto[m][i + 1] = Retargeted(upto[m][i], EpochSpan(t, i + 1))
        BY <1>1, <3>1
      <3>3. upto[m][i] \in Target /\ EpochSpan(t, i + 1) \in Int
        BY <2>2, <3>1 DEF SpansOK
      <3> QED
        BY <3>1, <3>2, <3>3, RetargetedIs
    <2> HIDE DEF Good
    <2>3. \A i \in 0..m : i \in Good
      BY <2>1, <2>2, IntervalInduction
    <2> QED
      BY <2>3 DEF Good
  <1>3. ASSUME NEW m \in 0..(n - 1) PROVE upto[m + 1][m] = upto[m][m]
    <2> DEFINE Good == {i \in 0..m : upto[m + 1][i] = upto[m][i]}
    <2>1. m \in 0..n /\ m + 1 \in 0..n
      OBVIOUS
    <2>2. 0 \in Good
      BY <1>1, <2>1
    <2>3. ASSUME NEW i \in 0..(m - 1), i \in Good PROVE i + 1 \in Good
      <3>1. i + 1 \in 1..m /\ i + 1 \in 1..(m + 1) /\ (i + 1) - 1 = i /\ i + 1 \in 0..m
        OBVIOUS
      <3>2. /\ upto[m][i + 1] = Retargeted(upto[m][i], EpochSpan(t, i + 1))
            /\ upto[m + 1][i + 1] = Retargeted(upto[m + 1][i], EpochSpan(t, i + 1))
        BY <1>1, <2>1, <3>1
      <3> QED
        BY <2>3, <3>1, <3>2
    <2> HIDE DEF Good
    <2>4. m \in Nat /\ m \in 0..m
      OBVIOUS
    <2>5. \A i \in 0..m : i \in Good
      BY <2>2, <2>3, <2>4, IntervalInduction
    <2> QED
      BY <2>4, <2>5 DEF Good
  <1>4. ASSUME NEW e \in 0..(n - 1)
        PROVE  ChainTarget(t, e + 1) = Retargeted(ChainTarget(t, e), EpochSpan(t, e + 1))
    <2>1. e \in 0..n /\ e + 1 \in 0..n /\ e + 1 \in 1..(e + 1) /\ (e + 1) - 1 = e
      OBVIOUS
    <2>2. upto[e + 1][e + 1] = Retargeted(upto[e + 1][e], EpochSpan(t, e + 1))
      <3>1. \A i \in 1..(e + 1) : upto[e + 1][i] = Retargeted(upto[e + 1][i - 1], EpochSpan(t, i))
        BY <1>1, <2>1
      <3> QED
        BY <2>1, <3>1
    <2> QED
      BY <1>1, <1>3, <2>1, <2>2
  <1>5. ASSUME NEW e \in 0..n PROVE ChainTarget(t, e) \in Target
    <2>1. e \in 0..e
      OBVIOUS
    <2> QED
      BY <1>1, <1>2, <2>1
  <1>6. ChainTarget(t, 0) = InitialTarget
    <2>1. 0 \in 0..n
      OBVIOUS
    <2> QED
      BY <1>1, <2>1
  <1> QED
    BY <1>4, <1>5, <1>6

\* Chains with the same spans have the same targets.
LEMMA ChainTargetSame ==
    ASSUME NEW t, NEW u, NEW n \in Nat, SpansOK(t, n),
           \A e \in 1..n : EpochSpan(u, e) = EpochSpan(t, e)
    PROVE  \A e \in 0..n : ChainTarget(u, e) = ChainTarget(t, e)
  <1>1. SpansOK(u, n)
    BY DEF SpansOK
  <1> DEFINE Good == {e \in 0..n : ChainTarget(u, e) = ChainTarget(t, e)}
  <1>2. 0 \in Good
    BY <1>1, ChainTargetIs
  <1>3. ASSUME NEW e \in 0..(n - 1), e \in Good PROVE e + 1 \in Good
    <2>1. e + 1 \in 1..n /\ e + 1 \in 0..n
      OBVIOUS
    <2>2. /\ ChainTarget(t, e + 1) = Retargeted(ChainTarget(t, e), EpochSpan(t, e + 1))
          /\ ChainTarget(u, e + 1) = Retargeted(ChainTarget(u, e), EpochSpan(u, e + 1))
      BY <1>1, ChainTargetIs
    <2> QED
      BY <1>3, <2>1, <2>2
  <1> HIDE DEF Good
  <1>4. \A e \in 0..n : e \in Good
    BY <1>2, <1>3, IntervalInduction
  <1> QED
    BY <1>4 DEF Good

\* The heights of the path of a recorded block: it is the highest, and none is
\* missing below it.
Ladder(p) ==
    /\ \A a \in Path[p] : a # p => Height[a] < Height[p]
    /\ \A k \in 0..Height[p] : OnChain(p, k) # {}

LInv == \A p \in blocks : Ladder(p)

\* A block one above its parent adds one height to the path.
LEMMA OneAbove ==
    ASSUME NEW b \in Block, Parent[b] \in Block, Ladder(Parent[b]),
           Height[b] = Height[Parent[b]] + 1
    PROVE  /\ Ladder(b)
           /\ \A k \in 0..Height[Parent[b]] : /\ OnChain(b, k) = OnChain(Parent[b], k)
                                              /\ TimeAt(b, k) = TimeAt(Parent[b], k)
                                              /\ TimeAt(b, k) \in Nat
  <1> DEFINE p == Parent[b]
             h == Height[p]
  <1>1. /\ h \in Nat /\ Height[b] = h + 1 /\ Path[b] = Path[p] \cup {b} /\ p \in Path[p]
        /\ Path[p] \subseteq Block
    BY PathOf
  <1>2. \A a \in Path[p] : Height[a] <= h /\ Height[a] \in Nat
    BY <1>1, PathOf DEF Ladder
  <1>3. \A k \in 0..h : OnChain(b, k) = OnChain(p, k)
    BY <1>1 DEF OnChain
  <1>4. b \in OnChain(b, h + 1)
    BY <1>1 DEF OnChain
  <1>5. ASSUME NEW k \in 0..Height[b] PROVE OnChain(b, k) # {}
    <2>1. k \in 0..h \/ k = h + 1
      BY <1>1
    <2> QED
      BY <1>3, <1>4, <2>1 DEF Ladder
  <1>6. \A a \in Path[b] : a # b => Height[a] < Height[b]
    BY <1>1, <1>2
  <1>7. ASSUME NEW k \in 0..h PROVE TimeAt(b, k) = TimeAt(p, k) /\ TimeAt(b, k) \in Nat
    <2>1. OnChain(b, k) # {} /\ OnChain(b, k) = OnChain(p, k)
      BY <1>3 DEF Ladder
    <2> QED
      BY <2>1, TimeAtIs DEF TimeAt
  <1> QED
    BY <1>3, <1>5, <1>6, <1>7 DEF Ladder

\* No block is recorded at first.
LEMMA LadderInit == Init => LInv
  BY DEF Init, LInv, blocks

\* Every step keeps the heights of recorded paths in order.
LEMMA LadderNext ==
    ASSUME HeightZeroIsGenesis
    PROVE  TInv /\ LInv /\ [Next]_vars => LInv'
  <1> SUFFICES ASSUME TInv, LInv, [Next]_vars PROVE LInv'
    OBVIOUS
  <1>1. ASSUME NEW b \in Block, Record(b) PROVE LInv'
    <2>1. blocks' = blocks \cup {b} /\ HeaderValid(b) /\ blocks \subseteq Block
      BY <1>1, Recorded DEF TInv
    <2>2. CASE Height[b] = 0
      <3>1. Path[b] = {b}
        BY <2>2, PathOf DEF HeightZeroIsGenesis
      <3>2. b \in OnChain(b, 0)
        BY <2>2, <3>1 DEF OnChain
      <3>3. Ladder(b)
        BY <2>2, <3>1, <3>2 DEF Ladder
      <3> QED
        BY <2>1, <3>3 DEF LInv
    <2>3. CASE Height[b] # 0
      <3>1. Parent[b] \in blocks /\ Height[b] = Height[Parent[b]] + 1
        BY <2>1, <2>3 DEF HeaderValid, HeaderOK
      <3>2. Parent[b] \in Block /\ Ladder(Parent[b])
        BY <2>1, <3>1 DEF LInv
      <3>3. Ladder(b)
        BY <3>1, <3>2, OneAbove
      <3> QED
        BY <2>1, <3>3 DEF LInv
    <2> QED
      BY <2>2, <2>3
  <1>2. CASE Restart \/ UNCHANGED vars
    <2>1. blocks' = blocks
      BY <1>2 DEF Restart, vars, blocks
    <2> QED
      BY <2>1 DEF LInv
  <1> QED
    BY <1>1, <1>2 DEF Next, AcceptBlock, AcceptBoundary, AcceptPanics

\* The node's tip is the best block; until a restart it knows the recorded
\* blocks, and no block has less work than one below it.
WInv ==
    /\ blocks # {} => tip \in blocks /\ IsBest(work, tip)
    /\ ~restarted => /\ knownBlocks = blocks
                     /\ \A p \in blocks : \A a \in Path[p] : work[a] <= work[p]

\* No block is recorded at first.
LEMMA WorkInit == Init => WInv
  BY DEF Init, WInv, blocks

\* Every step keeps the tip the best block, and work from falling on a path.
LEMMA WorkNext == TInv /\ SInv /\ WInv /\ [Next]_vars => WInv'
  <1> SUFFICES ASSUME TInv, SInv, WInv, [Next]_vars PROVE WInv'
    OBVIOUS
  <1>1. ASSUME NEW b \in Block, Record(b), restarted' = restarted PROVE WInv'
    <2>1. /\ blocks' = blocks \cup {b} /\ blocks \subseteq Block /\ HeaderValid(b)
          /\ tip' \in blocks' /\ IsBest(work', tip')
          /\ work' \in [blocks' -> Nat] /\ work \in [blocks -> Nat]
          /\ b \notin knownBlocks /\ knownBlocks' = knownBlocks \cup {b}
      BY <1>1, Recorded DEF TInv
    <2>2. SUFFICES ASSUME ~restarted
                   PROVE  /\ knownBlocks' = blocks'
                          /\ \A p \in blocks' : \A a \in Path[p] : work'[a] <= work'[p]
      BY <1>1, <2>1 DEF WInv
    <2>3. /\ knownBlocks = blocks
          /\ \A p \in blocks : \A a \in Path[p] : work[a] <= work[p]
      BY <2>2 DEF WInv
    <2>4. \A a \in blocks : work'[a] = work[a]
      BY <1>1, <2>1, <2>3, Recorded
    <2>5. \A p \in blocks : \A a \in Path[p] : work'[a] <= work'[p]
      <3>1. \A p \in blocks : Path[p] \subseteq blocks
        BY DEF SInv, Linked
      <3> QED
        BY <2>3, <2>4, <3>1
    <2>6. ASSUME NEW a \in Path[b] PROVE work'[a] <= work'[b]
      <3>1. CASE a = b
        <4>1. work'[b] \in Nat
          BY <2>1
        <4> QED
          BY <3>1, <4>1
      <3>2. CASE a # b
        <4> DEFINE p == Parent[b]
                   gain == BlockWork256(TargetFor(Height[b]))
        <4>1. a \in Path[p]
          BY <3>2, PathOf
        <4>2. p \in blocks
          <5>1. Path[Zero] = {}
            BY PathOf
          <5>2. Parent[b] \in blocks \cup {Zero}
            BY <1>1, Recorded
          <5> QED
            BY <4>1, <5>1, <5>2
        <4>3. work'[b] = work[p] + gain
          BY <1>1, <4>2, Recorded
        <4>4. gain \in Nat
          <5>1. TargetFor(Height[b]) \in Nat /\ TargetFor(Height[b]) > 0
            BY PathOf, TargetForIs, TargetBounds DEF Target
          <5> QED
            BY <5>1, BlockWorkIsExact
        <4>5. a \in blocks /\ work[a] <= work[p]
          BY <2>3, <4>1, <4>2 DEF SInv, Linked
        <4>6. work[a] \in Nat /\ work[p] \in Nat
          BY <2>1, <4>2, <4>5
        <4> HIDE DEF gain, p
        <4>7. work'[a] = work[a]
          BY <2>4, <4>5
        <4> QED
          BY <4>3, <4>4, <4>5, <4>6, <4>7
      <3> QED
        BY <3>1, <3>2
    <2> QED
      BY <2>1, <2>3, <2>5, <2>6
  <1>2. CASE Restart
    <2>1. blocks' = blocks /\ work' = work /\ tip' = tip /\ restarted'
      BY <1>2 DEF Restart, blocks
    <2> QED
      BY <2>1 DEF WInv
  <1>3. CASE UNCHANGED vars
    BY <1>3 DEF vars, WInv, blocks
  <1>4. ASSUME NEW b \in Block, AcceptBlock(b) \/ AcceptBoundary(b) \/ AcceptPanics(b) PROVE WInv'
    BY <1>1, <1>4 DEF AcceptBlock, AcceptBoundary, AcceptPanics
  <1> QED
    BY <1>2, <1>3, <1>4 DEF Next

\* When a new block leaves the node on one chain, it extends the one chain that
\* the node was on.
LEMMA ExtendsOneChain ==
    ASSUME TInv, SInv, LInv, WInv, HeightZeroIsGenesis, ~restarted,
           NEW b \in Block, Record(b), blocks' = Path[tip']
    PROVE  /\ tip' = b /\ tip = Parent[b] /\ OneChain
           /\ b \notin blocks
           /\ tip = Zero => Height[b] = 0 /\ blocks = {}
           /\ tip # Zero => tip \in blocks /\ Height[b] = Height[tip] + 1
  <1>1. /\ blocks' = blocks \cup {b} /\ blocks \subseteq Block /\ HeaderValid(b)
        /\ tip' \in blocks' /\ b \notin knownBlocks /\ Parent[b] \in blocks \cup {Zero}
    BY Recorded DEF TInv
  <1>2. b \notin blocks
    BY <1>1 DEF WInv
  <1>3. tip' = b
    <2> SUFFICES ASSUME tip' # b PROVE FALSE
      OBVIOUS
    <2>1. PICK t \in blocks : t = tip'
      BY <1>1
    <2>2. b \in Path[t] /\ Path[t] \subseteq blocks
      BY <1>1, <2>1 DEF SInv, Linked
    <2> QED
      BY <1>2, <2>2
  <1> DEFINE p == Parent[b]
  <1>4. blocks = Path[p]
    <2>1. Path[b] = Path[p] \cup {b} /\ b \notin Path[p]
      BY PathOf
    <2>2. blocks \cup {b} = Path[b]
      BY <1>1, <1>3
    <2> QED
      BY <1>2, <2>1, <2>2
  <1>5. tip = p
    <2>1. CASE p = Zero
      <3>1. blocks = {}
        BY <1>4, <2>1, PathOf
      <3> QED
        BY <2>1, <3>1 DEF TInv
    <2>2. CASE p \in blocks
      <3> SUFFICES ASSUME tip # p PROVE FALSE
        OBVIOUS
      <3>1. tip \in blocks /\ IsBest(work, tip) /\ tip \in Path[p]
        BY <1>4, <2>2 DEF WInv
      <3>2. p \in (DOMAIN work) \ {tip}
        BY <2>2 DEF blocks
      <3>3. Better(work, tip, p)
        BY <3>1, <3>2 DEF IsBest
      <3>4. work[tip] <= work[p] /\ Height[tip] < Height[p]
        BY <2>2, <3>1 DEF WInv, LInv, Ladder
      <3>5. work[tip] \in Nat /\ work[p] \in Nat /\ Height[tip] \in Nat /\ Height[p] \in Nat
        BY <1>1, <2>2, <3>1, PathOf DEF TInv
      <3> QED
        BY <3>3, <3>4, <3>5 DEF Better
    <2> QED
      BY <1>1, <2>1, <2>2
  <1>6. OneChain
    BY <1>4, <1>5 DEF OneChain
  <1>7. Height[b] # 0 => p \in blocks /\ Height[b] = Height[p] + 1
    BY <1>1 DEF HeaderValid, HeaderOK
  <1>8. Height[b] = 0 => p = Zero
    BY DEF HeightZeroIsGenesis
  <1>9. Zero \notin blocks /\ Path[Zero] = {}
    BY <1>1, PathOf
  <1> QED
    BY <1>1, <1>2, <1>3, <1>4, <1>5, <1>6, <1>7, <1>8, <1>9

\* A chain without missing heights has a timestamp wherever its targets, up to
\* that of the epoch of the next block, look for one.
LEMMA SpanHeights ==
    ASSUME NEW h \in Nat, NEW e \in 1..EpochOf(h + 1)
    PROVE  e * EpochBlocks - 1 \in 0..h /\ (e - 1) * EpochBlocks \in 0..h
  <1> DEFINE n == EpochOf(h + 1)
  <1>1. n \in Nat /\ EpochBlocks * n <= h + 1 /\ EpochBlocks \in Nat /\ EpochBlocks > 0
    BY EpochOfNext, EpochBounds, EpochAssumption
  <1> HIDE DEF n
  <1>2. e \in Nat /\ e >= 1 /\ e <= n
    BY <1>1 DEF n
  <1>3. e * EpochBlocks <= EpochBlocks * n
    BY <1>1, <1>2
  <1>4. e * EpochBlocks >= EpochBlocks /\ (e - 1) * EpochBlocks = e * EpochBlocks - EpochBlocks
    BY <1>1, <1>2
  <1>5. e * EpochBlocks \in Nat /\ EpochBlocks * n \in Nat
    BY <1>1, <1>2
  <1> DEFINE x == e * EpochBlocks
             y == EpochBlocks * n
             z == (e - 1) * EpochBlocks
  <1>6. x <= y /\ y <= h + 1 /\ x >= EpochBlocks /\ z = x - EpochBlocks /\ x \in Nat /\ y \in Nat
    BY <1>1, <1>3, <1>4, <1>5
  <1> HIDE DEF x, y, z
  <1>7. x - 1 \in 0..h /\ z \in 0..h
    BY <1>1, <1>6
  <1> QED
    BY <1>7 DEF x, z

\* The targets up to that of the chain's last block have their timestamps.
LEMMA LadderSpans ==
    ASSUME NEW t \in Block, Ladder(t)
    PROVE  SpansOK(t, EpochOf(Height[t]))
  <1> DEFINE h == Height[t]
  <1>1. h \in Nat /\ h + 1 \in Nat /\ h \in 0..(h + 1)
    BY PathOf
  <1>2. EpochOf(h) <= EpochOf(h + 1) /\ EpochOf(h) \in Nat /\ EpochOf(h + 1) \in Nat
    BY <1>1, EpochOfNext, EpochBounds
  <1>3. \A k \in 0..h : TimeAt(t, k) \in Nat
    BY TimeAtIs DEF Ladder
  <1>4. ASSUME NEW e \in 1..EpochOf(h) PROVE EpochSpan(t, e) \in Int
    <2> DEFINE i == e * EpochBlocks - 1
               j == (e - 1) * EpochBlocks
    <2>1. e \in 1..EpochOf(h + 1)
      BY <1>2
    <2>2. i \in 0..h /\ j \in 0..h
      BY <1>1, <2>1, SpanHeights
    <2>3. EpochSpan(t, e) = TimeAt(t, i) - TimeAt(t, j)
      BY DEF EpochSpan
    <2> HIDE DEF i, j
    <2>4. TimeAt(t, i) \in Nat /\ TimeAt(t, j) \in Nat
      BY <1>3, <2>2
    <2> QED
      BY <2>3, <2>4
  <1> QED
    BY <1>4 DEF SpansOK

\* The targets of a chain stay as they are when the chain grows by a block.
LEMMA TargetsExtend ==
    ASSUME NEW b \in Block, Parent[b] \in Block, Ladder(Parent[b]),
           Height[b] = Height[Parent[b]] + 1
    PROVE  LET n == EpochOf(Height[b])
           IN  /\ n \in Nat /\ SpansOK(b, n) /\ SpansOK(Parent[b], n)
               /\ \A e \in 0..n : ChainTarget(b, e) = ChainTarget(Parent[b], e)
  <1> DEFINE p == Parent[b]
             h == Height[p]
             n == EpochOf(Height[b])
  <1>1. h \in Nat /\ Height[b] = h + 1 /\ Height[b] \in Nat
    BY PathOf
  <1>2. n \in Nat /\ EpochBlocks * n <= h + 1 /\ EpochBlocks \in Nat /\ EpochBlocks > 0
    BY <1>1, EpochOfNext, EpochBounds, EpochAssumption
  <1> HIDE DEF n
  <1>3. ASSUME NEW e \in 1..n
        PROVE  e * EpochBlocks - 1 \in 0..h /\ (e - 1) * EpochBlocks \in 0..h
    BY <1>1, SpanHeights DEF n
  <1>4. \A k \in 0..h : /\ TimeAt(b, k) = TimeAt(p, k)
                        /\ TimeAt(b, k) \in Nat
    BY OneAbove
  <1>5. ASSUME NEW e \in 1..n
        PROVE  EpochSpan(b, e) = EpochSpan(p, e) /\ EpochSpan(b, e) \in Int
    <2> DEFINE i == e * EpochBlocks - 1
               j == (e - 1) * EpochBlocks
    <2>1. i \in 0..h /\ j \in 0..h
      BY <1>3
    <2>2. /\ EpochSpan(b, e) = TimeAt(b, i) - TimeAt(b, j)
          /\ EpochSpan(p, e) = TimeAt(p, i) - TimeAt(p, j)
      BY DEF EpochSpan
    <2> HIDE DEF i, j
    <2> QED
      BY <1>4, <2>1, <2>2
  <1>6. SpansOK(b, n) /\ SpansOK(p, n)
    BY <1>5 DEF SpansOK
  <1>7. \A e \in 0..n : ChainTarget(b, e) = ChainTarget(p, e)
    BY <1>2, <1>5, <1>6, ChainTargetSame
  <1> QED
    BY <1>2, <1>6, <1>7 DEF n

\* On one chain the targets, and the work of the tip, are those of the chain.
TargetsOf(t) ==
    /\ Len(epochTargets) = IF t = Zero THEN 1 ELSE EpochOf(Height[t]) + 1
    /\ \A e \in 0..(Len(epochTargets) - 1) : epochTargets[e + 1] = ChainTarget(t, e)
WorkOf(t) == work[t] = SumFunctionOnSet([b \in Path[t] |-> ChainWorkOf(t, b)], Path[t])

EInv == OneChain => TargetsOf(tip) /\ (tip # Zero => WorkOf(tip))

\* The target of epoch 0.
LEMMA FirstTarget == ASSUME NEW t PROVE ChainTarget(t, 0) = InitialTarget
  <1> DEFINE n == 0
  <1>1. n \in Nat /\ SpansOK(t, n)
    BY DEF SpansOK
  <1> HIDE DEF n
  <1> QED
    BY <1>1, ChainTargetIs

\* The node begins with the target of epoch 0.
LEMMA EpochInit == Init => EInv
  <1> SUFFICES ASSUME Init PROVE EInv
    OBVIOUS
  <1>1. tip = Zero /\ epochTargets = <<InitialTarget>>
    BY DEF Init
  <1>2. Len(epochTargets) = 1 /\ epochTargets[1] = ChainTarget(Zero, 0)
    BY <1>1, FirstTarget
  <1>3. \A e \in 0..(Len(epochTargets) - 1) : epochTargets[e + 1] = ChainTarget(Zero, e)
    <2>1. \A e \in 0..(1 - 1) : e = 0
      OBVIOUS
    <2> QED
      BY <1>2, <2>1
  <1> QED
    BY <1>1, <1>2, <1>3 DEF EInv, TargetsOf

\* A block on one chain leaves the node with the targets of the longer chain.
LEMMA TargetsNext ==
    ASSUME TInv, LInv, NEW b \in Block, AcceptBlock(b) \/ AcceptBoundary(b),
           tip' = b, tip = Parent[b], TargetsOf(tip),
           tip = Zero => Height[b] = 0,
           tip # Zero => tip \in blocks /\ Height[b] = Height[tip] + 1
    PROVE  TargetsOf(tip)'
  <1>1. CASE tip = Zero
    <2>1. Height[b] = 0 /\ b # Zero
      BY <1>1, PathOf
    <2>2. epochTargets' = epochTargets
      BY <2>1, EpochOfZero, BoundaryAccepted DEF AcceptBlock
    <2>3. Len(epochTargets) = 1 /\ epochTargets[0 + 1] = ChainTarget(tip, 0)
      <3>1. 0 \in 0..(1 - 1)
        OBVIOUS
      <3> QED
        BY <1>1, <3>1 DEF TargetsOf
    <2>4. epochTargets[0 + 1] = ChainTarget(b, 0)
      BY <2>3, FirstTarget
    <2>5. \A e \in 0..(1 - 1) : e = 0
      OBVIOUS
    <2>6. EpochOf(Height[b]) + 1 = 1
      BY <2>1, EpochOfZero
    <2> QED
      BY <2>1, <2>2, <2>3, <2>4, <2>5, <2>6 DEF TargetsOf
  <1>2. CASE tip # Zero
    <2> DEFINE p == Parent[b]
               h == Height[p]
               n == EpochOf(Height[b])
               last == Len(epochTargets)
    <2>1. p \in blocks /\ p \in Block /\ Ladder(p) /\ Height[b] = h + 1 /\ h \in Nat
          /\ Height[b] \in Nat /\ Height[b] # 0 /\ b # Zero /\ p # Zero
      BY <1>2, PathOf DEF TInv, LInv
    <2>2. /\ n \in Nat /\ SpansOK(b, n)
          /\ \A e \in 0..n : ChainTarget(b, e) = ChainTarget(p, e)
      BY <2>1, TargetsExtend
    <2>3. last = EpochOf(h) + 1 /\ EpochOf(h) \in Nat
          /\ \A e \in 0..(last - 1) : epochTargets[e + 1] = ChainTarget(p, e)
      BY <2>1, EpochOfNext DEF TargetsOf
    <2> HIDE DEF n, h, last
    <2>4. CASE AcceptBlock(b)
      <3>1. n = EpochOf(h) /\ epochTargets' = epochTargets
        BY <2>1, <2>4, EpochOfNext DEF AcceptBlock, n
      <3>2. \A e \in 0..(last - 1) : epochTargets[e + 1] = ChainTarget(b, e)
        BY <2>2, <2>3, <3>1
      <3> QED
        BY <2>1, <2>3, <3>1, <3>2 DEF TargetsOf, n, last
    <2>5. CASE AcceptBoundary(b)
      <3> DEFINE new == NextTarget(tip', Height[b])
      <3>1. n = EpochOf(h) + 1 /\ EpochBlocks * n = Height[b] /\ Height[b] % EpochBlocks = 0
        BY <2>1, <2>5, EpochOfNext DEF AcceptBoundary, n
      <3>2. /\ new \in Target /\ epochTargets' = Append(epochTargets, new)
            /\ IndexOK(b, Height[b])
        BY <2>1, <2>5, BoundaryAccepted
      <3>3. epochTargets \in Seq(Target) /\ last \in Nat
        BY DEF TInv, last
      <3>4. /\ Height[b] - 1 = n * EpochBlocks - 1
            /\ Height[b] - EpochBlocks = (n - 1) * EpochBlocks
            /\ Height[b] - 1 \in 0..h /\ Height[b] - EpochBlocks \in 0..h
        <4>1. EpochBlocks \in Nat /\ EpochBlocks > 0 /\ n \in Nat /\ n >= 1
          BY <2>3, <3>1, EpochAssumption
        <4>2. EpochBlocks * n = n * EpochBlocks /\ n * EpochBlocks \in Nat
              /\ (n - 1) * EpochBlocks = n * EpochBlocks - EpochBlocks
              /\ n * EpochBlocks >= EpochBlocks
          BY <4>1
        <4> DEFINE x == n * EpochBlocks
        <4>3. x \in Nat /\ x = Height[b] /\ (n - 1) * EpochBlocks = x - EpochBlocks
              /\ x >= EpochBlocks
          BY <3>1, <4>2
        <4> HIDE DEF x
        <4>4. Height[b] - 1 \in 0..h /\ Height[b] - EpochBlocks \in 0..h
          BY <2>1, <4>1, <4>3
        <4> QED
          BY <4>3, <4>4 DEF x
      <3>5. OnChain(b, Height[b] - 1) # {} /\ OnChain(b, Height[b] - EpochBlocks) # {}
        <4>1. \A k \in 0..h : OnChain(b, k) # {}
          BY <2>1, OneAbove DEF Ladder, h
        <4> QED
          BY <3>4, <4>1
      <3>6. NextTarget(b, Height[b]) = Retargeted(epochTargets[n], EpochSpan(b, n))
        <4>1. NextTarget(b, Height[b]) = Retargeted(epochTargets[Height[b] \div EpochBlocks],
                  TimeAt(b, Height[b] - 1) - TimeAt(b, Height[b] - EpochBlocks))
          BY <2>1, <3>1, <3>2, <3>5, NextTargetIs
        <4>2. Height[b] \div EpochBlocks = n
          BY DEF n, EpochOf
        <4>3. EpochSpan(b, n) = TimeAt(b, Height[b] - 1) - TimeAt(b, Height[b] - EpochBlocks)
          BY <3>4 DEF EpochSpan
        <4> QED
          BY <4>1, <4>2, <4>3
      <3>7. n - 1 \in 0..(n - 1) /\ n - 1 \in 0..(last - 1) /\ (n - 1) + 1 = n /\ n - 1 \in 0..n
            /\ n = last
        BY <2>2, <2>3, <3>1
      <3>8. epochTargets[n] = ChainTarget(b, n - 1)
        BY <2>2, <2>3, <3>7
      <3>9. ChainTarget(b, n) = Retargeted(ChainTarget(b, n - 1), EpochSpan(b, n))
        BY <2>2, <3>7, ChainTargetIs
      <3>10. new = ChainTarget(b, n)
        BY <3>6, <3>8, <3>9
      <3> HIDE DEF new
      <3>11. /\ Len(epochTargets') = last + 1 /\ epochTargets'[last + 1] = new
             /\ \A i \in 1..last : epochTargets'[i] = epochTargets[i]
        BY <3>2, <3>3 DEF last
      <3>12. ASSUME NEW e \in 0..last PROVE epochTargets'[e + 1] = ChainTarget(b, e)
        <4>1. CASE e = last
          BY <3>7, <3>10, <3>11, <4>1
        <4>2. CASE e # last
          <5>1. e \in 0..(last - 1) /\ e + 1 \in 1..last /\ e \in 0..n
            BY <3>3, <3>7, <4>2
          <5> QED
            BY <2>2, <2>3, <3>11, <5>1
        <4> QED
          BY <4>1, <4>2
      <3>13. Len(epochTargets') - 1 = last /\ Len(epochTargets') = n + 1
        BY <3>3, <3>7, <3>11
      <3> QED
        BY <2>1, <3>12, <3>13 DEF TargetsOf, n
    <2> QED
      BY <2>4, <2>5
  <1> QED
    BY <1>1, <1>2

\* What a block counts on a chain is a number.
LEMMA ChainWorkIs ==
    ASSUME NEW t, NEW n \in Nat, SpansOK(t, n), NEW a \in Block, EpochOf(Height[a]) <= n
    PROVE  ChainWorkOf(t, a) \in Nat
  <1> DEFINE e == EpochOf(Height[a])
             d == IF Height[a] % EpochBlocks = 0 THEN InitialTarget ELSE ChainTarget(t, e)
  <1>1. e \in 0..n
    BY PathOf, EpochOfNext
  <1>2. InitialTarget \in Target /\ ChainTarget(t, e) \in Target
    BY <1>1, ChainTargetIs, EpochAssumption DEF Target
  <1>3. d \in Nat /\ d > 0
    BY <1>2, TargetBounds DEF Target
  <1>4. ChainWorkOf(t, a) = (MaxTarget + 1) \div d
    BY DEF ChainWorkOf, EpochOf
  <1> HIDE DEF d
  <1> QED
    BY <1>3, <1>4, QuotientIs, TargetBounds

\* A block on one chain adds what it counts on the longer chain.
LEMMA WorkAdds ==
    ASSUME TInv, LInv, NEW b \in Block, Record(b),
           tip' = b, tip = Parent[b], TargetsOf(tip), b \notin blocks, OneChain,
           tip # Zero => WorkOf(tip),
           tip = Zero => Height[b] = 0 /\ blocks = {},
           tip # Zero => tip \in blocks /\ Height[b] = Height[tip] + 1
    PROVE  WorkOf(tip)'
  <1> DEFINE S == Path[tip]
             g == [a \in S |-> ChainWorkOf(tip, a)]
             f == [a \in S \cup {b} |-> ChainWorkOf(b, a)]
             n == EpochOf(Height[b])
             gain == BlockWork256(TargetFor(Height[b]))
  <1>1. /\ IsFiniteSet(S) /\ b \notin S /\ S = blocks /\ S \subseteq Block
        /\ Path[b] = S \cup {b} /\ Height[b] \in Nat
        /\ epochTargets \in Seq(Target) /\ Len(epochTargets) \in Nat
    BY PathOf DEF OneChain, TInv
  <1>2. n \in Nat /\ SpansOK(b, n)
    <2>1. CASE tip = Zero
      <3>1. n = 0
        BY <2>1, EpochOfZero
      <3> QED
        BY <3>1 DEF SpansOK
    <2>2. CASE tip # Zero
      BY <1>1, <2>2, TargetsExtend DEF LInv
    <2> QED
      BY <2>1, <2>2
  <1>3. gain = (MaxTarget + 1) \div TargetFor(Height[b])
    <2>1. TargetFor(Height[b]) \in Target
      BY <1>1, TargetForIs
    <2>2. TargetFor(Height[b]) \in Nat /\ TargetFor(Height[b]) > 0
      BY <2>1, TargetBounds DEF Target
    <2> QED
      BY <2>2, BlockWorkIsExact
  <1>4. TargetFor(Height[b]) = IF Height[b] % EpochBlocks = 0 THEN InitialTarget
                               ELSE ChainTarget(b, n)
    <2>1. TargetFor(Height[b]) = IF n < Len(epochTargets) THEN epochTargets[n + 1]
                                 ELSE InitialTarget
      BY DEF TargetFor, EpochOf
    <2>2. CASE tip = Zero
      <3>1. n = 0 /\ Height[b] % EpochBlocks = 0
        BY <2>2, EpochOfZero
      <3>2. Len(epochTargets) = 1 /\ epochTargets[0 + 1] = ChainTarget(tip, 0)
        <4>1. 0 \in 0..(1 - 1)
          OBVIOUS
        <4> QED
          BY <2>2, <4>1 DEF TargetsOf
      <3> QED
        BY <2>1, <3>1, <3>2, FirstTarget
    <2>3. CASE tip # Zero
      <3> DEFINE h == Height[tip]
      <3>1. h \in Nat /\ Height[b] = h + 1
        BY <1>1, <2>3, PathOf
      <3>2. EpochOf(h) \in Nat /\ Len(epochTargets) = EpochOf(h) + 1
        BY <2>3, <3>1, EpochOfNext DEF TargetsOf
      <3>3. CASE Height[b] % EpochBlocks = 0
        <4>1. n = EpochOf(h) + 1
          BY <3>1, <3>3, EpochOfNext
        <4> QED
          BY <2>1, <3>2, <3>3, <4>1
      <3>4. CASE Height[b] % EpochBlocks # 0
        <4>1. n = EpochOf(h)
          BY <3>1, <3>4, EpochOfNext
        <4>2. n \in 0..(Len(epochTargets) - 1) /\ n < Len(epochTargets)
          BY <3>2, <4>1
        <4>3. epochTargets[n + 1] = ChainTarget(tip, n)
          BY <4>2 DEF TargetsOf
        <4>4. n \in 0..n /\ tip \in Block /\ Ladder(tip)
          BY <1>1, <1>2, <2>3 DEF LInv
        <4>5. ChainTarget(b, n) = ChainTarget(tip, n)
          BY <2>3, <3>1, <4>4, TargetsExtend
        <4> QED
          BY <2>1, <3>4, <4>2, <4>3, <4>5
      <3> QED
        BY <3>3, <3>4
    <2> QED
      BY <2>2, <2>3
  <1>5. f[b] = gain
    <2>1. f[b] = ChainWorkOf(b, b)
      OBVIOUS
    <2> QED
      BY <1>3, <1>4, <2>1 DEF ChainWorkOf, EpochOf
  <1>6. \A a \in S : f[a] = g[a]
    <2>1. CASE tip = Zero
      BY <2>1, PathOf
    <2>2. CASE tip # Zero
      <3>1. tip \in Block /\ Ladder(tip) /\ tip \in S /\ Height[b] = Height[tip] + 1
        BY <1>1, <2>2 DEF LInv
      <3>2. ASSUME NEW a \in S PROVE ChainWorkOf(b, a) = ChainWorkOf(tip, a)
        <4>1. Height[a] \in Nat /\ Height[a] \in 0..Height[b]
          BY <1>1, <3>1, PathOf DEF Ladder
        <4>2. EpochOf(Height[a]) \in 0..n
          <5>1. EpochOf(Height[a]) \in Nat
            BY <4>1, EpochOfNext
          <5>2. EpochOf(Height[a]) <= n
            BY <1>1, <4>1, EpochBounds
          <5> QED
            BY <1>2, <5>1, <5>2
        <4>3. ChainTarget(b, EpochOf(Height[a])) = ChainTarget(tip, EpochOf(Height[a]))
          BY <3>1, <4>2, TargetsExtend
        <4> QED
          BY <4>3 DEF ChainWorkOf, EpochOf
      <3> QED
        BY <3>2
    <2> QED
      BY <2>1, <2>2
  <1>7. \A a \in S \cup {b} : f[a] \in Int
    <2>1. ASSUME NEW a \in S \cup {b} PROVE ChainWorkOf(b, a) \in Nat
      <3>1. Height[a] \in 0..Height[b] /\ a \in Block
        <4>1. CASE a = b
          BY <1>1, <4>1
        <4>2. CASE a # b
          <5>1. a \in S /\ tip \in blocks /\ Height[b] = Height[tip] + 1 /\ tip \in Block
            BY <1>1, <2>1, <4>2, PathOf
          <5>2. Height[a] <= Height[tip] /\ Height[a] \in Nat /\ Height[tip] \in Nat
            BY <1>1, <5>1, PathOf DEF LInv, Ladder
          <5> QED
            BY <1>1, <5>1, <5>2
        <4> QED
          BY <4>1, <4>2
      <3>2. EpochOf(Height[a]) <= n
        BY <1>1, <3>1, EpochBounds
      <3> QED
        BY <1>2, <3>1, <3>2, ChainWorkIs
    <2> QED
      BY <2>1
  <1> HIDE DEF f, g, n
  <1>8. SumFunctionOnSet(f, S \cup {b}) = SumFunctionOnSet(f, S) + f[b]
    <2>1. f[b] \in Int /\ \A a \in S : f[a] \in Int
      BY <1>7
    <2>2. IsFiniteSet(S) /\ b \notin S
      BY <1>1
    <2> HIDE DEF S, gain
    <2> QED
      BY <2>1, <2>2, SumAddElement
  <1>9. SumFunctionOnSet(f, S) = SumFunctionOnSet(g, S)
    BY <1>1, <1>6, SumSame
  <1>10. work'[b] = SumFunctionOnSet(g, S) + gain
    <2>1. CASE tip = Zero
      <3>1. S = {} /\ Parent[b] \notin blocks
        BY <2>1, PathOf
      <3>2. work'[b] = 0 + gain
        BY <3>1, Recorded
      <3> QED
        BY <3>1, <3>2, SumEmpty
    <2>2. CASE tip # Zero
      <3>1. work'[b] = work[tip] + gain
        BY <2>2, Recorded
      <3> QED
        BY <2>2, <3>1 DEF WorkOf, g
    <2> QED
      BY <2>1, <2>2
  <1>11. work'[b] = SumFunctionOnSet(f, Path[b])
    BY <1>1, <1>5, <1>8, <1>9, <1>10
  <1> QED
    BY <1>1, <1>11 DEF WorkOf, f

\* Every step keeps the targets and the work of the one chain.
LEMMA EpochNext ==
    ASSUME HeightZeroIsGenesis
    PROVE  TInv /\ SInv /\ LInv /\ WInv /\ AInv /\ EInv /\ [Next]_vars => EInv'
  <1> SUFFICES ASSUME TInv, SInv, LInv, WInv, AInv, EInv, [Next]_vars, OneChain'
               PROVE  TargetsOf(tip)' /\ (tip # Zero => WorkOf(tip))'
    BY DEF EInv
  <1>1. CASE UNCHANGED vars
    BY <1>1 DEF vars, OneChain, EInv, blocks, TargetsOf, WorkOf
  <1>2. CASE Next
    <2>1. PICK b \in Block : AcceptBlock(b) \/ AcceptBoundary(b) \/ AcceptPanics(b)
      BY <1>2 DEF Next, Restart, OneChain
    <2>2. Record(b) /\ ~restarted /\ blocks' = Path[tip']
      BY <2>1 DEF AcceptBlock, AcceptBoundary, AcceptPanics, OneChain
    <2>3. alive'
      BY <1>2, <2>2, AliveNext DEF AInv, OneChain
    <2>4. AcceptBlock(b) \/ AcceptBoundary(b)
      BY <2>1, <2>3 DEF AcceptPanics
    <2>5. /\ tip' = b /\ tip = Parent[b] /\ OneChain
          /\ b \notin blocks
          /\ tip = Zero => Height[b] = 0 /\ blocks = {}
          /\ tip # Zero => tip \in blocks /\ Height[b] = Height[tip] + 1
      BY <2>2, ExtendsOneChain
    <2>6. TargetsOf(tip) /\ (tip # Zero => WorkOf(tip))
      BY <2>5 DEF EInv
    <2>7. TargetsOf(tip)'
      BY <2>4, <2>5, <2>6, TargetsNext
    <2>8. WorkOf(tip)'
      BY <2>2, <2>5, <2>6, WorkAdds
    <2> QED
      BY <2>7, <2>8
  <1> QED
    BY <1>1, <1>2

\* All of it is kept by every step.
EpochIInv == TInv /\ SInv /\ AInv /\ LInv /\ WInv /\ EInv

\* The inductive invariant holds.
LEMMA EpochInvariant == HeightZeroIsGenesis => (Spec => []EpochIInv)
  <1> SUFFICES ASSUME HeightZeroIsGenesis PROVE Spec => []EpochIInv
    OBVIOUS
  <1>1. Init => EpochIInv
    BY TypeInit, SeedInit, AliveInit, LadderInit, WorkInit, EpochInit DEF EpochIInv
  <1>2. EpochIInv /\ [Next]_vars => EpochIInv'
    BY TypeNext, SeedNext, AliveNext, LadderNext, WorkNext, EpochNext DEF EpochIInv
  <1> QED
    BY <1>1, <1>2, PTL DEF Spec

\* On one chain the node's targets are the ones that the timestamps of the
\* chain give.
THEOREM TargetsCorrect == HeightZeroIsGenesis => (Spec => []TargetsFollowChain)
  <1>1. EpochIInv => TargetsFollowChain
    <2> SUFFICES ASSUME EpochIInv, OneChain, tip # Zero,
                        NEW e \in 0..(Height[tip] \div EpochBlocks)
                 PROVE  e < Len(epochTargets) /\ epochTargets[e + 1] = ChainTarget(tip, e)
      BY DEF TargetsFollowChain
    <2>1. TargetsOf(tip) /\ Height[tip] \in Nat
      BY PathOf DEF EpochIInv, EInv, TInv
    <2>2. EpochOf(Height[tip]) \in Nat /\ e \in 0..EpochOf(Height[tip])
      BY <2>1, EpochOfNext DEF EpochOf
    <2>3. Len(epochTargets) = EpochOf(Height[tip]) + 1
      BY <2>1 DEF TargetsOf
    <2>4. e \in 0..(Len(epochTargets) - 1) /\ e < Len(epochTargets)
      BY <2>2, <2>3
    <2> QED
      BY <2>1, <2>4 DEF TargetsOf
  <1> QED
    BY <1>1, EpochInvariant, PTL

\* On one chain the work of the tip is what the timestamps of the chain give.
THEOREM WorkCorrect == HeightZeroIsGenesis => (Spec => []WorkFollowsTimestamps)
  <1>1. EpochIInv => WorkFollowsTimestamps
    BY DEF EpochIInv, EInv, WorkOf, WorkFollowsTimestamps
  <1> QED
    BY <1>1, EpochInvariant, PTL

\* On one chain the targets of consecutive epochs are within a factor of four.
THEOREM SwingCorrect == HeightZeroIsGenesis => (Spec => []SwingIsLimited)
  <1>1. EpochIInv => SwingIsLimited
    <2> SUFFICES ASSUME EpochIInv, OneChain, NEW e \in 1..(Len(epochTargets) - 1)
                 PROVE  /\ epochTargets[e + 1] <= 4 * epochTargets[e]
                        /\ epochTargets[e] <= 4 * (epochTargets[e + 1] + 1)
      BY DEF SwingIsLimited
    <2>1. TInv /\ TargetsOf(tip) /\ Len(epochTargets) \in Nat
      BY DEF EpochIInv, EInv, TInv
    <2>2. tip # Zero /\ tip \in blocks /\ tip \in Block /\ Height[tip] \in Nat /\ Ladder(tip)
      <3> DEFINE len == Len(epochTargets)
      <3>1. len # 1
        <4>1. len \in Nat /\ e \in 1..(len - 1)
          BY <2>1
        <4> HIDE DEF len
        <4> QED
          BY <4>1
      <3> QED
        BY <2>1, <3>1, PathOf DEF TargetsOf, EpochIInv, LInv, TInv
    <2> DEFINE n == EpochOf(Height[tip])
    <2>3. n \in Nat /\ Len(epochTargets) = n + 1
      BY <2>1, <2>2, EpochOfNext DEF TargetsOf
    <2>4. e - 1 \in 0..(Len(epochTargets) - 1) /\ e \in 0..(Len(epochTargets) - 1)
          /\ (e - 1) + 1 = e /\ e - 1 \in 0..(n - 1) /\ e - 1 \in 0..n /\ e \in 1..n
      BY <2>3
    <2>5. epochTargets[e] = ChainTarget(tip, e - 1) /\ epochTargets[e + 1] = ChainTarget(tip, e)
      BY <2>1, <2>4 DEF TargetsOf
    <2>6. SpansOK(tip, n)
      BY <2>2, LadderSpans
    <2>7. /\ ChainTarget(tip, e) = Retargeted(ChainTarget(tip, e - 1), EpochSpan(tip, e))
          /\ ChainTarget(tip, e - 1) \in Target
      <3>1. \A k \in 0..(n - 1) :
                ChainTarget(tip, k + 1) = Retargeted(ChainTarget(tip, k), EpochSpan(tip, k + 1))
        BY <2>3, <2>6, ChainTargetIs
      <3> QED
        BY <2>3, <2>4, <2>6, <3>1, ChainTargetIs
    <2>8. EpochSpan(tip, e) \in Int
      BY <2>4, <2>6 DEF SpansOK
    <2> QED
      BY <2>5, <2>7, <2>8, RetargetedSwing DEF Target
  <1> QED
    BY <1>1, EpochInvariant, PTL
=============================================================================
