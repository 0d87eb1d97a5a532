-------------------------- MODULE ByteNumberProofs --------------------------
(***************************************************************************)
(* What is proved about ByteNumbers, for bytes of any width and numbers of *)
(* any number of bytes: Digits and Number are inverse to each other.       *)
(*                                                                         *)
(* Weight and Number are recursive functions.  That there are such         *)
(* functions, and what they yield, is proved by induction over a set of    *)
(* numbers (Induction), which follows from the order of the numbers being  *)
(* well founded.                                                           *)
(***************************************************************************)
EXTENDS ByteNumbers, Integers, SequenceTheorems, WellFoundedInduction, TLAPS

-----------------------------------------------------------------------------
(* Induction and recursion over the natural numbers                        *)

Below == {pair \in Nat \X Nat : pair[1] < pair[2]}

LEMMA BelowWellFounded == IsWellFoundedOn(Below, Nat)
  BY NatLessThanWellFounded DEF OpToRel, Below

\* A set of numbers that is not empty has a least one.
LEMMA LeastNumber ==
  ASSUME NEW T, T \subseteq Nat, T # {}
  PROVE  \E n \in T : \A m \in T : n <= m
<1>1. PICK n \in T : \A m \in T : ~ (<<m, n>> \in Below)
  BY BelowWellFounded, WFMin
<1>2. \A m \in T : <<m, n>> \in Nat \X Nat
  OBVIOUS
<1>3. \A m \in T : ~(m < n)
  BY <1>1, <1>2 DEF Below
<1>4. QED
  BY <1>3

\* A set of numbers that has 0, and with a number the next, has all of them.
LEMMA Induction ==
  ASSUME NEW T, T \subseteq Nat, 0 \in T, \A n \in T : n + 1 \in T
  PROVE  T = Nat
<1> SUFFICES ASSUME Nat \ T # {} PROVE FALSE
  OBVIOUS
<1>1. PICK n \in Nat \ T : \A m \in Nat \ T : n <= m
  BY LeastNumber
<1>2. n # 0
  OBVIOUS
<1>3. n - 1 \in Nat /\ n - 1 \notin Nat \ T
  BY <1>1, <1>2
<1>4. (n - 1) + 1 \in T
  BY <1>3
<1>5. (n - 1) + 1 = n
  OBVIOUS
<1>6. QED
  BY <1>4, <1>5

\* f starts with base, and each value up to the n-th follows from the one before.
Recurs(f, n, base, step) ==
  /\ f[0] = base
  /\ \A i \in Nat : i < n => f[i + 1] = step[<<i, f[i]>>]

Steps(V) == [Nat \X V -> V]

Recursive(V, base, step) ==
  \E f \in [Nat -> V] : f[0] = base /\ \A i \in Nat : f[i + 1] = step[<<i, f[i]>>]

\* There is a function that does so at all numbers, whatever the step.
LEMMA Recursion == \A V : \A base \in V : \A step \in Steps(V) : Recursive(V, base, step)
<1> SUFFICES ASSUME NEW V, NEW base \in V, NEW step \in [Nat \X V -> V]
             PROVE  Recursive(V, base, step)
  BY DEF Steps
<1> DEFINE T == {n \in Nat : \E f \in [Nat -> V] : Recurs(f, n, base, step)}
<1>1. T = Nat
  <2>1. 0 \in T
    <3>1. [i \in Nat |-> base] \in [Nat -> V]
      OBVIOUS
    <3>2. Recurs([i \in Nat |-> base], 0, base, step)
      BY DEF Recurs
    <3>3. QED
      BY <3>1, <3>2
  <2>2. ASSUME NEW n \in T PROVE n + 1 \in T
    <3>1. n \in Nat
      OBVIOUS
    <3>2. PICK f \in [Nat -> V] : Recurs(f, n, base, step)
      OBVIOUS
    <3> DEFINE next == step[<<n, f[n]>>]
               g == [i \in Nat |-> IF i = n + 1 THEN next ELSE f[i]]
    <3>3. next \in V
      <4>1. <<n, f[n]>> \in Nat \X V
        BY <3>1
      <4>2. QED
        BY <4>1
    <3>4. g \in [Nat -> V]
      BY <3>3
    <3>5. g[0] = base
      BY <3>1, <3>2 DEF Recurs
    <3>6. ASSUME NEW i \in Nat, i < n + 1 PROVE g[i + 1] = step[<<i, g[i]>>]
      <4>1. g[i] = f[i]
        BY <3>1, <3>6
      <4>2. CASE i = n
        BY <4>1, <4>2
      <4>3. CASE i < n
        BY <3>1, <3>2, <4>1, <4>3 DEF Recurs
      <4>4. QED
        BY <3>1, <3>6, <4>2, <4>3
    <3>7. Recurs(g, n + 1, base, step)
      BY <3>5, <3>6 DEF Recurs
    <3> HIDE DEF g
    <3>8. QED
      BY <3>1, <3>4, <3>7
  <2> HIDE DEF T
  <2>3. QED
    <3>1. T \subseteq Nat
      BY DEF T
    <3>2. QED
      BY <2>1, <2>2, <3>1, Induction
\* Where two of them recur they agree, so their ends make one function.
<1>2. ASSUME NEW f, NEW g, NEW n \in Nat, NEW m \in Nat, n <= m,
             Recurs(f, n, base, step), Recurs(g, m, base, step)
      PROVE  f[n] = g[n]
  <2> DEFINE A == {i \in Nat : i <= n => f[i] = g[i]}
  <2>1. 0 \in A
    BY <1>2 DEF Recurs
  <2>2. ASSUME NEW i \in A PROVE i + 1 \in A
    <3>1. SUFFICES ASSUME i + 1 <= n PROVE f[i + 1] = g[i + 1]
      OBVIOUS
    <3>2. i \in Nat /\ i < n /\ i < m /\ f[i] = g[i]
      BY <1>2, <3>1
    <3>3. f[i + 1] = step[<<i, f[i]>>] /\ g[i + 1] = step[<<i, g[i]>>]
      BY <1>2, <3>2 DEF Recurs
    <3>4. QED
      BY <3>2, <3>3
  <2>3. A = Nat
    <3> A \subseteq Nat
      OBVIOUS
    <3> HIDE DEF A
    <3> QED
      BY <2>1, <2>2, Induction
  <2>4. QED
    BY <2>3
<1> DEFINE some(n) == CHOOSE f \in [Nat -> V] : Recurs(f, n, base, step)
           f == [n \in Nat |-> some(n)[n]]
<1>3. \A n \in Nat : some(n) \in [Nat -> V] /\ Recurs(some(n), n, base, step)
  BY <1>1
<1> HIDE DEF some, T
<1>4. f \in [Nat -> V]
  BY <1>3
<1>5. f[0] = base
  BY <1>3 DEF Recurs
<1>6. ASSUME NEW i \in Nat PROVE f[i + 1] = step[<<i, f[i]>>]
  <2>1. some(i + 1)[i + 1] = step[<<i, some(i + 1)[i]>>]
    BY <1>3 DEF Recurs
  <2>2. some(i)[i] = some(i + 1)[i]
    BY <1>2, <1>3
  <2>3. QED
    BY <2>1, <2>2
<1>7. QED
  BY <1>4, <1>5, <1>6 DEF Recursive

-----------------------------------------------------------------------------
(* Weight and Number are what their definitions say                        *)

\* The values of Weight.
LEMMA WeightValues ==
  ASSUME ByteMod \in Nat
  PROVE  /\ Weight \in [Nat -> Nat]
         /\ Weight[0] = 1
         /\ \A k \in Nat : Weight[k + 1] = ByteMod * Weight[k]
<1> DEFINE step == [pair \in Nat \X Nat |-> ByteMod * pair[2]]
           Defines(f) == f = [k \in Nat |-> IF k = 0 THEN 1 ELSE ByteMod * f[k - 1]]
<1>1. step \in [Nat \X Nat -> Nat]
  <2>1. \A pair \in Nat \X Nat : ByteMod * pair[2] \in Nat
    OBVIOUS
  <2>2. QED
    BY <2>1
<1>2. \A i, n \in Nat : step[<<i, n>>] = ByteMod * n
  OBVIOUS
<1> HIDE DEF step
<1>3. PICK f \in [Nat -> Nat] : f[0] = 1 /\ \A i \in Nat : f[i + 1] = step[<<i, f[i]>>]
  <2>1. ASSUME NEW base \in Nat
        PROVE  \E f \in [Nat -> Nat] :
                 f[0] = base /\ \A i \in Nat : f[i + 1] = step[<<i, f[i]>>]
    <3>1. step \in Steps(Nat)
      BY <1>1 DEF Steps
    <3>2. Recursive(Nat, base, step)
      BY <3>1, Recursion
    <3>3. QED
      BY <3>2 DEF Recursive
  <2>2. QED
    BY <2>1
<1>4. \A i \in Nat : f[i + 1] = ByteMod * f[i]
  BY <1>2, <1>3
<1>5. Defines(f)
  <2>1. ASSUME NEW k \in Nat PROVE f[k] = IF k = 0 THEN 1 ELSE ByteMod * f[k - 1]
    <3>1. CASE k = 0
      BY <1>3, <3>1
    <3>2. CASE k # 0
      <4>1. k - 1 \in Nat /\ (k - 1) + 1 = k
        BY <3>2
      <4>2. f[(k - 1) + 1] = ByteMod * f[k - 1]
        BY <1>4, <4>1
      <4>3. QED
        BY <3>2, <4>1, <4>2
    <3>3. QED
      BY <3>1, <3>2
  <2>2. QED
    BY <1>3, <2>1
<1>6. Defines(Weight)
  <2>1. Weight = CHOOSE g : Defines(g)
    BY DEF Weight
  <2>2. QED
    BY <1>5, <2>1
<1>7. Weight[0] = 1 /\ \A k \in Nat : Weight[k + 1] = ByteMod * Weight[k]
  BY <1>6
<1>8. Weight \in [Nat -> Nat]
  <2> DEFINE T == {k \in Nat : Weight[k] \in Nat}
  <2>1. 0 \in T
    BY <1>7
  <2>2. ASSUME NEW k \in T PROVE k + 1 \in T
    BY <1>7
  <2>3. T = Nat
    <3>1. T \subseteq Nat
      OBVIOUS
    <3> HIDE DEF T
    <3>2. QED
      BY <2>1, <2>2, <3>1, Induction
  <2>4. \A k \in Nat : Weight[k] \in Nat
    BY <2>3
  <2>5. QED
    BY <1>6, <2>4
<1>9. QED
  BY <1>7, <1>8

\* f sums up the bytes, one more at each index.
SumsUp(f, bytes) ==
  /\ f \in [0..Len(bytes) -> Nat]
  /\ f[0] = 0
  /\ \A i \in 1..Len(bytes) : f[i] = f[i - 1] * ByteMod + bytes[i]

\* The value of Number.
LEMMA NumberValue ==
  ASSUME ByteMod \in Nat, NEW bytes \in Bytes
  PROVE  \E f : SumsUp(f, bytes) /\ Number(bytes) = f[Len(bytes)]
<1> DEFINE L == Len(bytes)
           byte(i) == IF i \in 1..L THEN bytes[i] ELSE 0
           step == [pair \in Nat \X Nat |-> pair[2] * ByteMod + byte(pair[1] + 1)]
           Defines(f) == f = [i \in 0..L |-> IF i = 0 THEN 0 ELSE f[i - 1] * ByteMod + bytes[i]]
<1>1. L \in Nat /\ \A i \in 1..L : bytes[i] \in Nat
  BY DEF Bytes, Byte
<1>2. \A i \in Nat : byte(i) \in Nat
  BY <1>1
<1>3. \A i \in 1..L : byte(i) = bytes[i]
  OBVIOUS
<1> HIDE DEF byte, L
<1>4. step \in Steps(Nat)
  <2>1. ASSUME NEW pair \in Nat \X Nat PROVE pair[2] * ByteMod + byte(pair[1] + 1) \in Nat
    <3>1. pair[1] + 1 \in Nat /\ pair[2] \in Nat
      OBVIOUS
    <3>2. byte(pair[1] + 1) \in Nat
      BY <1>2, <3>1
    <3>3. QED
      BY <3>1, <3>2
  <2>2. QED
    BY <2>1 DEF Steps
<1>5. \A i, n \in Nat : step[<<i, n>>] = n * ByteMod + byte(i + 1)
  OBVIOUS
<1> HIDE DEF step
<1>6. Recursive(Nat, 0, step)
  <2>1. \A base \in Nat : Recursive(Nat, base, step)
    BY <1>4, Recursion
  <2>2. QED
    BY <2>1
<1>7. PICK f \in [Nat -> Nat] : f[0] = 0 /\ \A i \in Nat : f[i + 1] = step[<<i, f[i]>>]
  BY <1>6 DEF Recursive
<1>8. \A i \in Nat : f[i + 1] = f[i] * ByteMod + byte(i + 1)
  BY <1>5, <1>7
<1> DEFINE g == [i \in 0..L |-> f[i]]
<1>9. \A i \in 1..L : g[i] = g[i - 1] * ByteMod + bytes[i]
  <2> TAKE i \in 1..L
  <2>1. i - 1 \in Nat /\ (i - 1) + 1 = i /\ i \in 0..L /\ i - 1 \in 0..L
    BY <1>1
  <2>2. f[(i - 1) + 1] = f[i - 1] * ByteMod + byte((i - 1) + 1)
    BY <1>8, <2>1
  <2>3. f[i] = f[i - 1] * ByteMod + byte(i)
    BY <2>1, <2>2
  <2>4. QED
    BY <1>3, <2>1, <2>3
<1>10. g[0] = 0 /\ g \in [0..L -> Nat]
  BY <1>1, <1>7
<1>11. Defines(g)
  <2> HIDE DEF g
  <2>1. \A i \in 0..L : g[i] = IF i = 0 THEN 0 ELSE g[i - 1] * ByteMod + bytes[i]
    BY <1>9, <1>10
  <2>2. QED
    BY <1>10, <2>1
<1> HIDE DEF g
<1> DEFINE chosen == CHOOSE h : Defines(h)
<1>12. Defines(chosen)
  BY <1>11
<1>13. Number(bytes) = chosen[L]
  BY DEF Number, L
<1> HIDE DEF chosen
<1>14. chosen[0] = 0 /\ \A i \in 1..L : chosen[i] = chosen[i - 1] * ByteMod + bytes[i]
  <2>1. \A i \in 0..L :
          chosen[i] = IF i = 0 THEN 0 ELSE chosen[i - 1] * ByteMod + bytes[i]
    BY <1>12
  <2>2. 0 \in 0..L /\ \A i \in 1..L : i \in 0..L /\ i # 0
    BY <1>1
  <2> HIDE DEF Defines
  <2>3. QED
    BY <2>1, <2>2
<1>15. DOMAIN chosen = 0..L /\ chosen = [i \in 0..L |-> chosen[i]]
  BY <1>12
<1>16. \A i \in 0..L : chosen[i] \in Nat
  <2> DEFINE T == {i \in Nat : i <= L => chosen[i] \in Nat}
  <2>1. 0 \in T
    BY <1>14
  <2>2. ASSUME NEW i \in T PROVE i + 1 \in T
    <3>1. SUFFICES ASSUME i + 1 <= L PROVE chosen[i + 1] \in Nat
      OBVIOUS
    <3>2. i \in Nat /\ i + 1 \in 1..L /\ chosen[i] \in Nat
      BY <1>1, <3>1
    <3>3. chosen[i + 1] = chosen[i] * ByteMod + bytes[i + 1]
      BY <1>14, <3>2
    <3>4. QED
      BY <1>1, <3>2, <3>3
  <2>3. T = Nat
    <3>1. T \subseteq Nat
      OBVIOUS
    <3> HIDE DEF T
    <3>2. QED
      BY <2>1, <2>2, <3>1, Induction
  <2>4. QED
    BY <1>1, <2>3
<1>17. chosen \in [0..L -> Nat]
  BY <1>15, <1>16
<1>18. SumsUp(chosen, bytes)
  BY <1>14, <1>17 DEF SumsUp, L
<1>19. QED
  BY <1>13, <1>18 DEF L

-----------------------------------------------------------------------------
(* Quotients and remainders                                                *)

\* Quotient and remainder of a divisor that is no literal.
LEMMA Division ==
  ASSUME NEW n \in Int, NEW m \in Nat \ {0}
  PROVE  /\ n \div m \in Int
         /\ n % m \in 0..m - 1
         /\ n = m * (n \div m) + (n % m)
BY Z3

\* A product is at least as large as its factor is large.
LEMMA ProductGrows ==
  ASSUME NEW x \in Int, NEW y \in Int, x <= y, NEW m \in Nat
  PROVE  m * x <= m * y
<1>1. m * (y - x) >= 0
  BY Z3
<1>2. QED
  BY <1>1, Z3

\* There is one quotient and one remainder.
LEMMA DivisionUnique ==
  ASSUME NEW n \in Int, NEW m \in Nat \ {0}, NEW k \in Int, NEW d \in 0..m - 1,
         n = m * k + d
  PROVE  n \div m = k /\ n % m = d
<1> DEFINE q == n \div m
           r == n % m
<1>1. q \in Int /\ r \in 0..m - 1 /\ n = m * q + r
  BY Division
<1> HIDE DEF q, r
<1>2. d - r = m * (q - k)
  BY <1>1, Z3
<1>3. CASE q - k >= 1
  <2>1. m * 1 <= m * (q - k)
    BY <1>1, <1>3, ProductGrows
  <2>2. QED
    BY <2>1, <1>1, <1>2, Z3
<1>4. CASE q - k <= -1
  <2>1. m * (q - k) <= m * (-1)
    BY <1>1, <1>4, ProductGrows
  <2>2. QED
    BY <2>1, <1>1, <1>2, Z3
<1>5. CASE q - k = 0
  BY <1>1, <1>2, <1>5, Z3 DEF q, r
<1>6. QED
  BY <1>1, <1>3, <1>4, <1>5, Z3

\* Numbers that are not negative have quotients that are not negative.
LEMMA QuotientNat ==
  ASSUME NEW n \in Nat, NEW m \in Nat \ {0}
  PROVE  n \div m \in Nat
<1> DEFINE q == n \div m
<1>1. q \in Int /\ n % m \in 0..m - 1 /\ n = m * q + (n % m)
  BY Division
<1> HIDE DEF q
<1>2. CASE q <= -1
  <2>1. m * q <= m * (-1)
    BY <1>1, <1>2, ProductGrows
  <2>2. QED
    BY <2>1, <1>1, Z3
<1>3. q \in Nat
  BY <1>1, <1>2
<1>4. QED
  BY <1>3 DEF q

\* Dividing by one number and then by another is dividing by their product.
LEMMA DivideTwice ==
  ASSUME NEW n \in Nat, NEW w \in Nat \ {0}, NEW b \in Nat \ {0}
  PROVE  n \div (b * w) = (n \div w) \div b
<1> DEFINE q == n \div w
           r == n % w
           p == q \div b
           s == q % b
<1>1. q \in Int /\ r \in 0..w - 1 /\ n = w * q + r
  BY Division
<1> HIDE DEF q, r
<1>2. p \in Int /\ s \in 0..b - 1 /\ q = b * p + s
  BY <1>1, Division
<1> HIDE DEF p, s
<1>3. b * w \in Nat \ {0}
  BY Z3
<1>4. n = (b * w) * p + (w * s + r)
  BY <1>1, <1>2, Z3
<1>5. w * s + r \in 0..b * w - 1
  <2>1. w * 0 <= w * s /\ w * s <= w * (b - 1)
    BY <1>2, ProductGrows
  <2>2. w * (b - 1) = b * w - w
    BY Z3
  <2>3. QED
    BY <1>1, <1>2, <1>3, <2>1, <2>2, Z3
<1>6. n \div (b * w) = p
  BY <1>2, <1>3, <1>4, <1>5, DivisionUnique
<1>7. QED
  BY <1>6 DEF p, q

-----------------------------------------------------------------------------
(* Digits and Number                                                       *)

\* The lowest byte of a number, and those above it.
LEMMA UpperAndLowest ==
  ASSUME ByteMod \in Nat \ {0}
  PROVE  \A n, upper \in Nat : \A lowest \in 0..ByteMod - 1 :
           n = ByteMod * upper + lowest => n \div ByteMod = upper /\ n % ByteMod = lowest
<1> TAKE n, upper \in Nat
<1> TAKE lowest \in 0..ByteMod - 1
<1> HAVE n = ByteMod * upper + lowest
<1>1. n \in Int /\ upper \in Int
  OBVIOUS
<1>2. QED
  BY <1>1, DivisionUnique

\* No weight is nothing.
LEMMA WeightPositive ==
  ASSUME ByteMod \in Nat \ {0}
  PROVE  \A k \in Nat : Weight[k] \in Nat \ {0}
<1> DEFINE T == {k \in Nat : Weight[k] # 0}
<1>1. 0 \in T
  BY WeightValues
<1>2. ASSUME NEW k \in T PROVE k + 1 \in T
  <2>1. Weight[k] \in Nat /\ Weight[k + 1] = ByteMod * Weight[k]
    BY WeightValues
  <2>2. ByteMod * Weight[k] # 0
    BY <2>1, Z3
  <2>3. QED
    BY <2>1, <2>2
<1>3. T = Nat
  <2>1. T \subseteq Nat
    OBVIOUS
  <2> HIDE DEF T
  <2>2. QED
    BY <1>1, <1>2, <2>1, Induction
<1>4. QED
  BY <1>3, WeightValues

\* Digits are bytes, as many as are asked for.
LEMMA DigitsType ==
  ASSUME ByteMod \in Nat \ {0}, NEW n \in Nat, NEW size \in Nat
  PROVE  Digits(n, size) \in Bytes /\ Len(Digits(n, size)) = size
<1> DEFINE digit(i) == (n \div Weight[size - i]) % ByteMod
<1>1. \A i \in 1..size : digit(i) \in Byte
  <2> TAKE i \in 1..size
  <2>1. Weight[size - i] \in Nat \ {0}
    BY WeightPositive
  <2>2. n \div Weight[size - i] \in Nat
    BY <2>1, QuotientNat
  <2> DEFINE q == n \div Weight[size - i]
  <2>3. q \in Int
    BY <2>2
  <2> HIDE DEF q
  <2>4. q % ByteMod \in 0..ByteMod - 1
    BY <2>3, Division
  <2>5. QED
    BY <2>4 DEF q, Byte
<1> HIDE DEF digit
<1>2. [i \in 1..size |-> digit(i)] \in Seq(Byte) /\ Len([i \in 1..size |-> digit(i)]) = size
  BY <1>1
<1>3. QED
  BY <1>2 DEF Digits, Bytes, digit

\* The first bytes make what is left when the weight of the others is divided off.
LEMMA HighBytes ==
  ASSUME ByteMod \in Nat \ {0}, NEW bytes \in Bytes, NEW f, SumsUp(f, bytes),
         NEW k \in 0..Len(bytes)
  PROVE  f[Len(bytes)] \div Weight[k] = f[Len(bytes) - k]
<1> DEFINE L == Len(bytes)
           T == {i \in Nat : i <= L => f[L] \div Weight[i] = f[L - i]}
<1>1. L \in Nat /\ \A i \in 1..L : bytes[i] \in 0..ByteMod - 1
  BY DEF Bytes, Byte
<1>2. /\ \A i \in 0..L : f[i] \in Nat
      /\ \A i \in 1..L : f[i] = f[i - 1] * ByteMod + bytes[i]
  BY DEF SumsUp
<1> HIDE DEF L
<1>3. 0 \in T
  <2>1. f[L] \in Int /\ f[L] = 1 * f[L] + 0 /\ f[L - 0] = f[L]
    BY <1>1, <1>2
  <2>2. f[L] \div 1 = f[L]
    BY <2>1, DivisionUnique
  <2>3. QED
    BY <2>1, <2>2, WeightValues
<1>4. ASSUME NEW i \in T PROVE i + 1 \in T
  <2>1. SUFFICES ASSUME i + 1 <= L PROVE f[L] \div Weight[i + 1] = f[L - (i + 1)]
    OBVIOUS
  <2>2. i \in Nat /\ f[L] \div Weight[i] = f[L - i]
    BY <1>1, <2>1
  <2> DEFINE j == L - i
  <2>3. j \in 1..L /\ j - 1 \in 0..L /\ L - (i + 1) = j - 1
    BY <1>1, <2>1, <2>2
  <2> HIDE DEF j
  <2>4. f[j] = f[j - 1] * ByteMod + bytes[j] /\ f[j] \in Nat /\ f[j - 1] \in Nat
        /\ bytes[j] \in 0..ByteMod - 1
    BY <1>1, <1>2, <2>3
  <2>5. f[j] \div ByteMod = f[j - 1]
    <3>1. f[j] = ByteMod * f[j - 1] + bytes[j]
      BY <2>4, Z3
    <3>2. QED
      BY <2>4, <3>1, UpperAndLowest
  <2>6. Weight[i + 1] = ByteMod * Weight[i] /\ Weight[i] \in Nat \ {0}
    BY <2>2, WeightValues, WeightPositive
  <2>7. f[L] \div (ByteMod * Weight[i]) = (f[L] \div Weight[i]) \div ByteMod
    <3>1. f[L] \in Nat
      BY <1>1, <1>2
    <3>2. QED
      BY <2>6, <3>1, DivideTwice
  <2>8. f[L] \div Weight[i] = f[j]
    BY <2>2 DEF j
  <2>9. QED
    BY <2>3, <2>5, <2>6, <2>7, <2>8
<1>5. T = Nat
  <2>1. T \subseteq Nat
    OBVIOUS
  <2> HIDE DEF T
  <2>2. QED
    BY <1>3, <1>4, <2>1, Induction
<1>6. k \in Nat /\ k <= L
  BY <1>1 DEF L
<1>7. f[L] \div Weight[k] = f[L - k]
  BY <1>5, <1>6
<1>8. QED
  BY <1>7 DEF L

\* A number of so many bytes has them as its digits: what was read is what would be
\* written.  (ReverseEndianness, read and write.)
THEOREM DigitsOfNumber ==
  ASSUME ByteMod \in Nat \ {0}, NEW bytes \in Bytes
  PROVE  /\ Number(bytes) \in Nat
         /\ Number(bytes) < Weight[Len(bytes)]
         /\ Digits(Number(bytes), Len(bytes)) = bytes
<1> DEFINE L == Len(bytes)
<1>1. PICK f : SumsUp(f, bytes) /\ Number(bytes) = f[L]
  BY NumberValue
<1>2. L \in Nat /\ \A i \in 1..L : bytes[i] \in 0..ByteMod - 1
  BY DEF Bytes, Byte
<1>3. /\ \A i \in 0..L : f[i] \in Nat
      /\ \A i \in 1..L : f[i] = f[i - 1] * ByteMod + bytes[i]
      /\ f[0] = 0
  BY <1>1 DEF SumsUp
<1>4. \A k \in 0..L : f[L] \div Weight[k] = f[L - k]
  BY <1>1, HighBytes
<1>5. bytes = [i \in 1..L |-> bytes[i]]
  BY DEF Bytes
<1> HIDE DEF L
<1>6. Number(bytes) \in Nat
  BY <1>1, <1>2, <1>3
<1>7. Number(bytes) < Weight[L]
  <2> DEFINE w == Weight[L]
  <2>1. w \in Nat \ {0}
    BY <1>2, WeightPositive
  <2>2. f[L] \div w = 0
    BY <1>2, <1>3, <1>4
  <2>3. f[L] \in Int
    BY <1>2, <1>3
  <2> HIDE DEF w
  <2>4. f[L] = w * (f[L] \div w) + (f[L] % w) /\ f[L] % w \in 0..w - 1
    BY <2>1, <2>3, Division
  <2>5. QED
    BY <1>1, <2>1, <2>2, <2>3, <2>4 DEF w
<1>8. \A i \in 1..L : (f[L] \div Weight[L - i]) % ByteMod = bytes[i]
  <2> TAKE i \in 1..L
  <2>1. L - i \in 0..L /\ L - (L - i) = i /\ i \in 0..L /\ i - 1 \in 0..L
    BY <1>2
  <2>2. f[L] \div Weight[L - i] = f[i]
    BY <1>4, <2>1
  <2>3. /\ f[i] \in Nat /\ f[i - 1] \in Nat /\ bytes[i] \in 0..ByteMod - 1
        /\ f[i] = f[i - 1] * ByteMod + bytes[i]
    BY <1>2, <1>3, <2>1
  <2>4. f[i] = ByteMod * f[i - 1] + bytes[i]
    BY <2>3, Z3
  <2>5. f[i] % ByteMod = bytes[i]
    BY <2>3, <2>4, UpperAndLowest
  <2>6. QED
    BY <2>2, <2>5
<1>9. Digits(Number(bytes), L) = [i \in 1..L |-> bytes[i]]
  BY <1>1, <1>8 DEF Digits
<1>10. QED
  BY <1>5, <1>6, <1>7, <1>9 DEF L

\* A number that so many bytes have room for is read as what was written.
THEOREM NumberOfDigits ==
  ASSUME ByteMod \in Nat \ {0}, NEW size \in Nat, NEW n \in 0..Weight[size] - 1
  PROVE  Number(Digits(n, size)) = n
<1> DEFINE bytes == Digits(n, size)
<1>1. \A k \in Nat : Weight[k] \in Nat \ {0} /\ Weight[k + 1] = ByteMod * Weight[k]
  BY WeightPositive, WeightValues
<1>2. n \in Nat /\ n < Weight[size]
  BY <1>1
<1>3. bytes \in Bytes /\ Len(bytes) = size
  BY <1>2, DigitsType
<1>4. \A i \in 1..size : bytes[i] = (n \div Weight[size - i]) % ByteMod
  BY DEF Digits
<1> HIDE DEF bytes
<1>5. PICK f : SumsUp(f, bytes) /\ Number(bytes) = f[size]
  BY <1>3, NumberValue
<1>6. f[0] = 0 /\ \A i \in 1..size : f[i] = f[i - 1] * ByteMod + bytes[i]
  BY <1>3, <1>5 DEF SumsUp
<1> DEFINE T == {i \in Nat : i <= size => f[i] = n \div Weight[size - i]}
<1>7. 0 \in T
  <2> DEFINE w == Weight[size]
  <2>1. w \in Nat \ {0} /\ n \in 0..w - 1
    BY <1>1, <1>2
  <2> HIDE DEF w
  <2>2. n \div w = 0
    <3>1. ASSUME NEW none \in Int, none = 0 PROVE n \div w = none
      <4>1. n = w * none + n /\ n \in Int
        BY <2>1, <3>1, Z3
      <4>2. QED
        BY <2>1, <4>1, DivisionUnique
    <3>2. QED
      BY <3>1
  <2>3. size - 0 = size
    OBVIOUS
  <2>4. QED
    BY <1>6, <2>2, <2>3 DEF w
<1>8. ASSUME NEW i \in T PROVE i + 1 \in T
  <2>1. SUFFICES ASSUME i + 1 <= size PROVE f[i + 1] = n \div Weight[size - (i + 1)]
    OBVIOUS
  <2> DEFINE k == size - (i + 1)
             q == n \div Weight[k]
  <2>2. /\ i \in Nat /\ k \in Nat /\ k + 1 = size - i /\ (i + 1) - 1 = i
        /\ i + 1 \in 1..size
    BY <2>1
  <2>3. f[i] = n \div Weight[k + 1]
    BY <2>1, <2>2
  <2>4. f[i + 1] = f[i] * ByteMod + bytes[i + 1]
    BY <1>6, <2>2
  <2>5. bytes[i + 1] = q % ByteMod
    BY <1>4, <2>2
  <2> HIDE DEF k
  <2>6. q \in Nat
    BY <1>1, <1>2, <2>2, QuotientNat
  <2>7. n \div (ByteMod * Weight[k]) = q \div ByteMod
    BY <1>1, <1>2, <2>2, DivideTwice
  <2>8. f[i] = q \div ByteMod
    BY <1>1, <2>2, <2>3, <2>7
  <2> HIDE DEF q
  <2>9. q = ByteMod * (q \div ByteMod) + (q % ByteMod) /\ q \div ByteMod \in Int
    BY <2>6, Division
  <2>10. ByteMod * (q \div ByteMod) = (q \div ByteMod) * ByteMod
    BY <2>9, Z3
  <2>11. f[i + 1] = q
    BY <2>4, <2>5, <2>8, <2>9, <2>10
  <2>12. QED
    BY <2>11 DEF q, k
<1>9. T = Nat
  <2>1. T \subseteq Nat
    OBVIOUS
  <2> HIDE DEF T
  <2>2. QED
    BY <1>7, <1>8, <2>1, Induction
<1>10. f[size] = n \div Weight[size - size]
  BY <1>9
<1>11. size - size = 0 /\ Weight[0] = 1
  BY WeightValues
<1>12. n \div 1 = n
  <2>1. n = 1 * n + 0
    BY <1>2
  <2>2. QED
    BY <1>2, <2>1, DivisionUnique
<1>13. QED
  BY <1>5, <1>10, <1>11, <1>12 DEF bytes

-----------------------------------------------------------------------------
(* Parts of a sequence of bytes                                            *)

\* The n bytes that from others are in front of.
Part(s, from, n) == SubSeq(s, from + 1, from + n)

\* \o by another name, about which only the lemmas say anything.
Cat(s, t) == s \o t

Begins(s, t) == Len(s) <= Len(t) /\ \A i \in 1..Len(s) : t[i] = s[i]

LEMMA BytesType ==
  ASSUME NEW s \in Bytes
  PROVE  /\ s \in Seq(Byte) /\ Len(s) \in Nat /\ DOMAIN s = 1..Len(s)
         /\ \A i \in 1..Len(s) : s[i] \in Byte
BY DEF Bytes

LEMMA BytesEqual ==
  ASSUME NEW s \in Bytes, NEW t \in Bytes, Len(s) = Len(t),
         \A i \in 1..Len(s) : s[i] = t[i]
  PROVE  s = t
BY SeqEqual DEF Bytes

LEMMA PartType ==
  ASSUME NEW s \in Bytes, NEW from \in Nat, NEW n \in Nat, from + n <= Len(s)
  PROVE  /\ Part(s, from, n) \in Bytes
         /\ Len(Part(s, from, n)) = n
         /\ \A i \in 1..n : Part(s, from, n)[i] = s[from + i]
<1> DEFINE a == from + 1
           b == from + n
<1>1. a \in Int /\ b \in Int /\ \A i \in a..b : s[i] \in Byte
  BY BytesType
<1>2. b - a + 1 = n /\ (IF a <= b THEN b - a + 1 ELSE 0) = n
  OBVIOUS
<1>3. \A i \in 1..n : a + i - 1 = from + i
  OBVIOUS
<1> HIDE DEF a, b
<1>4. /\ SubSeq(s, a, b) \in Seq(Byte)
      /\ Len(SubSeq(s, a, b)) = IF a <= b THEN b - a + 1 ELSE 0
      /\ \A i \in 1..b - a + 1 : SubSeq(s, a, b)[i] = s[a + i - 1]
  BY <1>1, SubSeqProperties
<1>5. Part(s, from, n) = SubSeq(s, a, b)
  BY DEF Part, a, b
<1>6. QED
  BY <1>2, <1>3, <1>4, <1>5 DEF Bytes

LEMMA CatType ==
  ASSUME NEW s \in Bytes, NEW t \in Bytes
  PROVE  /\ Cat(s, t) \in Bytes
         /\ Len(Cat(s, t)) = Len(s) + Len(t)
         /\ \A i \in 1..Len(s) : Cat(s, t)[i] = s[i]
         /\ \A i \in 1..Len(t) : Cat(s, t)[Len(s) + i] = t[i]
<1>1. Len(s) \in Nat /\ Len(t) \in Nat
  BY BytesType
<1>2. /\ s \o t \in Seq(Byte)
      /\ Len(s \o t) = Len(s) + Len(t)
      /\ \A i \in 1..Len(s) + Len(t) :
           (s \o t)[i] = IF i <= Len(s) THEN s[i] ELSE t[i - Len(s)]
  BY ConcatProperties DEF Bytes
<1>3. ASSUME NEW i \in 1..Len(t) PROVE (s \o t)[Len(s) + i] = t[i]
  <2>1. Len(s) + i \in 1..Len(s) + Len(t) /\ ~(Len(s) + i <= Len(s))
        /\ (Len(s) + i) - Len(s) = i
    BY <1>1
  <2>2. QED
    BY <1>2, <2>1
<1>4. \A i \in 1..Len(s) : i \in 1..Len(s) + Len(t) /\ i <= Len(s)
  BY <1>1
<1>5. QED
  BY <1>2, <1>3, <1>4 DEF Cat, Bytes

\* The first n bytes.
First(s, n) == SubSeq(s, 1, n)

LEMMA FirstType ==
  ASSUME NEW s \in Bytes, NEW n \in Nat, n <= Len(s)
  PROVE  /\ First(s, n) = Part(s, 0, n)
         /\ First(s, n) \in Bytes
         /\ Len(First(s, n)) = n
         /\ \A i \in 1..n : First(s, n)[i] = s[i]
<1>1. ASSUME NEW none \in Nat, none = 0
      PROVE  /\ Part(s, none, n) = First(s, n)
             /\ Part(s, none, n) \in Bytes
             /\ Len(Part(s, none, n)) = n
             /\ \A i \in 1..n : Part(s, none, n)[i] = s[i]
  <2>1. none + n <= Len(s) /\ none + 1 = 1 /\ none + n = n
        /\ \A i \in 1..n : none + i = i
    BY <1>1
  <2>2. Part(s, none, n) = First(s, n)
    BY <2>1 DEF Part, First
  <2>3. /\ Part(s, none, n) \in Bytes
        /\ Len(Part(s, none, n)) = n
        /\ \A i \in 1..n : Part(s, none, n)[i] = s[none + i]
    BY <2>1, PartType
  <2>4. QED
    BY <2>1, <2>2, <2>3
<1>2. QED
  BY <1>1

\* The first bytes and those behind them are the first bytes.
LEMMA PartsJoin ==
  ASSUME NEW s \in Bytes, NEW m \in Nat, NEW n \in Nat, m + n <= Len(s)
  PROVE  Cat(First(s, m), Part(s, m, n)) = First(s, m + n)
<1> DEFINE a == First(s, m)
           b == Part(s, m, n)
           c == First(s, m + n)
<1>1. m <= Len(s) /\ m + n \in Nat
  BY BytesType
<1>2. a \in Bytes /\ Len(a) = m /\ \A i \in 1..m : a[i] = s[i]
  BY <1>1, FirstType
<1>3. b \in Bytes /\ Len(b) = n /\ \A i \in 1..n : b[i] = s[m + i]
  BY <1>1, PartType
<1>4. c \in Bytes /\ Len(c) = m + n /\ \A i \in 1..m + n : c[i] = s[i]
  BY <1>1, FirstType
<1> HIDE DEF a, b, c
<1>5. /\ Cat(a, b) \in Bytes
      /\ Len(Cat(a, b)) = m + n
      /\ \A i \in 1..m : Cat(a, b)[i] = a[i]
      /\ \A i \in 1..n : Cat(a, b)[m + i] = b[i]
  BY <1>2, <1>3, CatType
<1>6. ASSUME NEW i \in 1..m + n PROVE Cat(a, b)[i] = c[i]
  <2>1. CASE i <= m
    BY <1>2, <1>4, <1>5, <2>1
  <2>2. CASE i > m
    <3>1. i - m \in 1..n /\ m + (i - m) = i
      BY <2>2
    <3>2. Cat(a, b)[m + (i - m)] = s[m + (i - m)]
      BY <1>3, <1>5, <3>1
    <3>3. QED
      BY <1>4, <3>1, <3>2
  <2>3. QED
    BY <2>1, <2>2
<1>7. Cat(a, b) = c
  BY <1>4, <1>5, <1>6, BytesEqual
<1>8. QED
  BY <1>7 DEF a, b, c

\* What begins with two sequences begins with the first, and the second is behind it.
LEMMA BeginsCat ==
  ASSUME NEW s \in Bytes, NEW t \in Bytes, NEW v \in Bytes, Begins(Cat(s, t), v)
  PROVE  /\ Begins(s, v)
         /\ Len(s) + Len(t) <= Len(v)
         /\ Part(v, Len(s), Len(t)) = t
<1>1. Len(s) \in Nat /\ Len(t) \in Nat /\ Len(v) \in Nat
  BY BytesType
<1>2. /\ Len(Cat(s, t)) = Len(s) + Len(t)
      /\ \A i \in 1..Len(s) : Cat(s, t)[i] = s[i]
      /\ \A i \in 1..Len(t) : Cat(s, t)[Len(s) + i] = t[i]
  BY CatType
<1>3. Len(s) + Len(t) <= Len(v)
  BY <1>2 DEF Begins
<1>4. Begins(s, v)
  BY <1>1, <1>2, <1>3 DEF Begins
<1> DEFINE p == Part(v, Len(s), Len(t))
<1>5. p \in Bytes /\ Len(p) = Len(t) /\ \A i \in 1..Len(t) : p[i] = v[Len(s) + i]
  BY <1>1, <1>3, PartType
<1> HIDE DEF p
<1>6. \A i \in 1..Len(t) : v[Len(s) + i] = t[i]
  BY <1>1, <1>2 DEF Begins
<1>7. p = t
  BY <1>5, <1>6, BytesEqual
<1>8. QED
  BY <1>3, <1>4, <1>7 DEF p

LEMMA PrefixBegins ==
  ASSUME NEW s \in Bytes, NEW v \in Bytes, IsPrefix(s, v)
  PROVE  Begins(s, v)
<1> DEFINE n == Len(s)
<1>1. n \in Nat /\ n <= Len(s) /\ n <= Len(v) /\ First(s, n) = First(v, n)
  BY BytesType DEF IsPrefix, First
<1> HIDE DEF n
<1>2. (\A i \in 1..n : First(s, n)[i] = s[i]) /\ (\A i \in 1..n : First(v, n)[i] = v[i])
  BY <1>1, FirstType
<1>3. QED
  BY <1>1, <1>2 DEF Begins, n
=============================================================================
