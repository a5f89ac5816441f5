------------------------- MODULE PrinterNamesProofs -------------------------
(***************************************************************************)
(* The names of PrinterNames, for every number of sessions and printers    *)
(* and names of any length.  The first half is about what the functions on *)
(* characters compute, by induction over numbers and positions: that what  *)
(* is printed is read back, that a prefix finds the names of its session   *)
(* only, and what an announcement makes of a name.  The second half is the *)
(* inductive invariant of the queues, IInv, and what follows from it.      *)
(***************************************************************************)
EXTENDS PrinterNames, SequenceTheorems, WellFoundedInduction, TLAPS

-----------------------------------------------------------------------------
(* Induction, stated with sets in the place of predicates.                 *)

Less == {p \in Nat \X Nat : p[1] < p[2]}

\* Going down in the natural numbers ends.
LEMMA LessIsWellFounded == IsWellFoundedOn(Less, Nat)
<1>1. Less = OpToRel(<, Nat)
  BY DEF OpToRel, Less
<1>2. IsWellFoundedOn(OpToRel(<, Nat), Nat)
  BY NatLessThanWellFounded, Zenon
<1> QED
  BY <1>1, <1>2, Zenon

\* Every set of numbers has a least one.
LEMMA Least ==
  ASSUME NEW T, T \subseteq Nat, T # {}
  PROVE  \E x \in T : \A y \in T : x <= y
<1>1. PICK x \in T : \A y \in T : ~(<<y, x>> \in Less)
  BY LessIsWellFounded, WFMin
<1>2. ASSUME NEW y \in T
      PROVE  x <= y
  <2>1. <<y, x>> \notin Less
    BY <1>1
  <2> QED
    BY <2>1 DEF Less
<1> QED
  BY <1>1, <1>2

\* What holds of a number if it holds of all smaller ones holds of all.
LEMMA StrongInduction ==
  ASSUME NEW S, \A n \in Nat : (\A m \in 0..n - 1 : m \in S) => n \in S
  PROVE  \A n \in Nat : n \in S
<1> SUFFICES ASSUME Nat \ S # {}
             PROVE  FALSE
  OBVIOUS
<1>1. PICK x \in Nat \ S : \A y \in Nat \ S : x <= y
  BY Least
<1>2. \A m \in 0..x - 1 : m \in S
  BY <1>1
<1> QED
  BY <1>1, <1>2

\* Every set of numbers with a bound has a greatest one, which Max finds.
LEMMA Greatest ==
  ASSUME NEW n \in Nat, NEW T, T \subseteq 1..n, T # {}
  PROVE  Max(T) \in T /\ \A y \in T : Max(T) >= y
<1> DEFINE U == {n - x : x \in T}
<1>1. PICK u \in U : \A v \in U : u <= v
  <2>1. \A x \in T : n - x \in Nat
    OBVIOUS
  <2>2. U \subseteq Nat
    BY <2>1
  <2>3. U # {}
    OBVIOUS
  <2> HIDE DEF U
  <2> QED
    BY <2>2, <2>3, Least
<1>2. PICK x \in T : u = n - x
  OBVIOUS
<1>3. \A y \in T : x >= y
  <2>1. ASSUME NEW y \in T
        PROVE  x >= y
    <3>1. u <= n - y
      BY <1>1
    <3> QED
      BY <1>2, <3>1
  <2> QED
    BY <2>1
<1> QED
  BY <1>3 DEF Max

\* f is defined by z below b, and from there on by s from its value at p.
Follows(f, D, b, z, p, s) ==
  /\ f \in [Nat -> D]
  /\ \A n \in Nat : f[n] = IF n < b THEN z[n] ELSE s[<<n, f[p[n]]>>]

\* A function defined by recursion over smaller numbers exists.
LEMMA Recursion ==
  ASSUME NEW D, NEW b \in Nat, NEW z \in [Nat -> D], NEW p \in [Nat -> Nat],
         NEW s \in [Nat \X D -> D],
         \A n \in Nat : n >= b => p[n] < n
  PROVE  \E f : Follows(f, D, b, z, p, s)
<1> DEFINE Good(f, n) ==
             /\ f \in [0..n -> D]
             /\ \A k \in 0..n : f[k] = IF k < b THEN z[k] ELSE s[<<k, f[p[k]]>>]
<1>1. ASSUME NEW n \in Nat, NEW m \in Nat, NEW f, NEW g, Good(f, n), Good(g, m),
             NEW k \in Nat, k <= n, k <= m
      PROVE  f[k] = g[k]
  <2> DEFINE T == {i \in Nat : i <= n /\ i <= m /\ f[i] # g[i]}
  <2> SUFFICES ASSUME T # {}
               PROVE  FALSE
    BY <1>1
  <2>1. T \subseteq Nat
    OBVIOUS
  <2>2. PICK i \in T : \A y \in T : i <= y
    BY <2>1, Least
  <2>3. i \in 0..n /\ i \in 0..m /\ f[i] # g[i]
    OBVIOUS
  <2>4. i >= b
    <3>1. f[i] = IF i < b THEN z[i] ELSE s[<<i, f[p[i]]>>]
      BY <1>1, <2>3
    <3>2. g[i] = IF i < b THEN z[i] ELSE s[<<i, g[p[i]]>>]
      BY <1>1, <2>3
    <3> QED
      BY <2>3, <3>1, <3>2
  <2>5. p[i] < i /\ p[i] \in Nat
    BY <2>3, <2>4
  <2>6. f[p[i]] = g[p[i]]
    <3>1. p[i] \notin T
      BY <2>2, <2>5
    <3> QED
      BY <2>3, <2>5, <3>1
  <2> HIDE DEF T
  <2>7. f[i] = s[<<i, f[p[i]]>>] /\ g[i] = s[<<i, g[p[i]]>>]
    BY <1>1, <2>3, <2>4
  <2> QED
    BY <2>3, <2>6, <2>7
<1>2. \A n \in Nat : \E f : Good(f, n)
  <2> DEFINE S == {n \in Nat : \E f : Good(f, n)}
  <2>1. ASSUME NEW n \in Nat, \A m \in 0..n - 1 : m \in S
        PROVE  n \in S
    <3>1. CASE n < b
      <4> DEFINE h == [k \in 0..n |-> z[k]]
      <4>1. Good(h, n)
        BY <3>1
      <4> QED
        BY <4>1
    <3>2. CASE ~(n < b)
      <4>1. p[n] \in 0..n - 1 /\ n - 1 \in 0..n - 1
        BY <3>2
      <4>2. PICK g : Good(g, n - 1)
        BY <2>1, <4>1
      <4> DEFINE h == [k \in 0..n |-> IF k < n THEN g[k] ELSE s[<<n, g[p[n]]>>]]
      <4>3. h \in [0..n -> D]
        <5>1. g[p[n]] \in D /\ s[<<n, g[p[n]]>>] \in D
          BY <4>1, <4>2
        <5>2. \A k \in 0..n : k < n => g[k] \in D
          BY <4>2
        <5> QED
          BY <5>1, <5>2
      <4>4. ASSUME NEW k \in 0..n
            PROVE  h[k] = IF k < b THEN z[k] ELSE s[<<k, h[p[k]]>>]
        <5>1. CASE k < n
          <6>1. k \in 0..n - 1 /\ h[k] = g[k]
            BY <5>1
          <6>2. ~(k < b) => h[p[k]] = g[p[k]]
            <7>1. ~(k < b) => p[k] \in 0..n /\ p[k] < n
              BY <5>1
            <7> QED
              BY <7>1
          <6>3. g[k] = IF k < b THEN z[k] ELSE s[<<k, g[p[k]]>>]
            BY <4>2, <6>1
          <6> HIDE DEF h
          <6> QED
            BY <6>1, <6>2, <6>3
        <5>2. CASE k = n
          <6>1. h[p[n]] = g[p[n]] /\ h[n] = s[<<n, g[p[n]]>>]
            BY <4>1
          <6> QED
            BY <3>2, <5>2, <6>1
        <5> QED
          BY <5>1, <5>2
      <4>5. Good(h, n)
        BY <4>3, <4>4
      <4> QED
        BY <4>5
    <3> QED
      BY <3>1, <3>2
  <2> HIDE DEF Good
  <2>2. \A n \in Nat : n \in S
    <3> HIDE DEF S
    <3> QED
      BY <2>1, StrongInduction
  <2> QED
    BY <2>2
<1> DEFINE G(n) == CHOOSE f : Good(f, n)
           F == [n \in Nat |-> G(n)[n]]
<1>3. \A n \in Nat : Good(G(n), n)
  <2> HIDE DEF Good
  <2> QED
    BY <1>2
<1> HIDE DEF G
<1>4. F \in [Nat -> D]
  <2>1. \A n \in Nat : G(n) \in [0..n -> D] /\ n \in 0..n
    BY <1>3
  <2> QED
    BY <2>1
<1>5. ASSUME NEW n \in Nat
      PROVE  F[n] = IF n < b THEN z[n] ELSE s[<<n, F[p[n]]>>]
  <2>1. G(n)[n] = IF n < b THEN z[n] ELSE s[<<n, G(n)[p[n]]>>]
    BY <1>3
  <2>2. n >= b => G(n)[p[n]] = G(p[n])[p[n]]
    <3> SUFFICES ASSUME n >= b
                 PROVE  G(n)[p[n]] = G(p[n])[p[n]]
      OBVIOUS
    <3>1. p[n] \in Nat /\ p[n] < n
      OBVIOUS
    <3>2. Good(G(n), n) /\ Good(G(p[n]), p[n])
      BY <1>3, <3>1
    <3> HIDE DEF Good
    <3> QED
      BY <1>1, <3>1, <3>2
  <2> QED
    BY <2>1, <2>2
<1> HIDE DEF F
<1> QED
  BY <1>4, <1>5 DEF Follows

\* f starts with d and goes on by s through the positions up to n.
Passes(f, D, n, d, s) ==
  /\ f \in [0..n -> D]
  /\ f = [i \in 0..n |-> IF i = 0 THEN d ELSE s[<<i, f[i - 1]>>]]

\* The same for a function that goes through positions 0..n.
LEMMA PositionRecursion ==
  ASSUME NEW D, NEW n \in Nat, NEW d \in D, NEW s \in [(1..n) \X D -> D]
  PROVE  \E f : Passes(f, D, n, d, s)
<1> DEFINE z == [k \in Nat |-> d]
           p == [k \in Nat |-> IF k = 0 THEN 0 ELSE k - 1]
           t == [x \in Nat \X D |-> IF x[1] \in 1..n THEN s[<<x[1], x[2]>>] ELSE d]
<1>1. z \in [Nat -> D] /\ p \in [Nat -> Nat] /\ t \in [Nat \X D -> D]
  <2>1. ASSUME NEW x \in Nat \X D
        PROVE  (IF x[1] \in 1..n THEN s[<<x[1], x[2]>>] ELSE d) \in D
    OBVIOUS
  <2> QED
    BY <2>1
<1>2. \A k \in Nat : k >= 1 => p[k] < k
  OBVIOUS
<1>7. 1 \in Nat
  OBVIOUS
<1>8. PICK g : Follows(g, D, 1, z, p, t)
  <2> HIDE DEF z, p, t
  <2> QED
    BY <1>1, <1>2, <1>7, Recursion
<1>3. /\ g \in [Nat -> D]
      /\ \A k \in Nat : g[k] = IF k < 1 THEN z[k] ELSE t[<<k, g[p[k]]>>]
  <2> HIDE DEF z, p, t
  <2> QED
    BY <1>8 DEF Follows
<1> DEFINE f == [k \in 0..n |-> g[k]]
<1>4. ASSUME NEW i \in 0..n
      PROVE  f[i] = IF i = 0 THEN d ELSE s[<<i, f[i - 1]>>]
  <2>1. CASE i = 0
    <3>1. g[0] = z[0]
      <4> HIDE DEF z, p, t
      <4>1. 0 \in Nat /\ 0 < 1
        OBVIOUS
      <4> QED
        BY <1>3, <4>1
    <3>2. z[0] = d /\ f[0] = g[0]
      OBVIOUS
    <3> HIDE DEF f, z, p, t
    <3> QED
      BY <2>1, <3>1, <3>2
  <2>2. CASE i # 0
    <3>1. i \in 1..n /\ i - 1 \in 0..n /\ p[i] = i - 1
      BY <2>2
    <3>2. g[i] = t[<<i, g[i - 1]>>]
      <4> HIDE DEF z, p, t
      <4>1. i \in Nat /\ ~(i < 1)
        BY <3>1
      <4> QED
        BY <1>3, <3>1, <4>1
    <3>3. f[i] = g[i] /\ f[i - 1] = g[i - 1] /\ g[i - 1] \in D
      BY <1>3, <3>1
    <3>4. t[<<i, g[i - 1]>>] = s[<<i, g[i - 1]>>]
      BY <3>1, <3>3
    <3> QED
      BY <2>2, <3>2, <3>3, <3>4
  <2> QED
    BY <2>1, <2>2
<1>5. f \in [0..n -> D]
  BY <1>3
<1>6. Passes(f, D, n, d, s)
  <2> HIDE DEF f
  <2> QED
    BY <1>4, <1>5 DEF Passes
<1> QED
  BY <1>6

-----------------------------------------------------------------------------
(* Numbers in characters.                                                  *)

\* The characters that numbers are printed with, decimal and hexadecimal.
DigitChar == 48..57 \cup 97..102

\* Quotient and remainder, for the two bases that are printed in.
LEMMA DivMod ==
  ASSUME NEW base \in {10, 16}, NEW n \in Nat
  PROVE  /\ n \div base \in Nat /\ n % base \in 0..base - 1
         /\ n >= base => n \div base < n
         /\ n = base * (n \div base) + (n % base)
<1>1. CASE base = 10
  BY <1>1
<1>2. CASE base = 16
  BY <1>2
<1> QED
  BY <1>1, <1>2

\* The character of a digit, and back.
LEMMA DigitIsChar ==
  ASSUME NEW d \in 0..15
  PROVE  Digit(d) \in DigitChar /\ DigitValue(Digit(d)) = d
BY DEF Digit, DigitValue, DigitChar

\* A printed number is its last digit after the number without it.
LEMMA PrintedStep ==
  ASSUME NEW base \in {10, 16}
  PROVE  \A n \in Nat :
            /\ Printed(base, n) \in Seq(DigitChar)
            /\ Printed(base, n) = IF n < base THEN <<Digit(n)>>
                                  ELSE Append(Printed(base, n \div base), Digit(n % base))
<1> DEFINE D == Seq(DigitChar)
           z == [n \in Nat |-> IF n < base THEN <<Digit(n)>> ELSE << >>]
           p == [n \in Nat |-> n \div base]
           s == [x \in Nat \X D |-> Append(x[2], Digit(x[1] % base))]
<1>1. z \in [Nat -> D]
  <2>1. ASSUME NEW n \in Nat
        PROVE  (IF n < base THEN <<Digit(n)>> ELSE << >>) \in D
    BY DigitIsChar
  <2> QED
    BY <2>1
<1>2. p \in [Nat -> Nat] /\ \A n \in Nat : n >= base => p[n] < n
  BY DivMod
<1>3. s \in [Nat \X D -> D]
  <2>1. ASSUME NEW x \in Nat \X D
        PROVE  Append(x[2], Digit(x[1] % base)) \in D
    <3>1. x[1] % base \in 0..15
      BY DivMod
    <3> QED
      BY <3>1, DigitIsChar
  <2> QED
    BY <2>1
<1>4. base \in Nat
  OBVIOUS
<1>12. PICK f : Follows(f, D, base, z, p, s)
  <2> HIDE DEF D, z, p, s
  <2> QED
    BY <1>1, <1>2, <1>3, <1>4, Recursion
<1>5. /\ f \in [Nat -> D]
      /\ \A n \in Nat : f[n] = IF n < base THEN z[n] ELSE s[<<n, f[p[n]]>>]
  <2> HIDE DEF D, z, p, s
  <2> QED
    BY <1>12 DEF Follows
<1> DEFINE Equation(g) ==
             g = [m \in Nat |-> IF m < base THEN <<Digit(m)>>
                                ELSE Append(g[m \div base], Digit(m % base))]
<1>6. Equation(f)
  <2>1. ASSUME NEW n \in Nat
        PROVE  f[n] = IF n < base THEN <<Digit(n)>>
                      ELSE Append(f[n \div base], Digit(n % base))
    <3>1. p[n] = n \div base /\ f[p[n]] \in D
      BY <1>5, DivMod
    <3>2. s[<<n, f[p[n]]>>] = Append(f[p[n]], Digit(n % base))
      BY <3>1
    <3>3. n < base => z[n] = <<Digit(n)>>
      OBVIOUS
    <3> HIDE DEF s, z, p
    <3> QED
      BY <1>5, <3>1, <3>2, <3>3
  <2>2. f = [n \in Nat |-> f[n]]
    BY <1>5
  <2> QED
    BY <2>1, <2>2
<1> DEFINE h == CHOOSE g : Equation(g)
<1>7. Equation(h)
  <2> HIDE DEF Equation
  <2> QED
    BY <1>6, Zenon
<1>8. \A n : Printed(base, n) = h[n]
  BY Zenon DEF Printed
<1> HIDE DEF h
<1>9. \A n \in Nat : h[n] = IF n < base THEN <<Digit(n)>>
                            ELSE Append(h[n \div base], Digit(n % base))
  BY <1>7, Zenon
<1> DEFINE T == {n \in Nat : h[n] \in D}
<1>10. ASSUME NEW n \in Nat, \A m \in 0..n - 1 : m \in T
       PROVE  n \in T
  <2>1. CASE n < base
    <3>1. h[n] = <<Digit(n)>>
      BY <1>9, <2>1, Zenon
    <3>2. n \in 0..15
      BY <2>1
    <3>4. Digit(n) \in DigitChar
      BY <3>2, DigitIsChar
    <3>3. <<Digit(n)>> \in Seq(DigitChar)
      BY <3>4
    <3> QED
      BY <3>1, <3>3
  <2>2. CASE ~(n < base)
    <3>1. n \div base \in 0..n - 1 /\ n % base \in 0..15
      BY <2>2, DivMod
    <3>2. h[n \div base] \in D
      BY <1>10, <3>1
    <3>3. h[n] = Append(h[n \div base], Digit(n % base))
      BY <1>9, <2>2, Zenon
    <3>5. Digit(n % base) \in DigitChar
      BY <3>1, DigitIsChar
    <3>4. Append(h[n \div base], Digit(n % base)) \in Seq(DigitChar)
      BY <3>2, <3>5
    <3> QED
      BY <3>3, <3>4
  <2> QED
    BY <2>1, <2>2
<1>11. \A n \in Nat : n \in T
  <2> HIDE DEF T
  <2> QED
    BY <1>10, StrongInduction
<1> QED
  BY <1>8, <1>9, <1>11

\* A printed number has a digit and consists of digits.
LEMMA PrintedIsDigits ==
  ASSUME NEW base \in {10, 16}, NEW n \in Nat
  PROVE  Printed(base, n) \in Seq(DigitChar) /\ Printed(base, n) \in Seq(Nat)
<1>1. Printed(base, n) \in Seq(DigitChar)
  BY PrintedStep
<1>2. DigitChar \subseteq Nat
  BY DEF DigitChar
<1> QED
  BY <1>1, <1>2, SeqMonotonic

\* The value of s up to a position.
Value(base, s) ==
  CHOOSE v : v = [i \in 0..Len(s) |-> IF i = 0 THEN 0 ELSE base * v[i - 1] + DigitValue(s[i])]

\* That function exists, and goes through s digit by digit.
LEMMA ValueSteps ==
  ASSUME NEW base \in {10, 16}, NEW s \in Seq(Nat)
  PROVE  /\ Value(base, s) \in [0..Len(s) -> Int]
         /\ Value(base, s)[0] = 0
         /\ \A i \in 1..Len(s) :
               Value(base, s)[i] = base * Value(base, s)[i - 1] + DigitValue(s[i])
<1> DEFINE n == Len(s)
           t == [x \in (1..n) \X Int |-> base * x[2] + DigitValue(s[x[1]])]
           Equation(v) ==
             v = [i \in 0..n |-> IF i = 0 THEN 0 ELSE base * v[i - 1] + DigitValue(s[i])]
<1>1. n \in Nat /\ 0 \in Int
  OBVIOUS
<1>2. t \in [(1..n) \X Int -> Int]
  <2>1. ASSUME NEW x \in (1..n) \X Int
        PROVE  base * x[2] + DigitValue(s[x[1]]) \in Int
    <3>1. s[x[1]] \in Nat /\ x[2] \in Int
      OBVIOUS
    <3>2. DigitValue(s[x[1]]) \in Int
      BY <3>1 DEF DigitValue
    <3>3. base * x[2] \in Int
      BY <3>1
    <3> QED
      BY <3>2, <3>3
  <2> QED
    BY <2>1
<1>3. PICK f : Passes(f, Int, n, 0, t)
  <2> HIDE DEF n, t
  <2> QED
    BY <1>1, <1>2, PositionRecursion
<1>10. f \in [0..n -> Int]
  BY <1>3 DEF Passes
<1>4. Equation(f)
  <2>1. ASSUME NEW i \in 0..n
        PROVE  f[i] = IF i = 0 THEN 0 ELSE base * f[i - 1] + DigitValue(s[i])
    <3>1. f[i] = IF i = 0 THEN 0 ELSE t[<<i, f[i - 1]>>]
      <4> HIDE DEF t
      <4> QED
        BY <1>3 DEF Passes
    <3>2. i # 0 => t[<<i, f[i - 1]>>] = base * f[i - 1] + DigitValue(s[i])
      <4> SUFFICES ASSUME i # 0
                   PROVE  t[<<i, f[i - 1]>>] = base * f[i - 1] + DigitValue(s[i])
        OBVIOUS
      <4>1. i \in 1..n /\ f[i - 1] \in Int
        BY <1>10
      <4>2. <<i, f[i - 1]>> \in (1..n) \X Int
        BY <4>1
      <4> HIDE DEF n
      <4> QED
        BY <4>2
    <3> HIDE DEF t
    <3> QED
      BY <3>1, <3>2
  <2>2. f = [i \in 0..n |-> f[i]]
    BY <1>10
  <2> QED
    BY <2>1, <2>2
<1> DEFINE V == Value(base, s)
<1>5. Equation(V)
  BY <1>4, Zenon DEF Value
<1> HIDE DEF V
<1>6. V[0] = 0 /\ \A i \in 1..n : V[i] = base * V[i - 1] + DigitValue(s[i])
  <2>1. \A i \in 0..n : V[i] = IF i = 0 THEN 0 ELSE base * V[i - 1] + DigitValue(s[i])
    BY <1>5, Zenon
  <2> QED
    BY <2>1
<1> DEFINE S == {i \in Nat : i <= n => V[i] \in Int}
<1>7. ASSUME NEW k \in Nat, \A m \in 0..k - 1 : m \in S
      PROVE  k \in S
  <2> SUFFICES ASSUME k <= n, k # 0
               PROVE  V[k] \in Int
    BY <1>6
  <2>1. V[k - 1] \in Int /\ s[k] \in Nat
    BY <1>7
  <2>2. base * V[k - 1] \in Int /\ DigitValue(s[k]) \in Int
    BY <2>1 DEF DigitValue
  <2>3. V[k] = base * V[k - 1] + DigitValue(s[k])
    BY <1>6
  <2> QED
    BY <2>2, <2>3
<1>8. \A k \in Nat : k \in S
  <2> HIDE DEF S
  <2> QED
    BY <1>7, StrongInduction
<1>9. V \in [0..n -> Int]
  <2>1. \A k \in 0..n : V[k] \in Int
    BY <1>8
  <2>2. V = [k \in 0..n |-> V[k]]
    BY <1>5
  <2> QED
    BY <2>1, <2>2
<1> QED
  BY <1>6, <1>9 DEF V

\* What is scanned is the value at the end.
LEMMA ScannedIsValue ==
  ASSUME NEW base, NEW s
  PROVE  Scanned(base, s) = Value(base, s)[Len(s)]
BY Zenon DEF Scanned, Value

\* One more digit.
LEMMA ScannedAppend ==
  ASSUME NEW base \in {10, 16}, NEW s \in Seq(Nat), NEW c \in Nat
  PROVE  /\ Scanned(base, << >>) = 0 /\ Scanned(base, s) \in Int
         /\ Scanned(base, Append(s, c)) = base * Scanned(base, s) + DigitValue(c)
<1> DEFINE a == Append(s, c)
           V == Value(base, s)
           W == Value(base, a)
<1>1. /\ a \in Seq(Nat) /\ Len(a) = Len(s) + 1 /\ a[Len(s) + 1] = c
      /\ \A i \in 1..Len(s) : a[i] = s[i]
      /\ Len(s) \in Nat
  OBVIOUS
<1>2. Scanned(base, << >>) = 0
  <2>1. << >> \in Seq(Nat) /\ Len(<< >>) = 0
    OBVIOUS
  <2>2. Value(base, << >>)[0] = 0
    BY <2>1, ValueSteps
  <2> QED
    BY <2>1, <2>2, ScannedIsValue
<1>3. /\ V \in [0..Len(s) -> Int] /\ V[0] = 0
      /\ \A i \in 1..Len(s) : V[i] = base * V[i - 1] + DigitValue(s[i])
  BY ValueSteps
<1>4. /\ W[0] = 0
      /\ \A i \in 1..Len(a) : W[i] = base * W[i - 1] + DigitValue(a[i])
  <2> HIDE DEF a
  <2> QED
    BY <1>1, ValueSteps
<1>5. Scanned(base, s) = V[Len(s)] /\ Scanned(base, a) = W[Len(a)]
  BY ScannedIsValue
<1> HIDE DEF a, V, W
<1> DEFINE S == {i \in Nat : i <= Len(s) => W[i] = V[i]}
<1>6. ASSUME NEW k \in Nat, \A m \in 0..k - 1 : m \in S
      PROVE  k \in S
  <2> SUFFICES ASSUME k <= Len(s), k # 0
               PROVE  W[k] = V[k]
    BY <1>3, <1>4
  <2>1. k \in 1..Len(s) /\ k \in 1..Len(a) /\ W[k - 1] = V[k - 1]
    BY <1>1, <1>6
  <2>2. V[k] = base * V[k - 1] + DigitValue(s[k])
    BY <1>3, <2>1
  <2>3. W[k] = base * W[k - 1] + DigitValue(a[k])
    BY <1>4, <2>1
  <2> QED
    BY <1>1, <2>1, <2>2, <2>3
<1>7. W[Len(s)] = V[Len(s)]
  <2>1. \A k \in Nat : k \in S
    <3> HIDE DEF S
    <3> QED
      BY <1>6, StrongInduction
  <2> QED
    BY <1>1, <2>1
<1>8. W[Len(a)] = base * W[Len(s)] + DigitValue(c)
  <2>1. Len(a) \in 1..Len(a) /\ Len(a) - 1 = Len(s) /\ a[Len(a)] = c
    BY <1>1
  <2> QED
    BY <1>4, <2>1
<1>9. V[Len(s)] \in Int
  BY <1>1, <1>3
<1> QED
  BY <1>2, <1>5, <1>7, <1>8, <1>9 DEF a

\* What is printed is read back: atoi and strtoul undo "%d" and "%x".
LEMMA RoundTrip ==
  ASSUME NEW base \in {10, 16}
  PROVE  \A n \in Nat : Scanned(base, Printed(base, n)) = n
<1> DEFINE S == {n \in Nat : Scanned(base, Printed(base, n)) = n}
<1>1. ASSUME NEW n \in Nat, \A m \in 0..n - 1 : m \in S
      PROVE  n \in S
  <2>1. CASE n < base
    <3>1. Printed(base, n) = Append(<< >>, Digit(n))
      <4>1. Printed(base, n) = <<Digit(n)>>
        BY <2>1, PrintedStep
      <4>2. <<Digit(n)>> = Append(<< >>, Digit(n))
        OBVIOUS
      <4> QED
        BY <4>1, <4>2
    <3>2. n \in 0..15 /\ << >> \in Seq(Nat)
      BY <2>1
    <3>3. Digit(n) \in Nat /\ DigitValue(Digit(n)) = n
      BY <3>2, DigitIsChar DEF DigitChar
    <3>4. Scanned(base, Append(<< >>, Digit(n))) = base * 0 + n
      BY <3>2, <3>3, ScannedAppend
    <3>5. base * 0 + n = n
      OBVIOUS
    <3> QED
      BY <3>1, <3>4, <3>5
  <2>2. CASE ~(n < base)
    <3> DEFINE q == n \div base
               d == n % base
    <3>1. q \in 0..n - 1 /\ d \in 0..15 /\ n = base * q + d
      BY <2>2, DivMod
    <3>2. Printed(base, n) = Append(Printed(base, q), Digit(d))
      BY <2>2, PrintedStep
    <3>3. q \in Nat /\ Scanned(base, Printed(base, q)) = q
      BY <1>1, <3>1
    <3> HIDE DEF q, d
    <3>4. Printed(base, q) \in Seq(Nat)
      BY <3>3, PrintedIsDigits
    <3>5. Digit(d) \in Nat /\ DigitValue(Digit(d)) = d
      BY <3>1, DigitIsChar DEF DigitChar
    <3>6. Scanned(base, Append(Printed(base, q), Digit(d))) = base * q + d
      BY <3>3, <3>4, <3>5, ScannedAppend
    <3> QED
      BY <3>1, <3>2, <3>6
  <2> QED
    BY <2>1, <2>2
<1>2. \A n \in Nat : n \in S
  <2> HIDE DEF S
  <2> QED
    BY <1>1, StrongInduction
<1> QED
  BY <1>2

-----------------------------------------------------------------------------
(* Parts of names.                                                         *)

\* A text without c is all before the first c.
LEMMA BeforeNone ==
  ASSUME NEW s \in Seq(Nat), NEW c, \A i \in 1..Len(s) : s[i] # c
  PROVE  Before(s, c) = s
<1>1. {i \in DOMAIN s : s[i] = c} = {}
  OBVIOUS
<1> QED
  BY <1>1 DEF Before

\* The first c of s is at position k.
LEMMA BeforeFirst ==
  ASSUME NEW s \in Seq(Nat), NEW c, NEW k \in 1..Len(s), s[k] = c,
         \A i \in 1..k - 1 : s[i] # c
  PROVE  Before(s, c) = SubSeq(s, 1, k - 1)
<1> DEFINE hits == {i \in DOMAIN s : s[i] = c}
           first == CHOOSE i \in hits : \A m \in hits : i <= m
<1>1. k \in hits /\ \A m \in hits : k <= m
  OBVIOUS
<1>2. hits # {} /\ hits \subseteq Nat
  BY <1>1
<1>3. first \in hits /\ \A m \in hits : first <= m
  <2> HIDE DEF hits
  <2> QED
    BY <1>1
<1>4. first = k
  <2>1. first <= k /\ k <= first /\ first \in Nat /\ k \in Nat
    BY <1>1, <1>2, <1>3
  <2> HIDE DEF first
  <2> QED
    BY <2>1
<1>5. Before(s, c) = SubSeq(s, 1, first - 1)
  BY <1>2 DEF Before
<1> QED
  BY <1>4, <1>5

\* c marks the end of p in p \o <<c>> \o t.
LEMMA Marked ==
  ASSUME NEW p \in Seq(Nat), NEW t \in Seq(Nat), NEW c \in Nat,
         \A i \in 1..Len(p) : p[i] # c
  PROVE  /\ p \o <<c>> \o t \in Seq(Nat)
         /\ Before(p \o <<c>> \o t, c) = p
         /\ After(p \o <<c>> \o t, c) = t
<1> DEFINE a == p \o <<c>>
           s == a \o t
           k == Len(p) + 1
<1>1. /\ a \in Seq(Nat) /\ Len(a) = k /\ a[k] = c /\ Len(p) \in Nat /\ Len(t) \in Nat
      /\ \A i \in 1..Len(p) : a[i] = p[i]
  OBVIOUS
<1> HIDE DEF a
<1>2. /\ s \in Seq(Nat) /\ Len(s) = k + Len(t)
      /\ \A i \in 1..k : s[i] = a[i]
      /\ \A i \in 1..Len(t) : s[k + i] = t[i]
  <2>1. /\ s \in Seq(Nat) /\ Len(s) = Len(a) + Len(t)
        /\ \A i \in 1..Len(a) + Len(t) : s[i] = IF i <= Len(a) THEN a[i] ELSE t[i - Len(a)]
    BY <1>1, ConcatProperties
  <2> HIDE DEF s
  <2>2. k \in Nat /\ Len(a) = k /\ Len(t) \in Nat
    BY <1>1
  <2> HIDE DEF k
  <2>3. ASSUME NEW i \in 1..k
        PROVE  s[i] = a[i]
    BY <2>1, <2>2
  <2>4. ASSUME NEW i \in 1..Len(t)
        PROVE  s[k + i] = t[i]
    <3>1. ~(k + i <= k) /\ (k + i) - k = i /\ k + i \in 1..k + Len(t)
      BY <2>2
    <3> QED
      BY <2>1, <2>2, <3>1
  <2> QED
    BY <2>1, <2>2, <2>3, <2>4
<1> HIDE DEF s
<1>3. k \in 1..Len(s) /\ s[k] = c /\ \A i \in 1..k - 1 : s[i] # c
  <2>1. k \in 1..Len(s)
    BY <1>1, <1>2
  <2>2. s[k] = c
    BY <1>1, <1>2, <2>1
  <2>3. ASSUME NEW i \in 1..k - 1
        PROVE  s[i] # c
    <3>1. i \in 1..k /\ i \in 1..Len(p)
      BY <1>1
    <3>2. s[i] = p[i]
      BY <1>1, <1>2, <3>1
    <3> QED
      BY <3>1, <3>2
  <2> QED
    BY <2>1, <2>2, <2>3
<1>4. Before(s, c) = SubSeq(s, 1, k - 1)
  BY <1>2, <1>3, BeforeFirst
<1>5. SubSeq(s, 1, k - 1) = p
  <2> DEFINE u == SubSeq(s, 1, k - 1)
  <2>1. u \in Seq(Nat) /\ Len(u) = Len(p) /\ \A i \in 1..Len(p) : u[i] = s[i]
    BY <1>1, <1>2
  <2> HIDE DEF u
  <2>2. \A i \in 1..Len(u) : u[i] = p[i]
    BY <1>1, <1>2, <2>1
  <2>3. u = p
    BY <2>1, <2>2, SeqEqual
  <2> QED
    BY <2>3 DEF u
<1>6. After(s, c) = t
  <2> DEFINE u == SubSeq(s, k + 1, Len(s))
  <2>1. u \in Seq(Nat) /\ Len(u) = Len(t) /\ \A i \in 1..Len(t) : u[i] = s[k + i]
    <3>1. k + 1 \in Int /\ Len(s) \in Int /\ Len(s) - (k + 1) + 1 = Len(t) /\ Len(t) \in Nat
      BY <1>1, <1>2
    <3>2. \A i \in k + 1..Len(s) : s[i] \in Nat
      BY <1>1, <1>2
    <3>3. /\ u \in Seq(Nat)
          /\ Len(u) = IF k + 1 <= Len(s) THEN Len(s) - (k + 1) + 1 ELSE 0
          /\ \A i \in 1..Len(s) - (k + 1) + 1 : u[i] = s[(k + 1) + i - 1]
      BY <3>1, <3>2, SubSeqProperties
    <3> HIDE DEF u
    <3>4. Len(u) = Len(t)
      BY <1>1, <1>2, <3>1, <3>3
    <3>5. \A i \in 1..Len(t) : (k + 1) + i - 1 = k + i
      BY <1>1
    <3> QED
      BY <3>1, <3>3, <3>4, <3>5
  <2>2. After(s, c) = u
    <3>1. Before(s, c) = p /\ Len(p) + 2 = k + 1
      BY <1>1, <1>4, <1>5
    <3> HIDE DEF k
    <3> QED
      BY <3>1 DEF After
  <2> HIDE DEF u
  <2>3. \A i \in 1..Len(u) : u[i] = t[i]
    BY <1>2, <2>1
  <2>4. u = t
    BY <2>1, <2>3, SeqEqual
  <2> QED
    BY <2>2, <2>4
<1> QED
  BY <1>2, <1>4, <1>5, <1>6 DEF s, a

\* The backend reads from a URI the session and the device it was made for.
THEOREM UriIsRead ==
  ASSUME NEW s \in Nat, NEW d \in Nat
  PROVE  UriSession(Uri(s, d)) = s /\ UriDevice(Uri(s, d)) = d
<1> DEFINE p == Printed(10, s)
           t == Printed(16, d)
<1>1. /\ p \in Seq(DigitChar) /\ p \in Seq(Nat) /\ t \in Seq(Nat)
      /\ Scanned(10, p) = s /\ Scanned(16, t) = d
  BY PrintedIsDigits, RoundTrip
<1> HIDE DEF p, t
<1>2. \A i \in 1..Len(p) : p[i] # Slash
  <2>1. Slash \notin DigitChar
    BY DEF DigitChar, Slash
  <2> QED
    BY <1>1, <2>1, ElementOfSeq
<1>3. Slash \in Nat
  BY DEF Slash
<1>4. Before(p \o <<Slash>> \o t, Slash) = p /\ After(p \o <<Slash>> \o t, Slash) = t
  BY <1>1, <1>2, <1>3, Marked
<1>5. Uri(s, d) = p \o <<Slash>> \o t
  BY DEF Uri, p, t
<1> QED
  BY <1>1, <1>4, <1>5 DEF UriSession, UriDevice

-----------------------------------------------------------------------------
(* Queue names.                                                            *)

\* What printer_sanitize_name may make for session k.
NamesOf(k) == {Prefix(k) \o t : t \in Seq(Nat \ {Colon})}

\* The prefix of session k is the word, the digits and an underscore, and has no colon.
LEMMA PrefixShape ==
  ASSUME NEW k \in Nat
  PROVE  /\ Prefix(k) \in Seq(Nat \ {Colon})
         /\ k > 0 =>
              /\ Len(Prefix(k)) = Len(Printed(10, k)) + 6
              /\ \A i \in 1..Len(Printed(10, k)) : Prefix(k)[5 + i] = Printed(10, k)[i]
              /\ Prefix(k)[Len(Printed(10, k)) + 6] = Underscore
<1> DEFINE p == Printed(10, k)
           a == Append(p, Underscore)
           N == Nat \ {Colon}
<1>1. Xrdp \in Seq(N) /\ Len(Xrdp) = 5
  BY DEF Xrdp, Underscore, Colon
<1>2. CASE k > 0
  <2>1. p \in Seq(DigitChar)
    BY PrintedIsDigits
  <2>2. DigitChar \subseteq N /\ Underscore \in N
    BY DEF DigitChar, Underscore, Colon
  <2>3. p \in Seq(N)
    BY <2>1, <2>2, SeqMonotonic
  <2> HIDE DEF p
  <2>4. /\ a \in Seq(N) /\ Len(a) = Len(p) + 1 /\ a[Len(p) + 1] = Underscore
        /\ \A i \in 1..Len(p) : a[i] = p[i]
        /\ Len(p) \in Nat
    BY <2>2, <2>3, AppendProperties
  <2> HIDE DEF a
  <2> DEFINE x == Xrdp \o a
  <2>5. /\ x \in Seq(N) /\ Len(x) = Len(p) + 6
        /\ \A i \in 1..Len(p) + 1 : x[5 + i] = a[i]
    <3>1. /\ x \in Seq(N) /\ Len(x) = 5 + Len(a)
          /\ \A i \in 1..5 + Len(a) : x[i] = IF i <= 5 THEN Xrdp[i] ELSE a[i - 5]
      <4>1. x \in Seq(N) /\ Len(x) = Len(Xrdp) + Len(a)
            /\ \A i \in 1..Len(Xrdp) + Len(a) :
                  x[i] = IF i <= Len(Xrdp) THEN Xrdp[i] ELSE a[i - Len(Xrdp)]
        <5> HIDE DEF N
        <5> QED
          BY <1>1, <2>4, ConcatProperties
      <4> HIDE DEF x, N
      <4> QED
        BY <1>1, <4>1
    <3> HIDE DEF x
    <3>2. ASSUME NEW i \in 1..Len(p) + 1
          PROVE  x[5 + i] = a[i]
      <4>1. 5 + i \in 1..5 + Len(a) /\ ~(5 + i <= 5) /\ (5 + i) - 5 = i
        BY <2>4
      <4> QED
        BY <3>1, <4>1
    <3> QED
      BY <2>4, <3>1, <3>2
  <2>6. Prefix(k) = x
    BY <1>2 DEF Prefix, p, a
  <2>7. x[Len(p) + 6] = Underscore
    <3>1. Len(p) + 1 \in 1..Len(p) + 1 /\ 5 + (Len(p) + 1) = Len(p) + 6
      BY <2>4
    <3> HIDE DEF x
    <3> QED
      BY <2>4, <2>5, <3>1
  <2>8. \A i \in 1..Len(p) : x[5 + i] = p[i]
    <3>1. \A i \in 1..Len(p) : i \in 1..Len(p) + 1
      BY <2>4
    <3> HIDE DEF x
    <3> QED
      BY <2>4, <2>5, <3>1
  <2> HIDE DEF x
  <2>9. /\ Len(Prefix(k)) = Len(p) + 6 /\ Prefix(k) \in Seq(N)
        /\ \A i \in 1..Len(p) : Prefix(k)[5 + i] = p[i]
        /\ Prefix(k)[Len(p) + 6] = Underscore
    BY <2>5, <2>6, <2>7, <2>8
  <2> QED
    BY <2>9 DEF p
<1>3. CASE ~(k > 0)
  BY <1>1, <1>3 DEF Prefix
<1> QED
  BY <1>2, <1>3

\* A queue name begins with the prefix of its session and goes on as it was made.
LEMMA NameShape ==
  ASSUME NEW k \in Nat, NEW t \in Seq(Nat \ {Colon})
  PROVE  LET q == Prefix(k) \o t IN
         /\ q \in Seq(Nat \ {Colon})
         /\ Len(q) = Len(Prefix(k)) + Len(t)
         /\ \A i \in 1..Len(Prefix(k)) : q[i] = Prefix(k)[i]
         /\ SubSeq(q, Len(Prefix(k)) + 1, Len(q)) = t
<1> DEFINE N == Nat \ {Colon}
           p == Prefix(k)
           q == p \o t
<1>1. p \in Seq(N) /\ t \in Seq(N)
  BY PrefixShape
<1> HIDE DEF N, p
<1>2. /\ q \in Seq(N) /\ Len(q) = Len(p) + Len(t)
      /\ \A i \in 1..Len(p) + Len(t) : q[i] = IF i <= Len(p) THEN p[i] ELSE t[i - Len(p)]
  BY <1>1, ConcatProperties
<1> HIDE DEF q
<1>3. Len(p) \in Nat /\ Len(t) \in Nat
  BY <1>1, LenProperties
<1>4. \A i \in 1..Len(p) : q[i] = p[i]
  BY <1>2, <1>3
<1> DEFINE u == SubSeq(q, Len(p) + 1, Len(q))
<1>5. /\ u \in Seq(N) /\ Len(u) = Len(t) /\ \A i \in 1..Len(t) : u[i] = q[Len(p) + i]
  BY <1>2, <1>3
<1> HIDE DEF u
<1>6. \A i \in 1..Len(u) : u[i] = t[i]
  <2>1. ASSUME NEW i \in 1..Len(t)
        PROVE  q[Len(p) + i] = t[i]
    <3>1. /\ Len(p) + i \in 1..Len(p) + Len(t) /\ ~(Len(p) + i <= Len(p))
          /\ (Len(p) + i) - Len(p) = i
      BY <1>3
    <3> QED
      BY <1>2, <3>1
  <2> QED
    BY <1>5, <2>1
<1>7. u = t
  BY <1>1, <1>5, <1>6, SeqEqual
<1> QED
  BY <1>2, <1>4, <1>7 DEF N, p, q, u

\* printer_cups_cleanup_stale_queues reads queue names as they are, and knows those
\* of its own session.
LEMMA NamesAreFound ==
  ASSUME NEW k \in Nat, NEW q \in NamesOf(k)
  PROVE  Before(q, Colon) = q /\ IsPrefix(Prefix(k), q)
<1>1. PICK t \in Seq(Nat \ {Colon}) : q = Prefix(k) \o t
  BY DEF NamesOf
<1>2. /\ q \in Seq(Nat \ {Colon}) /\ Len(q) = Len(Prefix(k)) + Len(t)
      /\ \A i \in 1..Len(Prefix(k)) : q[i] = Prefix(k)[i]
  BY <1>1, NameShape
<1>3. q \in Seq(Nat) /\ \A i \in 1..Len(q) : q[i] # Colon
  <2>1. Nat \ {Colon} \subseteq Nat
    OBVIOUS
  <2>2. q \in Seq(Nat)
    BY <1>2, <2>1, SeqMonotonic
  <2> QED
    BY <1>2, <2>2, ElementOfSeq
<1>4. IsPrefix(Prefix(k), q)
  <2> DEFINE p == Prefix(k)
  <2>1. p \in Seq(Nat \ {Colon})
    BY PrefixShape
  <2>4. Len(p) \in Nat /\ Len(t) \in Nat
    <3> HIDE DEF p
    <3> QED
      BY <2>1, LenProperties
  <2> HIDE DEF p
  <2>2. Len(p) <= Len(q)
    BY <1>2, <2>4 DEF p
  <2>3. SubSeq(p, 1, Len(p)) = SubSeq(q, 1, Len(p))
    BY <1>2, <2>1, <2>4 DEF p
  <2> QED
    BY <2>2, <2>3 DEF IsPrefix, p
<1> QED
  BY <1>3, <1>4, BeforeNone

\* No display number's prefix begins the queue names of another number, whatever
\* printers are called: the underscore ends the digits.
THEOREM PrefixesDiffer ==
  ASSUME NEW k \in Nat \ {0}, NEW m \in Nat \ {0}, NEW q \in NamesOf(m),
         IsPrefix(Prefix(k), q)
  PROVE  k = m
<1> DEFINE a == Printed(10, k)
           b == Printed(10, m)
           p == Prefix(k)
           r == Prefix(m)
<1>1. /\ a \in Seq(DigitChar) /\ b \in Seq(DigitChar)
      /\ Scanned(10, a) = k /\ Scanned(10, b) = m
  BY PrintedIsDigits, RoundTrip
<1>0. k \in Nat /\ k > 0 /\ m \in Nat /\ m > 0
  OBVIOUS
<1>2. /\ p \in Seq(Nat \ {Colon}) /\ Len(p) = Len(a) + 6 /\ p[Len(a) + 6] = Underscore
      /\ \A i \in 1..Len(a) : p[5 + i] = a[i]
  BY <1>0, PrefixShape
<1>3. /\ Len(r) = Len(b) + 6 /\ r[Len(b) + 6] = Underscore
      /\ \A i \in 1..Len(b) : r[5 + i] = b[i]
  BY <1>0, PrefixShape
<1>4. /\ q \in Seq(Nat \ {Colon}) /\ Len(q) >= Len(r)
      /\ \A i \in 1..Len(r) : q[i] = r[i]
  <2>1. PICK t \in Seq(Nat \ {Colon}) : q = r \o t
    BY DEF NamesOf
  <2>2. /\ q \in Seq(Nat \ {Colon}) /\ Len(q) = Len(r) + Len(t)
        /\ \A i \in 1..Len(r) : q[i] = r[i]
    BY <2>1, NameShape
  <2>3. r \in Seq(Nat \ {Colon})
    BY PrefixShape
  <2> HIDE DEF r
  <2>4. Len(t) \in Nat /\ Len(r) \in Nat
    BY <2>3, LenProperties
  <2> QED
    BY <2>2, <2>4
<1>5. Len(p) <= Len(q) /\ SubSeq(p, 1, Len(p)) = SubSeq(q, 1, Len(p))
  BY DEF IsPrefix
<1> HIDE DEF a, b, p, r
<1>6. Len(a) \in Nat /\ Len(b) \in Nat /\ Len(p) \in Nat /\ Len(q) \in Nat
  BY <1>1, <1>2, <1>4, LenProperties
<1>7. \A i \in 1..Len(p) : p[i] = q[i]
  <2> DEFINE u == SubSeq(p, 1, Len(p))
             v == SubSeq(q, 1, Len(p))
  <2>1. \A i \in 1..Len(p) : u[i] = p[i]
    BY <1>2
  <2>2. \A i \in 1..Len(p) : v[i] = q[i]
    BY <1>4, <1>5, <1>6
  <2>3. u = v
    BY <1>5
  <2> HIDE DEF u, v
  <2> QED
    BY <2>1, <2>2, <2>3
<1>8. Underscore \notin DigitChar
  BY DEF Underscore, DigitChar
<1>9. ~(Len(a) < Len(b))
  <2> SUFFICES ASSUME Len(a) < Len(b)
               PROVE  FALSE
    OBVIOUS
  <2>1. /\ Len(a) + 1 \in 1..Len(b) /\ 5 + (Len(a) + 1) = Len(a) + 6
        /\ Len(a) + 6 \in 1..Len(p) /\ Len(a) + 6 \in 1..Len(r)
    BY <1>2, <1>3, <1>6
  <2>2. b[Len(a) + 1] = Underscore
    BY <1>2, <1>3, <1>4, <1>7, <2>1
  <2> QED
    BY <1>1, <1>8, <2>1, <2>2, ElementOfSeq
<1>10. ~(Len(b) < Len(a))
  <2> SUFFICES ASSUME Len(b) < Len(a)
               PROVE  FALSE
    OBVIOUS
  <2>1. /\ Len(b) + 1 \in 1..Len(a) /\ 5 + (Len(b) + 1) = Len(b) + 6
        /\ Len(b) + 6 \in 1..Len(p) /\ Len(b) + 6 \in 1..Len(r)
    BY <1>2, <1>3, <1>6
  <2>2. p[Len(b) + 6] = a[Len(b) + 1]
    BY <1>2, <2>1
  <2>3. p[Len(b) + 6] = r[Len(b) + 6]
    BY <1>4, <1>7, <2>1
  <2>4. a[Len(b) + 1] = Underscore
    BY <1>3, <2>2, <2>3
  <2> QED
    BY <1>1, <1>8, <2>1, <2>4, ElementOfSeq
<1>11. Len(a) = Len(b)
  BY <1>6, <1>9, <1>10
<1>12. \A i \in 1..Len(a) : a[i] = b[i]
  <2> SUFFICES ASSUME NEW i \in 1..Len(a)
               PROVE  a[i] = b[i]
    OBVIOUS
  <2>1. 5 + i \in 1..Len(p) /\ 5 + i \in 1..Len(r) /\ i \in 1..Len(b)
    BY <1>2, <1>3, <1>6, <1>11
  <2> QED
    BY <1>2, <1>3, <1>4, <1>7, <2>1
<1>13. a = b
  BY <1>1, <1>11, <1>12, SeqEqual
<1> QED
  BY <1>1, <1>13

\* What printer_sanitize_name returns: the prefix, and after it a name of the same
\* length in which only letters, digits and dashes are kept.
LEMMA SanitizedShape ==
  ASSUME NEW name \in Seq(Nat), NEW k \in Nat
  PROVE  LET q == SanitizeName(name, k)
             tail == SubSeq(q, Len(Prefix(k)) + 1, Len(q))
         IN  /\ q \in NamesOf(k)
             /\ tail \in Seq(Nat) /\ tail # << >>
             /\ \A i \in 1..Len(tail) : IsAlnum(tail[i]) =>
                   tail[i] \in Range(IF name # << >> THEN name ELSE PrinterWord)
<1> DEFINE N == Nat \ {Colon}
           kept(c) == IF IsAlnum(c) \/ c = 45 THEN c ELSE Underscore
           t == IF name = << >> THEN PrinterWord ELSE [i \in DOMAIN name |-> kept(name[i])]
           source == IF name # << >> THEN name ELSE PrinterWord
<1>1. \A c \in Nat : kept(c) \in N /\ (IsAlnum(kept(c)) => kept(c) = c)
  BY DEF IsAlnum, Underscore, Colon
<1>2. /\ t \in Seq(N) /\ Len(t) \in Nat /\ t # << >>
      /\ \A i \in 1..Len(t) : IsAlnum(t[i]) => t[i] \in Range(source)
  <2>1. CASE name = << >>
    <3>1. PrinterWord \in Seq(N) /\ Len(PrinterWord) \in Nat
      BY DEF PrinterWord, Colon
    <3>2. \A i \in 1..Len(PrinterWord) : PrinterWord[i] \in Range(PrinterWord)
      <4>1. DOMAIN PrinterWord = 1..Len(PrinterWord)
        BY <3>1, LenProperties
      <4> QED
        BY <4>1 DEF Range
    <3>3. PrinterWord # << >>
      BY DEF PrinterWord
    <3>4. t = PrinterWord /\ source = PrinterWord
      BY <2>1
    <3> HIDE DEF t, source, N
    <3> QED
      BY <3>1, <3>2, <3>3, <3>4, Zenon
  <2>2. CASE name # << >>
    <3> DEFINE u == [i \in DOMAIN name |-> kept(name[i])]
    <3>1. /\ DOMAIN name = 1..Len(name) /\ Len(name) \in Nat \ {0} /\ t = u
          /\ source = name
      BY <2>2
    <3> HIDE DEF t, kept, source
    <3>2. \A i \in 1..Len(name) : name[i] \in Nat /\ u[i] = kept(name[i]) /\ u[i] \in N
      <4>1. \A i \in 1..Len(name) : name[i] \in Nat
        BY ElementOfSeq
      <4> HIDE DEF N
      <4> QED
        BY <1>1, <3>1, <4>1
    <3>3. u \in Seq(N) /\ Len(u) = Len(name)
      <4>1. u \in [1..Len(name) -> N]
        BY <3>1, <3>2
      <4> HIDE DEF u
      <4> QED
        BY <3>1, <4>1
    <3>4. \A i \in 1..Len(name) : name[i] \in Range(name)
      BY <3>1 DEF Range
    <3> HIDE DEF u
    <3>5. u # << >>
      BY <3>1, <3>3
    <3>6. \A i \in 1..Len(name) : IsAlnum(u[i]) => u[i] \in Range(name)
      BY <1>1, <3>2, <3>4
    <3> QED
      BY <2>2, <3>1, <3>3, <3>5, <3>6
  <2> QED
    BY <2>1, <2>2
<1>3. SanitizeName(name, k) = Prefix(k) \o t
  BY DEF SanitizeName
<1> HIDE DEF t, source, kept
<1> DEFINE q == SanitizeName(name, k)
<1>4. q \in NamesOf(k)
  BY <1>2, <1>3 DEF NamesOf
<1>5. SubSeq(q, Len(Prefix(k)) + 1, Len(q)) = t
  BY <1>2, <1>3, NameShape
<1>6. t \in Seq(Nat)
  <2>1. N \subseteq Nat
    OBVIOUS
  <2> HIDE DEF N
  <2> QED
    BY <1>2, <2>1, SeqMonotonic
<1> HIDE DEF q
<1> QED
  BY <1>2, <1>4, <1>5, <1>6 DEF q, source

-----------------------------------------------------------------------------
(* The name in an announcement.                                            *)

\* What the conversion keeps is printable text of the name, up to its first zero,
\* and something if there is any.
LEMMA AsciiOfName ==
  ASSUME NEW units \in Seq(Nat)
  PROVE  /\ ToAscii(units) \in Seq(Nat)
         /\ \A i \in 1..Len(ToAscii(units)) : ToAscii(units)[i] \in Range(units)
         /\ ToAscii(units) # << >> <=>
               \E k \in DOMAIN units : /\ units[k] \in 32..126
                                       /\ \A m \in 1..k : units[m] # 0
<1> DEFINE text == Before(units, 0)
           n == Len(text)
<1>1. /\ text \in Seq(Nat) /\ n \in Nat /\ n <= Len(units)
      /\ \A i \in 1..n : text[i] = units[i] /\ units[i] # 0
      /\ n < Len(units) => units[n + 1] = 0
  <2>1. CASE \A i \in 1..Len(units) : units[i] # 0
    <3>1. text = units
      BY <2>1, BeforeNone
    <3> QED
      BY <2>1, <3>1
  <2>2. CASE \E i \in 1..Len(units) : units[i] = 0
    <3> DEFINE hits == {i \in 1..Len(units) : units[i] = 0}
    <3>1. hits \subseteq Nat /\ hits # {}
      BY <2>2
    <3>2. PICK k \in hits : \A i \in hits : k <= i
      <4> HIDE DEF hits
      <4> QED
        BY <3>1, Least
    <3>3. k \in 1..Len(units) /\ units[k] = 0 /\ \A i \in 1..k - 1 : units[i] # 0
      BY <3>2
    <3>4. text = SubSeq(units, 1, k - 1)
      BY <3>3, BeforeFirst
    <3> HIDE DEF text, hits
    <3>5. /\ text \in Seq(Nat) /\ Len(text) = k - 1
          /\ \A i \in 1..k - 1 : text[i] = units[i]
      BY <3>3, <3>4
    <3> QED
      BY <3>3, <3>5
  <2> QED
    BY <2>1, <2>2
<1> HIDE DEF text, n
<1> DEFINE D == Seq(Nat)
           s == [x \in (1..n) \X D |->
                   IF text[x[1]] \in 32..126 /\ Len(x[2]) < MaxName
                     THEN Append(x[2], text[x[1]]) ELSE x[2]]
           Equation(v) ==
             v = [i \in 0..n |->
                    IF i = 0 THEN << >>
                    ELSE IF text[i] \in 32..126 /\ Len(v[i - 1]) < MaxName
                      THEN Append(v[i - 1], text[i]) ELSE v[i - 1]]
<1>2. s \in [(1..n) \X D -> D]
  <2>1. ASSUME NEW x \in (1..n) \X D
        PROVE  (IF text[x[1]] \in 32..126 /\ Len(x[2]) < MaxName
                  THEN Append(x[2], text[x[1]]) ELSE x[2]) \in D
    <3>1. x[1] \in 1..n /\ x[2] \in Seq(Nat)
      OBVIOUS
    <3>2. text[x[1]] \in Nat
      BY <1>1, <3>1, ElementOfSeq
    <3> QED
      BY <3>1, <3>2
  <2> QED
    BY <2>1
<1>3. PICK f : Passes(f, D, n, << >>, s)
  <2>1. << >> \in D
    OBVIOUS
  <2> HIDE DEF s, D
  <2> QED
    BY <1>1, <1>2, <2>1, PositionRecursion
<1>4. f \in [0..n -> D]
  BY <1>3 DEF Passes
<1>5. Equation(f)
  <2>1. ASSUME NEW i \in 0..n
        PROVE  f[i] = IF i = 0 THEN << >>
                      ELSE IF text[i] \in 32..126 /\ Len(f[i - 1]) < MaxName
                        THEN Append(f[i - 1], text[i]) ELSE f[i - 1]
    <3>1. f[i] = IF i = 0 THEN << >> ELSE s[<<i, f[i - 1]>>]
      <4> HIDE DEF s
      <4> QED
        BY <1>3 DEF Passes
    <3>2. ASSUME i # 0
          PROVE  s[<<i, f[i - 1]>>] = IF text[i] \in 32..126 /\ Len(f[i - 1]) < MaxName
                                        THEN Append(f[i - 1], text[i]) ELSE f[i - 1]
      <4>1. i \in 1..n /\ i - 1 \in 0..n
        BY <1>1, <3>2
      <4>3. f[i - 1] \in D
        BY <1>4, <4>1
      <4>2. <<i, f[i - 1]>> \in (1..n) \X D
        BY <4>1, <4>3
      <4> HIDE DEF D
      <4> QED
        BY <4>2
    <3> HIDE DEF s
    <3> QED
      BY <3>1, <3>2
  <2>2. f = [i \in 0..n |-> f[i]]
    BY <1>4
  <2> QED
    BY <2>1, <2>2
<1> DEFINE V == CHOOSE v : Equation(v)
<1>6. Equation(V)
  <2> HIDE DEF Equation
  <2> QED
    BY <1>5, Zenon
<1>7. ToAscii(units) = V[n]
  BY Zenon DEF ToAscii, text, n
<1> HIDE DEF V
<1>8. /\ V[0] = << >>
      /\ \A i \in 1..n : V[i] = IF text[i] \in 32..126 /\ Len(V[i - 1]) < MaxName
                                  THEN Append(V[i - 1], text[i]) ELSE V[i - 1]
  <2>1. \A i \in 0..n :
          V[i] = IF i = 0 THEN << >>
                 ELSE IF text[i] \in 32..126 /\ Len(V[i - 1]) < MaxName
                   THEN Append(V[i - 1], text[i]) ELSE V[i - 1]
    BY <1>6, Zenon
  <2>2. 0 \in 0..n /\ \A i \in 1..n : i \in 0..n /\ i # 0
    BY <1>1
  <2> QED
    BY <2>1, <2>2, Zenon
<1> DEFINE R == Range(units)
           OK(i) == /\ V[i] \in Seq(Nat \cap R)
                    /\ V[i] # << >> <=> \E k \in 1..i : text[k] \in 32..126
           S == {i \in Nat : i <= n => OK(i)}
<1>9. ASSUME NEW i \in Nat, \A m \in 0..i - 1 : m \in S
      PROVE  i \in S
  <2> SUFFICES ASSUME i <= n
               PROVE  OK(i)
    OBVIOUS
  <2>1. CASE i = 0
    <3>1. V[0] = << >> /\ << >> \in Seq(Nat \cap R) /\ 1..0 = {}
      BY <1>8
    <3> HIDE DEF R
    <3> QED
      BY <2>1, <3>1
  <2>2. CASE i # 0
    <3>1. i \in 1..n /\ V[i - 1] \in Seq(Nat \cap R)
          /\ (V[i - 1] # << >> <=> \E k \in 1..i - 1 : text[k] \in 32..126)
      <4>1. i \in 1..n /\ i - 1 \in 0..i - 1 /\ i - 1 <= n
        BY <1>1, <2>2
      <4>2. i - 1 \in S
        BY <1>9, <4>1
      <4> HIDE DEF R
      <4> QED
        BY <4>1, <4>2
    <3>2. text[i] \in Nat \cap R
      <4>1. i \in DOMAIN units /\ text[i] = units[i] /\ units[i] \in Nat
        BY <1>1, <3>1
      <4> QED
        BY <4>1 DEF Range
    <3>3. V[i] = IF text[i] \in 32..126 /\ Len(V[i - 1]) < MaxName
                   THEN Append(V[i - 1], text[i]) ELSE V[i - 1]
      BY <1>8, <3>1
    <3> HIDE DEF R
    <3>4. V[i] \in Seq(Nat \cap R)
      BY <3>1, <3>2, <3>3
    <3>5. CASE text[i] \in 32..126
      <4>1. V[i] # << >>
        <5>1. Len(<< >>) < MaxName
          BY PrinterNamesAssumption
        <5>2. Append(V[i - 1], text[i]) # << >>
          BY <3>1, <3>2, AppendProperties
        <5> QED
          BY <3>3, <3>5, <5>1, <5>2
      <4>2. i \in 1..i
        BY <3>1
      <4> QED
        BY <3>4, <3>5, <4>1, <4>2
    <3>6. CASE text[i] \notin 32..126
      <4>1. V[i] = V[i - 1]
        BY <3>3, <3>6
      <4>2. (\E k \in 1..i - 1 : text[k] \in 32..126) <=> \E k \in 1..i : text[k] \in 32..126
        <5>1. \A k \in 1..i : k # i => k \in 1..i - 1
          OBVIOUS
        <5>2. \A k \in 1..i - 1 : k \in 1..i
          OBVIOUS
        <5> QED
          BY <3>6, <5>1, <5>2
      <4> QED
        BY <3>1, <3>4, <4>1, <4>2
    <3> QED
      BY <3>5, <3>6
  <2> QED
    BY <2>1, <2>2
<1>10. OK(n)
  <2>1. \A i \in Nat : i \in S
    <3> HIDE DEF S
    <3> QED
      BY <1>9, StrongInduction
  <2>2. n \in S /\ n <= n
    BY <1>1, <2>1
  <2> HIDE DEF R
  <2> QED
    BY <2>2
<1>11. (\E k \in 1..n : text[k] \in 32..126) <=>
         \E k \in DOMAIN units : units[k] \in 32..126 /\ \A m \in 1..k : units[m] # 0
  <2>1. ASSUME NEW k \in 1..n, text[k] \in 32..126
        PROVE  k \in DOMAIN units /\ units[k] \in 32..126 /\ \A m \in 1..k : units[m] # 0
    <3>1. k \in 1..Len(units) /\ \A m \in 1..k : m \in 1..n
      BY <1>1
    <3>2. text[k] = units[k]
      BY <1>1
    <3>3. \A m \in 1..k : units[m] # 0
      BY <1>1, <3>1
    <3> QED
      BY <2>1, <3>1, <3>2, <3>3
  <2>2. ASSUME NEW k \in DOMAIN units, units[k] \in 32..126, \A m \in 1..k : units[m] # 0
        PROVE  k \in 1..n /\ text[k] \in 32..126
    <3>1. k \in 1..Len(units) /\ Len(units) \in Nat
      OBVIOUS
    <3>2. k <= n
      <4>1. n < k => n + 1 \in 1..k
        BY <1>1, <3>1
      <4>2. n < k => units[n + 1] = 0
        BY <1>1, <3>1
      <4>3. ~(n < k)
        BY <2>2, <4>1, <4>2
      <4> QED
        BY <1>1, <3>1, <4>3
    <3>3. k \in 1..n
      BY <1>1, <3>1, <3>2
    <3>4. text[k] = units[k]
      BY <1>1, <3>3
    <3> QED
      BY <2>2, <3>3, <3>4
  <2> QED
    BY <2>1, <2>2
<1> DEFINE a == ToAscii(units)
<1>12. a \in Seq(Nat \cap R) /\ (a # << >> <=> \E k \in 1..n : text[k] \in 32..126)
  BY <1>7, <1>10
<1>13. a \in Seq(Nat) /\ \A i \in 1..Len(a) : a[i] \in R
  <2> HIDE DEF a, R
  <2>1. Nat \cap R \subseteq Nat
    OBVIOUS
  <2> QED
    BY <1>12, <2>1, SeqMonotonic, ElementOfSeq
<1> QED
  BY <1>11, <1>12, <1>13

\* In a complete announcement the printer's name is where the lengths put it.
LEMMA NameInData ==
  ASSUME NEW a \in AnnouncementType, Complete(a)
  PROVE  /\ PrinterNameIn(a) = ToAscii(a.printerName)
         /\ a.printerName \in Seq(Nat) /\ a.dosName \in Seq(Nat)
<1> DEFINE P == a.pnpName
           D == a.driverName
           N == a.printerName
           C == a.cached
           all == P \o D \o N \o C
           data == SubSeq(all, 1, Len(all) - a.cut)
<1>1. /\ P \in Seq(Nat) /\ D \in Seq(Nat) /\ N \in Seq(Nat) /\ C \in Seq(Nat)
      /\ a.dosName \in Seq(Nat) /\ a.cut \in Nat
  <2>1. /\ P \in Seq(CodeUnit) /\ D \in Seq(CodeUnit) /\ N \in Seq(CodeUnit)
        /\ C \in Seq(CodeUnit) /\ a.dosName \in Seq(Ascii) /\ a.cut \in Nat
    BY DEF AnnouncementType
  <2>2. CodeUnit \subseteq Nat /\ Ascii \subseteq Nat
    BY DEF CodeUnit, Ascii
  <2> HIDE DEF P, D, N, C
  <2> QED
    BY <2>1, <2>2, SeqMonotonic
<1>2. /\ Data(a) = data
      /\ Len(data) >= Len(P) + Len(D) + Len(N) + Len(C)
      /\ PrinterNameIn(a) = ToAscii(SubSeq(data, Len(P) + Len(D) + 1,
                                           Len(P) + Len(D) + 1 + Len(N) - 1))
  BY DEF Complete, Data, Lengths, PrinterNameIn
<1> HIDE DEF P, D, N, C
<1>3. /\ Len(P) \in Nat /\ Len(D) \in Nat /\ Len(N) \in Nat /\ Len(C) \in Nat
  BY <1>1, LenProperties
<1>4. /\ all \in Seq(Nat) /\ Len(all) = Len(P) + Len(D) + Len(N) + Len(C)
      /\ \A i \in 1..Len(N) : all[Len(P) + Len(D) + i] = N[i]
  <2> DEFINE pd == P \o D
             pdn == pd \o N
  <2>1. pd \in Seq(Nat) /\ Len(pd) = Len(P) + Len(D)
    BY <1>1, ConcatProperties
  <2> HIDE DEF pd
  <2>2. /\ pdn \in Seq(Nat) /\ Len(pdn) = Len(pd) + Len(N)
        /\ \A i \in 1..Len(pd) + Len(N) : pdn[i] = IF i <= Len(pd) THEN pd[i] ELSE N[i - Len(pd)]
    <3>1. pd \in Seq(Nat) /\ N \in Seq(Nat)
      BY <1>1, <2>1
    <3> QED
      BY <3>1, ConcatProperties, Zenon
  <2> HIDE DEF pdn
  <2> DEFINE x == pdn \o C
  <2>3. /\ x \in Seq(Nat) /\ Len(x) = Len(pdn) + Len(C)
        /\ \A i \in 1..Len(pdn) + Len(C) : x[i] = IF i <= Len(pdn) THEN pdn[i] ELSE C[i - Len(pdn)]
    BY <1>1, <2>2, ConcatProperties
  <2> HIDE DEF x
  <2>4. ASSUME NEW i \in 1..Len(N)
        PROVE  x[Len(pd) + i] = N[i]
    <3> DEFINE k == Len(pd) + i
    <3>1. /\ k \in 1..Len(pd) + Len(N) /\ ~(k <= Len(pd)) /\ k - Len(pd) = i
          /\ k <= Len(pdn) /\ k \in 1..Len(pdn) + Len(C)
      BY <1>3, <2>1, <2>2
    <3> HIDE DEF k
    <3>2. x[k] = pdn[k] /\ pdn[k] = N[k - Len(pd)]
      BY <2>2, <2>3, <3>1
    <3> QED
      BY <3>1, <3>2 DEF k
  <2>5. all = x
    BY DEF x, pdn, pd
  <2>6. Len(x) = Len(P) + Len(D) + Len(N) + Len(C)
    BY <2>1, <2>2, <2>3
  <2> HIDE DEF all
  <2> QED
    BY <2>1, <2>3, <2>4, <2>5, <2>6
<1> HIDE DEF all
<1>5. data = all
  <2>1. /\ data \in Seq(Nat)
        /\ Len(data) = IF 1 <= Len(all) - a.cut THEN Len(all) - a.cut ELSE 0
        /\ \A i \in 1..Len(all) - a.cut : data[i] = all[i]
    <3>1. Len(all) - a.cut \in Int /\ Len(all) \in Nat
      BY <1>1, <1>3, <1>4
    <3> DEFINE z == Len(all) - a.cut
    <3>2. \A i \in 1..z : all[i] \in Nat
      <4>1. \A i \in 1..z : i \in 1..Len(all)
        BY <1>1, <3>1
      <4> QED
        BY <1>4, <4>1, ElementOfSeq
    <3> HIDE DEF z
    <3>3. /\ SubSeq(all, 1, z) \in Seq(Nat)
          /\ Len(SubSeq(all, 1, z)) = IF 1 <= z THEN z - 1 + 1 ELSE 0
          /\ \A i \in 1..z - 1 + 1 : SubSeq(all, 1, z)[i] = all[1 + i - 1]
      <4>1. z \in Int /\ 1 \in Int
        BY <3>1 DEF z
      <4> QED
        BY <3>2, <4>1, SubSeqProperties
    <3>4. z - 1 + 1 = z /\ \A i \in 1..z : 1 + i - 1 = i
      BY <3>1 DEF z
    <3>5. /\ SubSeq(all, 1, z) \in Seq(Nat)
          /\ Len(SubSeq(all, 1, z)) = IF 1 <= z THEN z ELSE 0
          /\ \A i \in 1..z : SubSeq(all, 1, z)[i] = all[i]
      BY <3>3, <3>4
    <3> QED
      BY <3>5 DEF z
  <2> HIDE DEF data
  <2>2. Len(data) = Len(all) /\ \A i \in 1..Len(data) : data[i] = all[i]
    BY <1>1, <1>2, <1>3, <1>4, <2>1
  <2> QED
    BY <1>4, <2>1, <2>2, SeqEqual
<1> HIDE DEF data
<1> DEFINE u == SubSeq(all, Len(P) + Len(D) + 1, Len(P) + Len(D) + 1 + Len(N) - 1)
<1>6. u = N
  <2> DEFINE lo == Len(P) + Len(D) + 1
             hi == Len(P) + Len(D) + 1 + Len(N) - 1
  <2>1. /\ lo \in Int /\ hi \in Int /\ hi - lo + 1 = Len(N)
        /\ lo <= hi <=> Len(N) > 0
        /\ \A i \in lo..hi : i \in 1..Len(all)
        /\ \A i \in 1..Len(N) : lo + i - 1 = Len(P) + Len(D) + i
    BY <1>3, <1>4
  <2>2. u = SubSeq(all, lo, hi)
    OBVIOUS
  <2> HIDE DEF lo, hi, u
  <2>3. \A i \in lo..hi : all[i] \in Nat
    BY <1>4, <2>1, ElementOfSeq
  <2>4. /\ u \in Seq(Nat) /\ Len(u) = IF lo <= hi THEN hi - lo + 1 ELSE 0
        /\ \A i \in 1..hi - lo + 1 : u[i] = all[lo + i - 1]
    BY <2>1, <2>2, <2>3, SubSeqProperties
  <2>5. Len(u) = Len(N)
    BY <1>3, <2>1, <2>4
  <2>6. \A i \in 1..Len(N) : u[i] = N[i]
    BY <1>4, <2>1, <2>4
  <2> QED
    BY <1>1, <2>4, <2>5, <2>6, SeqEqual
<1>7. PrinterNameIn(a) = ToAscii(N)
  BY <1>2, <1>5, <1>6
<1> QED
  BY <1>1, <1>7 DEF N

\* The announced name has a printable character before its first zero.
HasName(a) == \E k \in DOMAIN a.printerName :
                /\ a.printerName[k] \in 32..126
                /\ \A m \in 1..k : a.printerName[m] # 0

\* The text that names the queue.
NameSource(a) == IF HasName(a) THEN a.printerName
                 ELSE IF a.dosName # << >> THEN a.dosName ELSE PrinterWord

\* The queue of a complete announcement has the prefix of its session and after it
\* the announced name, the port or the word "printer".
LEMMA QueueIsNamed ==
  ASSUME NEW a \in AnnouncementType, Complete(a), NEW k \in Nat
  PROVE  LET q == SanitizeName(BaseName(a), k)
             tail == SubSeq(q, Len(Prefix(k)) + 1, Len(q))
         IN  /\ q \in NamesOf(k)
             /\ tail # << >>
             /\ \A i \in DOMAIN tail : IsAlnum(tail[i]) => tail[i] \in Range(NameSource(a))
<1> DEFINE base == BaseName(a)
           ascii == ToAscii(a.printerName)
           q == SanitizeName(base, k)
           tail == SubSeq(q, Len(Prefix(k)) + 1, Len(q))
<1>1. /\ PrinterNameIn(a) = ascii
      /\ a.printerName \in Seq(Nat) /\ a.dosName \in Seq(Nat)
  BY NameInData
<1>2. /\ ascii \in Seq(Nat)
      /\ \A i \in 1..Len(ascii) : ascii[i] \in Range(a.printerName)
      /\ ascii # << >> <=> HasName(a)
  BY <1>1, AsciiOfName DEF HasName
<1>3. base = IF ascii # << >> THEN ascii ELSE a.dosName
  BY <1>1 DEF BaseName
<1> HIDE DEF ascii, base
<1>4. base \in Seq(Nat)
  BY <1>1, <1>2, <1>3
<1>5. /\ q \in NamesOf(k) /\ tail \in Seq(Nat) /\ tail # << >>
      /\ \A i \in 1..Len(tail) : IsAlnum(tail[i]) =>
            tail[i] \in Range(IF base # << >> THEN base ELSE PrinterWord)
  BY <1>4, SanitizedShape
<1> HIDE DEF q, tail
<1>6. Range(IF base # << >> THEN base ELSE PrinterWord) \subseteq Range(NameSource(a))
  <2>1. CASE HasName(a)
    <3>1. base = ascii /\ base # << >> /\ NameSource(a) = a.printerName
      BY <1>2, <1>3, <2>1 DEF NameSource
    <3>2. Range(ascii) \subseteq Range(a.printerName)
      <4>1. DOMAIN ascii = 1..Len(ascii)
        BY <1>2, LenProperties
      <4>2. \A x \in Range(ascii) : \E i \in 1..Len(ascii) : x = ascii[i]
        BY <4>1 DEF Range
      <4> QED
        BY <1>2, <4>2
    <3> QED
      BY <3>1, <3>2
  <2>2. CASE ~HasName(a)
    BY <1>2, <1>3, <2>2 DEF NameSource
  <2> QED
    BY <2>1, <2>2
<1>7. DOMAIN tail = 1..Len(tail)
  BY <1>5, LenProperties
<1>8. \A i \in DOMAIN tail : IsAlnum(tail[i]) => tail[i] \in Range(NameSource(a))
  BY <1>5, <1>6, <1>7
<1> QED
  BY <1>5, <1>8 DEF q, tail, base

-----------------------------------------------------------------------------
(* The invariant.                                                          *)

\* The printers that a session names with number k.
Printer(k) ==
  {p \in [id : Device, queue : NamesOf(k), from : Announcement,
          seen : BOOLEAN, created : BOOLEAN] :
     Complete(p.from) /\ p.queue = SanitizeName(BaseName(p.from), k)}

ListOK(list, k) ==
  /\ list \in Seq(Printer(k))
  /\ Len(list) <= MaxPrinters
  /\ \A i, m \in DOMAIN list : list[i].id = list[m].id => i = m

\* The state is well formed, with the names of all printers and queues.
TypeInv ==
  /\ private \in [Session -> BOOLEAN] /\ samePaths \in [Session -> BOOLEAN]
  /\ active \subseteq Session
  /\ DOMAIN printers = Session
  /\ \A s \in Session : ListOK(printers[s], NameSession(s))
  /\ helper \in [Session -> {"idle", "created", "failed", "done"}]
  /\ cupsServer \subseteq {s \in Session : private[s]}
  /\ DOMAIN queues = Instance
  /\ crashed \subseteq Session
  /\ DOMAIN excused = Session
  /\ starts \in 0..MaxStarts
  /\ announces \in 0..MaxAnnounces

\* sesman.ini is the same for all sessions.
ModesInv == ~MixedModes => \A s, t \in Session : private[s] = private[t]

\* A queue was made by the helper of a session, for it, under a name of its own.
OwnedInv ==
  \A c \in Instance : \A q \in DOMAIN queues[c] :
     \E s \in Session, d \in Device : /\ c = HelpersCupsd(s)
                                      /\ q \in NamesOf(NameSession(s))
                                      /\ queues[c][q] = Uri(s, d)

\* Names that two printers of list have are in E.
SharedIn(list, E) ==
  \A i, k \in DOMAIN list : i # k /\ list[i].queue = list[k].queue => list[i].queue \in E

SharedInv == \A s \in Session : SharedIn(printers[s], excused[s])

\* The printers of s that are created, or will be when chansrv hears that the
\* helper succeeded, have their queue.
HomeOf(s) ==
  \A i \in DOMAIN printers[s] :
     LET p == printers[s][i]
         map == queues[HelpersCupsd(s)]
     IN  /\ p.created \/ (helper[s] = "created" /\ p.seen)
         /\ p.queue \notin excused[s]
         => p.queue \in DOMAIN map /\ map[p.queue] = Uri(s, p.id)

HomeInv == ~MixedModes => \A s \in active : HomeOf(s)

IInv == TypeInv /\ ModesInv /\ SharedInv /\ OwnedInv /\ NothingLeft /\ HomeInv

-----------------------------------------------------------------------------
(* Lists of printers.                                                      *)

\* Members of a list.
LEMMA ListFacts ==
  ASSUME NEW list, NEW k, ListOK(list, k)
  PROVE  /\ Len(list) \in Nat /\ DOMAIN list = 1..Len(list)
         /\ \A i \in DOMAIN list :
              /\ list[i] \in Printer(k)
              /\ list[i].id \in Device
              /\ list[i].queue \in NamesOf(k)
<1>1. list \in Seq(Printer(k))
  BY DEF ListOK
<1>2. /\ Len(list) \in Nat /\ DOMAIN list = 1..Len(list)
      /\ \A i \in DOMAIN list : list[i] \in Printer(k)
  BY <1>1, LenProperties, ElementOfSeq
<1>3. \A p \in Printer(k) : p.id \in Device /\ p.queue \in NamesOf(k)
  BY DEF Printer
<1> QED
  BY <1>2, <1>3

\* The list of a session that starts or has ended.
LEMMA EmptyList ==
  ASSUME NEW k, NEW E
  PROVE  ListOK(<< >>, k) /\ SharedIn(<< >>, E)
BY PrinterNamesAssumption DEF ListOK, SharedIn

\* The list with a printer of a new id at its end.
LEMMA AppendedList ==
  ASSUME NEW k, NEW list, ListOK(list, k), NEW p \in Printer(k),
         \A i \in DOMAIN list : list[i].id # p.id, Len(list) < MaxPrinters
  PROVE  /\ ListOK(Append(list, p), k)
         /\ DOMAIN Append(list, p) = 1..Len(list) + 1
         /\ \A i \in DOMAIN list : Append(list, p)[i] = list[i]
         /\ Append(list, p)[Len(list) + 1] = p
<1> DEFINE new == Append(list, p)
           n == Len(list)
<1>1. list \in Seq(Printer(k)) /\ \A i, m \in DOMAIN list : list[i].id = list[m].id => i = m
  BY DEF ListOK
<1>2. n \in Nat /\ DOMAIN list = 1..n
  BY ListFacts
<1>3. /\ new \in Seq(Printer(k)) /\ Len(new) = n + 1
      /\ \A i \in 1..n : new[i] = list[i]
      /\ new[n + 1] = p
  BY <1>1, AppendProperties
<1>4. DOMAIN new = 1..n + 1
  BY <1>3, LenProperties
<1> HIDE DEF new, n
<1>5. ASSUME NEW i \in DOMAIN new, NEW m \in DOMAIN new, new[i].id = new[m].id
      PROVE  i = m
  <2>1. CASE i \in 1..n /\ m \in 1..n
    BY <1>1, <1>2, <1>3, <1>5, <2>1
  <2>2. CASE i \in 1..n /\ m = n + 1
    BY <1>2, <1>3, <1>5, <2>2
  <2>3. CASE i = n + 1 /\ m \in 1..n
    BY <1>2, <1>3, <1>5, <2>3
  <2>4. CASE i = n + 1 /\ m = n + 1
    BY <2>4
  <2>5. (i \in 1..n \/ i = n + 1) /\ (m \in 1..n \/ m = n + 1)
    BY <1>2, <1>4
  <2> QED
    BY <2>1, <2>2, <2>3, <2>4, <2>5
<1>6. n + 1 <= MaxPrinters
  BY <1>2, PrinterNamesAssumption DEF n
<1>7. ListOK(new, k)
  BY <1>3, <1>5, <1>6 DEF ListOK
<1> QED
  BY <1>2, <1>3, <1>4, <1>7 DEF new, n

\* Removing the printer at i moves those after it up.
LEMMA RemovedList ==
  ASSUME NEW k, NEW list, ListOK(list, k), NEW i \in DOMAIN list
  PROVE  /\ ListOK(RemoveAt(list, i), k)
         /\ \A m \in DOMAIN RemoveAt(list, i) :
              LET old == IF m < i THEN m ELSE m + 1
              IN  old \in DOMAIN list \ {i} /\ RemoveAt(list, i)[m] = list[old]
<1> DEFINE S == Printer(k)
           n == Len(list)
           a == SubSeq(list, 1, i - 1)
           b == SubSeq(list, i + 1, n)
           c == a \o b
           old(m) == IF m < i THEN m ELSE m + 1
<1>1. /\ list \in Seq(S) /\ n \in Nat /\ i \in 1..n /\ DOMAIN list = 1..n
      /\ n <= MaxPrinters
      /\ \A x, y \in DOMAIN list : list[x].id = list[y].id => x = y
  BY ListFacts DEF ListOK
<1> HIDE DEF S
<1>2. a \in Seq(S) /\ Len(a) = i - 1 /\ \A m \in 1..i - 1 : a[m] = list[m]
  BY <1>1
<1>3. b \in Seq(S) /\ Len(b) = n - i /\ \A m \in 1..n - i : b[m] = list[i + m]
  BY <1>1
<1> HIDE DEF a, b
<1>4. /\ c \in Seq(S) /\ Len(c) = Len(a) + Len(b)
      /\ \A m \in 1..Len(a) + Len(b) : c[m] = IF m <= Len(a) THEN a[m] ELSE b[m - Len(a)]
  BY <1>2, <1>3, ConcatProperties
<1> HIDE DEF c, n
<1>5. /\ Len(c) = n - 1 /\ DOMAIN c = 1..n - 1
      /\ \A m \in 1..n - 1 : c[m] = IF m <= i - 1 THEN a[m] ELSE b[m - (i - 1)]
  <2>1. Len(a) + Len(b) = n - 1
    BY <1>1, <1>2, <1>3
  <2>2. DOMAIN c = 1..Len(c)
    BY <1>4, LenProperties
  <2> QED
    BY <1>2, <1>4, <2>1, <2>2
<1>6. ASSUME NEW m \in 1..n - 1
      PROVE  old(m) \in 1..n /\ old(m) # i /\ c[m] = list[old(m)]
  <2>1. CASE m < i
    <3>1. m <= i - 1 /\ m \in 1..i - 1 /\ m \in 1..n
      BY <1>1, <2>1
    <3> QED
      BY <1>2, <1>5, <2>1, <3>1
  <2>2. CASE ~(m < i)
    <3> DEFINE j == m - (i - 1)
    <3>1. /\ ~(m <= i - 1) /\ j \in 1..n - i /\ i + j = m + 1
          /\ m + 1 \in 1..n /\ m + 1 # i
      BY <1>1, <2>2
    <3>2. c[m] = b[j]
      BY <1>5, <3>1
    <3> HIDE DEF j
    <3> QED
      BY <1>3, <2>2, <3>1, <3>2
  <2> QED
    BY <2>1, <2>2
<1>7. ASSUME NEW x \in DOMAIN c, NEW y \in DOMAIN c, c[x].id = c[y].id
      PROVE  x = y
  <2>1. x \in 1..n - 1 /\ y \in 1..n - 1 /\ x \in Nat /\ y \in Nat /\ i \in Nat
    BY <1>1, <1>5
  <2>2. old(x) = old(y)
    <3>1. old(x) \in DOMAIN list /\ old(y) \in DOMAIN list /\ list[old(x)].id = list[old(y)].id
      BY <1>1, <1>6, <1>7, <2>1
    <3> HIDE DEF old
    <3> QED
      BY <1>1, <3>1
  <2> QED
    BY <2>1, <2>2
<1>8. n - 1 <= MaxPrinters
  BY <1>1, PrinterNamesAssumption
<1>9. RemoveAt(list, i) = c
  BY DEF RemoveAt, a, b, c, n
<1>10. ListOK(c, k)
  BY <1>4, <1>5, <1>7, <1>8 DEF ListOK, S
<1>11. \A m \in DOMAIN c : old(m) \in DOMAIN list \ {i} /\ c[m] = list[old(m)]
  BY <1>1, <1>5, <1>6
<1> QED
  BY <1>9, <1>10, <1>11

\* What is noted of printers does not change what they are called.
SameButMarks(old, new) ==
  /\ DOMAIN new = DOMAIN old
  /\ \A i \in DOMAIN old : /\ new[i].id = old[i].id
                           /\ new[i].queue = old[i].queue
                           /\ new[i].from = old[i].from

\* Noting that a helper has had the printers.
LEMMA MarkedSeen ==
  ASSUME NEW k, NEW list, ListOK(list, k)
  PROVE  LET new == [i \in DOMAIN list |-> [list[i] EXCEPT !.seen = TRUE]]
         IN  /\ ListOK(new, k) /\ SameButMarks(list, new)
             /\ \A i \in DOMAIN list : new[i].created = list[i].created
<1> DEFINE p(i) == [list[i] EXCEPT !.seen = TRUE]
           new == [i \in DOMAIN list |-> p(i)]
<1>1. /\ Len(list) \in Nat /\ DOMAIN list = 1..Len(list)
      /\ \A i \in DOMAIN list : list[i] \in Printer(k)
  BY ListFacts
<1>2. \A i \in DOMAIN list :
        /\ p(i) \in Printer(k) /\ p(i).id = list[i].id /\ p(i).queue = list[i].queue
        /\ p(i).from = list[i].from /\ p(i).created = list[i].created
  BY <1>1 DEF Printer
<1> HIDE DEF p
<1>3. new \in Seq(Printer(k)) /\ Len(new) = Len(list) /\ DOMAIN new = DOMAIN list
  BY <1>1, <1>2
<1>4. SameButMarks(list, new) /\ \A i \in DOMAIN list : new[i].created = list[i].created
  BY <1>2 DEF SameButMarks
<1> HIDE DEF new
<1>5. ListOK(new, k)
  BY <1>3, <1>4 DEF ListOK, SameButMarks
<1> QED
  BY <1>4, <1>5 DEF new, p

\* Noting that the printers are created.
LEMMA MarkedCreated ==
  ASSUME NEW k, NEW list, ListOK(list, k)
  PROVE  LET new == [i \in DOMAIN list |-> [list[i] EXCEPT !.created = TRUE]]
         IN  ListOK(new, k) /\ SameButMarks(list, new)
<1> DEFINE p(i) == [list[i] EXCEPT !.created = TRUE]
           new == [i \in DOMAIN list |-> p(i)]
<1>1. /\ Len(list) \in Nat /\ DOMAIN list = 1..Len(list)
      /\ \A i \in DOMAIN list : list[i] \in Printer(k)
  BY ListFacts
<1>2. \A i \in DOMAIN list :
        /\ p(i) \in Printer(k) /\ p(i).id = list[i].id /\ p(i).queue = list[i].queue
        /\ p(i).from = list[i].from
  BY <1>1 DEF Printer
<1> HIDE DEF p
<1>3. new \in Seq(Printer(k)) /\ Len(new) = Len(list) /\ DOMAIN new = DOMAIN list
  BY <1>1, <1>2
<1>4. SameButMarks(list, new)
  BY <1>2 DEF SameButMarks
<1> HIDE DEF new
<1>5. ListOK(new, k)
  BY <1>3, <1>4 DEF ListOK, SameButMarks
<1> QED
  BY <1>4, <1>5 DEF new, p

\* SharedNames are the names that SharedIn asks for.
LEMMA SharedNamesAre ==
  ASSUME NEW list, NEW E
  PROVE  SharedIn(list, E) <=> SharedNames(list) \subseteq E
BY DEF SharedIn, SharedNames, QueueNames

\* Marks do not make names shared.
LEMMA SharedByMarks ==
  ASSUME NEW old, NEW new, SameButMarks(old, new), NEW E, SharedIn(old, E)
  PROVE  SharedIn(new, E)
BY DEF SharedIn, SameButMarks

\* A removal does not make names shared.
LEMMA SharedByRemoval ==
  ASSUME NEW k, NEW list, ListOK(list, k), NEW i \in DOMAIN list, NEW E, SharedIn(list, E)
  PROVE  SharedIn(RemoveAt(list, i), E)
<1> DEFINE c == RemoveAt(list, i)
           old(m) == IF m < i THEN m ELSE m + 1
<1>1. \A m \in DOMAIN c : old(m) \in DOMAIN list \ {i} /\ c[m] = list[old(m)]
  BY RemovedList
<1>2. DOMAIN c \subseteq Nat /\ i \in Nat
  <2>1. ListOK(c, k)
    BY RemovedList
  <2> HIDE DEF c
  <2>2. DOMAIN c = 1..Len(c) /\ DOMAIN list = 1..Len(list)
    BY <2>1, ListFacts
  <2> QED
    BY <2>2
<1>3. \A x, y \in DOMAIN c : x # y => old(x) # old(y)
  BY <1>2
<1> HIDE DEF c, old
<1>4. SharedIn(c, E)
  BY <1>1, <1>3 DEF SharedIn
<1> QED
  BY <1>4 DEF c

-----------------------------------------------------------------------------
(* Queues of several sessions.                                             *)

\* Numbers of sessions and of their cupsd.
LEMMA SessionFacts ==
  ASSUME TypeInv, NEW s \in Session
  PROVE  /\ s \in Nat \ {0} /\ NameSession(s) \in Nat
         /\ HelpersCupsd(s) \in Instance /\ ChansrvsCupsd(s) \in Instance
BY PrinterNamesAssumption
   DEF TypeInv, NameSession, HelpersCupsd, ChansrvsCupsd, Instance, System

\* Where all sessions use the same kind of cupsd, a sweep or a name of one session
\* does not meet the queues of another.
LEMMA NamesApart ==
  ASSUME TypeInv, ModesInv, ~MixedModes, NEW s \in Session, NEW t \in Session, s # t,
         NEW q \in NamesOf(NameSession(t)),
         HelpersCupsd(t) \in {HelpersCupsd(s), ChansrvsCupsd(s)}
  PROVE  ~IsPrefix(Prefix(NameSession(s)), q) /\ q \notin NamesOf(NameSession(s))
<1>1. s \in Nat \ {0} /\ t \in Nat \ {0}
  BY SessionFacts
<1>2. private[s] = private[t]
  BY DEF ModesInv
<1>3. ~private[s] /\ ~private[t]
  <2> SUFFICES ASSUME private[s] /\ private[t]
               PROVE  FALSE
    BY <1>2 DEF TypeInv
  <2>1. HelpersCupsd(t) = t /\ HelpersCupsd(s) = s /\ ChansrvsCupsd(s) \in {s, 0}
    BY DEF HelpersCupsd, ChansrvsCupsd, System
  <2> QED
    BY <1>1, <2>1
<1>4. NameSession(s) = s /\ NameSession(t) = t
  BY <1>3 DEF NameSession
<1>5. ~IsPrefix(Prefix(NameSession(s)), q)
  BY <1>1, <1>4, PrefixesDiffer
<1>6. q \in NamesOf(NameSession(s)) => IsPrefix(Prefix(NameSession(s)), q)
  BY <1>1, <1>4, NamesAreFound
<1> QED
  BY <1>5, <1>6

\* Queues are only taken away.
Shrinks ==
  /\ DOMAIN queues' = Instance
  /\ \A c \in Instance : \A q \in DOMAIN queues'[c] :
        q \in DOMAIN queues[c] /\ queues'[c][q] = queues[c][q]

\* The queues of other sessions than s are left as they are.
OthersKept(s) ==
  ~MixedModes =>
    \A t \in Session \ {s} : \A q \in NamesOf(NameSession(t)) :
       LET c == HelpersCupsd(t)
       IN  q \in DOMAIN queues[c] => q \in DOMAIN queues'[c] /\ queues'[c][q] = queues[c][q]

\* Leaving the queues alone.
LEMMA QueuesUnchanged ==
  ASSUME TypeInv, queues' = queues, NEW s \in Session
  PROVE  Shrinks /\ OthersKept(s)
BY DEF Shrinks, OthersKept, TypeInv

\* Taking away names that the sessions other than s do not have.
LEMMA WithoutKeeps ==
  ASSUME TypeInv, NEW s \in Session, NEW names,
         queues' = [queues EXCEPT ![ChansrvsCupsd(s)] = Without(@, names)],
         ~MixedModes => \A t \in Session \ {s} : \A q \in NamesOf(NameSession(t)) :
                          HelpersCupsd(t) = ChansrvsCupsd(s) => q \notin names
  PROVE  Shrinks /\ OthersKept(s)
<1> DEFINE c == ChansrvsCupsd(s)
<1>1. c \in Instance /\ DOMAIN queues = Instance
  BY SessionFacts DEF TypeInv
<1>2. DOMAIN queues' = Instance /\ \A e \in Instance \ {c} : queues'[e] = queues[e]
  BY <1>1
<1>3. /\ DOMAIN queues'[c] = DOMAIN queues[c] \ names
      /\ \A q \in DOMAIN queues[c] \ names : queues'[c][q] = queues[c][q]
  <2>1. queues'[c] = Without(queues[c], names)
    BY <1>1
  <2> HIDE DEF c
  <2> QED
    BY <2>1 DEF Without
<1> HIDE DEF c
<1>4. Shrinks
  <2>1. ASSUME NEW e \in Instance, NEW q \in DOMAIN queues'[e]
        PROVE  q \in DOMAIN queues[e] /\ queues'[e][q] = queues[e][q]
    <3>1. CASE e = c
      BY <1>3, <2>1, <3>1
    <3>2. CASE e # c
      BY <1>2, <2>1, <3>2
    <3> QED
      BY <3>1, <3>2
  <2> QED
    BY <1>2, <2>1 DEF Shrinks
<1>5. OthersKept(s)
  <2> SUFFICES ASSUME ~MixedModes, NEW t \in Session \ {s}, NEW q \in NamesOf(NameSession(t)),
                      q \in DOMAIN queues[HelpersCupsd(t)]
               PROVE  /\ q \in DOMAIN queues'[HelpersCupsd(t)]
                      /\ queues'[HelpersCupsd(t)][q] = queues[HelpersCupsd(t)][q]
    BY DEF OthersKept
  <2>1. CASE HelpersCupsd(t) = c
    <3>1. q \notin names
      BY <2>1 DEF c
    <3> QED
      BY <1>3, <2>1, <3>1
  <2>2. CASE HelpersCupsd(t) # c
    <3>1. HelpersCupsd(t) \in Instance
      BY SessionFacts
    <3> QED
      BY <1>2, <2>2, <3>1
  <2> QED
    BY <2>1, <2>2
<1> QED
  BY <1>4, <1>5

\* The sweep of s takes nothing from the others (printer_cups_cleanup_stale_queues).
LEMMA SweptKeeps ==
  ASSUME TypeInv, ModesInv, NEW s \in Session, queues' = Swept(s)
  PROVE  Shrinks /\ OthersKept(s)
<1> DEFINE names == SweptNames(ChansrvsCupsd(s), s)
<1>1. \/ queues' = [queues EXCEPT ![ChansrvsCupsd(s)] = Without(@, names)]
      \/ queues' = queues
  BY DEF Swept
<1>2. ASSUME ~MixedModes, NEW t \in Session \ {s}, NEW q \in NamesOf(NameSession(t)),
             HelpersCupsd(t) = ChansrvsCupsd(s)
      PROVE  q \notin names
  <2>1. ~IsPrefix(Prefix(NameSession(s)), q)
    BY <1>2, NamesApart
  <2> QED
    BY <2>1 DEF SweptNames
<1> HIDE DEF names
<1> QED
  BY <1>1, <1>2, WithoutKeeps, QueuesUnchanged

-----------------------------------------------------------------------------
(* Every step keeps the invariant.                                         *)

\* A step of session s leaves to the others what is theirs.
Frame(s) ==
  /\ private' = private /\ samePaths' = samePaths
  /\ \A t \in Session \ {s} : /\ printers'[t] = printers[t]
                              /\ helper'[t] = helper[t]
                              /\ excused'[t] = excused[t]
                              /\ t \in active' <=> t \in active
                              /\ t \in cupsServer' <=> t \in cupsServer
                              /\ t \in crashed' <=> t \in crashed

\* The constant part of the types.
TypesOfStep ==
  /\ active' \subseteq Session
  /\ DOMAIN printers' = Session
  /\ helper' \in [Session -> {"idle", "created", "failed", "done"}]
  /\ cupsServer' \subseteq {s \in Session : private[s]}
  /\ DOMAIN queues' = Instance
  /\ crashed' \subseteq Session
  /\ DOMAIN excused' = Session
  /\ starts' \in 0..MaxStarts
  /\ announces' \in 0..MaxAnnounces

\* Names and cupsd of a session depend on sesman.ini as it was read.
LEMMA SameNames ==
  ASSUME private' = private, NEW s
  PROVE  /\ NameSession(s)' = NameSession(s)
         /\ HelpersCupsd(s)' = HelpersCupsd(s)
BY DEF NameSession, HelpersCupsd

\* What is to be shown of a step of session s.
LEMMA StepKeepsIInv ==
  ASSUME IInv, NEW s \in Session, Frame(s), TypesOfStep,
         ListOK(printers'[s], NameSession(s)),
         SharedIn(printers'[s], excused'[s]),
         OwnedInv', NothingLeft', OthersKept(s),
         ~MixedModes /\ s \in active' => HomeOf(s)'
  PROVE  IInv'
<1>1. /\ \A t \in Session : NameSession(t)' = NameSession(t)
      /\ \A t \in Session : HelpersCupsd(t)' = HelpersCupsd(t)
  BY SameNames DEF Frame
<1>2. TypeInv'
  <2>1. \A t \in Session : ListOK(printers'[t], NameSession(t))
    BY DEF Frame, IInv, TypeInv
  <2>2. \A t \in Session : ListOK(printers'[t], NameSession(t)')
    BY <1>1, <2>1
  <2>3. private' = private /\ samePaths' = samePaths
    BY DEF Frame
  <2> QED
    BY <2>2, <2>3 DEF TypesOfStep, TypeInv, IInv
<1>3. ModesInv'
  BY DEF ModesInv, IInv, Frame
<1>4. SharedInv'
  BY DEF SharedInv, IInv, Frame
<1>5. HomeInv'
  <2> SUFFICES ASSUME ~MixedModes, NEW t \in active'
               PROVE  HomeOf(t)'
    BY DEF HomeInv
  <2>1. CASE t = s
    BY <2>1
  <2>2. CASE t # s
    <3>1. t \in Session \ {s}
      BY <2>2 DEF TypesOfStep
    <3>2. /\ printers'[t] = printers[t] /\ helper'[t] = helper[t]
          /\ excused'[t] = excused[t] /\ t \in active
      BY <3>1 DEF Frame
    <3>3. HomeOf(t)
      BY <3>2 DEF IInv, HomeInv
    <3>4. ListOK(printers[t], NameSession(t))
      BY <3>1 DEF IInv, TypeInv
    <3> SUFFICES ASSUME NEW i \in DOMAIN printers[t],
                        \/ printers[t][i].created
                        \/ helper[t] = "created" /\ printers[t][i].seen,
                        printers[t][i].queue \notin excused[t]
                 PROVE  /\ printers[t][i].queue \in DOMAIN queues'[HelpersCupsd(t)]
                        /\ queues'[HelpersCupsd(t)][printers[t][i].queue]
                              = Uri(t, printers[t][i].id)
      BY <1>1, <3>1, <3>2 DEF HomeOf
    <3>5. printers[t][i].queue \in NamesOf(NameSession(t))
      BY <3>4, ListFacts
    <3>6. /\ printers[t][i].queue \in DOMAIN queues[HelpersCupsd(t)]
          /\ queues[HelpersCupsd(t)][printers[t][i].queue] = Uri(t, printers[t][i].id)
      BY <3>3 DEF HomeOf
    <3> QED
      BY <3>1, <3>5, <3>6 DEF OthersKept
  <2> QED
    BY <2>1, <2>2
<1> QED
  BY <1>2, <1>3, <1>4, <1>5 DEF IInv

\* Taking queues away keeps the rest in their sessions.
LEMMA ShrinksKeepsOwned ==
  ASSUME OwnedInv, Shrinks, private' = private
  PROVE  OwnedInv'
<1>1. /\ \A t \in Session : NameSession(t)' = NameSession(t)
      /\ \A t \in Session : HelpersCupsd(t)' = HelpersCupsd(t)
  BY SameNames
<1> SUFFICES ASSUME NEW c \in Instance, NEW q \in DOMAIN queues'[c]
             PROVE  \E s \in Session, d \in Device : /\ c = HelpersCupsd(s)'
                                                     /\ q \in NamesOf(NameSession(s)')
                                                     /\ queues'[c][q] = Uri(s, d)
  BY DEF OwnedInv
<1>2. q \in DOMAIN queues[c] /\ queues'[c][q] = queues[c][q]
  BY DEF Shrinks
<1>3. PICK s \in Session, d \in Device : /\ c = HelpersCupsd(s)
                                         /\ q \in NamesOf(NameSession(s))
                                         /\ queues[c][q] = Uri(s, d)
  BY <1>2 DEF OwnedInv
<1> QED
  BY <1>1, <1>2, <1>3

\* Taking queues away leaves none behind, unless s itself ends.
LEMMA ShrinksKeepsNothingLeft ==
  ASSUME NothingLeft, Shrinks, NEW s \in Session, Frame(s), s \in active' \cup crashed'
  PROVE  NothingLeft'
<1> SUFFICES ASSUME NEW t \in Session \ (active' \cup crashed'), Reaches(t)',
                    NEW c \in Instance, NEW q \in DOMAIN queues'[c]
             PROVE  UriSession(queues'[c][q]) # t
  BY DEF NothingLeft
<1>1. t \in Session \ (active \cup crashed) /\ Reaches(t)
  BY DEF Frame, Reaches
<1>2. q \in DOMAIN queues[c] /\ queues'[c][q] = queues[c][q]
  BY DEF Shrinks
<1> QED
  BY <1>1, <1>2 DEF NothingLeft

\* What holds of session s before its step.
LEMMA SessionInv ==
  ASSUME IInv, NEW s \in Session
  PROVE  /\ TypeInv /\ ModesInv /\ OwnedInv /\ NothingLeft
         /\ ListOK(printers[s], NameSession(s))
         /\ SharedIn(printers[s], excused[s])
BY DEF IInv, TypeInv, SharedInv

\* devredir_printer_init.
LEMMA StartKeeps ==
  ASSUME IInv, NEW s \in Session, Start(s)
  PROVE  IInv'
<1>1. TypeInv /\ OwnedInv /\ NothingLeft
  BY SessionInv
<1>2. /\ Frame(s) /\ printers'[s] = << >> /\ s \in active' /\ queues' = queues
      /\ private' = private
  BY <1>1 DEF Start, Frame, TypeInv, config
<1>3. TypesOfStep
  BY <1>1, PrinterNamesAssumption DEF Start, TypesOfStep, TypeInv
<1>4. Shrinks /\ OthersKept(s)
  BY <1>1, <1>2, QueuesUnchanged
<1>5. OwnedInv' /\ NothingLeft'
  BY <1>1, <1>2, <1>4, ShrinksKeepsOwned, ShrinksKeepsNothingLeft
<1>6. ListOK(printers'[s], NameSession(s)) /\ SharedIn(printers'[s], excused'[s])
  BY <1>2, EmptyList
<1>7. HomeOf(s)'
  BY <1>2 DEF HomeOf
<1> QED
  BY <1>2, <1>3, <1>4, <1>5, <1>6, <1>7, StepKeepsIInv

\* devredir_printer_device_announce: the new printer waits for a helper.
LEMMA DeviceAnnounceKeeps ==
  ASSUME IInv, NEW s \in Session, NEW d \in Device, NEW a \in Announcement,
         DeviceAnnounce(s, d, a)
  PROVE  IInv'
<1> DEFINE name == SanitizeName(BaseName(a), NameSession(s))
           p == [id |-> d, queue |-> name, from |-> a, seen |-> FALSE, created |-> FALSE]
           old == printers[s]
           new == Append(old, p)
<1>1. TypeInv /\ OwnedInv /\ NothingLeft /\ ListOK(old, NameSession(s))
  BY SessionInv
<1>2. /\ printers'[s] = new /\ s \in active' /\ queues' = queues /\ private' = private
      /\ excused'[s] = excused[s] \cup SharedNames(new)
      /\ Complete(a) /\ ~Known(s, d) /\ Len(old) < MaxPrinters
      /\ helper'[s] = "created" => helper[s] = "created"
  BY <1>1 DEF DeviceAnnounce, TypeInv, config
<1>3. Frame(s)
  BY <1>1 DEF DeviceAnnounce, Frame, TypeInv, config
<1>4. TypesOfStep
  BY <1>1, PrinterNamesAssumption DEF DeviceAnnounce, TypesOfStep, TypeInv
<1>5. Shrinks /\ OthersKept(s)
  BY <1>1, <1>2, QueuesUnchanged
<1>6. OwnedInv' /\ NothingLeft'
  BY <1>1, <1>2, <1>3, <1>5, ShrinksKeepsOwned, ShrinksKeepsNothingLeft
<1>7. p \in Printer(NameSession(s))
  <2>1. a \in AnnouncementType /\ NameSession(s) \in Nat
    BY <1>1, SessionFacts, PrinterNamesAssumption
  <2>2. name \in NamesOf(NameSession(s))
    BY <1>2, <2>1, QueueIsNamed
  <2> HIDE DEF name
  <2>3. name = SanitizeName(BaseName(a), NameSession(s))
    BY DEF name
  <2> QED
    BY <1>2, <2>2, <2>3 DEF Printer
<1>8. \A i \in DOMAIN old : old[i].id # p.id
  BY <1>2 DEF Known
<1>9. /\ p.created = FALSE /\ p.seen = FALSE
  OBVIOUS
<1> HIDE DEF p
<1>10. /\ ListOK(new, NameSession(s)) /\ DOMAIN new = 1..Len(old) + 1
       /\ \A i \in DOMAIN old : new[i] = old[i]
       /\ new[Len(old) + 1] = p
  BY <1>1, <1>2, <1>7, <1>8, AppendedList
<1> HIDE DEF new
<1>11. SharedIn(printers'[s], excused'[s])
  BY <1>2, SharedNamesAre
<1>12. ASSUME ~MixedModes
       PROVE  HomeOf(s)'
  <2>1. HelpersCupsd(s)' = HelpersCupsd(s)
    BY <1>2, SameNames
  <2>2. HomeOf(s)
    BY <1>12 DEF IInv, HomeInv, DeviceAnnounce
  <2> SUFFICES ASSUME NEW i \in DOMAIN new,
                      new[i].created \/ (helper'[s] = "created" /\ new[i].seen),
                      new[i].queue \notin excused'[s]
               PROVE  /\ new[i].queue \in DOMAIN queues[HelpersCupsd(s)]
                      /\ queues[HelpersCupsd(s)][new[i].queue] = Uri(s, new[i].id)
    BY <1>2, <2>1 DEF HomeOf
  <2>3. i \in DOMAIN old /\ new[i] = old[i]
    <3>1. DOMAIN old = 1..Len(old) /\ Len(old) \in Nat
      BY <1>1, ListFacts
    <3>2. i # Len(old) + 1
      BY <1>9, <1>10
    <3> QED
      BY <1>10, <3>1, <3>2
  <2> QED
    BY <1>2, <2>2, <2>3 DEF HomeOf
<1> QED
  BY <1>2, <1>3, <1>4, <1>5, <1>6, <1>10, <1>11, <1>12, StepKeepsIInv

\* devredir_printer_device_remove takes one queue of s, under a name of s.
LEMMA DeviceRemoveKeeps ==
  ASSUME IInv, NEW s \in Session, NEW d \in Device, DeviceRemove(s, d)
  PROVE  IInv'
<1> DEFINE old == printers[s]
<1>1. TypeInv /\ ModesInv /\ OwnedInv /\ NothingLeft /\ ListOK(old, NameSession(s))
      /\ SharedIn(old, excused[s])
  BY SessionInv
<1>2. PICK i \in DOMAIN old :
        /\ printers' = [printers EXCEPT ![s] = RemoveAt(@, i)]
        /\ queues' = IF old[i].created /\ FindsCupsd(s)
                       THEN [queues EXCEPT ![ChansrvsCupsd(s)] = Without(@, {old[i].queue})]
                       ELSE queues
  BY DEF DeviceRemove
<1> DEFINE new == RemoveAt(old, i)
           was(m) == IF m < i THEN m ELSE m + 1
<1>3. /\ printers'[s] = new /\ s \in active' /\ private' = private
      /\ excused' = excused /\ helper' = helper
  BY <1>1, <1>2 DEF DeviceRemove, TypeInv, config
<1>4. Frame(s)
  BY <1>1, <1>2 DEF DeviceRemove, Frame, TypeInv, config
<1>5. /\ ListOK(new, NameSession(s))
      /\ \A m \in DOMAIN new : was(m) \in DOMAIN old \ {i} /\ new[m] = old[was(m)]
  BY <1>1, RemovedList
<1>6. SharedIn(new, excused[s])
  BY <1>1, SharedByRemoval
<1> HIDE DEF new, was
<1>7. Shrinks /\ OthersKept(s)
  <2>1. CASE old[i].created /\ FindsCupsd(s)
    <3>1. old[i].queue \in NamesOf(NameSession(s))
      BY <1>1, ListFacts
    <3>2. ASSUME ~MixedModes, NEW t \in Session \ {s}, NEW q \in NamesOf(NameSession(t)),
                 HelpersCupsd(t) = ChansrvsCupsd(s)
          PROVE  q \notin {old[i].queue}
      BY <1>1, <3>1, <3>2, NamesApart
    <3> QED
      BY <1>1, <1>2, <2>1, <3>2, WithoutKeeps
  <2>2. CASE ~(old[i].created /\ FindsCupsd(s))
    BY <1>1, <1>2, <2>2, QueuesUnchanged
  <2> QED
    BY <2>1, <2>2
<1>8. TypesOfStep
  BY <1>1, <1>2, <1>7 DEF DeviceRemove, TypesOfStep, TypeInv, Shrinks
<1>9. OwnedInv' /\ NothingLeft'
  BY <1>1, <1>3, <1>4, <1>7, ShrinksKeepsOwned, ShrinksKeepsNothingLeft
<1>10. ASSUME ~MixedModes
       PROVE  HomeOf(s)'
  <2>1. HelpersCupsd(s)' = HelpersCupsd(s) /\ HelpersCupsd(s) \in Instance
    BY <1>1, <1>3, SameNames, SessionFacts
  <2>2. HomeOf(s)
    BY <1>10 DEF IInv, HomeInv, DeviceRemove
  <2> SUFFICES ASSUME NEW m \in DOMAIN new,
                      new[m].created \/ (helper[s] = "created" /\ new[m].seen),
                      new[m].queue \notin excused[s]
               PROVE  /\ new[m].queue \in DOMAIN queues'[HelpersCupsd(s)]
                      /\ queues'[HelpersCupsd(s)][new[m].queue] = Uri(s, new[m].id)
    BY <1>3, <2>1 DEF HomeOf
  <2>3. was(m) \in DOMAIN old /\ was(m) # i /\ new[m] = old[was(m)]
    BY <1>5
  <2>4. /\ new[m].queue \in DOMAIN queues[HelpersCupsd(s)]
        /\ queues[HelpersCupsd(s)][new[m].queue] = Uri(s, new[m].id)
    BY <2>2, <2>3 DEF HomeOf
  <2>5. new[m].queue # old[i].queue
    BY <1>1, <2>3 DEF SharedIn
  <2>6. CASE old[i].created /\ FindsCupsd(s) /\ HelpersCupsd(s) = ChansrvsCupsd(s)
    <3>1. queues'[HelpersCupsd(s)] = Without(queues[HelpersCupsd(s)], {old[i].queue})
      BY <1>1, <1>2, <2>1, <2>6 DEF TypeInv
    <3> QED
      BY <2>4, <2>5, <3>1 DEF Without
  <2>7. CASE ~(old[i].created /\ FindsCupsd(s) /\ HelpersCupsd(s) = ChansrvsCupsd(s))
    <3>1. queues'[HelpersCupsd(s)] = queues[HelpersCupsd(s)]
      BY <1>1, <1>2, <2>1, <2>7 DEF TypeInv
    <3> QED
      BY <2>4, <3>1
  <2> QED
    BY <2>6, <2>7
<1>11. ListOK(printers'[s], NameSession(s)) /\ SharedIn(printers'[s], excused'[s])
  BY <1>3, <1>5, <1>6
<1> QED
  BY <1>4, <1>7, <1>8, <1>9, <1>10, <1>11, StepKeepsIInv

\* chansrv is killed.
LEMMA CrashKeeps ==
  ASSUME IInv, NEW s \in Session, Crash(s)
  PROVE  IInv'
<1>1. TypeInv /\ OwnedInv /\ NothingLeft
  BY SessionInv
<1>2. /\ Frame(s) /\ printers'[s] = << >> /\ s \in crashed' /\ queues' = queues
      /\ private' = private
  BY <1>1 DEF Crash, Frame, TypeInv, config
<1>3. TypesOfStep
  BY <1>1 DEF Crash, TypesOfStep, TypeInv
<1>4. Shrinks /\ OthersKept(s)
  BY <1>1, <1>2, QueuesUnchanged
<1>5. OwnedInv' /\ NothingLeft'
  BY <1>1, <1>2, <1>4, ShrinksKeepsOwned, ShrinksKeepsNothingLeft
<1>6. ListOK(printers'[s], NameSession(s)) /\ SharedIn(printers'[s], excused'[s])
  BY <1>2, EmptyList
<1>7. HomeOf(s)'
  BY <1>2 DEF HomeOf
<1> QED
  BY <1>2, <1>3, <1>4, <1>5, <1>6, <1>7, StepKeepsIInv

\* The sweep of the cupsd that holds the queues of s finds all of them.
LEMMA CleanupKeeps ==
  ASSUME IInv, NEW s \in Session, Cleanup(s)
  PROVE  IInv'
<1>1. TypeInv /\ ModesInv /\ OwnedInv /\ NothingLeft
  BY SessionInv
<1>2. /\ Frame(s) /\ printers'[s] = << >> /\ queues' = Swept(s) /\ private' = private
      /\ cupsServer' = cupsServer
  BY <1>1 DEF Cleanup, Frame, TypeInv, config
<1>3. Shrinks /\ OthersKept(s)
  BY <1>1, <1>2, SweptKeeps
<1>4. TypesOfStep
  BY <1>1, <1>3 DEF Cleanup, TypesOfStep, TypeInv, Shrinks
<1>5. OwnedInv'
  BY <1>1, <1>2, <1>3, ShrinksKeepsOwned
<1>6. NothingLeft'
  <2> SUFFICES ASSUME NEW t \in Session \ (active' \cup crashed'), Reaches(t)',
                      NEW c \in Instance, NEW q \in DOMAIN queues'[c]
               PROVE  UriSession(queues'[c][q]) # t
    BY DEF NothingLeft
  <2>1. q \in DOMAIN queues[c] /\ queues'[c][q] = queues[c][q]
    BY <1>3 DEF Shrinks
  <2>2. Reaches(t)
    BY <1>2 DEF Reaches, Frame
  <2>3. CASE t # s
    <3>1. t \in Session \ (active \cup crashed)
      BY <1>2, <2>3 DEF Frame
    <3> QED
      BY <1>1, <2>1, <2>2, <3>1 DEF NothingLeft
  <2>4. CASE t = s
    <3> DEFINE h == HelpersCupsd(s)
               names == SweptNames(h, s)
    <3>1. h = ChansrvsCupsd(s) /\ FindsCupsd(s) /\ h \in Instance
      BY <1>1, <2>2, <2>4, SessionFacts
         DEF Reaches, HelpersCupsd, ChansrvsCupsd, FindsCupsd, TypeInv
    <3>2. queues'[h] = Without(queues[h], names)
      <4>1. queues' = [queues EXCEPT ![h] = Without(@, names)]
        BY <1>2, <3>1 DEF Swept
      <4> HIDE DEF h, names
      <4> QED
        BY <1>1, <3>1, <4>1 DEF TypeInv
    <3>3. PICK r \in Session, d \in Device : /\ c = HelpersCupsd(r)
                                             /\ q \in NamesOf(NameSession(r))
                                             /\ queues[c][q] = Uri(r, d)
      BY <1>1, <2>1 DEF OwnedInv
    <3>4. UriSession(queues[c][q]) = r
      <4>1. r \in Nat /\ d \in Nat
        BY PrinterNamesAssumption
      <4> QED
        BY <3>3, <4>1, UriIsRead
    <3>5. ASSUME r = s
          PROVE  FALSE
      <4>1. c = h /\ q \in NamesOf(NameSession(s))
        BY <3>3, <3>5
      <4>2. Before(q, Colon) = q /\ IsPrefix(Prefix(NameSession(s)), q)
        BY <1>1, <4>1, NamesAreFound, SessionFacts
      <4> HIDE DEF h
      <4>3. q \in names
        BY <2>1, <4>1, <4>2 DEF SweptNames
      <4>4. q \notin DOMAIN queues'[h]
        BY <3>2, <4>3 DEF Without
      <4> QED
        BY <4>1, <4>4
    <3> QED
      BY <2>1, <2>4, <3>4, <3>5
  <2> QED
    BY <2>3, <2>4
<1>7. ListOK(printers'[s], NameSession(s)) /\ SharedIn(printers'[s], excused'[s])
  BY <1>2, EmptyList
<1>8. HomeOf(s)'
  BY <1>2 DEF HomeOf
<1> QED
  BY <1>2, <1>3, <1>4, <1>5, <1>6, <1>7, <1>8, StepKeepsIInv

\* The queues of map with those made for printers of list, the printers of s: a queue
\* is that of one of these printers that have its name, if there are any.
Remade(after, map, list, made, s) ==
  /\ DOMAIN after = DOMAIN map \cup {list[i].queue : i \in made}
  /\ \A q \in DOMAIN after :
       \/ (\A i \in made : list[i].queue # q) /\ after[q] = map[q]
       \/ \E i \in made : list[i].queue = q /\ after[q] = Uri(s, list[i].id)

\* WithQueues is such a map.
LEMMA WithQueuesAre ==
  ASSUME TypeInv, NEW s \in Session, NEW map, NEW made \in SUBSET DOMAIN printers[s]
  PROVE  Remade(WithQueues(map, s, made), map, printers[s], made, s)
<1> DEFINE list == printers[s]
           n == Len(list)
           named(q) == {i \in made : list[i].queue = q}
           D == DOMAIN map \cup {list[i].queue : i \in made}
           W == [q \in D |-> IF named(q) = {} THEN map[q] ELSE Uri(s, list[Max(named(q))].id)]
<1>1. WithQueues(map, s, made) = W
  BY DEF WithQueues
<1>2. n \in Nat /\ made \subseteq 1..n
  BY ListFacts DEF TypeInv
<1> HIDE DEF n
<1>3. ASSUME NEW q \in D
      PROVE  \/ (\A i \in made : list[i].queue # q) /\ W[q] = map[q]
             \/ \E i \in made : list[i].queue = q /\ W[q] = Uri(s, list[i].id)
  <2>1. CASE named(q) = {}
    BY <2>1
  <2>2. CASE named(q) # {}
    <3>1. named(q) \subseteq 1..n
      BY <1>2
    <3> DEFINE last == Max(named(q))
    <3>2. last \in named(q)
      <4> DEFINE T == named(q)
      <4>1. T \subseteq 1..n /\ T # {}
        BY <2>2, <3>1
      <4> HIDE DEF T
      <4>2. Max(T) \in T
        BY <1>2, <4>1, Greatest
      <4> QED
        BY <4>2 DEF T
    <3>3. W[q] = Uri(s, list[last].id)
      BY <2>2
    <3> HIDE DEF last, W
    <3> QED
      BY <3>2, <3>3
  <2> QED
    BY <2>1, <2>2
<1>4. DOMAIN W = D
  OBVIOUS
<1> HIDE DEF W
<1>5. Remade(W, map, list, made, s)
  BY <1>3, <1>4 DEF Remade
<1> QED
  BY <1>1, <1>5

\* The helper makes queues of the names of s, with URIs of s and its printers.
LEMMA HelperCreatesKeeps ==
  ASSUME IInv, NEW s \in Session, NEW made, HelperCreates(s, made)
  PROVE  IInv'
<1> DEFINE old == printers[s]
           h == HelpersCupsd(s)
           new == [i \in DOMAIN old |-> [old[i] EXCEPT !.seen = TRUE]]
           before == queues[h]
           after == WithQueues(before, s, made)
<1>1. TypeInv /\ ModesInv /\ OwnedInv /\ NothingLeft /\ ListOK(old, NameSession(s))
      /\ SharedIn(old, excused[s])
  BY SessionInv
<1>2. h \in Instance /\ s \in Nat
  BY <1>1, SessionFacts
<1>3. /\ made \in SUBSET DOMAIN old /\ s \in active /\ s \in active' /\ private' = private
      /\ printers'[s] = new /\ helper[s] = "idle"
      /\ \/ /\ helper'[s] = "created"
            /\ excused'[s] = SharedNames(old) \cup {old[i].queue : i \in DOMAIN old \ made}
         \/ helper'[s] = "failed" /\ excused'[s] = excused[s]
  BY <1>1 DEF HelperCreates, TypeInv, config
<1>4. Frame(s)
  BY <1>1 DEF HelperCreates, Frame, TypeInv, config
<1>5. TypesOfStep
  BY <1>1 DEF HelperCreates, TypesOfStep, TypeInv
<1>6. /\ queues'[h] = after
      /\ \A c \in Instance \ {h} : queues'[c] = queues[c]
  <2>1. queues' = [queues EXCEPT ![h] = WithQueues(@, s, made)]
    BY DEF HelperCreates
  <2> HIDE DEF h
  <2> QED
    BY <1>1, <1>2, <2>1 DEF TypeInv
<1>7. ListOK(new, NameSession(s)) /\ SameButMarks(old, new)
      /\ \A i \in DOMAIN old : new[i].created = old[i].created
  BY <1>1, MarkedSeen
<1>8. SharedIn(old, excused'[s])
  BY <1>1, <1>3, SharedNamesAre
<1>9. SharedIn(new, excused'[s])
  BY <1>7, <1>8, SharedByMarks
<1>10. /\ DOMAIN old = 1..Len(old) /\ Len(old) \in Nat
       /\ \A i \in DOMAIN old : old[i].id \in Device /\ old[i].queue \in NamesOf(NameSession(s))
  BY <1>1, ListFacts
<1>11. made \subseteq DOMAIN old
  BY <1>3, <1>10
<1>12. /\ DOMAIN after = DOMAIN before \cup {old[i].queue : i \in made}
       /\ \A q \in DOMAIN after :
            \/ (\A i \in made : old[i].queue # q) /\ after[q] = before[q]
            \/ \E i \in made : old[i].queue = q /\ after[q] = Uri(s, old[i].id)
  <2>1. Remade(after, before, old, made, s)
    BY <1>1, <1>3, WithQueuesAre
  <2> HIDE DEF after, before
  <2> QED
    BY <2>1 DEF Remade
<1> HIDE DEF new, after, before, h
\* A queue after the step is one from before it, or made for a printer of s.
<1>13. ASSUME NEW c \in Instance, NEW q \in DOMAIN queues'[c]
       PROVE  \/ q \in DOMAIN queues[c] /\ queues'[c][q] = queues[c][q]
              \/ /\ c = h /\ q \in NamesOf(NameSession(s))
                 /\ \E d \in Device : queues'[c][q] = Uri(s, d)
  <2>1. CASE c # h
    BY <1>6, <1>13, <2>1
  <2>2. CASE c = h
    <3>1. q \in DOMAIN after /\ queues'[c][q] = after[q]
      BY <1>6, <1>13, <2>2
    <3>2. CASE (\A i \in made : old[i].queue # q) /\ after[q] = before[q]
      BY <1>12, <2>2, <3>1, <3>2 DEF before
    <3>3. CASE \E i \in made : old[i].queue = q /\ after[q] = Uri(s, old[i].id)
      BY <1>10, <1>11, <2>2, <3>1, <3>3
    <3> QED
      BY <1>12, <3>1, <3>2, <3>3
  <2> QED
    BY <2>1, <2>2
<1>14. OwnedInv'
  <2>1. /\ \A t \in Session : NameSession(t)' = NameSession(t)
        /\ \A t \in Session : HelpersCupsd(t)' = HelpersCupsd(t)
    BY <1>3, SameNames
  <2> SUFFICES ASSUME NEW c \in Instance, NEW q \in DOMAIN queues'[c]
               PROVE  \E t \in Session, d \in Device : /\ c = HelpersCupsd(t)
                                                       /\ q \in NamesOf(NameSession(t))
                                                       /\ queues'[c][q] = Uri(t, d)
    BY <2>1 DEF OwnedInv
  <2>2. CASE q \in DOMAIN queues[c] /\ queues'[c][q] = queues[c][q]
    BY <1>1, <2>2 DEF OwnedInv
  <2>3. CASE /\ c = h /\ q \in NamesOf(NameSession(s))
             /\ \E d \in Device : queues'[c][q] = Uri(s, d)
    BY <2>3 DEF h
  <2> QED
    BY <1>13, <2>2, <2>3
<1>15. NothingLeft'
  <2> SUFFICES ASSUME NEW t \in Session \ (active' \cup crashed'), Reaches(t)',
                      NEW c \in Instance, NEW q \in DOMAIN queues'[c]
               PROVE  UriSession(queues'[c][q]) # t
    BY DEF NothingLeft
  <2>1. t # s /\ t \in Session \ (active \cup crashed) /\ Reaches(t)
    BY <1>3, <1>4 DEF Frame, Reaches
  <2>2. CASE q \in DOMAIN queues[c] /\ queues'[c][q] = queues[c][q]
    BY <1>1, <2>1, <2>2 DEF NothingLeft
  <2>3. CASE \E d \in Device : queues'[c][q] = Uri(s, d)
    <3>1. PICK d \in Device : queues'[c][q] = Uri(s, d)
      BY <2>3
    <3>2. d \in Nat
      BY PrinterNamesAssumption
    <3>3. UriSession(queues'[c][q]) = s
      BY <1>2, <3>1, <3>2, UriIsRead
    <3> QED
      BY <2>1, <3>3
  <2> QED
    BY <1>13, <2>2, <2>3
<1>16. OthersKept(s)
  <2> SUFFICES ASSUME ~MixedModes, NEW t \in Session \ {s}, NEW q \in NamesOf(NameSession(t)),
                      q \in DOMAIN queues[HelpersCupsd(t)]
               PROVE  /\ q \in DOMAIN queues'[HelpersCupsd(t)]
                      /\ queues'[HelpersCupsd(t)][q] = queues[HelpersCupsd(t)][q]
    BY DEF OthersKept
  <2>1. CASE HelpersCupsd(t) = h
    <3>1. q \notin NamesOf(NameSession(s))
      BY <1>1, <2>1, NamesApart DEF h
    <3>2. \A i \in made : old[i].queue # q
      BY <1>10, <1>11, <3>1
    <3>3. q \in DOMAIN after /\ after[q] = before[q]
      BY <1>12, <2>1, <3>2 DEF before
    <3> QED
      BY <1>6, <2>1, <3>3 DEF before
  <2>2. CASE HelpersCupsd(t) # h
    <3>1. HelpersCupsd(t) \in Instance
      BY <1>1, SessionFacts
    <3> QED
      BY <1>6, <2>2, <3>1
  <2> QED
    BY <2>1, <2>2
\* The queue of a printer whose name no other printer has, if it has one.
<1>17. ASSUME NEW i \in DOMAIN old, old[i].queue \notin excused'[s],
              \/ i \in made
              \/ old[i].queue \in DOMAIN before /\ before[old[i].queue] = Uri(s, old[i].id)
       PROVE  old[i].queue \in DOMAIN after /\ after[old[i].queue] = Uri(s, old[i].id)
  <2> DEFINE q == old[i].queue
  <2>1. q \in DOMAIN after
    BY <1>12, <1>17
  <2>2. \A k \in made : old[k].queue = q => k = i
    BY <1>8, <1>11, <1>17 DEF SharedIn
  <2>3. CASE (\A k \in made : old[k].queue # q) /\ after[q] = before[q]
    BY <1>17, <2>1, <2>3
  <2>4. CASE \E k \in made : old[k].queue = q /\ after[q] = Uri(s, old[k].id)
    BY <2>1, <2>2, <2>4
  <2> QED
    BY <1>12, <2>1, <2>3, <2>4
<1>18. ASSUME ~MixedModes
       PROVE  HomeOf(s)'
  <2>1. HelpersCupsd(s)' = h
    BY <1>3, SameNames DEF h
  <2>2. HomeOf(s)
    BY <1>3, <1>18 DEF IInv, HomeInv
  <2> SUFFICES ASSUME NEW i \in DOMAIN new,
                      new[i].created \/ (helper'[s] = "created" /\ new[i].seen),
                      new[i].queue \notin excused'[s]
               PROVE  /\ new[i].queue \in DOMAIN after
                      /\ after[new[i].queue] = Uri(s, new[i].id)
    BY <1>3, <1>6, <2>1 DEF HomeOf
  <2>3. i \in DOMAIN old /\ new[i].queue = old[i].queue /\ new[i].id = old[i].id
        /\ new[i].created = old[i].created
    BY <1>7 DEF SameButMarks
  <2>4. CASE helper'[s] = "created"
    <3>1. i \in made
      BY <1>3, <2>3, <2>4
    <3> QED
      BY <1>17, <2>3, <3>1
  <2>5. CASE helper'[s] # "created"
    <3>1. old[i].created /\ excused'[s] = excused[s]
      BY <1>3, <2>3, <2>5
    <3>2. old[i].queue \in DOMAIN before /\ before[old[i].queue] = Uri(s, old[i].id)
      BY <2>2, <2>3, <3>1 DEF HomeOf, before, h
    <3> QED
      BY <1>17, <2>3, <3>2
  <2> QED
    BY <2>4, <2>5
<1>19. ListOK(printers'[s], NameSession(s)) /\ SharedIn(printers'[s], excused'[s])
  BY <1>3, <1>7, <1>9
<1> QED
  BY <1>4, <1>5, <1>14, <1>15, <1>16, <1>18, <1>19, StepKeepsIInv

\* handle_setup_complete: what it marks as created has its queue or is excused.
LEMMA SetupCompleteKeeps ==
  ASSUME IInv, NEW s \in Session, SetupComplete(s)
  PROVE  IInv'
<1> DEFINE old == printers[s]
           new == [i \in DOMAIN old |-> [old[i] EXCEPT !.created = TRUE]]
<1>1. TypeInv /\ ModesInv /\ OwnedInv /\ NothingLeft /\ ListOK(old, NameSession(s))
      /\ SharedIn(old, excused[s])
  BY SessionInv
<1>2. /\ Frame(s) /\ s \in active /\ s \in active' /\ private' = private
      /\ helper'[s] = "done"
  BY <1>1 DEF SetupComplete, Frame, TypeInv, config
<1>3. \/ /\ helper[s] = "created" /\ printers'[s] = new /\ queues' = queues
         /\ excused'[s] = excused[s] \cup
                          {old[i].queue : i \in {k \in DOMAIN old : ~old[k].seen}}
      \/ /\ helper[s] = "failed" /\ printers'[s] = old /\ queues' = Swept(s)
         /\ excused'[s] = excused[s] \cup QueueNames(old)
  BY <1>1 DEF SetupComplete, TypeInv
<1>4. Shrinks /\ OthersKept(s)
  BY <1>1, <1>3, QueuesUnchanged, SweptKeeps
<1>5. TypesOfStep
  BY <1>1, <1>4 DEF SetupComplete, TypesOfStep, TypeInv, Shrinks
<1>6. OwnedInv' /\ NothingLeft'
  BY <1>1, <1>2, <1>4, ShrinksKeepsOwned, ShrinksKeepsNothingLeft
<1>7. ListOK(new, NameSession(s)) /\ SameButMarks(old, new)
  BY <1>1, MarkedCreated
<1> HIDE DEF new
<1>8. ListOK(printers'[s], NameSession(s)) /\ SameButMarks(old, printers'[s])
  BY <1>1, <1>3, <1>7 DEF SameButMarks
<1>9. SharedIn(printers'[s], excused'[s])
  <2>1. SharedIn(old, excused'[s])
    BY <1>1, <1>3 DEF SharedIn
  <2> QED
    BY <1>8, <2>1, SharedByMarks
<1>10. ASSUME ~MixedModes
       PROVE  HomeOf(s)'
  <2>1. HelpersCupsd(s)' = HelpersCupsd(s)
    BY <1>2, SameNames
  <2>2. HomeOf(s)
    BY <1>2, <1>10 DEF IInv, HomeInv
  <2> SUFFICES ASSUME NEW i \in DOMAIN printers'[s],
                      printers'[s][i].queue \notin excused'[s]
               PROVE  /\ printers'[s][i].queue \in DOMAIN queues'[HelpersCupsd(s)]
                      /\ queues'[HelpersCupsd(s)][printers'[s][i].queue]
                           = Uri(s, printers'[s][i].id)
    BY <2>1 DEF HomeOf
  <2>3. /\ i \in DOMAIN old /\ printers'[s][i].queue = old[i].queue
        /\ printers'[s][i].id = old[i].id
    BY <1>8 DEF SameButMarks
  <2>4. CASE helper[s] = "created"
    <3>1. old[i].seen /\ old[i].queue \notin excused[s] /\ queues' = queues
      BY <1>3, <2>3, <2>4
    <3> QED
      BY <2>2, <2>3, <2>4, <3>1 DEF HomeOf
  <2>5. CASE helper[s] # "created"
    <3>1. old[i].queue \in excused'[s]
      BY <1>3, <2>3, <2>5 DEF QueueNames
    <3> QED
      BY <2>3, <3>1
  <2> QED
    BY <2>4, <2>5
<1> QED
  BY <1>2, <1>4, <1>5, <1>6, <1>8, <1>9, <1>10, StepKeepsIInv

-----------------------------------------------------------------------------
(* The theorems.                                                           *)

\* Without sessions there is nothing to find.
LEMMA InitEstablishes ==
  ASSUME Init
  PROVE  IInv
<1>1. /\ private \in [Session -> BOOLEAN] /\ samePaths \in [Session -> BOOLEAN]
      /\ active = {} /\ cupsServer = {} /\ crashed = {}
      /\ printers = [s \in Session |-> << >>] /\ helper = [s \in Session |-> "idle"]
      /\ queues = [c \in Instance |-> << >>] /\ excused = [s \in Session |-> {}]
      /\ starts = 0 /\ announces = 0
      /\ MixedModes \/ \A s, t \in Session : private[s] = private[t]
  BY DEF Init
<1>2. \A s \in Session : ListOK(printers[s], NameSession(s)) /\ SharedIn(printers[s], excused[s])
  BY <1>1, EmptyList
<1>3. TypeInv
  BY <1>1, <1>2, PrinterNamesAssumption DEF TypeInv
<1>4. ModesInv /\ SharedInv /\ HomeInv
  BY <1>1, <1>2 DEF ModesInv, SharedInv, HomeInv
<1>5. \A c \in Instance : DOMAIN queues[c] = {}
  BY <1>1
<1>6. OwnedInv /\ NothingLeft
  BY <1>5 DEF OwnedInv, NothingLeft
<1> QED
  BY <1>3, <1>4, <1>6 DEF IInv

\* All actions together.
LEMMA NextKeeps ==
  ASSUME IInv, [Next]_vars
  PROVE  IInv'
<1>1. CASE Next
  <2>1. PICK s \in Session :
           \/ Start(s)
           \/ \E d \in Device, a \in Announcement : DeviceAnnounce(s, d, a)
           \/ \E made \in SUBSET (1..MaxPrinters) : HelperCreates(s, made)
           \/ SetupComplete(s)
           \/ \E d \in Device : DeviceRemove(s, d)
           \/ Cleanup(s)
           \/ Crash(s)
    BY <1>1 DEF Next
  <2>2. CASE Start(s)
    BY <2>2, StartKeeps
  <2>3. CASE \E d \in Device, a \in Announcement : DeviceAnnounce(s, d, a)
    BY <2>3, DeviceAnnounceKeeps
  <2>4. CASE \E made \in SUBSET (1..MaxPrinters) : HelperCreates(s, made)
    BY <2>4, HelperCreatesKeeps
  <2>5. CASE SetupComplete(s)
    BY <2>5, SetupCompleteKeeps
  <2>6. CASE \E d \in Device : DeviceRemove(s, d)
    BY <2>6, DeviceRemoveKeeps
  <2>7. CASE Cleanup(s)
    BY <2>7, CleanupKeeps
  <2>8. CASE Crash(s)
    BY <2>8, CrashKeeps
  <2> QED
    BY <2>1, <2>2, <2>3, <2>4, <2>5, <2>6, <2>7, <2>8
<1>2. CASE UNCHANGED vars
  <2> USE <1>2 DEF vars, config
  <2>1. TypeInv' /\ ModesInv' /\ SharedInv'
    BY DEF IInv, TypeInv, ModesInv, SharedInv, NameSession
  <2>2. OwnedInv' /\ NothingLeft'
    BY DEF IInv, OwnedInv, NothingLeft, Reaches, NameSession, HelpersCupsd
  <2>3. HomeInv'
    BY DEF IInv, HomeInv, HomeOf, HelpersCupsd
  <2> QED
    BY <2>1, <2>2, <2>3 DEF IInv
<1> QED
  BY <1>1, <1>2

\* The invariant holds in every state.
LEMMA NamesInvariant == Spec => []IInv
<1>1. Init => IInv
  BY InitEstablishes
<1>2. IInv /\ [Next]_vars => IInv'
  BY NextKeeps
<1> QED
  BY <1>1, <1>2, PTL DEF Spec

\* The state stays well formed: no session has two printers of one device id or
\* more than the table holds (printer_dev_add).
THEOREM TypeCorrect == Spec => []TypeOK
<1>1. IInv => TypeOK
  <2> SUFFICES ASSUME IInv
               PROVE  TypeOK
    OBVIOUS
  <2>1. TypeInv
    BY DEF IInv
  <2>2. ASSUME NEW s \in Session
        PROVE  /\ Len(printers[s]) <= MaxPrinters
               /\ IsInjective([i \in DOMAIN printers[s] |-> printers[s][i].id])
    BY <2>1 DEF TypeInv, ListOK, IsInjective
  <2> QED
    BY <2>1, <2>2 DEF TypeInv, TypeOK
<1> QED
  BY <1>1, NamesInvariant, PTL

\* A session that was cleaned up by a chansrv whose commands get to the cupsd of its
\* queues has none left, whatever the sessions before it under its number left behind
\* (printer_cups_cleanup_stale_queues).
THEOREM CleanupLeavesNothing == Spec => []NothingLeft
<1>1. IInv => NothingLeft
  BY DEF IInv
<1> QED
  BY <1>1, NamesInvariant, PTL

\* Where sesman.ini is the same for all sessions, every created printer that is not
\* excused has its own queue, and a job from it comes to this session and printer.
THEOREM JobsComeHome == ~MixedModes => (Spec => []QueuesLeadHome)
<1> SUFFICES ASSUME ~MixedModes
             PROVE  Spec => []QueuesLeadHome
  OBVIOUS
<1>1. IInv => QueuesLeadHome
  <2> SUFFICES ASSUME IInv, NEW s \in active, NEW i \in DOMAIN printers[s],
                      printers[s][i].created, printers[s][i].queue \notin excused[s]
               PROVE  LeadsHome(s, printers[s][i])
    BY DEF QueuesLeadHome
  <2>1. HomeOf(s) /\ s \in Session
    BY DEF IInv, HomeInv, TypeInv
  <2>2. /\ printers[s][i].queue \in DOMAIN queues[HelpersCupsd(s)]
        /\ queues[HelpersCupsd(s)][printers[s][i].queue] = Uri(s, printers[s][i].id)
    BY <2>1 DEF HomeOf
  <2>3. s \in Nat /\ printers[s][i].id \in Nat
    <3>1. ListOK(printers[s], NameSession(s))
      BY <2>1 DEF IInv, TypeInv
    <3>2. printers[s][i].id \in Device
      BY <3>1, ListFacts
    <3> QED
      BY <2>1, <3>2, PrinterNamesAssumption
  <2> QED
    BY <2>2, <2>3, UriIsRead DEF LeadsHome
<1> QED
  BY <1>1, NamesInvariant, PTL

\* A queue is named after its printer as the client announced it (the offsets and
\* conversions of devredir_printer_device_announce, printer_sanitize_name).
THEOREM QueuesAreNamedByClient == Spec => []NamedByClient
<1>1. IInv => NamedByClient
  <2> SUFFICES ASSUME IInv, NEW s \in active, NEW i \in DOMAIN printers[s]
               PROVE  LET a == printers[s][i].from
                          tail == SubSeq(printers[s][i].queue, Len(Prefix(NameSession(s))) + 1,
                                         Len(printers[s][i].queue))
                      IN  /\ tail # << >>
                          /\ \A k \in DOMAIN tail : IsAlnum(tail[k]) =>
                                tail[k] \in Range(NameSource(a))
    BY DEF NamedByClient, NameSource, HasName
  <2>1. s \in Session /\ TypeInv
    BY DEF IInv, TypeInv
  <2>2. ListOK(printers[s], NameSession(s)) /\ NameSession(s) \in Nat
    BY <2>1, SessionFacts DEF TypeInv
  <2>3. printers[s][i] \in Printer(NameSession(s))
    BY <2>2, ListFacts
  <2>4. /\ printers[s][i].from \in AnnouncementType /\ Complete(printers[s][i].from)
        /\ printers[s][i].queue = SanitizeName(BaseName(printers[s][i].from), NameSession(s))
    BY <2>3, PrinterNamesAssumption DEF Printer
  <2> QED
    BY <2>2, <2>4, QueueIsNamed
<1> QED
  BY <1>1, NamesInvariant, PTL

=============================================================================
