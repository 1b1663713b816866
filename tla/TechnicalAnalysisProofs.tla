----------------------- MODULE TechnicalAnalysisProofs -----------------------
(***************************************************************************)
(* The properties of the technical analysis, for every market and every    *)
(* length of the periods: that the patterns agree, that two signals say    *)
(* nothing, and when the trend strength is unknown. What a fold or a       *)
(* recursion of the model returns is shown by induction on its length: a   *)
(* set of numbers that has zero, and with each number the next, has all.   *)
(***************************************************************************)
EXTENDS TechnicalAnalysis, SequenceTheorems, WellFoundedInduction, TLAPS

-----------------------------------------------------------------------------
(* Induction, by way of a least counterexample. *)

LEMMA SetOfNaturals ==
  ASSUME NEW P, 0 \in P, \A n \in Nat : n \in P => n + 1 \in P
  PROVE  Nat \subseteq P
<1> DEFINE T == Nat \ P
<1> SUFFICES ASSUME T # {} PROVE FALSE
  OBVIOUS
<1>1. PICK m \in T : \A y \in T : ~(<<y, m>> \in OpToRel(<, Nat))
  <2>1. T \subseteq Nat
    OBVIOUS
  <2> QED BY <2>1, NatLessThanWellFounded, WFMin, Zenon
<1>2. m # 0 /\ m - 1 \in Nat /\ m - 1 < m /\ m = (m - 1) + 1
  OBVIOUS
<1>3. <<m - 1, m>> \in OpToRel(<, Nat)
  BY <1>2 DEF OpToRel
<1>4. m - 1 \in P
  BY <1>1, <1>2, <1>3
<1> QED BY <1>2, <1>4

-----------------------------------------------------------------------------
(* The greatest common divisor is what its definition says, and a quotient  *)
(* in lowest terms keeps what a comparison looks at.                       *)

\* f is the greatest common divisor of the pairs of D.
Divides(f, D) == f = [p \in D |-> IF p[2] = 0 THEN p[1] ELSE f[<<p[2], p[1] % p[2]>>]]
UpTo(n) == Nat \X (0 .. n)

LEMMA Remainder ==
  ASSUME NEW a \in Nat, NEW b \in Nat \ {0}
  PROVE  a % b \in Nat /\ a % b < b
  BY SMT

LEMMA DividesEquation ==
  ASSUME NEW f, NEW n \in Nat, Divides(f, UpTo(n))
  PROVE  /\ \A a \in Nat : f[<<a, 0>>] = a
         /\ \A a \in Nat, b \in 1 .. n : f[<<a, b>>] = f[<<b, a % b>>]
<1>1. ASSUME NEW a \in Nat PROVE f[<<a, 0>>] = a
  BY DEF Divides, UpTo
<1>2. ASSUME NEW a \in Nat, NEW b \in 1 .. n PROVE f[<<a, b>>] = f[<<b, a % b>>]
  <2>1. <<a, b>> \in UpTo(n) /\ b # 0
    BY DEF UpTo
  <2> QED BY <2>1 DEF Divides
<1> QED BY <1>1, <1>2

LEMMA DividesAgree ==
  ASSUME NEW f, NEW n \in Nat, Divides(f, UpTo(n)),
         NEW h, NEW m \in Nat, Divides(h, UpTo(m)), n <= m
  PROVE  \A a \in Nat, b \in 0 .. n : f[<<a, b>>] = h[<<a, b>>]
<1> DEFINE P == {k \in Nat : \A b \in 0 .. n : b <= k => \A a \in Nat : f[<<a, b>>] = h[<<a, b>>]}
<1>1. 0 \in P
  <2> SUFFICES ASSUME NEW a \in Nat PROVE f[<<a, 0>>] = h[<<a, 0>>]
    OBVIOUS
  <2> QED BY DividesEquation
<1>2. ASSUME NEW k \in Nat, k \in P PROVE k + 1 \in P
  <2> SUFFICES ASSUME NEW b \in 0 .. n, b <= k + 1, NEW a \in Nat
               PROVE  f[<<a, b>>] = h[<<a, b>>]
    OBVIOUS
  <2>1. CASE b <= k
    BY <1>2, <2>1
  <2>2. CASE ~(b <= k)
    <3>1. b \in 1 .. n /\ b \in 1 .. m /\ b \in Nat \ {0} /\ b = k + 1
      BY <2>2
    <3>2. PICK r \in Nat : r = a % b /\ r < b
      BY <3>1, Remainder
    <3>3. r \in 0 .. n /\ r <= k
      BY <3>1, <3>2
    <3>4. f[<<b, r>>] = h[<<b, r>>]
      BY <1>2, <3>1, <3>3
    <3>5. f[<<a, b>>] = f[<<b, r>>]
      <4>1. f[<<a, b>>] = f[<<b, a % b>>]
        BY <3>1, DividesEquation
      <4> QED BY <4>1, <3>2, Zenon
    <3>6. h[<<a, b>>] = h[<<b, r>>]
      <4>1. h[<<a, b>>] = h[<<b, a % b>>]
        BY <3>1, DividesEquation
      <4> QED BY <4>1, <3>2, Zenon
    <3> QED BY <3>4, <3>5, <3>6, Zenon
  <2> QED BY <2>1, <2>2
<1> HIDE DEF P
<1>3. n \in P
  BY <1>1, <1>2, SetOfNaturals
<1> QED BY <1>3 DEF P

LEMMA DividesExists ==
  ASSUME NEW n \in Nat
  PROVE  \E f : Divides(f, UpTo(n))
<1> DEFINE P == {k \in Nat : \E f : Divides(f, UpTo(k))}
<1>1. 0 \in P
  <2> DEFINE f == [p \in UpTo(0) |-> p[1]]
  <2>1. f = [p \in UpTo(0) |-> IF p[2] = 0 THEN p[1] ELSE f[<<p[2], p[1] % p[2]>>]]
    BY DEF UpTo
  <2>2. Divides(f, UpTo(0))
    BY <2>1 DEF Divides
  <2> QED BY <2>2
<1>2. ASSUME NEW k \in Nat, k \in P PROVE k + 1 \in P
  <2>1. PICK f : Divides(f, UpTo(k))
    BY <1>2
  <2> DEFINE h == [p \in UpTo(k + 1) |-> IF p[2] = 0 THEN p[1] ELSE f[<<p[2], p[1] % p[2]>>]]
  <2>2. ASSUME NEW p \in UpTo(k + 1), p[2] # 0
        PROVE  <<p[2], p[1] % p[2]>> \in UpTo(k) /\ <<p[2], p[1] % p[2]>> \in UpTo(k + 1)
    <3>1. p[1] \in Nat /\ p[2] \in 1 .. k + 1 /\ p[2] \in Nat \ {0}
      BY <2>2 DEF UpTo
    <3>2. PICK r \in Nat : r = p[1] % p[2] /\ r < p[2]
      BY <3>1, Remainder
    <3>3. <<p[2], r>> \in UpTo(k) /\ <<p[2], r>> \in UpTo(k + 1)
      BY <3>1, <3>2 DEF UpTo
    <3> QED BY <3>2, <3>3, Zenon
  <2>3. ASSUME NEW q \in UpTo(k) PROVE h[q] = f[q]
    <3>1. q \in UpTo(k + 1)
      BY DEF UpTo
    <3>2. h[q] = IF q[2] = 0 THEN q[1] ELSE f[<<q[2], q[1] % q[2]>>]
      BY <3>1
    <3> HIDE DEF h
    <3>3. f[q] = IF q[2] = 0 THEN q[1] ELSE f[<<q[2], q[1] % q[2]>>]
      BY <2>1, Zenon DEF Divides
    <3> QED BY <3>2, <3>3, Zenon
  <2>4. ASSUME NEW p \in UpTo(k + 1), p[2] # 0
        PROVE  h[<<p[2], p[1] % p[2]>>] = f[<<p[2], p[1] % p[2]>>]
    <3> HIDE DEF h
    <3> QED BY <2>2, <2>3, <2>4, Zenon
  <2>5. ASSUME NEW p \in UpTo(k + 1)
        PROVE  h[p] = IF p[2] = 0 THEN p[1] ELSE h[<<p[2], p[1] % p[2]>>]
    <3>1. h[p] = IF p[2] = 0 THEN p[1] ELSE f[<<p[2], p[1] % p[2]>>]
      OBVIOUS
    <3> HIDE DEF h
    <3> QED BY <3>1, <2>4, Zenon
  <2>6. h = [p \in UpTo(k + 1) |-> h[p]]
    OBVIOUS
  <2>7. h = [p \in UpTo(k + 1) |-> IF p[2] = 0 THEN p[1] ELSE h[<<p[2], p[1] % p[2]>>]]
    <3> HIDE DEF h
    <3> QED BY <2>5, <2>6, Zenon
  <2>8. Divides(h, UpTo(k + 1))
    <3> HIDE DEF h
    <3> QED BY <2>7 DEF Divides
  <2> QED BY <2>8
<1> HIDE DEF P
<1>3. n \in P
  BY <1>1, <1>2, SetOfNaturals
<1> QED BY <1>3 DEF P

\* For all pairs, the pair is looked up where its second number suffices.
LEMMA GcdDivides == Divides(Gcd, Nat \X Nat)
<1> DEFINE some(n) == CHOOSE f : Divides(f, UpTo(n))
           all == [p \in Nat \X Nat |-> some(p[2])[p]]
<1>1. ASSUME NEW n \in Nat PROVE Divides(some(n), UpTo(n))
  BY DividesExists
<1> HIDE DEF some
<1>2. ASSUME NEW p \in Nat \X Nat
      PROVE  all[p] = IF p[2] = 0 THEN p[1] ELSE all[<<p[2], p[1] % p[2]>>]
  <2>1. PICK a \in Nat, b \in Nat : p = <<a, b>>
    OBVIOUS
  <2>2. all[<<a, b>>] = some(b)[<<a, b>>]
    OBVIOUS
  <2>3. CASE b = 0
    <3>1. some(0)[<<a, 0>>] = a
      BY <1>1, DividesEquation
    <3> HIDE DEF all
    <3>2. all[p] = a
      BY <2>1, <2>2, <2>3, <3>1, Zenon
    <3> QED BY <2>1, <2>3, <3>2
  <2>4. CASE b # 0
    <3>1. b \in 1 .. b /\ b \in Nat \ {0}
      BY <2>4
    <3>2. PICK r \in Nat : r = a % b /\ r < b
      BY <3>1, Remainder
    <3>3. all[<<b, r>>] = some(r)[<<b, r>>]
      OBVIOUS
    <3> HIDE DEF all
    <3>4. some(b)[<<a, b>>] = some(b)[<<b, r>>]
      <4>1. some(b)[<<a, b>>] = some(b)[<<b, a % b>>]
        BY <1>1, <3>1, DividesEquation
      <4> QED BY <4>1, <3>2, Zenon
    <3>5. some(r)[<<b, r>>] = some(b)[<<b, r>>]
      <4>1. Divides(some(r), UpTo(r)) /\ Divides(some(b), UpTo(b)) /\ r <= b /\ r \in 0 .. r
        BY <1>1, <3>2
      <4> QED BY <4>1, DividesAgree
    <3>6. all[<<a, b>>] = all[<<b, r>>]
      BY <2>2, <3>3, <3>4, <3>5, Zenon
    <3>7. p[2] # 0 /\ <<p[2], p[1] % p[2]>> = <<b, a % b>>
      BY <2>1, <2>4
    <3> QED BY <2>1, <3>2, <3>6, <3>7, Zenon
  <2> QED BY <2>3, <2>4
<1>3. all = [p \in Nat \X Nat |-> all[p]]
  OBVIOUS
<1> HIDE DEF all
<1>4. all = [p \in Nat \X Nat |-> IF p[2] = 0 THEN p[1] ELSE all[<<p[2], p[1] % p[2]>>]]
  BY <1>2, <1>3, Zenon
<1> QED BY <1>4, Zenon DEF Divides, Gcd

\* What of both numbers is left when they are divided by g.
IsDivisor(g, a, b) ==
  /\ g \in Nat
  /\ a = 0 /\ b = 0 => g = 0
  /\ a # 0 \/ b # 0 => g # 0
  /\ a # 0 => g <= a
  /\ b # 0 => g <= b

Multiple(n, g) == \E i \in Nat : n = g * i

LEMMA Division ==
  ASSUME NEW a \in Nat, NEW b \in Nat \ {0}
  PROVE  a \div b \in Nat /\ a = b * (a \div b) + (a % b)
  BY SMT

LEMMA MultipleStep ==
  ASSUME NEW a \in Nat, NEW b \in Nat \ {0}, NEW g \in Nat, Multiple(b, g), Multiple(a % b, g)
  PROVE  Multiple(a, g)
<1>1. PICK q \in Nat : q = a \div b
  BY Division
<1>2. PICK r \in Nat : r = a % b
  BY Remainder
<1>3. a = b * q + r
  BY <1>1, <1>2, Division, Zenon
<1>4. PICK k \in Nat : b = g * k
  BY DEF Multiple
<1>5. PICK j \in Nat : r = g * j
  BY <1>2 DEF Multiple
<1>6. (g * k) * q + g * j = g * (k * q + j) /\ k * q + j \in Nat
  OBVIOUS
<1>7. a = g * (k * q + j)
  BY <1>3, <1>4, <1>5, <1>6, Zenon
<1> QED BY <1>6, <1>7, Zenon DEF Multiple

\* It divides both numbers, and is 0 only of two zeros.
DividesBoth(a, b) == /\ Gcd[<<a, b>>] \in Nat
                     /\ Multiple(a, Gcd[<<a, b>>])
                     /\ Multiple(b, Gcd[<<a, b>>])

LEMMA GcdDividesBoth ==
  ASSUME NEW a \in Nat, NEW b \in Nat
  PROVE  /\ DividesBoth(a, b)
         /\ a = 0 /\ b = 0 => Gcd[<<a, b>>] = 0
<1> DEFINE P == {n \in Nat : \A y \in 0 .. n : \A x \in Nat : DividesBoth(x, y)}
<1>0. /\ \A x \in Nat : Gcd[<<x, 0>>] = x
      /\ \A x \in Nat, y \in Nat \ {0} : Gcd[<<x, y>>] = Gcd[<<y, x % y>>]
  BY GcdDivides DEF Divides
<1>1. 0 \in P
  <2> SUFFICES ASSUME NEW x \in Nat PROVE DividesBoth(x, 0)
    OBVIOUS
  <2>1. Gcd[<<x, 0>>] = x
    BY <1>0
  <2>2. x = x * 1 /\ 0 = x * 0 /\ 0 \in Nat /\ 1 \in Nat
    OBVIOUS
  <2>3. Multiple(x, x) /\ Multiple(0, x)
    BY <2>2, Zenon DEF Multiple
  <2> QED BY <2>1, <2>3, Zenon DEF DividesBoth
<1>2. ASSUME NEW n \in Nat, n \in P PROVE n + 1 \in P
  <2> SUFFICES ASSUME NEW y \in 0 .. n + 1, NEW x \in Nat PROVE DividesBoth(x, y)
    OBVIOUS
  <2>1. CASE y <= n
    BY <1>2, <2>1
  <2>2. CASE ~(y <= n)
    <3>1. y \in Nat \ {0} /\ y = n + 1
      BY <2>2
    <3>2. PICK r \in Nat : r = x % y /\ r < y
      BY <3>1, Remainder
    <3>3. DividesBoth(y, r)
      <4>1. r \in 0 .. n
        BY <3>1, <3>2
      <4> QED BY <1>2, <3>1, <4>1
    <3>4. PICK g \in Nat : g = Gcd[<<y, r>>]
      BY <3>3 DEF DividesBoth
    <3>5. Gcd[<<x, y>>] = g
      BY <1>0, <3>1, <3>2, <3>4, Zenon
    <3>6. Multiple(y, g) /\ Multiple(x % y, g)
      BY <3>2, <3>3, <3>4, Zenon DEF DividesBoth
    <3>7. Multiple(x, g)
      BY <3>1, <3>6, MultipleStep
    <3> QED BY <3>5, <3>6, <3>7, Zenon DEF DividesBoth
  <2> QED BY <2>1, <2>2
<1> HIDE DEF P
<1>3. b \in P
  BY <1>1, <1>2, SetOfNaturals
<1>4. DividesBoth(a, b)
  BY <1>3 DEF P
<1> QED BY <1>0, <1>4

LEMMA GcdIsDivisor ==
  ASSUME NEW a \in Nat, NEW b \in Nat
  PROVE  IsDivisor(Gcd[<<a, b>>], a, b)
<1>1. PICK g \in Nat : g = Gcd[<<a, b>>]
  BY GcdDividesBoth DEF DividesBoth
<1>2. Multiple(a, g) /\ Multiple(b, g)
  BY <1>1, GcdDividesBoth, Zenon DEF DividesBoth
<1>3. a = 0 /\ b = 0 => g = 0
  BY <1>1, GcdDividesBoth
<1>4. ASSUME NEW n \in Nat, n # 0, Multiple(n, g) PROVE g # 0 /\ g <= n
  <2>0. PICK k \in Nat : n = g * k
    BY <1>4 DEF Multiple
  <2>1. g # 0 /\ k # 0
    BY <1>4, <2>0
  <2>2. g * k >= g * 1
    BY <2>1
  <2> QED BY <2>0, <2>1, <2>2
<1>5. (a # 0 => g # 0 /\ g <= a) /\ (b # 0 => g # 0 /\ g <= b)
  BY <1>2, <1>4
<1> QED BY <1>1, <1>3, <1>5, Zenon DEF IsDivisor

Quotients == Int \X Nat
Counts == Nat \X Nat

LEMMA Shrunk ==
  ASSUME NEW n \in Int, NEW g \in Nat \ {0}
  PROVE  /\ n \div g \in Int
         /\ n \in Nat => n \div g \in Nat
         /\ n = 0 => n \div g = 0
         /\ n >= g => n \div g # 0
         /\ \A m \in Int : n <= m => n \div g <= m \div g
  BY SMT

\* A quotient of n by a natural number d, in lowest terms.
LEMMA FracByCount ==
  ASSUME NEW n \in Int, NEW d \in Nat
  PROVE  /\ Frac(n, d) \in Quotients
         /\ d # 0 => Frac(n, d)[2] # 0
         /\ n = 0 /\ d = 0 => Frac(n, d) = NaN
         /\ n \in Nat => Frac(n, d) \in Counts
         /\ n = 0 => Frac(n, d)[1] = 0
         /\ n \in Nat \ {0} => Frac(n, d)[1] # 0
         /\ n \in Nat /\ n <= d => Frac(n, d)[1] <= Frac(n, d)[2]
<1>1. PICK m \in Nat : m = Magnitude(n)
  BY DEF Magnitude
<1>2. PICK g : g = Gcd[<<m, d>>] /\ IsDivisor(g, m, d)
  BY GcdIsDivisor
<1>3. Magnitude(d) = d /\ ~(d < 0)
  BY DEF Magnitude
<1>4. Frac(n, d) = IF d = 1 THEN <<n, d>> ELSE IF g = 0 THEN <<0, 0>> ELSE <<1 * (n \div g), 1 * (d \div g)>>
  BY <1>1, <1>2, <1>3, Zenon DEF Frac
<1>5. (n \in Nat => m = n) /\ (n = 0 <=> m = 0)
  BY <1>1 DEF Magnitude
<1>6. CASE d = 1
  BY <1>4, <1>6 DEF Quotients, Counts, NaN
<1>7. CASE d # 1 /\ g = 0
  <2>1. n = 0 /\ d = 0
    BY <1>2, <1>5, <1>7 DEF IsDivisor
  <2>2. Frac(n, d) = <<0, 0>>
    BY <1>4, <1>7, Zenon
  <2> QED BY <2>1, <2>2 DEF Quotients, Counts, NaN
<1>8. CASE d # 1 /\ g # 0
  <2>1. g \in Nat \ {0} /\ (n # 0 \/ d # 0)
    BY <1>2, <1>5, <1>8 DEF IsDivisor
  <2>2. PICK a, b : a = n \div g /\ b = d \div g
    OBVIOUS
  <2>3. a \in Int /\ b \in Nat
    BY <2>1, <2>2, Shrunk
  <2>4. Frac(n, d) = <<1 * a, 1 * b>>
    BY <1>4, <1>8, <2>2, Zenon
  <2>5. Frac(n, d) = <<a, b>> /\ Frac(n, d)[1] = a /\ Frac(n, d)[2] = b
    BY <2>3, <2>4
  <2>6. d # 0 => b # 0
    <3> SUFFICES ASSUME d # 0 PROVE b # 0
      OBVIOUS
    <3>1. d >= g
      BY <1>2 DEF IsDivisor
    <3> QED BY <2>1, <2>2, <3>1, Shrunk
  <2>7. n \in Nat => a \in Nat
    BY <2>1, <2>2, Shrunk
  <2>8. n = 0 => a = 0
    BY <2>1, <2>2, Shrunk
  <2>9. n \in Nat \ {0} => a # 0
    <3> SUFFICES ASSUME n \in Nat \ {0} PROVE a # 0
      OBVIOUS
    <3>1. n >= g
      BY <1>2, <1>5 DEF IsDivisor
    <3> QED BY <2>1, <2>2, <3>1, Shrunk
  <2>10. n <= d => a <= b
    BY <2>1, <2>2, Shrunk
  <2> QED BY <2>1, <2>3, <2>5, <2>6, <2>7, <2>8, <2>9, <2>10 DEF Quotients, Counts
<1> QED BY <1>6, <1>7, <1>8

\* A quotient of counts that are not both zero is a number, infinity included; one
\* of a smaller by a larger count is a grade, a number from 0 to 1.
Grade(p) == AtLeast(p, Whole(0)) /\ AtLeast(Whole(1), p)

Grades == {p \in Counts : Grade(p)}

LEMMA GradeIs ==
  ASSUME NEW p \in Counts, p[1] <= p[2], p[2] # 0
  PROVE  p \in Grades
<1>1. PICK a \in Nat, b \in Nat : p = <<a, b>>
  BY DEF Counts
<1>2. p # NaN /\ Whole(0) # NaN /\ Whole(1) # NaN
  BY <1>1 DEF NaN, Whole
<1>3. Whole(0)[1] = 0 /\ Whole(0)[2] = 1 /\ Whole(1)[1] = 1 /\ Whole(1)[2] = 1
  BY DEF Whole
<1>4. p[1] = a /\ p[2] = b /\ a <= b
  BY <1>1
<1>5. p[1] * 1 >= 0 * p[2] /\ 1 * p[2] >= p[1] * 1
  BY <1>4
<1>6. Grade(p)
  BY <1>2, <1>3, <1>5, Zenon DEF Grade, AtLeast
<1> QED BY <1>6 DEF Grades

LEMMA GradeUpToOne ==
  ASSUME NEW n \in Nat, NEW d \in Nat, n # 0 \/ d # 0
  PROVE  UpToOne(n, d) \in Grades
<1>1. PICK p \in Counts : p = Frac(n, d) /\ (p[1] # 0 \/ p[2] # 0)
  BY FracByCount
<1>2. Whole(1) \in Counts /\ Whole(1)[1] = 1 /\ Whole(1)[2] = 1
  BY DEF Whole, Counts
<1>3. UpToOne(n, d) = IF p[1] * 1 > 1 * p[2] THEN Whole(1) ELSE p
  BY <1>1, <1>2, Zenon DEF UpToOne, AtMost, Above
<1>4. p[1] \in Nat /\ p[2] \in Nat
  BY DEF Counts
<1>5. CASE p[1] > p[2]
  <2>1. UpToOne(n, d) = Whole(1)
    BY <1>3, <1>4, <1>5
  <2> QED BY <1>2, <2>1, GradeIs
<1>6. CASE ~(p[1] > p[2])
  <2>1. UpToOne(n, d) = p
    BY <1>3, <1>4, <1>6
  <2>2. p[1] <= p[2] /\ p[2] # 0
    BY <1>1, <1>4, <1>6
  <2> QED BY <2>1, <2>2, GradeIs
<1> QED BY <1>5, <1>6

LEMMA GradeOfRest ==
  ASSUME NEW n \in Nat, NEW d \in Nat \ {0}, n <= d
  PROVE  Minus(Whole(1), Frac(n, d)) \in Grades
<1>1. PICK p \in Counts : p = Frac(n, d) /\ p[1] <= p[2] /\ p[2] # 0
  BY FracByCount
<1>2. PICK a \in Nat, b \in Nat \ {0} : p[1] = a /\ p[2] = b /\ a <= b
  BY <1>1 DEF Counts
<1>3. Minus(Whole(1), p) = Frac(1 * b + (-a) * 1, 1 * b)
  <2>1. Whole(1)[1] = 1 /\ Whole(1)[2] = 1 /\ <<-a, b>>[1] = -a /\ <<-a, b>>[2] = b
    BY DEF Whole
  <2> QED BY <1>2, <2>1, Zenon DEF Minus, Plus
<1>4. 1 * b + (-a) * 1 = b - a /\ 1 * b = b
  OBVIOUS
<1>5. Minus(Whole(1), p) = Frac(b - a, b)
  BY <1>3, <1>4, Zenon
<1>6. b - a \in Nat /\ b - a <= b
  BY <1>2
<1>7. PICK q \in Counts : q = Frac(b - a, b) /\ q[1] <= q[2] /\ q[2] # 0
  BY <1>6, FracByCount
<1>8. q \in Grades
  BY <1>7, GradeIs
<1> QED BY <1>1, <1>5, <1>7, <1>8, Zenon

-----------------------------------------------------------------------------
(* The patterns. *)

\* The parts of a candle.
LEMMA CandleParts ==
  ASSUME NEW c, IsCandle(c)
  PROVE  /\ c.open \in Nat /\ c.close \in Nat /\ c.high \in Nat /\ c.low \in Nat
         /\ bodySize(c) \in Nat /\ candleRange(c) \in Nat
         /\ upperShadow(c) \in Nat /\ lowerShadow(c) \in Nat
         /\ candleRange(c) = upperShadow(c) + bodySize(c) + lowerShadow(c)
         /\ bodyOrCent(c) \in Nat \ {0}
         /\ bodySize(c) # 0 => bodyOrCent(c) = bodySize(c)
         /\ Bullish(c) => bodySize(c) # 0 /\ ~Bearish(c)
         /\ Bearish(c) => bodySize(c) # 0 /\ lowerShadow(c) = c.close - c.low
<1>1. PICK o \in Nat, h \in Nat, l \in Nat, e \in Nat : o = c.open /\ h = c.high /\ l = c.low /\ e = c.close
  BY DEF IsCandle, Candle
<1>2. l <= o /\ l <= e /\ o <= h /\ e <= h
  BY <1>1 DEF IsCandle, Smaller, Larger
<1>3. PICK b \in Nat : b = bodySize(c) /\ b = IF e - o < 0 THEN -(e - o) ELSE e - o
  BY <1>1 DEF bodySize, Magnitude
<1>4. upperShadow(c) = h - IF o > e THEN o ELSE e
  BY <1>1, Zenon DEF upperShadow, Larger
<1>5. lowerShadow(c) = (IF o < e THEN o ELSE e) - l
  BY <1>1, Zenon DEF lowerShadow, Smaller
<1>6. candleRange(c) = h - l /\ (Bullish(c) <=> e > o) /\ (Bearish(c) <=> e < o)
  BY <1>1 DEF candleRange, Bullish, Bearish
<1>7. bodyOrCent(c) = IF b = 0 THEN Cent ELSE b
  BY <1>3, Zenon DEF bodyOrCent
<1>8. PICK u \in Nat, w \in Nat : /\ u = upperShadow(c) /\ w = lowerShadow(c)
                                  /\ u = h - IF o > e THEN o ELSE e
                                  /\ w = (IF o < e THEN o ELSE e) - l
  BY <1>2, <1>4, <1>5
<1>9. h - l \in Nat /\ h - l = u + b + w
  BY <1>2, <1>3, <1>8
<1>10. (e > o => b # 0 /\ ~(e < o)) /\ (e < o => b # 0 /\ w = e - l)
  BY <1>2, <1>3, <1>8
<1>11. bodyOrCent(c) \in Nat \ {0} /\ (b # 0 => bodyOrCent(c) = b)
  BY <1>7, CentAssumption
<1>12. candleRange(c) = h - l
  BY <1>6
<1>13. candleRange(c) \in Nat /\ candleRange(c) = upperShadow(c) + bodySize(c) + lowerShadow(c)
  BY <1>3, <1>8, <1>9, <1>12, Zenon
<1>14. lowerShadow(c) = w /\ c.close - c.low = e - l
  BY <1>1, <1>8, Zenon
<1> QED BY <1>1, <1>3, <1>6, <1>8, <1>10, <1>11, <1>13, <1>14, Zenon

\* What the type of a pattern says of the candle it ends with.
Means(type, c1, c2) ==
  /\ type \in Rising \ {"HAMMER"} => Bullish(c1)
  /\ type = "HAMMER" => isHammer(c1, c2)
  /\ type \in Falling => Bearish(c1)
  /\ type \in Falling \ {"EVENING_STAR"} => ~isHammer(c1, c2)
Types(c1, c2) == {type \in {"DOJI"} \cup Rising \cup Falling : Means(type, c1, c2)}
Sightings(c1, c2, i) == [type : Types(c1, c2), position : {i}, strength : Grades]

LEMMA SeenIsSighting ==
  ASSUME NEW c1, NEW c2, NEW i, NEW type \in {"DOJI"} \cup Rising \cup Falling, Means(type, c1, c2),
         NEW strength \in Grades
  PROVE  Seen(type, i, strength) \in Seq(Sightings(c1, c2, i))
<1>1. [type |-> type, position |-> i, strength |-> strength] \in Sightings(c1, c2, i)
  BY DEF Sightings, Types
<1> QED BY <1>1 DEF Seen

LEMMA OneCandle ==
  ASSUME NEW c1, IsCandle(c1), NEW c2, IsCandle(c2), NEW i
  PROVE  /\ checkDoji(c1, i) \in Seq(Sightings(c1, c2, i))
         /\ checkMarubozu(c1, i) \in Seq(Sightings(c1, c2, i))
<1>1. ASSUME isDoji(c1) PROVE checkDoji(c1, i) \in Seq(Sightings(c1, c2, i))
  <2>1. bodySize(c1) \in Nat /\ candleRange(c1) \in Nat \ {0} /\ bodySize(c1) <= candleRange(c1)
    BY <1>1, CandleParts DEF isDoji
  <2>2. Minus(Whole(1), Frac(bodySize(c1), candleRange(c1))) \in Grades
    BY <2>1, GradeOfRest
  <2>3. "DOJI" \in {"DOJI"} \cup Rising \cup Falling /\ Means("DOJI", c1, c2)
    BY DEF Means, Rising, Falling
  <2> QED BY <1>1, <2>2, <2>3, SeenIsSighting DEF checkDoji
<1>2. ASSUME isBullishMarubozu(c1) \/ isBearishMarubozu(c1)
      PROVE  checkMarubozu(c1, i) \in Seq(Sightings(c1, c2, i))
  <2>1. bodySize(c1) \in Nat \ {0} /\ candleRange(c1) \in Nat /\ 10 * lowerShadow(c1) <= bodySize(c1)
    BY <1>2, CandleParts DEF isBullishMarubozu, isBearishMarubozu, LongBody
  <2>2. UpToOne(bodySize(c1), candleRange(c1)) \in Grades
    BY <2>1, GradeUpToOne
  <2>3. ~isHammer(c1, c2)
    BY <2>1, CandleParts DEF isHammer
  <2>4. CASE isBullishMarubozu(c1)
    <3>1. "MARUBOZU_BULLISH" \in {"DOJI"} \cup Rising \cup Falling /\ Means("MARUBOZU_BULLISH", c1, c2)
      BY <2>4 DEF Means, Rising, Falling, isBullishMarubozu
    <3>2. checkMarubozu(c1, i) = Seen("MARUBOZU_BULLISH", i, UpToOne(bodySize(c1), candleRange(c1)))
      BY <2>4, Zenon DEF checkMarubozu
    <3> QED BY <2>2, <3>1, <3>2, SeenIsSighting
  <2>5. CASE ~isBullishMarubozu(c1)
    <3>1. "MARUBOZU_BEARISH" \in {"DOJI"} \cup Rising \cup Falling /\ Means("MARUBOZU_BEARISH", c1, c2)
      BY <1>2, <2>3, <2>5 DEF Means, Rising, Falling, isBearishMarubozu
    <3>2. checkMarubozu(c1, i) = Seen("MARUBOZU_BEARISH", i, UpToOne(bodySize(c1), candleRange(c1)))
      BY <1>2, <2>5, Zenon DEF checkMarubozu
    <3> QED BY <2>2, <3>1, <3>2, SeenIsSighting
  <2> QED BY <2>4, <2>5
<1>3. <<>> \in Seq(Sightings(c1, c2, i))
  OBVIOUS
<1>4. ~isDoji(c1) => checkDoji(c1, i) = <<>>
  BY DEF checkDoji
<1>5. ~(isBullishMarubozu(c1) \/ isBearishMarubozu(c1)) => checkMarubozu(c1, i) = <<>>
  BY DEF checkMarubozu
<1> QED BY <1>1, <1>2, <1>3, <1>4, <1>5

LEMMA HammerAndStar ==
  ASSUME NEW c1, IsCandle(c1), NEW c2, IsCandle(c2), NEW i
  PROVE  /\ checkHammer(c1, c2, i) \in Seq(Sightings(c1, c2, i))
         /\ checkShootingStar(c1, c2, i) \in Seq(Sightings(c1, c2, i))
<1>1. ASSUME isHammer(c1, c2) PROVE checkHammer(c1, c2, i) \in Seq(Sightings(c1, c2, i))
  <2>1. lowerShadow(c1) \in Nat /\ 2 * bodySize(c1) \in Nat /\ (lowerShadow(c1) # 0 \/ 2 * bodySize(c1) # 0)
    BY <1>1, CandleParts DEF isHammer
  <2>2. UpToOne(lowerShadow(c1), 2 * bodySize(c1)) \in Grades
    BY <2>1, GradeUpToOne
  <2>3. "HAMMER" \in {"DOJI"} \cup Rising \cup Falling /\ Means("HAMMER", c1, c2)
    BY <1>1 DEF Means, Rising, Falling
  <2> QED BY <1>1, <2>2, <2>3, SeenIsSighting DEF checkHammer
<1>2. ASSUME isShootingStar(c1, c2) PROVE checkShootingStar(c1, c2, i) \in Seq(Sightings(c1, c2, i))
  <2>1. upperShadow(c1) \in Nat /\ 2 * bodySize(c1) \in Nat /\ 2 * bodySize(c1) # 0
    BY <1>2, CandleParts DEF isShootingStar
  <2>2. UpToOne(upperShadow(c1), 2 * bodySize(c1)) \in Grades
    BY <2>1, GradeUpToOne
  <2>3. ~isHammer(c1, c2) /\ Bearish(c1)
    BY <1>2, CandleParts DEF isHammer, isShootingStar
  <2>4. "SHOOTING_STAR" \in {"DOJI"} \cup Rising \cup Falling /\ Means("SHOOTING_STAR", c1, c2)
    BY <2>3 DEF Means, Rising, Falling
  <2> QED BY <1>2, <2>2, <2>4, SeenIsSighting DEF checkShootingStar
<1>3. <<>> \in Seq(Sightings(c1, c2, i))
  OBVIOUS
<1>4. ~isHammer(c1, c2) => checkHammer(c1, c2, i) = <<>>
  BY DEF checkHammer
<1>5. ~isShootingStar(c1, c2) => checkShootingStar(c1, c2, i) = <<>>
  BY DEF checkShootingStar
<1> QED BY <1>1, <1>2, <1>3, <1>4, <1>5

LEMMA EngulfingAndHarami ==
  ASSUME NEW c1, IsCandle(c1), NEW c2, IsCandle(c2), NEW i
  PROVE  /\ checkEngulfing(c1, c2, i) \in Seq(Sightings(c1, c2, i))
         /\ checkHarami(c1, c2, i) \in Seq(Sightings(c1, c2, i))
<1>1. bodySize(c1) \in Nat /\ bodySize(c2) \in Nat /\ bodyOrCent(c2) \in Nat \ {0}
  BY CandleParts
<1>2. ASSUME isBullishEngulfing(c1, c2) \/ isBearishEngulfing(c1, c2)
      PROVE  checkEngulfing(c1, c2, i) \in Seq(Sightings(c1, c2, i))
  <2>1. UpToOne(bodySize(c1), bodyOrCent(c2)) \in Grades
    BY <1>1, GradeUpToOne
  <2>2. CASE isBullishEngulfing(c1, c2)
    <3>1. "ENGULFING_BULLISH" \in {"DOJI"} \cup Rising \cup Falling /\ Means("ENGULFING_BULLISH", c1, c2)
      BY <2>2 DEF Means, Rising, Falling, isBullishEngulfing
    <3>2. checkEngulfing(c1, c2, i) = Seen("ENGULFING_BULLISH", i, UpToOne(bodySize(c1), bodyOrCent(c2)))
      BY <2>2, Zenon DEF checkEngulfing
    <3> QED BY <2>1, <3>1, <3>2, SeenIsSighting
  <2>3. CASE ~isBullishEngulfing(c1, c2)
    <3>1. Bearish(c1) /\ ~isHammer(c1, c2)
      BY <1>2, <2>3, CandleParts DEF isBearishEngulfing, isHammer
    <3>2. "ENGULFING_BEARISH" \in {"DOJI"} \cup Rising \cup Falling /\ Means("ENGULFING_BEARISH", c1, c2)
      BY <3>1 DEF Means, Rising, Falling
    <3>3. checkEngulfing(c1, c2, i) = Seen("ENGULFING_BEARISH", i, UpToOne(bodySize(c1), bodyOrCent(c2)))
      BY <1>2, <2>3, Zenon DEF checkEngulfing
    <3> QED BY <2>1, <3>2, <3>3, SeenIsSighting
  <2> QED BY <2>2, <2>3
<1>3. ASSUME isBullishHarami(c1, c2) \/ isBearishHarami(c1, c2)
      PROVE  checkHarami(c1, c2, i) \in Seq(Sightings(c1, c2, i))
  <2>1. Bearish(c2) \/ Bullish(c2)
    BY <1>3 DEF isBullishHarami, isBearishHarami
  <2>2. bodyOrCent(c2) = bodySize(c2) /\ 10 * bodySize(c1) < 6 * bodySize(c2)
    BY <1>3, <2>1, CandleParts DEF isBullishHarami, isBearishHarami
  <2>3. bodySize(c1) <= bodyOrCent(c2)
    BY <1>1, <2>2
  <2>4. Minus(Whole(1), Frac(bodySize(c1), bodyOrCent(c2))) \in Grades
    BY <1>1, <2>3, GradeOfRest
  <2>5. CASE isBullishHarami(c1, c2)
    <3>1. "HARAMI_BULLISH" \in {"DOJI"} \cup Rising \cup Falling /\ Means("HARAMI_BULLISH", c1, c2)
      BY <2>5 DEF Means, Rising, Falling, isBullishHarami
    <3>2. checkHarami(c1, c2, i) = Seen("HARAMI_BULLISH", i, Minus(Whole(1), Frac(bodySize(c1), bodyOrCent(c2))))
      BY <2>5, Zenon DEF checkHarami
    <3> QED BY <2>4, <3>1, <3>2, SeenIsSighting
  <2>6. CASE ~isBullishHarami(c1, c2)
    <3>1. Bearish(c1) /\ ~isHammer(c1, c2)
      BY <1>3, <2>6, CandleParts DEF isBearishHarami, isHammer
    <3>2. "HARAMI_BEARISH" \in {"DOJI"} \cup Rising \cup Falling /\ Means("HARAMI_BEARISH", c1, c2)
      BY <3>1 DEF Means, Rising, Falling
    <3>3. checkHarami(c1, c2, i) = Seen("HARAMI_BEARISH", i, Minus(Whole(1), Frac(bodySize(c1), bodyOrCent(c2))))
      BY <1>3, <2>6, Zenon DEF checkHarami
    <3> QED BY <2>4, <3>2, <3>3, SeenIsSighting
  <2> QED BY <2>5, <2>6
<1>4. <<>> \in Seq(Sightings(c1, c2, i))
  OBVIOUS
<1>5. ~(isBullishEngulfing(c1, c2) \/ isBearishEngulfing(c1, c2)) => checkEngulfing(c1, c2, i) = <<>>
  BY Zenon DEF checkEngulfing
<1>6. ~(isBullishHarami(c1, c2) \/ isBearishHarami(c1, c2)) => checkHarami(c1, c2, i) = <<>>
  BY Zenon DEF checkHarami
<1> QED BY <1>2, <1>3, <1>4, <1>5, <1>6, Zenon

LEMMA CloudAndLine ==
  ASSUME NEW c1, IsCandle(c1), NEW c2, IsCandle(c2), NEW i
  PROVE  /\ checkDarkCloud(c1, c2, i) \in Seq(Sightings(c1, c2, i))
         /\ checkPiercingLine(c1, c2, i) \in Seq(Sightings(c1, c2, i))
<1>1. c1.open \in Nat /\ c1.close \in Nat /\ c2.open \in Nat /\ c2.close \in Nat
  BY CandleParts
<1>2. ASSUME isDarkCloud(c1, c2) PROVE checkDarkCloud(c1, c2, i) \in Seq(Sightings(c1, c2, i))
  <2>1. c2.close > c2.open /\ c1.close <= c2.open
    BY <1>2 DEF isDarkCloud, Bullish
  <2>2. c2.close - c1.close \in Nat /\ c2.close - c2.open \in Nat /\ c2.close - c2.open # 0
    BY <1>1, <2>1
  <2>3. UpToOne(c2.close - c1.close, c2.close - c2.open) \in Grades
    BY <2>2, GradeUpToOne
  <2>4. Bearish(c1) /\ ~isHammer(c1, c2)
    BY <1>2, CandleParts DEF isDarkCloud, isHammer
  <2>5. "DARK_CLOUD_COVER" \in {"DOJI"} \cup Rising \cup Falling /\ Means("DARK_CLOUD_COVER", c1, c2)
    BY <2>4 DEF Means, Rising, Falling
  <2> QED BY <1>2, <2>3, <2>5, SeenIsSighting DEF checkDarkCloud
<1>3. ASSUME isPiercingLine(c1, c2) PROVE checkPiercingLine(c1, c2, i) \in Seq(Sightings(c1, c2, i))
  <2>1. c2.close < c2.open /\ 2 * c1.close > c2.open + c2.close
    BY <1>3 DEF isPiercingLine, Bearish, AboveMidpoint
  <2>2. c1.close - c2.close \in Nat /\ c2.open - c2.close \in Nat /\ c2.open - c2.close # 0
    BY <1>1, <2>1
  <2>3. UpToOne(c1.close - c2.close, c2.open - c2.close) \in Grades
    BY <2>2, GradeUpToOne
  <2>4. "PIERCING_LINE" \in {"DOJI"} \cup Rising \cup Falling /\ Means("PIERCING_LINE", c1, c2)
    BY <1>3 DEF Means, Rising, Falling, isPiercingLine
  <2> QED BY <1>3, <2>3, <2>4, SeenIsSighting DEF checkPiercingLine
<1>4. <<>> \in Seq(Sightings(c1, c2, i))
  OBVIOUS
<1>5. ~isDarkCloud(c1, c2) => checkDarkCloud(c1, c2, i) = <<>>
  BY DEF checkDarkCloud
<1>6. ~isPiercingLine(c1, c2) => checkPiercingLine(c1, c2, i) = <<>>
  BY DEF checkPiercingLine
<1> QED BY <1>2, <1>3, <1>4, <1>5, <1>6, Zenon

LEMMA Stars ==
  ASSUME NEW c1, IsCandle(c1), NEW c2, IsCandle(c2), NEW c3, IsCandle(c3), NEW i
  PROVE  /\ checkMorningStar(c1, c2, c3, i) \in Seq(Sightings(c1, c2, i))
         /\ checkEveningStar(c1, c2, c3, i) \in Seq(Sightings(c1, c2, i))
<1>1. UpToOne(bodySize(c3) + bodySize(c1), 2 * bodyOrCent(c2)) \in Grades
  <2>1. bodySize(c3) \in Nat /\ bodySize(c1) \in Nat /\ bodyOrCent(c2) \in Nat \ {0}
    BY CandleParts
  <2>2. bodySize(c3) + bodySize(c1) \in Nat /\ 2 * bodyOrCent(c2) \in Nat /\ 2 * bodyOrCent(c2) # 0
    BY <2>1
  <2> QED BY <2>2, GradeUpToOne
<1>2. ASSUME isMorningStar(c1, c2, c3) PROVE checkMorningStar(c1, c2, c3, i) \in Seq(Sightings(c1, c2, i))
  <2>1. "MORNING_STAR" \in {"DOJI"} \cup Rising \cup Falling /\ Means("MORNING_STAR", c1, c2)
    BY <1>2 DEF Means, Rising, Falling, isMorningStar
  <2> QED BY <1>1, <1>2, <2>1, SeenIsSighting DEF checkMorningStar
<1>3. ASSUME isEveningStar(c1, c2, c3) PROVE checkEveningStar(c1, c2, c3, i) \in Seq(Sightings(c1, c2, i))
  <2>1. "EVENING_STAR" \in {"DOJI"} \cup Rising \cup Falling /\ Means("EVENING_STAR", c1, c2)
    BY <1>3 DEF Means, Rising, Falling, isEveningStar
  <2> QED BY <1>1, <1>3, <2>1, SeenIsSighting DEF checkEveningStar
<1>4. <<>> \in Seq(Sightings(c1, c2, i))
  OBVIOUS
<1>5. ~isMorningStar(c1, c2, c3) => checkMorningStar(c1, c2, c3, i) = <<>>
  BY DEF checkMorningStar
<1>6. ~isEveningStar(c1, c2, c3) => checkEveningStar(c1, c2, c3, i) = <<>>
  BY DEF checkEveningStar
<1> QED BY <1>2, <1>3, <1>4, <1>5, <1>6, Zenon

LEMMA SoldiersAndCrows ==
  ASSUME NEW c1, IsCandle(c1), NEW c2, IsCandle(c2), NEW c3, NEW i
  PROVE  /\ checkThreeWhiteSoldiers(c1, c2, c3, i) \in Seq(Sightings(c1, c2, i))
         /\ checkThreeBlackCrows(c1, c2, c3, i) \in Seq(Sightings(c1, c2, i))
<1>1. UpToOne(bodySize(c1), bodyOrCent(c2)) \in Grades
  <2>1. bodySize(c1) \in Nat /\ bodyOrCent(c2) \in Nat \ {0}
    BY CandleParts
  <2> QED BY <2>1, GradeUpToOne
<1>2. ASSUME isThreeWhiteSoldiers(c1, c2, c3)
      PROVE  checkThreeWhiteSoldiers(c1, c2, c3, i) \in Seq(Sightings(c1, c2, i))
  <2>1. Bullish(c1)
    BY <1>2 DEF isThreeWhiteSoldiers
  <2>2. "THREE_WHITE_SOLDIERS" \in {"DOJI"} \cup Rising \cup Falling /\ Means("THREE_WHITE_SOLDIERS", c1, c2)
    BY <2>1 DEF Means, Rising, Falling
  <2> QED BY <1>1, <1>2, <2>2, SeenIsSighting DEF checkThreeWhiteSoldiers
<1>3. ASSUME isThreeBlackCrows(c1, c2, c3)
      PROVE  checkThreeBlackCrows(c1, c2, c3, i) \in Seq(Sightings(c1, c2, i))
  <2>1. Bearish(c1) /\ 10 * (c1.close - c1.low) < bodySize(c1)
    BY <1>3, Zenon DEF isThreeBlackCrows
  <2>2. ~isHammer(c1, c2)
    <3>1. lowerShadow(c1) \in Nat /\ bodySize(c1) \in Nat /\ lowerShadow(c1) = c1.close - c1.low
      BY <2>1, CandleParts
    <3>2. 10 * lowerShadow(c1) < bodySize(c1)
      BY <2>1, <3>1
    <3> QED BY <3>1, <3>2 DEF isHammer
  <2>3. "THREE_BLACK_CROWS" \in {"DOJI"} \cup Rising \cup Falling /\ Means("THREE_BLACK_CROWS", c1, c2)
    BY <2>1, <2>2 DEF Means, Rising, Falling
  <2> QED BY <1>1, <1>3, <2>3, SeenIsSighting DEF checkThreeBlackCrows
<1>4. <<>> \in Seq(Sightings(c1, c2, i))
  OBVIOUS
<1>5. ~isThreeWhiteSoldiers(c1, c2, c3) => checkThreeWhiteSoldiers(c1, c2, c3, i) = <<>>
  BY DEF checkThreeWhiteSoldiers
<1>6. ~isThreeBlackCrows(c1, c2, c3) => checkThreeBlackCrows(c1, c2, c3, i) = <<>>
  BY DEF checkThreeBlackCrows
<1> QED BY <1>2, <1>3, <1>4, <1>5, <1>6, Zenon

\* The candle i of a chart and the two before it.
LEMMA PatternsAreSightings ==
  ASSUME NEW candles, NEW i, IsCandle(candles[i]), IsCandle(candles[i - 1]), IsCandle(candles[i - 2])
  PROVE  PatternsAt(candles, i) \in Seq(Sightings(candles[i], candles[i - 1], i))
<1>1. PICK c1, c2, c3 : c1 = candles[i] /\ c2 = candles[i - 1] /\ c3 = candles[i - 2]
  OBVIOUS
<1>2. IsCandle(c1) /\ IsCandle(c2) /\ IsCandle(c3)
  BY <1>1, Zenon
<1> DEFINE S == Seq(Sightings(c1, c2, i))
<1>3. ASSUME NEW s \in S, NEW t \in S PROVE s \o t \in S
  BY ConcatProperties
<1>4. /\ checkDoji(c1, i) \in S /\ checkMarubozu(c1, i) \in S
      /\ checkHammer(c1, c2, i) \in S /\ checkShootingStar(c1, c2, i) \in S
      /\ checkEngulfing(c1, c2, i) \in S /\ checkHarami(c1, c2, i) \in S
      /\ checkDarkCloud(c1, c2, i) \in S /\ checkPiercingLine(c1, c2, i) \in S
      /\ checkMorningStar(c1, c2, c3, i) \in S /\ checkEveningStar(c1, c2, c3, i) \in S
      /\ checkThreeWhiteSoldiers(c1, c2, c3, i) \in S /\ checkThreeBlackCrows(c1, c2, c3, i) \in S
  BY <1>2, OneCandle, HammerAndStar, EngulfingAndHarami, CloudAndLine, Stars, SoldiersAndCrows
<1> HIDE DEF S
<1>5. PICK l1 \in S, l2 \in S, l3 \in S, l4 \in S, l5 \in S, l6 \in S, l7 \in S, l8 \in S, l9 \in S, l10 \in S,
           l11 \in S, l12 \in S :
        /\ l1 = checkDoji(c1, i)
        /\ l2 = checkHammer(c1, c2, i)
        /\ l3 = checkShootingStar(c1, c2, i)
        /\ l4 = checkMarubozu(c1, i)
        /\ l5 = checkEngulfing(c1, c2, i)
        /\ l6 = checkHarami(c1, c2, i)
        /\ l7 = checkDarkCloud(c1, c2, i)
        /\ l8 = checkPiercingLine(c1, c2, i)
        /\ l9 = checkMorningStar(c1, c2, c3, i)
        /\ l10 = checkEveningStar(c1, c2, c3, i)
        /\ l11 = checkThreeWhiteSoldiers(c1, c2, c3, i)
        /\ l12 = checkThreeBlackCrows(c1, c2, c3, i)
  BY <1>4, Zenon
<1>6. PatternsAt(candles, i) = l1 \o l2 \o l3 \o l4 \o l5 \o l6 \o l7 \o l8 \o l9 \o l10 \o l11 \o l12
  BY <1>1, <1>5, Zenon DEF PatternsAt
<1>7. l1 \o l2 \o l3 \o l4 \o l5 \o l6 \in S
  BY <1>3, Zenon
<1>8. l1 \o l2 \o l3 \o l4 \o l5 \o l6 \o l7 \o l8 \o l9 \o l10 \o l11 \o l12 \in S
  BY <1>3, <1>7, Zenon
<1> QED BY <1>1, <1>6, <1>8, Zenon DEF S

\* Lists one after the other, and what the first of them make together.
Joined(seqs, f, n) == f = [i \in 1 .. n |-> IF i = 1 THEN seqs[i] ELSE f[i - 1] \o seqs[i]]

LEMMA JoinedExists ==
  ASSUME NEW seqs, NEW n \in Nat
  PROVE  \E f : Joined(seqs, f, n)
<1> DEFINE P == {m \in Nat : \E f : Joined(seqs, f, m)}
<1>1. 0 \in P
  <2> DEFINE f == [i \in 1 .. 0 |-> seqs[i]]
  <2>1. f = [i \in 1 .. 0 |-> IF i = 1 THEN seqs[i] ELSE f[i - 1] \o seqs[i]]
    OBVIOUS
  <2>2. Joined(seqs, f, 0)
    BY <2>1 DEF Joined
  <2> QED BY <2>2
<1>2. ASSUME NEW m \in Nat, m \in P PROVE m + 1 \in P
  <2>1. PICK f : Joined(seqs, f, m)
    BY <1>2
  <2> DEFINE g == [i \in 1 .. m + 1 |-> IF i = 1 THEN seqs[i] ELSE f[i - 1] \o seqs[i]]
  <2>2. \A i \in 1 .. m : g[i] = f[i]
    <3> SUFFICES ASSUME NEW i \in 1 .. m PROVE g[i] = f[i]
      OBVIOUS
    <3>1. g[i] = IF i = 1 THEN seqs[i] ELSE f[i - 1] \o seqs[i]
      OBVIOUS
    <3> HIDE DEF g
    <3>2. f[i] = IF i = 1 THEN seqs[i] ELSE f[i - 1] \o seqs[i]
      BY <2>1, Zenon DEF Joined
    <3> QED BY <3>1, <3>2, Zenon
  <2>3. \A i \in 1 .. m + 1 : i # 1 => i - 1 \in 1 .. m
    OBVIOUS
  <2>4. g = [i \in 1 .. m + 1 |-> IF i = 1 THEN seqs[i] ELSE g[i - 1] \o seqs[i]]
    BY <2>2, <2>3
  <2>5. Joined(seqs, g, m + 1)
    BY <2>4 DEF Joined
  <2> QED BY <2>5
<1> HIDE DEF P
<1>3. n \in P
  BY <1>1, <1>2, SetOfNaturals
<1> QED BY <1>3 DEF P

LEMMA FlattenedList ==
  ASSUME NEW S, NEW seqs \in Seq(Seq(S))
  PROVE  FlattenSeq(seqs) \in Seq(S)
<1>1. PICK n \in Nat : n = Len(seqs)
  OBVIOUS
<1>2. \A k \in 1 .. n : seqs[k] \in Seq(S)
  BY <1>1
<1>3. CASE n = 0
  <2>1. seqs = <<>>
    BY <1>1, <1>3, EmptySeq
  <2>2. FlattenSeq(seqs) = seqs
    BY <1>1, <1>3, Zenon DEF FlattenSeq
  <2>3. <<>> \in Seq(S)
    OBVIOUS
  <2> QED BY <2>1, <2>2, <2>3, Zenon
<1>4. CASE n # 0
  <2> DEFINE f == CHOOSE g : Joined(seqs, g, n)
  <2>1. Joined(seqs, f, n)
    BY JoinedExists
  <2>2. FlattenSeq(seqs) = f[n]
    BY <1>1, <1>4, Zenon DEF FlattenSeq, Joined
  <2> HIDE DEF f
  <2> DEFINE P == {m \in Nat : m + 1 <= n => f[m + 1] \in Seq(S)}
  <2>3. 0 \in P
    <3>1. 1 \in 1 .. n
      BY <1>4
    <3>2. f[1] = seqs[1]
      BY <2>1, <3>1 DEF Joined
    <3> QED BY <1>2, <3>1, <3>2
  <2>4. ASSUME NEW m \in Nat, m \in P PROVE m + 1 \in P
    <3> SUFFICES ASSUME m + 1 + 1 <= n PROVE f[m + 1 + 1] \in Seq(S)
      OBVIOUS
    <3>1. PICK k \in 2 .. n : k = m + 1 + 1 /\ k \in 1 .. n /\ k # 1 /\ k - 1 = m + 1
      OBVIOUS
    <3>2. f[k - 1] \in Seq(S)
      BY <2>4, <3>1
    <3>3. f[k] = f[k - 1] \o seqs[k]
      BY <2>1, <3>1 DEF Joined
    <3>4. f[k] \in Seq(S)
      BY <1>2, <3>1, <3>2, <3>3, ConcatProperties
    <3> QED BY <3>1, <3>4, Zenon
  <2> HIDE DEF P
  <2>5. n - 1 \in P
    <3>1. n - 1 \in Nat
      BY <1>4
    <3> QED BY <2>3, <2>4, <3>1, SetOfNaturals
  <2>6. n - 1 \in Nat /\ (n - 1) + 1 = n /\ (n - 1) + 1 <= n
    BY <1>4
  <2>7. f[(n - 1) + 1] \in Seq(S)
    BY <2>5, <2>6 DEF P
  <2> QED BY <2>2, <2>6, <2>7, Zenon
<1> QED BY <1>3, <1>4

\* What is analysed is a list of candles, whatever the source made of it.
Chart == {c \in Candle : IsCandle(c)}

LEMMA RecentCandles ==
  ASSUME NEW S, NEW s \in Seq(S), NEW n \in Nat
  PROVE  Recent(s, n) \in Seq(S)
<1>1. PICK m \in 1 .. Len(s) + 1 : m = Larger(1, Len(s) - n + 1)
  BY DEF Larger
<1>2. \A i \in m .. Len(s) : s[i] \in S
  OBVIOUS
<1>3. SubSeq(s, m, Len(s)) \in Seq(S)
  BY <1>1, <1>2, SubSeqProperties
<1> QED BY <1>1, <1>3, Zenon DEF Recent

LEMMA PricesAreCandles ==
  ASSUME NEW candles \in Seq(Chart), NEW limit \in Nat
  PROVE  getHistoricalPrices(candles, limit) \in Seq(Chart)
<1>0. Recent(candles, limit) \in Seq(Chart)
  BY RecentCandles
<1>1. PICK answer \in Seq(Chart) : answer = LineAnswered(candles, limit)
  <2>1. limit + 1 \in Nat
    OBVIOUS
  <2>2. Recent(candles, limit + 1) \in Seq(Chart)
    BY <2>1, RecentCandles
  <2> QED BY <2>2 DEF LineAnswered
<1>2. ASSUME NEW c \in Chart PROVE LinePoint(c) \in Chart
  <2>1. c.close \in Nat \ {0}
    BY DEF Chart, Candle
  <2>2. PICK p \in Candle : p = LinePoint(c)
    BY <2>1 DEF LinePoint, Candle
  <2>3. p.low = p.open /\ p.close = p.open /\ p.high = p.open /\ p.open \in Nat
    BY <2>1, <2>2 DEF LinePoint
  <2>4. IsCandle(p)
    BY <2>3 DEF IsCandle, Smaller, Larger
  <2> QED BY <2>2, <2>4 DEF Chart
<1>3. [i \in DOMAIN answer |-> LinePoint(answer[i])] \in Seq(Chart)
  <2>1. PICK n \in Nat : DOMAIN answer = 1 .. n /\ \A i \in 1 .. n : answer[i] \in Chart
    BY <1>1
  <2>2. \A i \in 1 .. n : LinePoint(answer[i]) \in Chart
    BY <1>2, <2>1, Zenon
  <2>3. [i \in 1 .. n |-> LinePoint(answer[i])] \in Seq(Chart)
    BY <2>2
  <2> QED BY <2>1, <2>3, Zenon
<1> QED BY <1>0, <1>1, <1>3, Zenon DEF getHistoricalPrices, paradexPrices, avnuPrices

\* Every pattern of a chart fits the candle it is at.
AllSightings(candles) ==
  UNION {Sightings(candles[i], candles[i - 1], i) : i \in 3 .. Len(candles)}

LEMMA ChartedAreSightings ==
  ASSUME NEW candles \in Seq(Chart)
  PROVE  analyzeCandlestick(candles) \in Seq(AllSightings(candles))
<1>1. PICK n \in Nat : n = Len(candles)
  OBVIOUS
<1>2. ASSUME NEW i \in 3 .. n
      PROVE  PatternsAt(candles, i) \in Seq(AllSightings(candles))
  <2>1. candles[i] \in Chart /\ candles[i - 1] \in Chart /\ candles[i - 2] \in Chart
    BY <1>1
  <2>2. PatternsAt(candles, i) \in Seq(Sightings(candles[i], candles[i - 1], i))
    BY <2>1, PatternsAreSightings DEF Chart
  <2>3. Sightings(candles[i], candles[i - 1], i) \subseteq AllSightings(candles)
    BY <1>1, Zenon DEF AllSightings
  <2> QED BY <2>2, <2>3
<1> DEFINE lists == [k \in 1 .. n - 2 |-> PatternsAt(candles, n + 1 - k)]
<1>3. lists \in Seq(Seq(AllSightings(candles)))
  <2>1. ASSUME NEW k \in 1 .. n - 2 PROVE PatternsAt(candles, n + 1 - k) \in Seq(AllSightings(candles))
    <3>1. n + 1 - k \in 3 .. n
      OBVIOUS
    <3> QED BY <1>2, <3>1
  <2>2. CASE n <= 2
    <3>1. 1 .. n - 2 = 1 .. 0
      BY <2>2
    <3>2. [k \in 1 .. 0 |-> PatternsAt(candles, n + 1 - k)] \in Seq(Seq(AllSightings(candles)))
      OBVIOUS
    <3> QED BY <3>1, <3>2, Zenon
  <2>3. CASE ~(n <= 2)
    <3>1. n - 2 \in Nat
      BY <2>3
    <3> QED BY <2>1, <3>1
  <2> QED BY <2>2, <2>3
<1>4. analyzeCandlestick(candles) = FlattenSeq(lists)
  BY <1>1, Zenon DEF analyzeCandlestick
<1> HIDE DEF lists
<1> QED BY <1>3, <1>4, FlattenedList

LEMMA SightingsAgree ==
  ASSUME NEW candles \in Seq(Chart), NEW s \in AllSightings(candles), NEW t \in AllSightings(candles),
         s.position = t.position, s.type \in Rising, t.type \in Falling
  PROVE  s.type = "HAMMER" /\ t.type = "EVENING_STAR"
<1>1. PICK i \in 3 .. Len(candles) : s \in Sightings(candles[i], candles[i - 1], i)
  BY DEF AllSightings
<1>2. PICK j \in 3 .. Len(candles) : t \in Sightings(candles[j], candles[j - 1], j)
  BY DEF AllSightings
<1>3. i = j
  BY <1>1, <1>2 DEF Sightings
<1>4. PICK c1, c2 : c1 = candles[i] /\ c2 = candles[i - 1] /\ c1 \in Chart
  OBVIOUS
<1>5. Means(s.type, c1, c2) /\ Means(t.type, c1, c2)
  BY <1>1, <1>2, <1>3, <1>4 DEF Sightings, Types
<1>6. Bearish(c1) /\ ~Bullish(c1)
  BY <1>4, <1>5, CandleParts DEF Means, Chart
<1>7. s.type = "HAMMER"
  BY <1>5, <1>6 DEF Means
<1>8. isHammer(c1, c2)
  BY <1>5, <1>7 DEF Means
<1> QED BY <1>5, <1>7, <1>8 DEF Means

-----------------------------------------------------------------------------
(* The inductive invariant: all there is comes from candles the market has  *)
(* printed, the report from three lists of them.                           *)

CandlesInv == minutes \in Seq(Chart) /\ hours \in Seq(Chart)
ReportInv ==
  \/ report \in {Unasked, Failed}
  \/ \E short, medium, long \in Seq(Chart) : report = analyzeAsset(short, medium, long)

LEMMA CandlesNext == CandlesInv /\ ReportInv /\ [Next]_vars => CandlesInv' /\ ReportInv'
<1> SUFFICES ASSUME CandlesInv, ReportInv, [Next]_vars PROVE CandlesInv' /\ ReportInv'
  OBVIOUS
<1>0. minutes \in Seq(Chart) /\ hours \in Seq(Chart)
  BY DEF CandlesInv
<1>1. ASSUME NEW c \in MinuteCandle \cup HourCandle PROVE c \in Chart
  BY AnalysisAssumption DEF Chart, IsCandle
<1>2. ASSUME NEW c \in MinuteCandle, PrintMinute(c) PROVE CandlesInv' /\ ReportInv'
  <2>1. c \in Chart
    BY <1>1
  <2>2. minutes' \in Seq(Chart) /\ hours' \in Seq(Chart)
    BY <1>0, <1>2, <2>1, AppendProperties DEF PrintMinute
  <2>3. report' = Unasked
    BY <1>2 DEF PrintMinute
  <2> QED BY <2>2, <2>3, Zenon DEF CandlesInv, ReportInv
<1>3. ASSUME NEW c \in HourCandle, PrintHour(c) PROVE CandlesInv' /\ ReportInv'
  <2>1. c \in Chart
    BY <1>1
  <2>2. minutes' \in Seq(Chart) /\ hours' \in Seq(Chart)
    BY <1>0, <1>3, <2>1, AppendProperties DEF PrintHour
  <2>3. report' = Unasked
    BY <1>3 DEF PrintHour
  <2> QED BY <2>2, <2>3, Zenon DEF CandlesInv, ReportInv
<1>4. CASE Analyze
  <2>1. PICK medium \in AsOf(hours), long \in AsOf(hours) :
          report' = analyzeAsset(getHistoricalPrices(minutes, Limits.short),
                                 getHistoricalPrices(medium, Limits.medium),
                                 getHistoricalPrices(long, Limits.long))
    BY <1>4 DEF Analyze
  <2>2. ASSUME NEW candles \in AsOf(hours) PROVE candles \in Seq(Chart)
    <3>1. SubSeq(hours, 1, Len(hours) - 1) \in Seq(Chart)
      <4>1. \A i \in 1 .. Len(hours) - 1 : hours[i] \in Chart
        BY <1>0
      <4>2. Len(hours) - 1 \in Int
        BY <1>0
      <4> QED BY <4>1, <4>2, SubSeqProperties
    <3> QED BY <1>0, <3>1 DEF AsOf
  <2>3. Limits.short \in Nat /\ Limits.medium \in Nat /\ Limits.long \in Nat
    BY AnalysisAssumption
  <2>4. /\ getHistoricalPrices(minutes, Limits.short) \in Seq(Chart)
        /\ getHistoricalPrices(medium, Limits.medium) \in Seq(Chart)
        /\ getHistoricalPrices(long, Limits.long) \in Seq(Chart)
    BY <1>0, <2>2, <2>3, PricesAreCandles
  <2>5. minutes' = minutes /\ hours' = hours
    BY <1>4 DEF Analyze
  <2> QED BY <1>0, <2>1, <2>4, <2>5, Zenon DEF CandlesInv, ReportInv
<1>5. CASE RequestFails
  <2>1. report' = Failed /\ minutes' = minutes /\ hours' = hours
    BY <1>5 DEF RequestFails
  <2> QED BY <1>0, <2>1, Zenon DEF CandlesInv, ReportInv
<1>6. CASE UNCHANGED vars
  <2>1. report' = report /\ minutes' = minutes /\ hours' = hours
    BY <1>6 DEF vars
  <2> QED BY <2>1, Zenon DEF CandlesInv, ReportInv
<1> QED BY <1>2, <1>3, <1>4, <1>5, <1>6 DEF Next

LEMMA CandlesInvariance == Spec => [](CandlesInv /\ ReportInv)
<1>1. Init => CandlesInv /\ ReportInv
  BY DEF Init, CandlesInv, ReportInv
<1> QED BY <1>1, CandlesNext, PTL DEF Spec

\* Whatever is printed, the fourteen patterns of candlestick.service.ts agree on a candle.
THEOREM PatternsAgree == Spec => []PatternsMakeSense
<1>1. CandlesInv => PatternsMakeSense
  <2> SUFFICES ASSUME CandlesInv PROVE StrengthsAreGrades /\ ContradictionsAreHammers
    BY DEF PatternsMakeSense
  <2>1. PICK candles \in Seq(Chart) : candles = getHistoricalPrices(minutes, Limits.short)
    <3>1. Limits.short \in Nat
      BY AnalysisAssumption
    <3> QED BY <3>1, PricesAreCandles DEF CandlesInv
  <2>2. Charted \in Seq(AllSightings(candles))
    BY <2>1, ChartedAreSightings DEF Charted
  <2>3. ASSUME NEW k \in DOMAIN Charted PROVE Charted[k] \in AllSightings(candles)
    BY <2>2
  <2>4. StrengthsAreGrades
    <3> SUFFICES ASSUME NEW k \in DOMAIN Charted PROVE Grade(Charted[k].strength)
      BY Zenon DEF StrengthsAreGrades, Grade
    <3>1. PICK i \in 3 .. Len(candles) : Charted[k] \in Sightings(candles[i], candles[i - 1], i)
      BY <2>3 DEF AllSightings
    <3> QED BY <3>1 DEF Sightings, Grades
  <2>5. ContradictionsAreHammers
    BY <2>3, SightingsAgree, Zenon DEF ContradictionsAreHammers
  <2> QED BY <2>4, <2>5
<1> QED BY <1>1, CandlesInvariance, PTL

-----------------------------------------------------------------------------
(* The signals of an hourly report. *)

\* The hour candles a report with an analysis of them was made of.
LEMMA ReportOfHours ==
  ASSUME ReportInv, Analysed
  PROVE  \E medium \in Seq(Chart) : /\ Len(medium) >= Needs.medium
                                    /\ report.made.medium = medium
                                    /\ Technical = Technicals(medium)
<1>1. report # Unasked /\ report # Failed
  BY DEF Analysed, Unasked, Failed
<1>2. PICK short \in Seq(Chart), medium \in Seq(Chart), long \in Seq(Chart) :
        report = analyzeAsset(short, medium, long)
  BY <1>1 DEF ReportInv
<1>3. ~(short = <<>> \/ medium = <<>> \/ long = <<>>)
  BY <1>1, <1>2 DEF analyzeAsset
<1>4. PICK r : r = [kind |-> "analysed",
                    lastPrice |-> Last(short).close,
                    changes |-> calculateChanges(short, medium, long),
                    shortTerm |-> analyzeShortTerm(short),
                    mediumTerm |-> analyzeMediumTerm(medium),
                    volatility |-> calculateVolatility(short, Period.volatility),
                    made |-> [short |-> short, medium |-> medium, long |-> long]]
  OBVIOUS
<1>5. report = r
  BY <1>2, <1>3, <1>4, Zenon DEF analyzeAsset
<1>6. r.mediumTerm = analyzeMediumTerm(medium)
  BY <1>4
<1>7. r.made = [short |-> short, medium |-> medium, long |-> long]
  BY <1>4
<1>8. report.made.medium = medium
  BY <1>5, <1>7
<1>9. ~(Len(medium) < Needs.medium)
  <2> SUFFICES ASSUME Len(medium) < Needs.medium PROVE FALSE
    OBVIOUS
  <2>1. analyzeMediumTerm(medium) = defaultMediumTerm
    BY Zenon DEF analyzeMediumTerm
  <2>2. defaultMediumTerm.analysed = FALSE
    BY DEF defaultMediumTerm
  <2>3. report.mediumTerm.analysed = FALSE
    BY <1>5, <1>6, <2>1, <2>2, Zenon
  <2> QED BY <2>3 DEF Analysed
<1>10. PICK t : t = [analysed |-> TRUE, trend |-> Trend(medium), technicals |-> Technicals(medium)]
  OBVIOUS
<1>11. analyzeMediumTerm(medium) = t
  BY <1>9, <1>10, Zenon DEF analyzeMediumTerm
<1>12. t.technicals = Technicals(medium)
  BY <1>10
<1>13. Technical = Technicals(medium)
  BY <1>5, <1>6, <1>11, <1>12, Zenon DEF Technical
<1>14. Len(medium) >= Needs.medium
  BY <1>9, AnalysisAssumption
<1> QED BY <1>8, <1>13, <1>14

\* The parts of the analysis the properties are about.
LEMMA PartsOfTechnicals ==
  ASSUME NEW prices
  PROVE  /\ Technicals(prices).rocState = getROCSignal(Last(calculateROC(prices, Period.roc)))
         /\ Technicals(prices).levels = calculateLevels(Last(prices))
         /\ Technicals(prices).adx = calculateADX(prices, Period.adx)
  BY DEF Technicals

LEMMA LastCandle ==
  ASSUME NEW S, NEW s \in Seq(S), Len(s) > 0
  PROVE  Last(s) = s[Len(s)] /\ Last(s) \in S
  BY DEF Last

\* A pivot lies so that the close is beyond a level only where the range is within the tolerance.
LEMMA BreakoutIsNarrow ==
  ASSUME NEW c \in Chart, calculateLevels(c).breakout # "between"
  PROVE  candleRange(c) <= 3 * Epsilon
<1>1. PICK h \in Nat, l \in Nat, e \in Nat : h = c.high /\ l = c.low /\ e = c.close
  BY DEF Chart, Candle
<1>2. l <= e /\ e <= h
  <2>1. l <= Smaller(c.open, e) /\ Larger(c.open, e) <= h /\ c.open \in Nat
    BY <1>1 DEF Chart, IsCandle, Candle
  <2> QED BY <2>1 DEF Smaller, Larger
<1>3. ThriceR1(c) = 2 * (h + l + e) - 3 * l /\ ThriceS1(c) = 2 * (h + l + e) - 3 * h
  BY <1>1 DEF ThriceR1, ThriceS1, ThricePivot
<1>4. calculateLevels(c).breakout = getBreakoutState(e, ThriceR1(c), ThriceS1(c))
  BY <1>1 DEF calculateLevels
<1>5. 3 * e >= ThriceR1(c) - 3 * Epsilon \/ 3 * e <= ThriceS1(c) + 3 * Epsilon
  BY <1>4, Zenon DEF getBreakoutState
<1>6. Epsilon \in Nat
  BY IndicatorAssumption
<1>7. h - l <= 3 * Epsilon
  BY <1>2, <1>3, <1>5, <1>6
<1> QED BY <1>1, <1>7, Zenon DEF candleRange

\* A rate cut to [-1, 1] is neither above 10 nor below -10.
LEMMA CutIsNeutral ==
  ASSUME NEW now \in Nat, NEW before \in Nat \ {0}
  PROVE  getROCSignal(NormalizedROC(now, before)) = "neutral"
<1>1. PICK f \in Quotients : f = Frac(100 * (now - before), before)
  <2>1. 100 * (now - before) \in Int
    OBVIOUS
  <2> QED BY <2>1, FracByCount
<1>2. PICK r \in Quotients : r = Over(f, Whole(10))
  <2>1. PICK n \in Int, d \in Nat : n = f[1] * Whole(10)[2] /\ d = f[2] * Whole(10)[1]
    BY DEF Quotients, Whole
  <2>2. Over(f, Whole(10)) = Frac(n, d)
    BY <2>1, Zenon DEF Over
  <2> QED BY <2>1, <2>2, FracByCount
<1>3. PICK n \in Int, d \in Nat : n = r[1] /\ d = r[2]
  BY DEF Quotients
<1>4. PICK p : p = NormalizedROC(now, before)
  OBVIOUS
<1>5. p = IF n * 1 > 1 * d THEN Whole(1) ELSE IF (-1) * d > n * 1 THEN Whole(-1) ELSE r
  <2>1. Whole(1)[1] = 1 /\ Whole(1)[2] = 1 /\ Whole(-1)[1] = -1 /\ Whole(-1)[2] = 1
    BY DEF Whole
  <2> QED BY <1>1, <1>2, <1>3, <1>4, <2>1, Zenon DEF NormalizedROC, Clamp, Above, Below
<1>6. PICK a \in Int, b \in Nat : a = p[1] /\ b = p[2] /\ a <= b /\ -a <= b
  <2>1. CASE n > d
    <3>1. p = Whole(1)
      BY <1>5, <2>1
    <3> QED BY <3>1 DEF Whole
  <2>2. CASE ~(n > d) /\ -d > n
    <3>1. p = Whole(-1)
      BY <1>5, <2>2
    <3> QED BY <3>1 DEF Whole
  <2>3. CASE ~(n > d) /\ ~(-d > n)
    <3>1. p = r
      BY <1>5, <2>3
    <3> QED BY <1>3, <2>3, <3>1
  <2> QED BY <2>1, <2>2, <2>3
<1>7. ~(a * 1 > 10 * b) /\ ~((-10) * b > a * 1)
  BY <1>6
<1>8. ~Above(p, Whole(10)) /\ ~Below(p, Whole(-10))
  <2>1. Whole(10)[1] = 10 /\ Whole(10)[2] = 1 /\ Whole(-10)[1] = -10 /\ Whole(-10)[2] = 1
    BY DEF Whole
  <2> QED BY <1>6, <1>7, <2>1, Zenon DEF Above, Below
<1> QED BY <1>4, <1>8, Zenon DEF getROCSignal

\* A breakout of pivot.service.ts is a narrow candle, the rate of change of momentum.service.ts neutral.
THEOREM SignalsAreSilent == Spec => []SilentSignals
<1>1. ReportInv => SilentSignals
  <2> SUFFICES ASSUME ReportInv, Analysed
               PROVE  /\ Technical.levels.breakout # "between" => candleRange(Last(report.made.medium)) <= 3 * Epsilon
                      /\ Technical.rocState = "neutral"
    BY DEF SilentSignals
  <2>1. PICK medium \in Seq(Chart) : /\ Len(medium) >= Needs.medium
                                     /\ report.made.medium = medium
                                     /\ Technical = Technicals(medium)
    BY ReportOfHours
  <2>2. Period.roc \in Nat \ {0} /\ Needs.medium \in Nat \ {0} /\ Period.roc < Needs.medium
    BY AnalysisAssumption, PeriodsAssumption
  <2>3. PICK c \in Chart : c = Last(medium)
    <3>1. Len(medium) > 0
      BY <2>1, <2>2
    <3> QED BY <3>1, LastCandle
  <2>4. Technical.levels.breakout # "between" => candleRange(c) <= 3 * Epsilon
    <3>1. Technical.levels = calculateLevels(c)
      BY <2>1, <2>3, PartsOfTechnicals, Zenon
    <3> QED BY <3>1, BreakoutIsNarrow
  <2>5. PICK n \in Nat \ {0} : n = Len(medium) - Period.roc
    BY <2>1, <2>2
  <2>6. medium[n + Period.roc] \in Chart /\ medium[n] \in Chart
    BY <2>2, <2>5
  <2> DEFINE roc == calculateROC(medium, Period.roc)
  <2>7. roc = [i \in 1 .. n |-> NormalizedROC(medium[i + Period.roc].close, medium[i].close)]
    BY <2>5, Zenon DEF calculateROC
  <2>8. Len(roc) = n /\ roc[n] = NormalizedROC(medium[n + Period.roc].close, medium[n].close)
    BY <2>7
  <2>9. Last(roc) = roc[n]
    BY <2>8, Zenon DEF Last
  <2>10. medium[n + Period.roc].close \in Nat /\ medium[n].close \in Nat \ {0}
    BY <2>6 DEF Chart, Candle
  <2>11. getROCSignal(Last(roc)) = "neutral"
    <3>1. getROCSignal(NormalizedROC(medium[n + Period.roc].close, medium[n].close)) = "neutral"
      BY <2>10, CutIsNeutral
    <3> HIDE DEF roc
    <3> QED BY <2>8, <2>9, <3>1, Zenon
  <2>12. Technical.rocState = "neutral"
    BY <2>1, <2>11, PartsOfTechnicals, Zenon
  <2> QED BY <2>1, <2>3, <2>4, <2>12, Zenon
<1> QED BY <1>1, CandlesInvariance, PTL

-----------------------------------------------------------------------------
(* What a fold over a list makes of it, one element after the other.       *)

LEMMA LargestExists ==
  ASSUME NEW n \in Nat, NEW s \in SUBSET (1 .. n), s # {}
  PROVE  Max(s) \in s /\ \A y \in s : Max(s) >= y
<1> DEFINE P == {m \in Nat : \A t \in SUBSET (1 .. m) : t # {} => \E x \in t : \A y \in t : x >= y}
<1>1. 0 \in P
  <2> SUFFICES ASSUME NEW t \in SUBSET (1 .. 0), t # {} PROVE FALSE
    OBVIOUS
  <2>1. PICK y : y \in t
    OBVIOUS
  <2> QED BY <2>1
<1>2. ASSUME NEW m \in Nat, m \in P PROVE m + 1 \in P
  <2> SUFFICES ASSUME NEW t \in SUBSET (1 .. m + 1), t # {} PROVE \E x \in t : \A y \in t : x >= y
    OBVIOUS
  <2>1. CASE m + 1 \in t
    BY <2>1
  <2>2. CASE m + 1 \notin t
    <3>1. t \in SUBSET (1 .. m)
      BY <2>2
    <3> QED BY <1>2, <3>1
  <2> QED BY <2>1, <2>2
<1> HIDE DEF P
<1>3. n \in P
  BY <1>1, <1>2, SetOfNaturals
<1>4. \E x \in s : \A y \in s : x >= y
  BY <1>3 DEF P
<1> QED BY <1>4, Zenon DEF Max

LEMMA LargestUpTo ==
  ASSUME NEW k \in Nat \ {0}
  PROVE  Max(1 .. k) = k /\ (1 .. k) \ {Max(1 .. k)} = 1 .. k - 1
<1>1. Max(1 .. k) \in 1 .. k /\ \A y \in 1 .. k : Max(1 .. k) >= y
  <2>1. 1 .. k \in SUBSET (1 .. k) /\ 1 .. k # {}
    OBVIOUS
  <2> QED BY <2>1, LargestExists
<1>2. Max(1 .. k) = k
  BY <1>1
<1>3. (1 .. k) \ {k} = 1 .. k - 1
  OBVIOUS
<1> QED BY <1>2, <1>3, Zenon

LEMMA WithoutLargest ==
  ASSUME NEW m \in Nat, NEW s \in SUBSET (1 .. m + 1), s # {}
  PROVE  s \ {Max(s)} \in SUBSET (1 .. m) /\ Max(s) \in 1 .. m + 1
<1>1. PICK k \in Nat : k = m + 1
  OBVIOUS
<1>2. s \in SUBSET (1 .. k)
  BY <1>1
<1>3. Max(s) \in s /\ \A y \in s : Max(s) >= y
  BY <1>2, LargestExists
<1>4. PICK x \in 1 .. m + 1 : x = Max(s) /\ \A y \in s : y <= x
  BY <1>1, <1>2, <1>3
<1>5. s \ {x} \in SUBSET (1 .. m)
  <2>1. ASSUME NEW y \in s \ {x} PROVE y \in 1 .. m
    <3>1. y \in 1 .. m + 1 /\ y <= x /\ y # x
      BY <1>4
    <3> QED BY <3>1
  <2> QED BY <2>1
<1> QED BY <1>4, <1>5, Zenon

LEMMA FirstOnes ==
  ASSUME NEW n \in Nat, NEW k \in 1 .. n
  PROVE  1 .. k \in SUBSET (1 .. n) /\ 1 .. k # {}
<1>1. k \in 1 .. k
  OBVIOUS
<1>2. \A j \in 1 .. k : j \in 1 .. n
  OBVIOUS
<1> QED BY <1>1, <1>2

\* iter takes g through the members of D, which are sets, in their order.
Folds(iter, g, base, D) == iter = [s \in D |-> IF s = {} THEN base ELSE g[<<iter[s \ {Max(s)}], Max(s)>>]]
FoldsIn(X, iter, g, base, m) ==
  /\ Folds(iter, g, base, SUBSET (1 .. m))
  /\ \A s \in SUBSET (1 .. m) : iter[s] \in X

LEMMA FoldExists ==
  ASSUME NEW n \in Nat, NEW X, NEW base \in X, NEW g \in [X \X (1 .. n) -> X]
  PROVE  \E iter : FoldsIn(X, iter, g, base, n)
<1> DEFINE P == {m \in Nat : m <= n => \E iter : FoldsIn(X, iter, g, base, m)}
<1>1. 0 \in P
  <2> DEFINE iter == [s \in SUBSET (1 .. 0) |-> base]
  <2>1. \A s \in SUBSET (1 .. 0) : s = {} /\ iter[s] \in X
    <3>1. \A s \in SUBSET (1 .. 0) : iter[s] \in X
      OBVIOUS
    <3>2. ASSUME NEW s \in SUBSET (1 .. 0) PROVE s = {}
      <4>1. 1 .. 0 = {}
        OBVIOUS
      <4> QED BY <4>1
    <3> QED BY <3>1, <3>2
  <2>2. iter = [s \in SUBSET (1 .. 0) |-> IF s = {} THEN base ELSE g[<<iter[s \ {Max(s)}], Max(s)>>]]
    <3>1. ASSUME NEW s \in SUBSET (1 .. 0)
          PROVE  base = IF s = {} THEN base ELSE g[<<iter[s \ {Max(s)}], Max(s)>>]
      <4> HIDE DEF iter
      <4> QED BY <2>1, Zenon
    <3> QED BY <3>1, Zenon
  <2>3. FoldsIn(X, iter, g, base, 0)
    <3> HIDE DEF iter
    <3> QED BY <2>1, <2>2, Zenon DEF Folds, FoldsIn
  <2> QED BY <2>3
<1>2. ASSUME NEW m \in Nat, m \in P PROVE m + 1 \in P
  <2> SUFFICES ASSUME m + 1 <= n PROVE \E iter : FoldsIn(X, iter, g, base, m + 1)
    OBVIOUS
  <2>1. PICK f : FoldsIn(X, f, g, base, m)
    BY <1>2
  <2> DEFINE h == [s \in SUBSET (1 .. m + 1) |-> IF s = {} THEN base ELSE g[<<f[s \ {Max(s)}], Max(s)>>]]
  <2>2. ASSUME NEW s \in SUBSET (1 .. m + 1), s # {}
        PROVE  s \ {Max(s)} \in SUBSET (1 .. m) /\ s \ {Max(s)} \in SUBSET (1 .. m + 1) /\ Max(s) \in 1 .. n
    <3>1. s \ {Max(s)} \in SUBSET (1 .. m) /\ Max(s) \in 1 .. m + 1
      BY <2>2, WithoutLargest
    <3> QED BY <3>1
  <2>3. ASSUME NEW s \in SUBSET (1 .. m) PROVE h[s] = f[s]
    <3>1. s \in SUBSET (1 .. m + 1)
      OBVIOUS
    <3>2. h[s] = IF s = {} THEN base ELSE g[<<f[s \ {Max(s)}], Max(s)>>]
      BY <3>1
    <3> HIDE DEF h
    <3>3. f[s] = IF s = {} THEN base ELSE g[<<f[s \ {Max(s)}], Max(s)>>]
      BY <2>1, Zenon DEF Folds, FoldsIn
    <3> QED BY <3>2, <3>3
  <2>4. ASSUME NEW s \in SUBSET (1 .. m + 1) PROVE h[s] \in X
    <3>1. CASE s = {}
      BY <3>1
    <3>2. CASE s # {}
      <4>1. f[s \ {Max(s)}] \in X /\ Max(s) \in 1 .. n
        BY <2>1, <2>2, <3>2 DEF FoldsIn
      <4>2. g[<<f[s \ {Max(s)}], Max(s)>>] \in X
        BY <4>1
      <4>3. h[s] = g[<<f[s \ {Max(s)}], Max(s)>>]
        BY <3>2
      <4> HIDE DEF h
      <4> QED BY <4>2, <4>3, Zenon
    <3> QED BY <3>1, <3>2
  <2>5. ASSUME NEW s \in SUBSET (1 .. m + 1)
        PROVE  h[s] = IF s = {} THEN base ELSE g[<<h[s \ {Max(s)}], Max(s)>>]
    <3>1. h[s] = IF s = {} THEN base ELSE g[<<f[s \ {Max(s)}], Max(s)>>]
      OBVIOUS
    <3> HIDE DEF h
    <3>2. s # {} => h[s \ {Max(s)}] = f[s \ {Max(s)}]
      BY <2>2, <2>3, Zenon
    <3> QED BY <3>1, <3>2, Zenon
  <2>6. h = [s \in SUBSET (1 .. m + 1) |-> h[s]]
    OBVIOUS
  <2> HIDE DEF h
  <2>7. h = [s \in SUBSET (1 .. m + 1) |-> IF s = {} THEN base ELSE g[<<h[s \ {Max(s)}], Max(s)>>]]
    BY <2>5, <2>6, Zenon
  <2>8. FoldsIn(X, h, g, base, m + 1)
    BY <2>4, <2>7, Zenon DEF Folds, FoldsIn
  <2> QED BY <2>8
<1>3. n \in P
  <2> HIDE DEF P
  <2> QED BY <1>1, <1>2, SetOfNaturals
<1> QED BY <1>3

\* The sums of the first elements of a list.
SumsTo(total, list) ==
  /\ total[0] = Whole(0)
  /\ \A k \in 1 .. Len(list) : total[k] = Plus(total[k - 1], list[k])

LEMMA PlusIsQuotient ==
  ASSUME NEW p \in Quotients, NEW q \in Quotients
  PROVE  Plus(p, q) \in Quotients
<1>1. PICK a \in Int, b \in Nat, c \in Int, d \in Nat : p = <<a, b>> /\ q = <<c, d>>
  BY DEF Quotients
<1>2. a * d + c * b \in Int /\ b * d \in Nat
  OBVIOUS
<1>3. Plus(p, q) = Frac(a * d + c * b, b * d)
  <2>1. p[1] = a /\ p[2] = b /\ q[1] = c /\ q[2] = d
    BY <1>1
  <2> QED BY <2>1, Zenon DEF Plus
<1> QED BY <1>2, <1>3, FracByCount

LEMMA SumIsSum ==
  ASSUME NEW list \in Seq(Quotients)
  PROVE  \E total : SumsTo(total, list) /\ SumOf(list) = total[Len(list)]
<1>1. PICK n \in Nat : n = Len(list) /\ DOMAIN list = 1 .. n /\ \A k \in 1 .. n : list[k] \in Quotients
  OBVIOUS
<1> DEFINE Is(f) == f = [s \in SUBSET (1 .. n) |->
                           IF s = {} THEN Whole(0) ELSE Add(f[s \ {Max(s)}], list[Max(s)])]
           g == [p \in Quotients \X (1 .. n) |-> Add(p[1], list[p[2]])]
<1>2. g \in [Quotients \X (1 .. n) -> Quotients]
  <2>1. \A p \in Quotients \X (1 .. n) : Add(p[1], list[p[2]]) \in Quotients
    BY <1>1, PlusIsQuotient DEF Add
  <2> QED BY <2>1
<1>3. Whole(0) \in Quotients
  BY DEF Whole, Quotients
<1>4. \A p \in Quotients, k \in 1 .. n : g[<<p, k>>] = Add(p, list[k])
  OBVIOUS
<1> HIDE DEF g
<1>5. PICK iter : /\ Folds(iter, g, Whole(0), SUBSET (1 .. n))
                  /\ \A s \in SUBSET (1 .. n) : iter[s] \in Quotients
  BY <1>2, <1>3, FoldExists DEF FoldsIn
<1>6. Is(iter)
  <2>1. ASSUME NEW s \in SUBSET (1 .. n), s # {}
        PROVE  g[<<iter[s \ {Max(s)}], Max(s)>>] = Add(iter[s \ {Max(s)}], list[Max(s)])
    <3>1. Max(s) \in 1 .. n /\ s \ {Max(s)} \in SUBSET (1 .. n)
      BY <2>1, LargestExists
    <3> QED BY <1>4, <1>5, <3>1
  <2>2. iter = [s \in SUBSET (1 .. n) |-> IF s = {} THEN Whole(0) ELSE g[<<iter[s \ {Max(s)}], Max(s)>>]]
    BY <1>5, Zenon DEF Folds
  <2> QED BY <2>1, <2>2, Zenon
<1> DEFINE f == CHOOSE h : Is(h)
<1>7. Is(f)
  BY <1>6, Zenon
<1>8. SumOf(list) = f[1 .. n]
  BY <1>1, Zenon DEF SumOf, FoldLeft, MapThenFoldSet
<1> HIDE DEF f
<1> DEFINE total == [k \in 0 .. n |-> f[1 .. k]]
<1>9. f[{}] = Whole(0) /\ \A k \in 1 .. n : f[1 .. k] = Add(f[1 .. k - 1], list[k])
  <2>1. f[{}] = Whole(0)
    BY <1>7
  <2>2. ASSUME NEW k \in 1 .. n PROVE f[1 .. k] = Add(f[1 .. k - 1], list[k])
    <3>1. 1 .. k \in SUBSET (1 .. n) /\ 1 .. k # {}
      BY FirstOnes
    <3>2. f[1 .. k] = Add(f[(1 .. k) \ {Max(1 .. k)}], list[Max(1 .. k)])
      BY <1>7, <3>1, Zenon
    <3>3. Max(1 .. k) = k /\ (1 .. k) \ {Max(1 .. k)} = 1 .. k - 1
      BY LargestUpTo
    <3> QED BY <3>2, <3>3, Zenon
  <2> QED BY <2>1, <2>2
<1> HIDE DEF Is
<1>10. total[0] = Whole(0)
  <2>1. 1 .. 0 = {}
    OBVIOUS
  <2>2. total[0] = f[1 .. 0]
    OBVIOUS
  <2> HIDE DEF total
  <2> QED BY <1>9, <2>1, <2>2, Zenon
<1>11. ASSUME NEW k \in 1 .. n PROVE total[k] = Plus(total[k - 1], list[k])
  <2>1. total[k] = f[1 .. k] /\ total[k - 1] = f[1 .. k - 1]
    OBVIOUS
  <2> HIDE DEF total
  <2> QED BY <1>9, <2>1, Zenon DEF Add
<1>12. total[n] = f[1 .. n]
  OBVIOUS
<1> HIDE DEF total
<1>13. SumsTo(total, list)
  BY <1>1, <1>10, <1>11 DEF SumsTo
<1> QED BY <1>1, <1>8, <1>12, <1>13, Zenon

LEMMA TimesOverAreQuotients ==
  ASSUME NEW p \in Quotients, NEW q \in Counts
  PROVE  Times(p, q) \in Quotients /\ Over(p, q) \in Quotients
<1>1. PICK a \in Int, b \in Nat, c \in Nat, d \in Nat : p = <<a, b>> /\ q = <<c, d>>
  BY DEF Quotients, Counts
<1>2. a * c \in Int /\ b * d \in Nat /\ a * d \in Int /\ b * c \in Nat
  OBVIOUS
<1>3. p[1] = a /\ p[2] = b /\ q[1] = c /\ q[2] = d
  BY <1>1
<1>4. Times(p, q) = Frac(a * c, b * d) /\ Over(p, q) = Frac(a * d, b * c)
  BY <1>3, Zenon DEF Times, Over
<1> QED BY <1>2, <1>4, FracByCount

\* The next value of Wilder's average.
Moved(p, x, period) == Over(Plus(Times(p, Whole(period - 1)), x), Whole(period))

LEMMA MovedIsQuotient ==
  ASSUME NEW p \in Quotients, NEW x \in Quotients, NEW period \in Nat \ {0}
  PROVE  Moved(p, x, period) \in Quotients
<1>1. Whole(period - 1) \in Counts /\ Whole(period) \in Counts
  BY DEF Whole, Counts
<1>2. Times(p, Whole(period - 1)) \in Quotients
  BY <1>1, TimesOverAreQuotients
<1>3. Plus(Times(p, Whole(period - 1)), x) \in Quotients
  BY <1>2, PlusIsQuotient
<1> QED BY <1>1, <1>3, TimesOverAreQuotients DEF Moved

\* out is first, and the average moved by each of the first k of later.
Moves(out, first, later, period, k) ==
  /\ out \in Seq(Quotients)
  /\ Len(out) = k + 1
  /\ out[1] = first
  /\ \A j \in 1 .. k : out[j + 1] = Moved(out[j], later[j], period)

LEMMA MovesOn ==
  ASSUME NEW later, NEW period \in Nat \ {0}, NEW k \in Nat, later[k + 1] \in Quotients,
         NEW first, NEW out, Moves(out, first, later, period, k)
  PROVE  Moves(Append(out, Moved(Last(out), later[k + 1], period)), first, later, period, k + 1)
<1>1. out \in Seq(Quotients) /\ Len(out) = k + 1 /\ out[1] = first
  BY DEF Moves
<1>2. Last(out) = out[k + 1]
  BY <1>1, Zenon DEF Last
<1>3. PICK x \in Quotients : x = Moved(Last(out), later[k + 1], period)
  <2>1. Last(out) \in Quotients
    BY <1>1, <1>2
  <2> QED BY <2>1, MovedIsQuotient
<1>4. PICK next : next = Append(out, x)
  OBVIOUS
<1>5. /\ next \in Seq(Quotients) /\ Len(next) = k + 1 + 1
      /\ \A i \in 1 .. k + 1 : next[i] = out[i]
      /\ next[k + 1 + 1] = x
  BY <1>1, <1>4, AppendProperties
<1>6. next[1] = first
  BY <1>1, <1>5
<1>7. ASSUME NEW j \in 1 .. k + 1 PROVE next[j + 1] = Moved(next[j], later[j], period)
  <2>1. next[j] = out[j]
    BY <1>5
  <2>2. CASE j = k + 1
    <3>1. next[j + 1] = x
      BY <1>5, <2>2
    <3>2. x = Moved(out[j], later[j], period)
      BY <1>2, <1>3, <2>2, Zenon
    <3> QED BY <2>1, <3>1, <3>2, Zenon
  <2>3. CASE j # k + 1
    <3>1. j \in 1 .. k /\ j + 1 \in 1 .. k + 1
      BY <2>3
    <3>2. out[j + 1] = Moved(out[j], later[j], period)
      BY <3>1, Zenon DEF Moves
    <3>3. next[j + 1] = out[j + 1]
      BY <1>5, <3>1
    <3> QED BY <2>1, <3>2, <3>3, Zenon
  <2> QED BY <2>2, <2>3
<1>8. Moves(next, first, later, period, k + 1)
  BY <1>5, <1>6, <1>7, Zenon DEF Moves
<1> QED BY <1>3, <1>4, <1>8, Zenon

LEMMA SmoothedMoves ==
  ASSUME NEW first \in Quotients, NEW later \in Seq(Quotients), NEW period \in Nat \ {0}
  PROVE  Moves(Smoothed(first, later, period), first, later, period, Len(later))
<1>1. PICK n \in Nat : n = Len(later) /\ DOMAIN later = 1 .. n /\ \A k \in 1 .. n : later[k] \in Quotients
  OBVIOUS
<1> DEFINE X == Seq(Quotients) \ {<<>>}
           after(acc, x) == Append(acc, Moved(Last(acc), x, period))
           Is(f) == f = [s \in SUBSET (1 .. n) |->
                           IF s = {} THEN <<first>> ELSE after(f[s \ {Max(s)}], later[Max(s)])]
           g == [p \in X \X (1 .. n) |-> after(p[1], later[p[2]])]
<1>2. g \in [X \X (1 .. n) -> X]
  <2>1. ASSUME NEW acc \in X, NEW k \in 1 .. n PROVE after(acc, later[k]) \in X
    <3>1. Last(acc) \in Quotients
      <4>1. acc \in Seq(Quotients) /\ Len(acc) > 0
        BY EmptySeq
      <4> QED BY <4>1, LastCandle
    <3>2. Moved(Last(acc), later[k], period) \in Quotients
      BY <1>1, <3>1, MovedIsQuotient
    <3> QED BY <3>2, AppendProperties
  <2> HIDE DEF X, after
  <2>2. ASSUME NEW p \in X \X (1 .. n) PROVE after(p[1], later[p[2]]) \in X
    <3>1. p[1] \in X /\ p[2] \in 1 .. n
      OBVIOUS
    <3> QED BY <2>1, <3>1
  <2> QED BY <2>2
<1>3. <<first>> \in X
  OBVIOUS
<1>4. \A p \in X, k \in 1 .. n : g[<<p, k>>] = after(p, later[k])
  <2> HIDE DEF X, after
  <2> QED OBVIOUS
<1> HIDE DEF g, X
<1>5. PICK iter : /\ Folds(iter, g, <<first>>, SUBSET (1 .. n))
                  /\ \A s \in SUBSET (1 .. n) : iter[s] \in X
  BY <1>2, <1>3, FoldExists DEF FoldsIn
<1>6. Is(iter)
  <2> HIDE DEF after
  <2>1. ASSUME NEW s \in SUBSET (1 .. n), s # {}
        PROVE  g[<<iter[s \ {Max(s)}], Max(s)>>] = after(iter[s \ {Max(s)}], later[Max(s)])
    <3>1. Max(s) \in 1 .. n /\ s \ {Max(s)} \in SUBSET (1 .. n)
      BY <2>1, LargestExists
    <3> QED BY <1>4, <1>5, <3>1
  <2>2. iter = [s \in SUBSET (1 .. n) |-> IF s = {} THEN <<first>> ELSE g[<<iter[s \ {Max(s)}], Max(s)>>]]
    BY <1>5, Zenon DEF Folds
  <2> QED BY <2>1, <2>2, Zenon
<1> DEFINE f == CHOOSE h : Is(h)
<1>7. Is(f)
  <2> HIDE DEF after
  <2> QED BY <1>6, Zenon
<1>8. Smoothed(first, later, period) = f[1 .. n]
  BY <1>1, Zenon DEF Smoothed, FoldLeft, MapThenFoldSet, Moved
<1> HIDE DEF f, after
<1>9. f[{}] = <<first>> /\ \A k \in 1 .. n : f[1 .. k] = after(f[1 .. k - 1], later[k])
  <2>1. f[{}] = <<first>>
    BY <1>7
  <2>2. ASSUME NEW k \in 1 .. n PROVE f[1 .. k] = after(f[1 .. k - 1], later[k])
    <3>1. 1 .. k \in SUBSET (1 .. n) /\ 1 .. k # {}
      BY FirstOnes
    <3>2. f[1 .. k] = after(f[(1 .. k) \ {Max(1 .. k)}], later[Max(1 .. k)])
      BY <1>7, <3>1, Zenon
    <3>3. Max(1 .. k) = k /\ (1 .. k) \ {Max(1 .. k)} = 1 .. k - 1
      BY LargestUpTo
    <3> QED BY <3>2, <3>3, Zenon
  <2> QED BY <2>1, <2>2
<1> HIDE DEF Is
<1> DEFINE P == {k \in Nat : k <= n => Moves(f[1 .. k], first, later, period, k)}
<1>10. 0 \in P
  <2>1. 1 .. 0 = {}
    OBVIOUS
  <2>2. f[1 .. 0] = <<first>>
    BY <1>9, <2>1, Zenon
  <2>3. Moves(<<first>>, first, later, period, 0)
    BY DEF Moves
  <2> QED BY <2>2, <2>3, Zenon
<1>11. ASSUME NEW k \in Nat, k \in P PROVE k + 1 \in P
  <2> SUFFICES ASSUME k + 1 <= n PROVE Moves(f[1 .. k + 1], first, later, period, k + 1)
    OBVIOUS
  <2>1. Moves(f[1 .. k], first, later, period, k)
    BY <1>11
  <2>2. k + 1 \in 1 .. n /\ (k + 1) - 1 = k
    OBVIOUS
  <2>3. later[k + 1] \in Quotients
    BY <1>1, <2>2
  <2>4. f[1 .. k + 1] = after(f[1 .. k], later[k + 1])
    <3>1. f[1 .. k + 1] = after(f[1 .. (k + 1) - 1], later[k + 1])
      BY <1>9, <2>2, Zenon
    <3> QED BY <2>2, <3>1, Zenon
  <2>5. Moves(Append(f[1 .. k], Moved(Last(f[1 .. k]), later[k + 1], period)), first, later, period, k + 1)
    BY <2>1, <2>3, MovesOn
  <2> QED BY <2>4, <2>5, Zenon DEF after
<1> HIDE DEF P
<1>12. n \in P
  BY <1>10, <1>11, SetOfNaturals
<1>13. Moves(f[1 .. n], first, later, period, n)
  BY <1>12 DEF P
<1> QED BY <1>1, <1>8, <1>13, Zenon

-----------------------------------------------------------------------------
(* Numbers that are finite and not negative, those of them that are zero   *)
(* and those that are not, and NaN: what becomes of them.                  *)

Numbers == Nat \X (Nat \ {0})
Positives == (Nat \ {0}) \X (Nat \ {0})
Zeros == {0} \X (Nat \ {0})

LEMMA KindsOfNumbers ==
  /\ Numbers = Positives \cup Zeros
  /\ Positives \subseteq Numbers /\ Zeros \subseteq Numbers
  /\ Numbers \subseteq Counts /\ Counts \subseteq Quotients
  /\ NaN \in Counts /\ NaN \notin Numbers
  /\ Whole(0) \in Zeros
  /\ \A n \in Nat : Whole(n) \in Numbers
  /\ \A n \in Nat \ {0} : Whole(n) \in Positives
  BY DEF Numbers, Positives, Zeros, Counts, Quotients, NaN, Whole

\* A quotient of two counts.
LEMMA FracIn ==
  ASSUME NEW n \in Nat, NEW d \in Nat
  PROVE  /\ Frac(n, d) \in Counts
         /\ d # 0 => Frac(n, d) \in Numbers
         /\ d # 0 /\ n # 0 => Frac(n, d) \in Positives
         /\ d # 0 /\ n = 0 => Frac(n, d) \in Zeros
         /\ d = 0 /\ n = 0 => Frac(n, d) = NaN
<1>1. PICK p \in Counts : /\ p = Frac(n, d)
                          /\ d # 0 => p[2] # 0
                          /\ n = 0 /\ d = 0 => p = NaN
                          /\ n = 0 => p[1] = 0
                          /\ n # 0 => p[1] # 0
  BY FracByCount
<1>2. PICK a \in Nat, b \in Nat : p = <<a, b>>
  BY DEF Counts
<1>3. (d # 0 => b # 0) /\ (n = 0 => a = 0) /\ (n # 0 => a # 0)
  BY <1>1, <1>2
<1>4. d # 0 => p \in Numbers
  BY <1>2, <1>3 DEF Numbers
<1>5. d # 0 /\ n # 0 => p \in Positives
  BY <1>2, <1>3 DEF Positives
<1>6. d # 0 /\ n = 0 => p \in Zeros
  BY <1>2, <1>3 DEF Zeros
<1> QED BY <1>1, <1>4, <1>5, <1>6, Zenon

LEMMA Parts ==
  ASSUME NEW p \in Counts
  PROVE  /\ p[1] \in Nat /\ p[2] \in Nat
         /\ p \in Numbers => p[2] # 0
         /\ p \in Positives => p[1] # 0 /\ p[2] # 0
         /\ p \in Zeros => p[1] = 0 /\ p[2] # 0
         /\ p = NaN => p[1] = 0 /\ p[2] = 0
  BY DEF Counts, Numbers, Positives, Zeros, NaN

LEMMA Products ==
  ASSUME NEW a \in Nat, NEW b \in Nat
  PROVE  a * b \in Nat /\ (a # 0 /\ b # 0 <=> a * b # 0)
<1>1. a * b \in Nat
  OBVIOUS
<1>2. ASSUME a # 0, b # 0 PROVE a * b # 0
  <2>1. a * b >= a * 1
    BY <1>2
  <2> QED BY <1>2, <2>1
<1>3. (a = 0 => a * b = 0) /\ (b = 0 => a * b = 0)
  OBVIOUS
<1> QED BY <1>1, <1>2, <1>3

LEMMA PlusIn ==
  ASSUME NEW p \in Counts, NEW q \in Counts
  PROVE  /\ p \in Numbers /\ q \in Numbers => Plus(p, q) \in Numbers
         /\ p \in Positives /\ q \in Numbers => Plus(p, q) \in Positives
         /\ p \in Numbers /\ q \in Positives => Plus(p, q) \in Positives
         /\ p \in Zeros /\ q \in Zeros => Plus(p, q) \in Zeros
<1>1. PICK a \in Nat, b \in Nat, c \in Nat, d \in Nat : a = p[1] /\ b = p[2] /\ c = q[1] /\ d = q[2]
  BY Parts
<1>2. PICK u \in Nat, v \in Nat, w \in Nat : u = a * d /\ v = c * b /\ w = b * d
  OBVIOUS
<1>3. Plus(p, q) = Frac(u + v, w)
  BY <1>1, <1>2, Zenon DEF Plus
<1>4. (a # 0 /\ d # 0 <=> u # 0) /\ (c # 0 /\ b # 0 <=> v # 0) /\ (b # 0 /\ d # 0 <=> w # 0)
  BY <1>2, Products
<1>5. /\ p \in Numbers => b # 0
      /\ q \in Numbers => d # 0
      /\ p \in Positives => a # 0 /\ b # 0
      /\ q \in Positives => c # 0 /\ d # 0
      /\ p \in Zeros => a = 0 /\ b # 0
      /\ q \in Zeros => c = 0 /\ d # 0
  BY <1>1, Parts
<1>6. PICK s \in Nat : s = u + v
  OBVIOUS
<1>7. (u # 0 => s # 0) /\ (v # 0 => s # 0) /\ (u = 0 /\ v = 0 => s = 0)
  BY <1>6
<1>8. Plus(p, q) = Frac(s, w)
  BY <1>3, <1>6, Zenon
<1>9. /\ w # 0 => Frac(s, w) \in Numbers
      /\ w # 0 /\ s # 0 => Frac(s, w) \in Positives
      /\ w # 0 /\ s = 0 => Frac(s, w) \in Zeros
  BY FracIn
<1> QED BY <1>4, <1>5, <1>7, <1>8, <1>9, Zenon

LEMMA TimesIn ==
  ASSUME NEW p \in Counts, NEW q \in Positives
  PROVE  /\ Times(p, q) \in Counts
         /\ p \in Numbers => Times(p, q) \in Numbers
         /\ p \in Positives => Times(p, q) \in Positives
         /\ p \in Zeros => Times(p, q) \in Zeros
         /\ p = NaN => Times(p, q) = NaN
<1>0. q \in Counts
  BY KindsOfNumbers
<1>1. PICK a \in Nat, b \in Nat, c \in Nat, d \in Nat : a = p[1] /\ b = p[2] /\ c = q[1] /\ d = q[2]
  BY <1>0, Parts
<1>2. PICK u \in Nat, v \in Nat : u = a * c /\ v = b * d
  OBVIOUS
<1>3. Times(p, q) = Frac(u, v)
  BY <1>1, <1>2, Zenon DEF Times
<1>4. (a # 0 /\ c # 0 <=> u # 0) /\ (b # 0 /\ d # 0 <=> v # 0)
  BY <1>2, Products
<1>5. /\ c # 0 /\ d # 0
      /\ p \in Numbers => b # 0
      /\ p \in Positives => a # 0 /\ b # 0
      /\ p \in Zeros => a = 0 /\ b # 0
      /\ p = NaN => a = 0 /\ b = 0
  BY <1>0, <1>1, Parts
<1>6. /\ Frac(u, v) \in Counts
      /\ v # 0 => Frac(u, v) \in Numbers
      /\ v # 0 /\ u # 0 => Frac(u, v) \in Positives
      /\ v # 0 /\ u = 0 => Frac(u, v) \in Zeros
      /\ v = 0 /\ u = 0 => Frac(u, v) = NaN
  BY FracIn
<1> QED BY <1>3, <1>4, <1>5, <1>6, Zenon

LEMMA OverIn ==
  ASSUME NEW p \in Counts, NEW q \in Counts
  PROVE  /\ Over(p, q) \in Counts
         /\ p \in Numbers /\ q \in Positives => Over(p, q) \in Numbers
         /\ p \in Positives /\ q \in Positives => Over(p, q) \in Positives
         /\ p \in Zeros /\ q \in Positives => Over(p, q) \in Zeros
         /\ p \in Zeros /\ q \in Zeros => Over(p, q) = NaN
         /\ p = NaN => Over(p, q) = NaN
<1>1. PICK a \in Nat, b \in Nat, c \in Nat, d \in Nat : a = p[1] /\ b = p[2] /\ c = q[1] /\ d = q[2]
  BY Parts
<1>2. PICK u \in Nat, v \in Nat : u = a * d /\ v = b * c
  OBVIOUS
<1>3. Over(p, q) = Frac(u, v)
  BY <1>1, <1>2, Zenon DEF Over
<1>4. (a # 0 /\ d # 0 <=> u # 0) /\ (b # 0 /\ c # 0 <=> v # 0)
  BY <1>2, Products
<1>5. /\ p \in Numbers => b # 0
      /\ p \in Positives => a # 0 /\ b # 0
      /\ p \in Zeros => a = 0 /\ b # 0
      /\ p = NaN => a = 0 /\ b = 0
      /\ q \in Positives => c # 0 /\ d # 0
      /\ q \in Zeros => c = 0 /\ d # 0
  BY <1>1, Parts
<1>6. /\ Frac(u, v) \in Counts
      /\ v # 0 => Frac(u, v) \in Numbers
      /\ v # 0 /\ u # 0 => Frac(u, v) \in Positives
      /\ v # 0 /\ u = 0 => Frac(u, v) \in Zeros
      /\ v = 0 /\ u = 0 => Frac(u, v) = NaN
  BY FracIn
<1> QED BY <1>3, <1>4, <1>5, <1>6, Zenon

\* NaN stays NaN whatever is added to it.
LEMMA PlusNaN ==
  ASSUME NEW q \in Quotients
  PROVE  Plus(NaN, q) = NaN /\ Plus(q, NaN) = NaN
<1>1. PICK c \in Int, d \in Nat : c = q[1] /\ d = q[2]
  BY DEF Quotients
<1>2. 0 * d + c * 0 = 0 /\ 0 * d = 0 /\ c * 0 + 0 * d = 0 /\ d * 0 = 0
  OBVIOUS
<1>3. NaN[1] = 0 /\ NaN[2] = 0
  BY DEF NaN
<1>4. Plus(NaN, q) = Frac(0, 0) /\ Plus(q, NaN) = Frac(0, 0)
  BY <1>1, <1>2, <1>3, Zenon DEF Plus
<1>5. Frac(0, 0) = NaN
  BY FracIn
<1> QED BY <1>4, <1>5, Zenon

LEMMA MovedIn ==
  ASSUME NEW period \in Nat, period > 1
  PROVE  /\ \A p \in Numbers, x \in Numbers : Moved(p, x, period) \in Numbers
         /\ \A p \in Positives, x \in Numbers : Moved(p, x, period) \in Positives
         /\ \A x \in Quotients : Moved(NaN, x, period) = NaN
<1>1. PICK w \in Positives, v \in Positives : w = Whole(period - 1) /\ v = Whole(period)
  <2>1. period - 1 \in Nat \ {0} /\ period \in Nat \ {0}
    OBVIOUS
  <2> QED BY <2>1, KindsOfNumbers
<1>2. \A p, x : Moved(p, x, period) = Over(Plus(Times(p, w), x), v)
  BY <1>1, Zenon DEF Moved
<1>3. ASSUME NEW p \in Numbers, NEW x \in Numbers PROVE Over(Plus(Times(p, w), x), v) \in Numbers
  <2>1. Times(p, w) \in Numbers
    BY TimesIn, KindsOfNumbers
  <2>2. Plus(Times(p, w), x) \in Numbers
    BY <2>1, PlusIn, KindsOfNumbers
  <2> QED BY <2>2, OverIn, KindsOfNumbers
<1>4. ASSUME NEW p \in Positives, NEW x \in Numbers PROVE Over(Plus(Times(p, w), x), v) \in Positives
  <2>1. Times(p, w) \in Positives
    BY TimesIn, KindsOfNumbers
  <2>2. Plus(Times(p, w), x) \in Positives
    BY <2>1, PlusIn, KindsOfNumbers
  <2> QED BY <2>2, OverIn, KindsOfNumbers
<1>5. ASSUME NEW x \in Quotients PROVE Over(Plus(Times(NaN, w), x), v) = NaN
  <2>1. Times(NaN, w) = NaN
    BY TimesIn, KindsOfNumbers
  <2>2. Plus(NaN, x) = NaN
    BY PlusNaN
  <2>3. Over(NaN, v) = NaN
    BY OverIn, KindsOfNumbers
  <2> QED BY <2>1, <2>2, <2>3, Zenon
<1>6. ASSUME NEW p \in Numbers, NEW x \in Numbers PROVE Moved(p, x, period) \in Numbers
  BY <1>2, <1>3, Zenon
<1>7. ASSUME NEW p \in Positives, NEW x \in Numbers PROVE Moved(p, x, period) \in Positives
  BY <1>2, <1>4, Zenon
<1>8. ASSUME NEW x \in Quotients PROVE Moved(NaN, x, period) = NaN
  BY <1>2, <1>5, Zenon
<1> QED BY <1>6, <1>7, <1>8

\* The sums of the first k elements of a list.
SumsUpTo(total, list, k) ==
  /\ total[0] = Whole(0)
  /\ \A j \in 1 .. k : total[j] = Plus(total[j - 1], list[j])

\* What is true of one of the sums and kept by the next elements is true of all further ones.
LEMMA SumsStay ==
  ASSUME NEW total, NEW list, NEW k \in Nat, SumsUpTo(total, list, k), NEW i \in 0 .. k,
         NEW X, total[i] \in X,
         \A p \in X : \A j \in i + 1 .. k : Plus(p, list[j]) \in X
  PROVE  \A j \in i .. k : total[j] \in X
<1> DEFINE P == {n \in Nat : i + n <= k => total[i + n] \in X}
<1>1. 0 \in P
  BY i + 0 = i
<1>2. ASSUME NEW n \in Nat, n \in P PROVE n + 1 \in P
  <2> SUFFICES ASSUME i + (n + 1) <= k PROVE total[i + (n + 1)] \in X
    OBVIOUS
  <2>1. PICK j \in i + 1 .. k : j = i + (n + 1) /\ j - 1 = i + n /\ j \in 1 .. k
    OBVIOUS
  <2>2. total[j - 1] \in X
    <3>1. total[i + n] \in X
      BY <1>2
    <3> QED BY <2>1, <3>1, Zenon
  <2>3. total[j] = Plus(total[j - 1], list[j])
    BY <2>1, Zenon DEF SumsUpTo
  <2>4. total[j] \in X
    BY <2>2, <2>3
  <2> QED BY <2>1, <2>4, Zenon
<1> SUFFICES ASSUME NEW j \in i .. k PROVE total[j] \in X
  OBVIOUS
<1> HIDE DEF P
<1>3. j - i \in P
  <2>1. j - i \in Nat
    OBVIOUS
  <2> QED BY <1>1, <1>2, <2>1, SetOfNaturals
<1>4. total[i + (j - i)] \in X
  <2>1. i + (j - i) <= k
    OBVIOUS
  <2> QED BY <1>3, <2>1 DEF P
<1>5. i + (j - i) = j
  OBVIOUS
<1> QED BY <1>4, <1>5, Zenon

\* How many numbers up to b are beyond a.
Beyond(a, b) == IF a < b THEN b - a ELSE 0

\* The elements of a list from after a on to b.
LEMMA Slice ==
  ASSUME NEW S, NEW s \in Seq(S), NEW a \in Nat, NEW b \in Nat, b <= Len(s)
  PROVE  /\ SubSeq(s, a + 1, b) \in Seq(S)
         /\ Len(SubSeq(s, a + 1, b)) = Beyond(a, b)
         /\ \A j \in 1 .. Beyond(a, b) : SubSeq(s, a + 1, b)[j] = s[a + j]
<1>0. Beyond(a, b) \in Nat
  BY DEF Beyond
<1>1. PICK c \in Nat, k \in Nat : c = a + 1 /\ k = Beyond(a, b)
  <2>1. PICK c \in Nat : c = a + 1
    OBVIOUS
  <2> QED BY <1>0, <2>1, Zenon
<1>2. \A j \in c .. b : s[j] \in S
  BY <1>1
<1>3. PICK q : q = SubSeq(s, c, b)
  OBVIOUS
<1>4. /\ q \in Seq(S)
      /\ Len(q) = IF c <= b THEN b - c + 1 ELSE 0
      /\ \A j \in 1 .. b - c + 1 : q[j] = s[c + j - 1]
  BY <1>2, <1>3, SubSeqProperties
<1>5. Len(q) = k
  BY <1>1, <1>4 DEF Beyond
<1>6. ASSUME NEW j \in 1 .. k PROVE q[j] = s[a + j]
  <2>1. j \in 1 .. b - c + 1 /\ c + j - 1 = a + j
    BY <1>1 DEF Beyond
  <2>2. q[j] = s[c + j - 1]
    BY <1>4, <2>1
  <2> QED BY <2>1, <2>2, Zenon
<1> QED BY <1>1, <1>3, <1>4, <1>5, <1>6, Zenon

\* Wilder's average of a series starts with the sum of the first period of it, or of all of it.
LEMMA SmoothSeriesMoves ==
  ASSUME NEW series \in Seq(Quotients), Len(series) # 0, NEW period \in Nat \ {0},
         NEW m \in Nat, m = Smaller(period, Len(series)), NEW k \in Nat, k = Beyond(period, Len(series))
  PROVE  /\ \E total : /\ SumsUpTo(total, series, m)
                       /\ smoothSeries(series, period)[1] = Over(total[m], Whole(period))
         /\ smoothSeries(series, period) \in Seq(Quotients)
         /\ Len(smoothSeries(series, period)) = k + 1
         /\ \A j \in 1 .. k :
              smoothSeries(series, period)[j + 1] = Moved(smoothSeries(series, period)[j], series[period + j], period)
<1>0. PICK n \in Nat \ {0} : n = Len(series)
  OBVIOUS
<1>1. PICK start \in Seq(Quotients) : /\ start = SubSeq(series, 1, m)
                                      /\ Len(start) = m
                                      /\ \A j \in 1 .. m : start[j] = series[j]
  <2>1. m <= Len(series) /\ 0 \in Nat /\ Beyond(0, m) = m
    BY DEF Smaller, Beyond
  <2>2. /\ SubSeq(series, 0 + 1, m) \in Seq(Quotients)
        /\ Len(SubSeq(series, 0 + 1, m)) = Beyond(0, m)
        /\ \A j \in 1 .. Beyond(0, m) : SubSeq(series, 0 + 1, m)[j] = series[0 + j]
    BY <2>1, Slice
  <2>3. 0 + 1 = 1 /\ \A j \in 1 .. m : 0 + j = j
    OBVIOUS
  <2>4. PICK q : q = SubSeq(series, 1, m)
    OBVIOUS
  <2>5. ASSUME NEW j \in 1 .. m PROVE q[j] = series[j]
    BY <2>1, <2>2, <2>3, <2>4, Zenon
  <2>6. q \in Seq(Quotients) /\ Len(q) = m
    BY <2>1, <2>2, <2>3, <2>4, Zenon
  <2> QED BY <2>4, <2>5, <2>6, Zenon
<1>2. PICK later \in Seq(Quotients) : /\ later = SubSeq(series, period + 1, n)
                                      /\ Len(later) = k
                                      /\ \A j \in 1 .. k : later[j] = series[period + j]
  <2>1. n <= Len(series) /\ period \in Nat /\ n \in Nat /\ k = Beyond(period, n)
    BY <1>0
  <2>2. /\ SubSeq(series, period + 1, n) \in Seq(Quotients)
        /\ Len(SubSeq(series, period + 1, n)) = Beyond(period, n)
        /\ \A j \in 1 .. Beyond(period, n) : SubSeq(series, period + 1, n)[j] = series[period + j]
    BY <2>1, Slice
  <2> QED BY <2>1, <2>2, Zenon
<1>3. PICK total : SumsTo(total, start) /\ SumOf(start) = total[m]
  BY <1>1, SumIsSum
<1>4. SumsUpTo(total, series, m)
  BY <1>1, <1>3 DEF SumsTo, SumsUpTo
<1>5. PICK first \in Quotients : first = Over(total[m], Whole(period))
  <2>1. Whole(0) \in Quotients
    BY KindsOfNumbers
  <2>2. \A p \in Quotients : \A j \in 0 + 1 .. m : Plus(p, series[j]) \in Quotients
    BY PlusIsQuotient DEF Smaller
  <2>3. total[0] \in Quotients /\ 0 \in 0 .. m /\ m \in 0 .. m
    BY <1>4, <2>1 DEF SumsUpTo
  <2>4. total[m] \in Quotients
    BY <1>4, <2>2, <2>3, SumsStay
  <2>5. Whole(period) \in Counts
    BY DEF Whole, Counts
  <2> QED BY <2>4, <2>5, TimesOverAreQuotients
<1>6. smoothSeries(series, period) = Smoothed(first, later, period)
  BY <1>0, <1>1, <1>2, <1>3, <1>5, Zenon DEF smoothSeries
<1>7. PICK out : out = smoothSeries(series, period) /\ Moves(out, first, later, period, k)
  <2>2. Moves(Smoothed(first, later, period), first, later, period, Len(later))
    BY SmoothedMoves
  <2> QED BY <1>2, <1>6, <2>2, Zenon
<1>8. out \in Seq(Quotients) /\ Len(out) = k + 1 /\ out[1] = first
  BY <1>7 DEF Moves
<1>9. ASSUME NEW j \in 1 .. k PROVE out[j + 1] = Moved(out[j], series[period + j], period)
  <2>1. out[j + 1] = Moved(out[j], later[j], period)
    BY <1>7 DEF Moves
  <2>2. later[j] = series[period + j]
    BY <1>2
  <2> QED BY <2>1, <2>2, Zenon
<1> QED BY <1>4, <1>5, <1>7, <1>8, <1>9, Zenon

\* What is true of the first value and kept by moving on is true of all.
LEMMA SmoothSeriesStays ==
  ASSUME NEW series \in Seq(Quotients), Len(series) # 0, NEW period \in Nat \ {0},
         NEW X, smoothSeries(series, period)[1] \in X,
         \A p \in X : \A j \in 1 .. Len(series) : Moved(p, series[j], period) \in X
  PROVE  smoothSeries(series, period) \in Seq(X)
<1>1. PICK k \in Nat : k = Beyond(period, Len(series))
  <2>1. Beyond(period, Len(series)) \in Nat
    BY DEF Beyond
  <2> QED BY <2>1
<1>2. PICK m \in Nat : m = Smaller(period, Len(series))
  BY DEF Smaller
<1>3. PICK out \in Seq(Quotients) :
        /\ out = smoothSeries(series, period) /\ Len(out) = k + 1
        /\ \A j \in 1 .. k : out[j + 1] = Moved(out[j], series[period + j], period)
  <2>1. PICK o : o = smoothSeries(series, period)
    OBVIOUS
  <2>2. /\ o \in Seq(Quotients)
        /\ Len(o) = k + 1
        /\ \A j \in 1 .. k : o[j + 1] = Moved(o[j], series[period + j], period)
    BY <1>1, <1>2, <2>1, SmoothSeriesMoves, Zenon
  <2> QED BY <2>1, <2>2, Zenon
<1> DEFINE P == {i \in Nat : i <= k => out[i + 1] \in X}
<1>4. 0 \in P
  BY <1>3
<1>5. ASSUME NEW i \in Nat, i \in P PROVE i + 1 \in P
  <2> SUFFICES ASSUME i + 1 <= k PROVE out[i + 1 + 1] \in X
    OBVIOUS
  <2>1. PICK j \in 1 .. k : j = i + 1
    OBVIOUS
  <2>2. out[j] \in X
    <3>1. out[i + 1] \in X
      BY <1>5
    <3> QED BY <2>1, <3>1, Zenon
  <2>3. out[j + 1] = Moved(out[j], series[period + j], period)
    BY <1>3
  <2>4. PICK l \in 1 .. Len(series) : l = period + j
    BY <1>1 DEF Beyond
  <2>5. Moved(out[j], series[l], period) \in X
    BY <2>2
  <2>6. out[j + 1] \in X
    BY <2>3, <2>4, <2>5, Zenon
  <2> QED BY <2>1, <2>6, Zenon
<1>6. ASSUME NEW i \in 1 .. Len(out) PROVE out[i] \in X
  <2> HIDE DEF P
  <2>1. i - 1 \in Nat /\ i - 1 <= k /\ (i - 1) + 1 = i
    BY <1>3
  <2>2. i - 1 \in P
    BY <1>4, <1>5, <2>1, SetOfNaturals
  <2>3. out[(i - 1) + 1] \in X
    BY <2>1, <2>2 DEF P
  <2> QED BY <2>1, <2>3, Zenon
<1>7. out \in Seq(X)
  BY <1>6
<1> QED BY <1>3, <1>7, Zenon

-----------------------------------------------------------------------------
(* Wilder's average of a series, by what its values are.                   *)

LEMMA SmoothedNumbers ==
  ASSUME NEW series \in Seq(Numbers), Len(series) # 0, NEW period \in Nat, period > 1
  PROVE  smoothSeries(series, period) \in Seq(Numbers)
<1>1. series \in Seq(Quotients) /\ period \in Nat \ {0}
  BY KindsOfNumbers
<1>2. PICK m \in Nat : m = Smaller(period, Len(series)) /\ m <= Len(series)
  BY DEF Smaller
<1>3. PICK k \in Nat : k = Beyond(period, Len(series))
  <2>1. Beyond(period, Len(series)) \in Nat
    BY DEF Beyond
  <2> QED BY <2>1
<1>4. PICK total : /\ SumsUpTo(total, series, m)
                   /\ smoothSeries(series, period)[1] = Over(total[m], Whole(period))
  BY <1>1, <1>2, <1>3, SmoothSeriesMoves
<1>5. total[m] \in Numbers
  <2>1. total[0] \in Numbers
    BY <1>4, KindsOfNumbers DEF SumsUpTo
  <2>2. ASSUME NEW p \in Numbers, NEW j \in 0 + 1 .. m PROVE Plus(p, series[j]) \in Numbers
    <3>1. series[j] \in Numbers /\ series[j] \in Counts /\ p \in Counts
      BY <1>2, KindsOfNumbers
    <3> QED BY <3>1, PlusIn
  <2>3. 0 \in 0 .. m /\ m \in 0 .. m
    OBVIOUS
  <2> QED BY <1>4, <2>1, <2>2, <2>3, SumsStay
<1>6. smoothSeries(series, period)[1] \in Numbers
  <2>1. Whole(period) \in Positives
    BY <1>1, KindsOfNumbers
  <2> QED BY <1>4, <1>5, <2>1, OverIn, KindsOfNumbers
<1>7. \A p \in Numbers : \A j \in 1 .. Len(series) : Moved(p, series[j], period) \in Numbers
  BY MovedIn
<1> QED BY <1>1, <1>6, <1>7, SmoothSeriesStays

LEMMA SmoothedPositives ==
  ASSUME NEW series \in Seq(Numbers), NEW period \in Nat, period > 1,
         NEW i \in 1 .. Len(series), i <= period, series[i] \in Positives
  PROVE  smoothSeries(series, period) \in Seq(Positives)
<1>1. series \in Seq(Quotients) /\ period \in Nat \ {0} /\ Len(series) # 0
  BY KindsOfNumbers
<1>2. PICK m \in Nat : m = Smaller(period, Len(series)) /\ m <= Len(series) /\ i <= m
  BY DEF Smaller
<1>3. PICK k \in Nat : k = Beyond(period, Len(series))
  <2>1. Beyond(period, Len(series)) \in Nat
    BY DEF Beyond
  <2> QED BY <2>1
<1>4. PICK total : /\ SumsUpTo(total, series, m)
                   /\ smoothSeries(series, period)[1] = Over(total[m], Whole(period))
  BY <1>1, <1>2, <1>3, SmoothSeriesMoves
<1>5. total[i - 1] \in Numbers
  <2>1. total[0] \in Numbers
    BY <1>4, KindsOfNumbers DEF SumsUpTo
  <2>2. ASSUME NEW p \in Numbers, NEW j \in 0 + 1 .. m PROVE Plus(p, series[j]) \in Numbers
    <3>1. series[j] \in Numbers /\ series[j] \in Counts /\ p \in Counts
      BY <1>2, KindsOfNumbers
    <3> QED BY <3>1, PlusIn
  <2>3. 0 \in 0 .. m /\ i - 1 \in 0 .. m
    BY <1>2
  <2> QED BY <1>4, <2>1, <2>2, <2>3, SumsStay
<1>6. total[i] \in Positives
  <2>1. i \in 1 .. m
    BY <1>2
  <2>2. total[i] = Plus(total[i - 1], series[i])
    BY <1>4, <2>1 DEF SumsUpTo
  <2> QED BY <1>5, <2>2, PlusIn, KindsOfNumbers
<1>7. total[m] \in Positives
  <2>1. ASSUME NEW p \in Positives, NEW j \in i + 1 .. m PROVE Plus(p, series[j]) \in Positives
    <3>1. series[j] \in Numbers /\ series[j] \in Counts /\ p \in Counts
      BY <1>2, KindsOfNumbers
    <3> QED BY <3>1, PlusIn
  <2>2. i \in 0 .. m /\ m \in i .. m
    BY <1>2
  <2> QED BY <1>4, <1>6, <2>1, <2>2, SumsStay
<1>8. smoothSeries(series, period)[1] \in Positives
  <2>1. Whole(period) \in Positives
    BY <1>1, KindsOfNumbers
  <2> QED BY <1>4, <1>7, <2>1, OverIn, KindsOfNumbers
<1>9. ASSUME NEW p \in Positives, NEW j \in 1 .. Len(series) PROVE Moved(p, series[j], period) \in Positives
  <2>1. series[j] \in Numbers
    OBVIOUS
  <2> QED BY <2>1, MovedIn
<1> QED BY <1>1, <1>8, <1>9, SmoothSeriesStays

\* It starts with zero when the first period is nothing else.
LEMMA SmoothedZeros ==
  ASSUME NEW series \in Seq(Numbers), Len(series) # 0, NEW period \in Nat \ {0},
         \A j \in 1 .. Smaller(period, Len(series)) : series[j] \in Zeros
  PROVE  smoothSeries(series, period)[1] \in Zeros
<1>1. series \in Seq(Quotients)
  BY KindsOfNumbers
<1>2. PICK m \in Nat : m = Smaller(period, Len(series)) /\ m <= Len(series)
  BY DEF Smaller
<1>3. PICK k \in Nat : k = Beyond(period, Len(series))
  <2>1. Beyond(period, Len(series)) \in Nat
    BY DEF Beyond
  <2> QED BY <2>1
<1>4. PICK total : /\ SumsUpTo(total, series, m)
                   /\ smoothSeries(series, period)[1] = Over(total[m], Whole(period))
  BY <1>1, <1>2, <1>3, SmoothSeriesMoves
<1>5. total[m] \in Zeros
  <2>1. total[0] \in Zeros
    BY <1>4, KindsOfNumbers DEF SumsUpTo
  <2>2. ASSUME NEW p \in Zeros, NEW j \in 0 + 1 .. m PROVE Plus(p, series[j]) \in Zeros
    <3>1. series[j] \in Zeros /\ series[j] \in Counts /\ p \in Counts
      BY <1>2, KindsOfNumbers
    <3> QED BY <3>1, PlusIn
  <2>3. 0 \in 0 .. m /\ m \in 0 .. m
    OBVIOUS
  <2> QED BY <1>4, <2>1, <2>2, <2>3, SumsStay
<1>6. Whole(period) \in Positives
  BY KindsOfNumbers
<1> QED BY <1>4, <1>5, <1>6, OverIn, KindsOfNumbers

\* Nothing comes after a NaN at its start.
LEMMA SmoothedNaN ==
  ASSUME NEW series \in Seq(Counts), Len(series) # 0, NEW period \in Nat, period > 1, series[1] = NaN
  PROVE  smoothSeries(series, period) \in Seq({NaN})
<1>1. series \in Seq(Quotients) /\ period \in Nat \ {0}
  BY KindsOfNumbers
<1>2. PICK m \in Nat : m = Smaller(period, Len(series)) /\ m <= Len(series) /\ 1 <= m
  BY DEF Smaller
<1>3. PICK k \in Nat : k = Beyond(period, Len(series))
  <2>1. Beyond(period, Len(series)) \in Nat
    BY DEF Beyond
  <2> QED BY <2>1
<1>4. PICK total : /\ SumsUpTo(total, series, m)
                   /\ smoothSeries(series, period)[1] = Over(total[m], Whole(period))
  BY <1>1, <1>2, <1>3, SmoothSeriesMoves
<1>5. total[1] = NaN
  <2>1. total[0] \in Quotients
    BY <1>4, KindsOfNumbers DEF SumsUpTo
  <2>2. total[1] = Plus(total[0], series[1])
    <3>1. 1 \in 1 .. m /\ 1 - 1 = 0
      BY <1>2
    <3>2. total[1] = Plus(total[1 - 1], series[1])
      BY <1>4, <3>1, Zenon DEF SumsUpTo
    <3> QED BY <3>1, <3>2, Zenon
  <2> QED BY <2>1, <2>2, PlusNaN
<1>6. total[m] \in {NaN}
  <2>1. \A p \in {NaN} : \A j \in 1 + 1 .. m : Plus(p, series[j]) \in {NaN}
    BY <1>1, <1>2, PlusNaN
  <2>2. 1 \in 0 .. m /\ m \in 1 .. m /\ total[1] \in {NaN}
    BY <1>2, <1>5
  <2> QED BY <1>4, <2>1, <2>2, SumsStay
<1>7. smoothSeries(series, period)[1] \in {NaN}
  <2>1. Whole(period) \in Counts /\ NaN \in Counts
    BY <1>1, KindsOfNumbers
  <2>2. Over(NaN, Whole(period)) = NaN
    BY <2>1, OverIn
  <2> QED BY <1>4, <1>6, <2>2
<1>8. \A p \in {NaN} : \A j \in 1 .. Len(series) : Moved(p, series[j], period) \in {NaN}
  BY <1>1, MovedIn
<1> QED BY <1>1, <1>7, <1>8, SmoothSeriesStays

-----------------------------------------------------------------------------
(* The direction of a market.                                              *)

LEMMA LargestOfThree ==
  ASSUME NEW a \in Int, NEW b \in Int, NEW c \in Int
  PROVE  Max({a, b, c}) \in Int /\ Max({a, b, c}) >= a /\ Max({a, b, c}) >= b /\ Max({a, b, c}) >= c
<1>1. PICK s : s = {a, b, c}
  OBVIOUS
<1>2. \E x \in s : \A y \in s : x >= y
  <2>1. CASE a >= b /\ a >= c
    BY <1>1, <2>1
  <2>2. CASE b >= a /\ b >= c
    BY <1>1, <2>2
  <2>3. CASE c >= a /\ c >= b
    BY <1>1, <2>3
  <2> QED BY <2>1, <2>2, <2>3
<1>3. Max(s) \in s /\ \A y \in s : Max(s) >= y
  BY <1>2, Zenon DEF Max
<1> QED BY <1>1, <1>3

\* A candle that leaves the range of the one before has a true range.
LEMMA MovesHaveRange ==
  ASSUME NEW c \in Chart, NEW before \in Chart
  PROVE  /\ TrueRange(c, before) \in Nat
         /\ plusDM(c, before) \in Nat /\ minusDM(c, before) \in Nat
         /\ plusDM(c, before) # 0 => TrueRange(c, before) # 0
         /\ minusDM(c, before) # 0 => TrueRange(c, before) # 0
<1>1. PICK h \in Nat, l \in Nat, hb \in Nat, lb \in Nat, e \in Nat :
        h = c.high /\ l = c.low /\ hb = before.high /\ lb = before.low /\ e = before.close
  BY DEF Chart, Candle
<1>2. l <= h /\ lb <= e /\ e <= hb
  <2>1. /\ l <= Smaller(c.open, c.close) /\ Larger(c.open, c.close) <= h
        /\ lb <= Smaller(before.open, e) /\ Larger(before.open, e) <= hb
        /\ c.open \in Nat /\ c.close \in Nat /\ before.open \in Nat
    BY <1>1 DEF Chart, IsCandle, Candle
  <2> QED BY <2>1 DEF Smaller, Larger
<1>3. PICK a \in Nat, b \in Nat, d \in Nat : /\ a = h - l /\ b = Magnitude(h - e) /\ d = Magnitude(l - e)
                                            /\ b >= h - e /\ d >= e - l
  <2>1. h - l \in Nat
    BY <1>2
  <2>2. PICK b \in Nat : b = Magnitude(h - e) /\ b >= h - e
    <3>1. Magnitude(h - e) \in Nat /\ Magnitude(h - e) >= h - e
      BY DEF Magnitude
    <3> QED BY <3>1
  <2>3. PICK d \in Nat : d = Magnitude(l - e) /\ d >= e - l
    <3>1. Magnitude(l - e) \in Nat /\ Magnitude(l - e) >= e - l
      BY DEF Magnitude
    <3> QED BY <3>1
  <2> QED BY <2>1, <2>2, <2>3
<1>4. PICK t : t = TrueRange(c, before)
  OBVIOUS
<1>5. t = Max({a, b, d})
  BY <1>1, <1>3, <1>4, Zenon DEF TrueRange
<1>6. t \in Int /\ t >= a /\ t >= b /\ t >= d
  BY <1>5, LargestOfThree
<1>7. UpMove(c, before) = h - hb /\ DownMove(c, before) = lb - l
  BY <1>1, Zenon DEF UpMove, DownMove
<1>8. plusDM(c, before) \in Nat /\ plusDM(c, before) <= t
  BY <1>2, <1>3, <1>6, <1>7 DEF plusDM, Larger
<1>9. minusDM(c, before) \in Nat /\ minusDM(c, before) <= t
  BY <1>2, <1>3, <1>6, <1>7 DEF minusDM, Larger
<1> QED BY <1>4, <1>6, <1>8, <1>9

\* The directional indicator in percent, and how far one is from the other.
DI(dm, tr) == Times(Over(dm, tr), Whole(100))
DX(plus, minus) == Times(Over(Size(Minus(plus, minus)), Size(Plus(plus, minus))), Whole(100))

LEMMA IndicatorIn ==
  ASSUME NEW p \in Numbers, NEW t \in Numbers
  PROVE  /\ DI(p, t) \in Counts
         /\ t \in Positives => DI(p, t) \in Numbers
         /\ t \in Positives /\ p \in Positives => DI(p, t) \in Positives
         /\ t \in Positives /\ p \in Zeros => DI(p, t) \in Zeros
         /\ t \in Zeros /\ p \in Zeros => DI(p, t) = NaN
<1>1. p \in Counts /\ t \in Counts /\ Whole(100) \in Positives
  BY KindsOfNumbers
<1>2. PICK o \in Counts : /\ o = Over(p, t)
                          /\ t \in Positives => o \in Numbers
                          /\ t \in Positives /\ p \in Positives => o \in Positives
                          /\ t \in Positives /\ p \in Zeros => o \in Zeros
                          /\ t \in Zeros /\ p \in Zeros => o = NaN
  BY <1>1, OverIn
<1>3. DI(p, t) = Times(o, Whole(100))
  BY <1>2, Zenon DEF DI
<1> QED BY <1>1, <1>2, <1>3, TimesIn

LEMMA SizeOfDifference ==
  ASSUME NEW p \in Counts, NEW q \in Counts
  PROVE  /\ Size(Minus(p, q)) \in Counts
         /\ p \in Numbers /\ q \in Numbers => Size(Minus(p, q)) \in Numbers
         /\ p \in Zeros /\ q \in Zeros => Size(Minus(p, q)) \in Zeros
         /\ p = NaN /\ q = NaN => Size(Minus(p, q)) = NaN
<1>1. PICK a \in Nat, b \in Nat, c \in Nat, d \in Nat : a = p[1] /\ b = p[2] /\ c = q[1] /\ d = q[2]
  BY Parts
<1>2. PICK n \in Int, v \in Nat : n = a * d + (-c) * b /\ v = b * d
  OBVIOUS
<1>3. Minus(p, q) = Frac(n, v)
  <2>1. <<-c, d>>[1] = -c /\ <<-c, d>>[2] = d
    OBVIOUS
  <2> QED BY <1>1, <1>2, <2>1, Zenon DEF Minus, Plus
<1>4. PICK f \in Quotients : /\ f = Frac(n, v)
                             /\ v # 0 => f[2] # 0
                             /\ n = 0 => f[1] = 0
                             /\ n = 0 /\ v = 0 => f = NaN
  BY FracByCount
<1>5. PICK x \in Int, y \in Nat : x = f[1] /\ y = f[2]
  BY DEF Quotients
<1>6. PICK m \in Nat : m = Magnitude(x) /\ (x = 0 => m = 0)
  BY DEF Magnitude
<1>7. Size(Minus(p, q)) = <<m, y>>
  BY <1>3, <1>4, <1>5, <1>6, Zenon DEF Size
<1>8. b # 0 /\ d # 0 <=> v # 0
  BY <1>2, Products
<1>9. /\ p \in Numbers => b # 0
      /\ q \in Numbers => d # 0
      /\ p \in Zeros => a = 0 /\ b # 0
      /\ q \in Zeros => c = 0 /\ d # 0
      /\ p = NaN => a = 0 /\ b = 0
      /\ q = NaN => c = 0 /\ d = 0
  BY <1>1, Parts
<1>10. a = 0 /\ c = 0 => n = 0
  BY <1>2
<1>11. <<m, y>> \in Counts
  BY DEF Counts
<1>12. y # 0 => <<m, y>> \in Numbers
  BY DEF Numbers
<1>13. y # 0 /\ x = 0 => <<m, y>> \in Zeros
  BY <1>6 DEF Zeros
<1>14. ASSUME p = NaN, q = NaN PROVE <<m, y>> = NaN
  <2>1. n = 0 /\ v = 0
    BY <1>8, <1>9, <1>10, <1>14
  <2>2. f = NaN
    BY <1>4, <2>1
  <2>3. x = 0 /\ y = 0
    BY <1>5, <2>2 DEF NaN
  <2> QED BY <1>6, <2>3 DEF NaN
<1>15. v # 0 => y # 0
  BY <1>4, <1>5
<1>16. n = 0 => x = 0
  BY <1>4, <1>5
<1> QED BY <1>7, <1>8, <1>9, <1>10, <1>11, <1>12, <1>13, <1>14, <1>15, <1>16, Zenon

LEMMA IndexIn ==
  ASSUME NEW p \in Counts, NEW q \in Counts
  PROVE  /\ DX(p, q) \in Counts
         /\ p \in Numbers /\ q \in Numbers /\ (p \in Positives \/ q \in Positives) => DX(p, q) \in Numbers
         /\ p \in Zeros /\ q \in Zeros => DX(p, q) = NaN
         /\ p = NaN /\ q = NaN => DX(p, q) = NaN
<1>1. PICK s \in Counts : /\ s = Size(Minus(p, q))
                          /\ p \in Numbers /\ q \in Numbers => s \in Numbers
                          /\ p \in Zeros /\ q \in Zeros => s \in Zeros
                          /\ p = NaN /\ q = NaN => s = NaN
  BY SizeOfDifference
<1>2. PICK t \in Counts : /\ t = Plus(p, q)
                          /\ p \in Numbers /\ q \in Numbers /\ (p \in Positives \/ q \in Positives) => t \in Positives
                          /\ p \in Zeros /\ q \in Zeros => t \in Zeros
  <2>1. Plus(p, q) \in Counts
    <3>1. PICK a \in Nat, b \in Nat, c \in Nat, d \in Nat : a = p[1] /\ b = p[2] /\ c = q[1] /\ d = q[2]
      BY Parts
    <3>2. PICK n \in Nat, v \in Nat : n = a * d + c * b /\ v = b * d
      OBVIOUS
    <3>3. Plus(p, q) = Frac(n, v)
      BY <3>1, <3>2, Zenon DEF Plus
    <3> QED BY <3>3, FracIn
  <2> QED BY <2>1, PlusIn
<1>3. Size(t) = t
  <2>1. PICK a \in Nat, b \in Nat : t = <<a, b>>
    BY DEF Counts
  <2>2. t[1] = a /\ t[2] = b /\ Magnitude(a) = a
    BY <2>1 DEF Magnitude
  <2> QED BY <2>1, <2>2, Zenon DEF Size
<1>4. PICK o \in Counts : /\ o = Over(s, t)
                          /\ s \in Numbers /\ t \in Positives => o \in Numbers
                          /\ s \in Zeros /\ t \in Zeros => o = NaN
                          /\ s = NaN => o = NaN
  BY OverIn
<1>5. DX(p, q) = Times(o, Whole(100))
  BY <1>1, <1>2, <1>3, <1>4, Zenon DEF DX
<1>6. /\ Times(o, Whole(100)) \in Counts
      /\ o \in Numbers => Times(o, Whole(100)) \in Numbers
      /\ o = NaN => Times(o, Whole(100)) = NaN
  BY TimesIn, KindsOfNumbers
<1> QED BY <1>1, <1>2, <1>4, <1>5, <1>6, Zenon

\* The three series the trend strength is made of: the true ranges and the directional moves.
IsTrendOf(tr, up, down, prices, n) ==
  /\ tr \in Seq(Numbers) /\ up \in Seq(Numbers) /\ down \in Seq(Numbers)
  /\ Len(tr) = n /\ Len(up) = n /\ Len(down) = n
  /\ \A i \in 1 .. n : /\ tr[i] = Whole(TrueRange(prices[i + 1], prices[i]))
                       /\ up[i] = Whole(plusDM(prices[i + 1], prices[i]))
                       /\ down[i] = Whole(minusDM(prices[i + 1], prices[i]))

\* The strengths, one per value of the three averages.
IsStrength(dx, t, u, d, k) == dx = [i \in 1 .. k |-> DX(DI(u[i], t[i]), DI(d[i], t[i]))]

LEMMA SmoothedLength ==
  ASSUME NEW series \in Seq(Counts), Len(series) # 0, NEW period \in Nat \ {0}
  PROVE  Len(smoothSeries(series, period)) = Beyond(period, Len(series)) + 1
<1>1. series \in Seq(Quotients)
  BY KindsOfNumbers
<1>2. PICK m \in Nat : m = Smaller(period, Len(series))
  BY DEF Smaller
<1>3. PICK k \in Nat : k = Beyond(period, Len(series))
  <2>1. Beyond(period, Len(series)) \in Nat
    BY DEF Beyond
  <2> QED BY <2>1
<1> QED BY <1>1, <1>2, <1>3, SmoothSeriesMoves

LEMMA TrendSeries ==
  ASSUME NEW prices \in Seq(Chart), NEW n \in Nat \ {0}, Len(prices) = n + 1, NEW period \in Nat, period > 1
  PROVE  \E tr, up, down, t, u, d, dx :
           /\ IsTrendOf(tr, up, down, prices, n)
           /\ t = smoothSeries(tr, period) /\ u = smoothSeries(up, period) /\ d = smoothSeries(down, period)
           /\ IsStrength(dx, t, u, d, Beyond(period, n) + 1)
           /\ calculateADX(prices, period).adx = Last(smoothSeries(dx, period))
<1>1. Len(prices) - 1 = n
  OBVIOUS
<1>2. PICK tr : tr = [i \in 1 .. n |-> Whole(TrueRange(prices[i + 1], prices[i]))]
  OBVIOUS
<1>3. PICK pm : pm = [i \in 1 .. n |-> plusDM(prices[i + 1], prices[i])]
  OBVIOUS
<1>4. PICK mm : mm = [i \in 1 .. n |-> minusDM(prices[i + 1], prices[i])]
  OBVIOUS
<1>5. PICK up : up = [i \in 1 .. n |-> Whole(pm[i])]
  OBVIOUS
<1>6. PICK down : down = [i \in 1 .. n |-> Whole(mm[i])]
  OBVIOUS
<1>7. DOMAIN pm = 1 .. n /\ DOMAIN mm = 1 .. n /\ TrueRanges(prices) = tr
  <2>1. TrueRanges(prices) = tr
    BY <1>1, <1>2, Zenon DEF TrueRanges
  <2> QED BY <1>3, <1>4, <2>1
<1>8. IsTrendOf(tr, up, down, prices, n)
  <2>1. ASSUME NEW i \in 1 .. n
        PROVE  /\ tr[i] = Whole(TrueRange(prices[i + 1], prices[i])) /\ tr[i] \in Numbers
               /\ up[i] = Whole(plusDM(prices[i + 1], prices[i])) /\ up[i] \in Numbers
               /\ down[i] = Whole(minusDM(prices[i + 1], prices[i])) /\ down[i] \in Numbers
    <3>1. PICK c \in Chart, before \in Chart : c = prices[i + 1] /\ before = prices[i]
      <4>1. i + 1 \in 1 .. Len(prices) /\ i \in 1 .. Len(prices)
        OBVIOUS
      <4>2. prices[i + 1] \in Chart /\ prices[i] \in Chart
        BY <4>1
      <4> QED BY <4>2, Zenon
    <3>2. TrueRange(c, before) \in Nat /\ plusDM(c, before) \in Nat /\ minusDM(c, before) \in Nat
      BY MovesHaveRange
    <3>3. tr[i] = Whole(TrueRange(c, before))
      BY <1>2, <3>1
    <3>4. pm[i] = plusDM(c, before) /\ mm[i] = minusDM(c, before)
      BY <1>3, <1>4, <3>1
    <3>5. up[i] = Whole(plusDM(c, before)) /\ down[i] = Whole(minusDM(c, before))
      BY <1>5, <1>6, <3>4
    <3>6. tr[i] \in Numbers /\ up[i] \in Numbers /\ down[i] \in Numbers
      BY <3>2, <3>3, <3>5, KindsOfNumbers
    <3> QED BY <3>1, <3>3, <3>5, <3>6, Zenon
  <2>2. tr \in Seq(Numbers) /\ Len(tr) = n
    BY <1>2, <2>1
  <2>3. up \in Seq(Numbers) /\ Len(up) = n
    BY <1>5, <2>1
  <2>4. down \in Seq(Numbers) /\ Len(down) = n
    BY <1>6, <2>1
  <2> QED BY <2>1, <2>2, <2>3, <2>4, Zenon DEF IsTrendOf
<1>9. PICK t, u, d : t = smoothSeries(tr, period) /\ u = smoothSeries(up, period) /\ d = smoothSeries(down, period)
  OBVIOUS
<1>10. PICK k \in Nat : k = Beyond(period, n) + 1
  <2>1. Beyond(period, n) + 1 \in Nat
    BY DEF Beyond
  <2> QED BY <2>1
<1>11. DOMAIN u = 1 .. k /\ DOMAIN d = 1 .. k
  <2>1. up \in Seq(Numbers) /\ Len(up) = n /\ down \in Seq(Numbers) /\ Len(down) = n
    BY <1>8 DEF IsTrendOf
  <2>2. up \in Seq(Counts) /\ down \in Seq(Counts)
    BY <2>1, KindsOfNumbers
  <2>3. Len(u) = k /\ Len(d) = k
    BY <1>9, <1>10, <2>1, <2>2, SmoothedLength
  <2>4. u \in Seq(Numbers) /\ d \in Seq(Numbers)
    BY <1>9, <2>1, SmoothedNumbers
  <2> QED BY <2>3, <2>4
<1>12. PICK di : di = [plusDI |-> [i \in 1 .. k |-> DI(u[i], t[i])],
                       minusDI |-> [i \in 1 .. k |-> DI(d[i], t[i])]]
  OBVIOUS
<1>13. calculateDMI(prices, period) = di
  BY <1>1, <1>3, <1>4, <1>5, <1>6, <1>7, <1>9, <1>11, <1>12, Zenon DEF calculateDMI, DI
<1>14. PICK dx : dx = [i \in 1 .. k |-> DX(di.plusDI[i], di.minusDI[i])]
  OBVIOUS
<1>15. DOMAIN di.plusDI = 1 .. k /\ \A i \in 1 .. k : di.plusDI[i] = DI(u[i], t[i]) /\ di.minusDI[i] = DI(d[i], t[i])
  BY <1>12
<1>16. IsStrength(dx, t, u, d, k)
  <2>1. ASSUME NEW i \in 1 .. k PROVE DX(di.plusDI[i], di.minusDI[i]) = DX(DI(u[i], t[i]), DI(d[i], t[i]))
    BY <1>15, Zenon
  <2>2. dx = [i \in 1 .. k |-> DX(DI(u[i], t[i]), DI(d[i], t[i]))]
    BY <1>14, <2>1, Zenon
  <2> QED BY <2>2, Zenon DEF IsStrength
<1>17. PICK adx : adx = smoothSeries(dx, period)
  OBVIOUS
<1>18. calculateADX(prices, period) =
         [adx |-> Last(adx), trending |-> Above(Last(adx), Whole(25)),
          sustainedPeriods |-> calculateSustainedPeriods(adx, Whole(25), "up")]
  BY <1>13, <1>14, <1>15, <1>17, Zenon DEF calculateADX, DX
<1>19. calculateADX(prices, period).adx = Last(adx)
  BY <1>18
<1> QED BY <1>8, <1>9, <1>10, <1>16, <1>17, <1>19, Zenon

\* A start is quiet when none of its directional moves is a number other than zero.
LEMMA QuietIsZeros ==
  ASSUME NEW prices \in Seq(Chart), NEW n \in Nat \ {0}, Len(prices) = n + 1, NEW period \in 1 .. n,
         NEW tr, NEW up, NEW down, IsTrendOf(tr, up, down, prices, n)
  PROVE  Quiet(SubSeq(prices, 1, period + 1)) <=> \A j \in 1 .. period : up[j] \in Zeros /\ down[j] \in Zeros
<1>1. PICK q : q = SubSeq(prices, 1, period + 1)
  OBVIOUS
<1>2. Len(q) = period + 1 /\ \A i \in 1 .. period + 1 : q[i] = prices[i]
  <2>1. PICK l \in Nat : l = period + 1 /\ l <= Len(prices)
    OBVIOUS
  <2>2. \A i \in 1 .. l : prices[i] \in Chart
    BY <2>1
  <2>3. /\ Len(SubSeq(prices, 1, l)) = IF 1 <= l THEN l - 1 + 1 ELSE 0
        /\ \A i \in 1 .. l - 1 + 1 : SubSeq(prices, 1, l)[i] = prices[1 + i - 1]
    BY <2>2, SubSeqProperties
  <2>4. l - 1 + 1 = l /\ 1 <= l /\ \A i \in 1 .. l : 1 + i - 1 = i
    BY <2>1
  <2>5. Len(q) = l
    BY <1>1, <2>1, <2>3, <2>4, Zenon
  <2>6. ASSUME NEW i \in 1 .. l PROVE q[i] = prices[i]
    BY <1>1, <2>1, <2>3, <2>4, Zenon
  <2> QED BY <2>1, <2>5, <2>6, Zenon
<1> DEFINE Still(i) == plusDM(prices[i], prices[i - 1]) = 0 /\ minusDM(prices[i], prices[i - 1]) = 0
<1>3. ASSUME NEW i \in 2 .. period + 1
      PROVE  Still(i) <=> up[i - 1] \in Zeros /\ down[i - 1] \in Zeros
  <2>1. PICK j \in 1 .. n : j = i - 1 /\ i = j + 1
    OBVIOUS
  <2>2. PICK c \in Chart, before \in Chart : c = prices[i] /\ before = prices[j]
    <3>1. i \in 1 .. Len(prices) /\ j \in 1 .. Len(prices)
      BY <2>1
    <3>2. prices[i] \in Chart /\ prices[j] \in Chart
      BY <3>1
    <3> QED BY <3>2, Zenon
  <2>3. PICK x \in Nat, y \in Nat : x = plusDM(c, before) /\ y = minusDM(c, before)
    BY MovesHaveRange
  <2>4. up[j] = Whole(plusDM(prices[j + 1], prices[j])) /\ down[j] = Whole(minusDM(prices[j + 1], prices[j]))
    BY <2>1, Zenon DEF IsTrendOf
  <2>5. up[j] = Whole(x) /\ down[j] = Whole(y)
    BY <2>1, <2>2, <2>3, <2>4, Zenon
  <2>6. (Whole(x) \in Zeros <=> x = 0) /\ (Whole(y) \in Zeros <=> y = 0)
    BY DEF Whole, Zeros
  <2>7. Still(i) <=> x = 0 /\ y = 0
    BY <2>1, <2>2, <2>3, Zenon
  <2> HIDE DEF Still
  <2> QED BY <2>1, <2>5, <2>6, <2>7, Zenon
<1>4. Quiet(q) <=> \A i \in 2 .. period + 1 : Still(i)
  <2>1. ASSUME NEW i \in 2 .. period + 1 PROVE q[i] = prices[i] /\ q[i - 1] = prices[i - 1]
    <3>1. i \in 1 .. period + 1 /\ i - 1 \in 1 .. period + 1
      OBVIOUS
    <3> QED BY <1>2, <3>1
  <2>2. \A i \in 2 .. period + 1 :
          (plusDM(q[i], q[i - 1]) = 0 /\ minusDM(q[i], q[i - 1]) = 0) <=> Still(i)
    BY <2>1, Zenon
  <2> HIDE DEF Still
  <2> QED BY <1>2, <2>2, Zenon DEF Quiet
<1> HIDE DEF Still
<1>5. ASSUME Quiet(q), NEW j \in 1 .. period PROVE up[j] \in Zeros /\ down[j] \in Zeros
  <2>1. PICK i \in 2 .. period + 1 : i = j + 1 /\ i - 1 = j
    OBVIOUS
  <2>2. up[i - 1] \in Zeros /\ down[i - 1] \in Zeros
    BY <1>3, <1>4, <1>5
  <2> QED BY <2>1, <2>2, Zenon
<1>6. ASSUME \A j \in 1 .. period : up[j] \in Zeros /\ down[j] \in Zeros,
             NEW i \in 2 .. period + 1
      PROVE  Still(i)
  <2>1. i - 1 \in 1 .. period
    OBVIOUS
  <2>2. up[i - 1] \in Zeros /\ down[i - 1] \in Zeros
    BY <1>6, <2>1
  <2> QED BY <1>3, <2>2
<1> QED BY <1>1, <1>4, <1>5, <1>6, Zenon

LEMMA TrendOfQuietStart ==
  ASSUME NEW prices \in Seq(Chart), NEW period \in Nat, period > 1, Len(prices) > period
  PROVE  Quiet(SubSeq(prices, 1, period + 1)) <=> calculateADX(prices, period).adx = NaN
<1>1. PICK n \in Nat \ {0} : Len(prices) = n + 1 /\ period \in 1 .. n
  <2>1. PICK n \in Nat : n = Len(prices) - 1
    OBVIOUS
  <2> QED BY <2>1
<1>2. PICK tr, up, down, t, u, d, dx :
        /\ IsTrendOf(tr, up, down, prices, n)
        /\ t = smoothSeries(tr, period) /\ u = smoothSeries(up, period) /\ d = smoothSeries(down, period)
        /\ IsStrength(dx, t, u, d, Beyond(period, n) + 1)
        /\ calculateADX(prices, period).adx = Last(smoothSeries(dx, period))
  BY <1>1, TrendSeries
<1>3. PICK k \in Nat \ {0} : k = Beyond(period, n) + 1
  <2>1. Beyond(period, n) + 1 \in Nat \ {0}
    BY DEF Beyond
  <2> QED BY <2>1
<1>4. /\ tr \in Seq(Numbers) /\ up \in Seq(Numbers) /\ down \in Seq(Numbers)
      /\ Len(tr) = n /\ Len(up) = n /\ Len(down) = n
  BY <1>2, Zenon DEF IsTrendOf
<1>5. Smaller(period, n) = period
  BY <1>1 DEF Smaller
<1>6. /\ t \in Seq(Numbers) /\ u \in Seq(Numbers) /\ d \in Seq(Numbers)
      /\ Len(t) = k /\ Len(u) = k /\ Len(d) = k
  <2>1. t \in Seq(Numbers) /\ u \in Seq(Numbers) /\ d \in Seq(Numbers)
    BY <1>2, <1>4, SmoothedNumbers
  <2>2. tr \in Seq(Counts) /\ up \in Seq(Counts) /\ down \in Seq(Counts)
    BY <1>4, KindsOfNumbers
  <2>3. Len(t) = k /\ Len(u) = k /\ Len(d) = k
    BY <1>2, <1>3, <1>4, <2>2, SmoothedLength
  <2> QED BY <2>1, <2>3
<1>7. Len(dx) = k /\ \A i \in 1 .. k : dx[i] = DX(DI(u[i], t[i]), DI(d[i], t[i]))
  BY <1>2, <1>3 DEF IsStrength
<1>8. Quiet(SubSeq(prices, 1, period + 1)) <=> \A j \in 1 .. period : up[j] \in Zeros /\ down[j] \in Zeros
  BY <1>1, <1>2, QuietIsZeros
<1>9. ASSUME NEW S, dx \in Seq(S), NEW X, smoothSeries(dx, period) \in Seq(X), S \subseteq Counts
      PROVE  Last(smoothSeries(dx, period)) \in X
  <2>1. dx \in Seq(Counts) /\ Len(dx) # 0
    BY <1>7, <1>9
  <2>2. Len(smoothSeries(dx, period)) = Beyond(period, Len(dx)) + 1
    BY <2>1, SmoothedLength
  <2>3. Beyond(period, Len(dx)) + 1 > 0
    BY <2>1 DEF Beyond
  <2> QED BY <1>9, <2>2, <2>3, LastCandle
<1>10. ASSUME Quiet(SubSeq(prices, 1, period + 1)) PROVE calculateADX(prices, period).adx = NaN
  <2>1. u[1] \in Zeros /\ d[1] \in Zeros
    <3>1. \A j \in 1 .. Smaller(period, Len(up)) : up[j] \in Zeros
      BY <1>4, <1>5, <1>8, <1>10
    <3>2. \A j \in 1 .. Smaller(period, Len(down)) : down[j] \in Zeros
      BY <1>4, <1>5, <1>8, <1>10
    <3> QED BY <1>2, <1>4, <3>1, <3>2, SmoothedZeros
  <2>2. dx[1] = NaN
    <3>1. t[1] \in Numbers /\ u[1] \in Numbers /\ d[1] \in Numbers
      BY <1>6
    <3>2. PICK x, y : x = DI(u[1], t[1]) /\ y = DI(d[1], t[1])
      OBVIOUS
    <3>3. dx[1] = DX(x, y)
      <4>1. 1 \in 1 .. k
        OBVIOUS
      <4> QED BY <1>7, <3>2, <4>1, Zenon
    <3>4. x \in Counts /\ y \in Counts
      BY <3>1, <3>2, IndicatorIn
    <3>5. CASE t[1] \in Positives
      <4>1. x \in Zeros /\ y \in Zeros
        BY <2>1, <3>1, <3>2, <3>5, IndicatorIn
      <4> QED BY <3>3, <3>4, <4>1, IndexIn
    <3>6. CASE t[1] \in Zeros
      <4>1. x = NaN /\ y = NaN
        BY <2>1, <3>1, <3>2, <3>6, IndicatorIn
      <4> QED BY <3>3, <3>4, <4>1, IndexIn
    <3> QED BY <3>1, <3>5, <3>6, KindsOfNumbers
  <2>3. ASSUME NEW i \in 1 .. k PROVE dx[i] \in Counts
    <3>1. t[i] \in Numbers /\ u[i] \in Numbers /\ d[i] \in Numbers
      BY <1>6
    <3>2. DI(u[i], t[i]) \in Counts /\ DI(d[i], t[i]) \in Counts
      BY <3>1, IndicatorIn
    <3> QED BY <1>7, <3>2, IndexIn
  <2>4. dx \in Seq(Counts)
    <3>1. dx = [i \in 1 .. k |-> DX(DI(u[i], t[i]), DI(d[i], t[i]))]
      BY <1>2, <1>3, Zenon DEF IsStrength
    <3> QED BY <1>7, <2>3, <3>1
  <2>5. smoothSeries(dx, period) \in Seq({NaN})
    BY <1>7, <2>2, <2>4, SmoothedNaN
  <2>6. Last(smoothSeries(dx, period)) \in {NaN}
    BY <1>9, <2>4, <2>5
  <2> QED BY <1>2, <2>6
<1>11. ASSUME ~Quiet(SubSeq(prices, 1, period + 1)) PROVE calculateADX(prices, period).adx # NaN
  <2>1. PICK j \in 1 .. period : up[j] \notin Zeros \/ down[j] \notin Zeros
    BY <1>8, <1>11
  <2>2. j \in 1 .. n /\ j <= period
    BY <1>1
  <2>3. up[j] \in Positives \/ down[j] \in Positives
    <3>1. up[j] \in Numbers /\ down[j] \in Numbers
      BY <1>4, <2>2
    <3> QED BY <2>1, <3>1, KindsOfNumbers
  <2>4. tr[j] \in Positives
    <3>1. PICK c \in Chart, before \in Chart : c = prices[j + 1] /\ before = prices[j]
      <4>1. j + 1 \in 1 .. Len(prices) /\ j \in 1 .. Len(prices)
        BY <1>1, <2>2
      <4>2. prices[j + 1] \in Chart /\ prices[j] \in Chart
        BY <4>1
      <4> QED BY <4>2, Zenon
    <3>2. /\ tr[j] = Whole(TrueRange(c, before))
          /\ up[j] = Whole(plusDM(c, before))
          /\ down[j] = Whole(minusDM(c, before))
      BY <1>2, <2>2, <3>1, Zenon DEF IsTrendOf
    <3>3. PICK r \in Nat, x \in Nat, y \in Nat :
            /\ r = TrueRange(c, before) /\ x = plusDM(c, before) /\ y = minusDM(c, before)
            /\ x # 0 => r # 0
            /\ y # 0 => r # 0
      BY MovesHaveRange
    <3>4. \A e \in Nat : Whole(e) \in Positives <=> e # 0
      BY DEF Whole, Positives
    <3> QED BY <2>3, <3>2, <3>3, <3>4, Zenon
  <2>5. t \in Seq(Positives)
    BY <1>2, <1>4, <2>2, <2>4, SmoothedPositives
  <2>6. u \in Seq(Positives) \/ d \in Seq(Positives)
    BY <1>2, <1>4, <2>2, <2>3, SmoothedPositives
  <2>7. ASSUME NEW i \in 1 .. k PROVE dx[i] \in Numbers
    <3>1. t[i] \in Positives /\ t[i] \in Numbers /\ u[i] \in Numbers /\ d[i] \in Numbers
      BY <1>6, <2>5, KindsOfNumbers
    <3>2. u[i] \in Positives \/ d[i] \in Positives
      BY <1>6, <2>6
    <3>3. PICK x \in Numbers, y \in Numbers : /\ x = DI(u[i], t[i]) /\ y = DI(d[i], t[i])
                                              /\ x \in Positives \/ y \in Positives
      BY <3>1, <3>2, IndicatorIn
    <3>4. dx[i] = DX(x, y)
      BY <1>7, <3>3, Zenon
    <3>5. x \in Counts /\ y \in Counts
      BY KindsOfNumbers
    <3> QED BY <3>3, <3>4, <3>5, IndexIn
  <2>8. dx \in Seq(Numbers)
    <3>1. dx = [i \in 1 .. k |-> DX(DI(u[i], t[i]), DI(d[i], t[i]))]
      BY <1>2, <1>3, Zenon DEF IsStrength
    <3> QED BY <1>7, <2>7, <3>1
  <2>9. smoothSeries(dx, period) \in Seq(Numbers)
    BY <1>7, <2>8, SmoothedNumbers
  <2>10. Last(smoothSeries(dx, period)) \in Numbers
    BY <1>9, <2>8, <2>9, KindsOfNumbers
  <2> QED BY <1>2, <2>10, KindsOfNumbers
<1> QED BY <1>10, <1>11

\* An hourly report has no trend strength exactly when its first period shows no directional
\* movement: after that, adx.service.ts carries the NaN of the first average on.
THEOREM TrendStrengthKnown == Spec => []TrendUnknownIffQuietStart
<1>1. ReportInv => TrendUnknownIffQuietStart
  <2> SUFFICES ASSUME ReportInv, Analysed
               PROVE  Quiet(SubSeq(report.made.medium, 1, Period.adx + 1)) <=> Technical.adx.adx = NaN
    BY DEF TrendUnknownIffQuietStart
  <2>1. PICK medium \in Seq(Chart) : /\ Len(medium) >= Needs.medium
                                     /\ report.made.medium = medium
                                     /\ Technical = Technicals(medium)
    BY ReportOfHours
  <2>2. PICK period \in Nat : period = Period.adx /\ period > 1 /\ Len(medium) > period
    <3>1. Period.adx \in Nat \ {0} /\ Needs.medium \in Nat \ {0} /\ Period.adx < Needs.medium /\ Period.adx > 1
      BY AnalysisAssumption, PeriodsAssumption
    <3> QED BY <2>1, <3>1
  <2>3. Technical.adx = calculateADX(medium, period)
    BY <2>1, <2>2, PartsOfTechnicals, Zenon
  <2>4. Quiet(SubSeq(medium, 1, period + 1)) <=> calculateADX(medium, period).adx = NaN
    BY <2>2, TrendOfQuietStart
  <2> QED BY <2>1, <2>2, <2>3, <2>4, Zenon
<1> QED BY <1>1, CandlesInvariance, PTL
=============================================================================
