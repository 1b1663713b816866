------------------------------- MODULE Ratios -------------------------------
(***************************************************************************)
(* Numbers as the indicators compute them: a quotient of integers <<n, d>> *)
(* in lowest terms with d >= 0. A quotient by zero is no error: <<1, 0>>   *)
(* and <<-1, 0>> stand for the infinities, <<0, 0>> for NaN, of which      *)
(* every comparison is false. Rounding is not modelled.                    *)
(***************************************************************************)
EXTENDS Integers, Sequences, SequencesExt

Gcd[p \in Nat \X Nat] == IF p[2] = 0 THEN p[1] ELSE Gcd[<<p[2], p[1] % p[2]>>]

Magnitude(i) == IF i < 0 THEN -i ELSE i
Larger(a, b) == IF a > b THEN a ELSE b
Smaller(a, b) == IF a < b THEN a ELSE b

\* n / d.
Frac(n, d) ==
  LET g == Gcd[<<Magnitude(n), Magnitude(d)>>]
      s == IF d < 0 THEN -1 ELSE 1
  IN  IF d = 1 THEN <<n, d>> ELSE IF g = 0 THEN <<0, 0>> ELSE <<s * (n \div g), s * (d \div g)>>

Whole(i) == <<i, 1>>
NaN == <<0, 0>>
Plus(p, q) == Frac(p[1] * q[2] + q[1] * p[2], p[2] * q[2])
Minus(p, q) == Plus(p, <<-q[1], q[2]>>)
Times(p, q) == Frac(p[1] * q[1], p[2] * q[2])
Over(p, q) == Frac(p[1] * q[2], p[2] * q[1])
Size(p) == <<Magnitude(p[1]), p[2]>>

Above(p, q) == p[1] * q[2] > q[1] * p[2]
Below(p, q) == Above(q, p)
\* What >= says: false of NaN as well.
AtLeast(p, q) == p # NaN /\ q # NaN /\ p[1] * q[2] >= q[1] * p[2]

\* Math.min(p, 1) and the like; NaN stays NaN.
AtMost(p, bound) == IF Above(p, bound) THEN bound ELSE p
Clamp(p, low, high) == IF Above(p, high) THEN high ELSE IF Below(p, low) THEN low ELSE p

Add(p, q) == Plus(p, q)
SumOf(s) == FoldLeft(Add, Whole(0), s)
MeanOf(s) == Over(SumOf(s), Whole(Len(s)))

\* slice(-n): the last n elements, or all of them.
Recent(s, n) == SubSeq(s, Larger(1, Len(s) - n + 1), Len(s))

\* How many elements at the end of s are TRUE.
TrueAtEnd(s) ==
  LET broken == {i \in DOMAIN s : ~s[i]}
  IN  IF broken = {} THEN Len(s) ELSE Len(s) - Max(broken)
=============================================================================
