----------------------------- MODULE Fractions -----------------------------
(***************************************************************************)
(* Exact fractions in lowest terms, for the values the code keeps in       *)
(* doubles.                                                                *)
(***************************************************************************)
EXTENDS Integers

Fraction == [num : Int, den : Nat \ {0}]

gcd[p \in Nat \X Nat] == IF p[2] = 0 THEN p[1] ELSE gcd[<<p[2], p[1] % p[2]>>]

Abs(n) == IF n < 0 THEN -n ELSE n

lowest[p \in Int \X Int] ==
  LET g == gcd[<<Abs(p[1]), Abs(p[2])>>]
      s == IF p[2] < 0 THEN -1 ELSE 1
  IN  [num |-> (s * p[1]) \div g, den |-> (s * p[2]) \div g]

plus[p \in Fraction \X Fraction] ==
  LET g == gcd[<<p[1].den, p[2].den>>] IN
    lowest[<<p[1].num * (p[2].den \div g) + p[2].num * (p[1].den \div g),
             p[1].den * (p[2].den \div g)>>]

times[p \in Fraction \X Fraction] ==
  LET x == lowest[<<p[1].num, p[2].den>>]
      y == lowest[<<p[2].num, p[1].den>>]
  IN  [num |-> x.num * y.num, den |-> x.den * y.den]

opposite[a \in Fraction] == [a EXCEPT !.num = -@]
inverse[a \in Fraction]  == lowest[<<a.den, a.num>>]

Frac(n, d)  == lowest[<<n, d>>]
Whole(n)    == [num |-> n, den |-> 1]
Zero        == Whole(0)
Plus(a, b)  == plus[<<a, b>>]
Minus(a, b) == plus[<<a, opposite[b]>>]
Times(a, b) == times[<<a, b>>]
Over(a, b)  == times[<<a, inverse[b]>>]
Less(a, b)  == Minus(a, b).num < 0
Floor(a)    == a.num \div a.den
=============================================================================
