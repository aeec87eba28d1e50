------------------------------ MODULE MCNumbers -------------------------------
(* A small instance of Numbers: every integer of a word, every fraction in    *)
(* lowest terms, a real.                                                     *)
EXTENDS Numbers

MCLiterals ==
  {Fixnum(i) : i \in IntRange} \cup {RealNum}
    \cup {f \in {Rational(s, n, d) : s \in {1, -1}, n \in 1 .. PartMax, d \in 2 .. PartMax} :
            LowestTerms(f.num, f.den)}
=============================================================================
