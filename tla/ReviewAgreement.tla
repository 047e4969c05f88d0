--------------------------- MODULE ReviewAgreement ---------------------------
(***************************************************************************)
(* Agreement of two reviewers (internal/evalreview/audit.go): Cohen's      *)
(* kappa and the quadratically weighted kappa, on sequences of categories  *)
(* 0 .. categories - 1.  A coefficient is the exact fraction <<p, q>> with *)
(* q > 0; round4 turns it into ten-thousandths.  The code computes in      *)
(* float64, so near a rounding boundary it may differ in the last digit.   *)
(***************************************************************************)
EXTENDS Integers, Sequences, FiniteSetsExt

CountOf(a, category) == Cardinality({i \in DOMAIN a : a[i] = category})

CohenKappa(a, b, categories) ==
    LET n == Len(a)
        agree == Cardinality({i \in DOMAIN a : a[i] = b[i]})
        expected == MapThenSumSet(LAMBDA c : CountOf(a, c) * CountOf(b, c), 0..(categories - 1))
    IN  IF n = 0 \/ n # Len(b) THEN <<0, 1>>
        ELSE IF expected = n * n THEN <<IF agree = n THEN 1 ELSE 0, 1>>
        ELSE <<agree * n - expected, n * n - expected>>

Square(x) == x * x

QuadraticWeightedKappa(a, b, categories) ==
    LET n == Len(a)
        observed == MapThenSumSet(LAMBDA i : Square(a[i] - b[i]), DOMAIN a)
        expected == MapThenSumSet(
                        LAMBDA p : Square(p[1] - p[2]) * CountOf(a, p[1]) * CountOf(b, p[2]),
                        (0..(categories - 1)) \X (0..(categories - 1)))
    IN  IF n = 0 \/ n # Len(b) THEN <<0, 1>>
        ELSE IF expected = 0 THEN <<IF observed = 0 THEN 1 ELSE 0, 1>>
        ELSE <<expected - n * observed, expected>>

\* math.Round of ten thousand times the fraction: halves away from zero.
Round4(f) ==
    IF f[1] >= 0 THEN (20000 * f[1] + f[2]) \div (2 * f[2])
    ELSE -((20000 * (-f[1]) + f[2]) \div (2 * f[2]))
=============================================================================
