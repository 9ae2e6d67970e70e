--------------------------- MODULE MCEligibility ---------------------------
(* A small instance of Eligibility. *)
EXTENDS Eligibility

\* A usual rule and, one group after the other, its odd values.
Unrelaxed == [c \in Relaxed |-> NotStated]
By(n) == [c \in Relaxed |-> IF c = "SC" THEN n ELSE NotStated]
Usual == [minimum |-> 18, maximum |-> 38, cutoff |-> 1, direct |-> By(5),
          mapped |-> Unrelaxed, months |-> NotStated, years |-> 1, other |-> NotStated,
          qualification |-> 1, domicile |-> 1]
Odd(n) == {NotStated, Text, n}
SomeRules ==
    {[Usual EXCEPT !.minimum = n, !.maximum = x] : n \in Odd(18), x \in Odd(38)}
    \cup {[Usual EXCEPT !.cutoff = x] : x \in Odd(1)}
    \cup {[Usual EXCEPT !.direct = By(n), !.mapped = By(x)] :
              n \in Odd(5), x \in {NotStated, 3, -1}}
    \cup {[Usual EXCEPT !.months = n, !.years = x, !.other = y] :
              n \in Odd(6), x \in Odd(1), y \in {NotStated, Text}}
    \cup {[Usual EXCEPT !.qualification = n, !.domicile = x] : n \in Odd(1), x \in Odd(1)}
Typical == [age |-> 20, category |-> "GENERAL", matches |-> TRUE, resident |-> TRUE,
            experience |-> 12]
People ==
    {[Typical EXCEPT !.age = n, !.category = c] :
        n \in {17, 18, 38, 39, 43, 44}, c \in Categories}
    \cup {[Typical EXCEPT !.matches = x, !.resident = y, !.experience = n] :
             x \in BOOLEAN, y \in BOOLEAN, n \in {5, 6, 11, 12}}
=============================================================================
