------------------------------- MODULE Totals -------------------------------
(***************************************************************************)
(* The sum of a table of naturals, counted out unit by unit: the number of *)
(* pairs of an entry and one of its units.  Unlike a fold it is not        *)
(* recursive, so that theorems about sums follow from those about          *)
(* cardinalities.                                                          *)
(***************************************************************************)
EXTENDS Integers, FiniteSets

Units(f) == UNION {{x} \X (1 .. f[x]) : x \in DOMAIN f}
Total(f) == Cardinality(Units(f))
=============================================================================
