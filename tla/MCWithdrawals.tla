--------------------------- MODULE MCWithdrawals ---------------------------
(* Instances of Withdrawals for TLC. *)
EXTENDS Withdrawals, SequencesExt

CONSTANTS u1, u2

UserSymmetry == Permutations({u1, u2})

\* The totals of the books are sums.
ASSUME TotalIsSum ==
    \A S \in SUBSET (1 .. 3) : \A f \in [S -> 0 .. 3] :
        Total(f) = FoldFunction(+, 0, f)
=============================================================================
