----------------------------- MODULE MCDeposits -----------------------------
(* Instances of Deposits for TLC: h1 is a treasury transfer, h2 a contract  *)
(* deposit, h3 a transfer to an HD address, below the minimum; H1 is h1 as *)
(* typed in a ticket.                                                       *)
EXTENDS Deposits, TLC

CONSTANTS u1, u2, h1, h2, h3, H1

MCCanon       == [k \in Keys |-> IF k = H1 THEN h1 ELSE k]
MCSender      == [h \in Hashes |-> IF h = h3 THEN u2 ELSE u1]
MCKind        == [h \in Hashes |-> CASE h = h2 -> "contract"
                                     [] h = h3 -> "hd"
                                     [] OTHER  -> "treasury"]
MCChainAmount == [h \in Hashes |-> IF h = h3 THEN 1 ELSE 3]
=============================================================================
