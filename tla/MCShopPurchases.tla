--------------------------- MODULE MCShopPurchases ---------------------------
(* Instances of ShopPurchases for TLC: p1, p2 and p6 send one request,     *)
(* p3 reuses their key with another body, p4 and p5 have keys of their own, *)
(* p4 of the same user.                                                     *)
EXTENDS ShopPurchases

CONSTANTS u1, u2, k1, k2, k3, p1, p2, p3, p4, p5, p6

MCKeyOf    == [p \in Requests |-> IF p = p4 THEN k2 ELSE IF p = p5 THEN k3 ELSE k1]
MCUserOf   == [k \in Keys |-> IF k = k3 THEN u2 ELSE u1]
MCQuantity == [p \in Requests |-> IF p = p3 THEN 2 ELSE 1]
=============================================================================
