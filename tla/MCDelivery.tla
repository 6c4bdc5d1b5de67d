----------------------------- MODULE MCDelivery -----------------------------
(* Two users; one may log in twice.                                          *)
EXTENDS Delivery, TLC

CONSTANTS u1, u2, c1, c2, c3

OneReturns == c1 :> u1 @@ c2 :> u2 @@ c3 :> u2
=============================================================================
