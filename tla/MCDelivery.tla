----------------------------- MODULE MCDelivery -----------------------------
(* Instances of Delivery for TLC. *)
EXTENDS Delivery

CONSTANTS w1, w2, s1

MCOneStrand == [w \in Writes |-> s1]
=============================================================================
