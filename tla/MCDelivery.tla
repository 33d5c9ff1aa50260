------------------------------ MODULE MCDelivery -----------------------------
(* Delivery on small instances, with numbers in headers on both sides of    *)
(* every boundary.                                                          *)
EXTENDS Delivery, TLC

MCNumbers == -1 .. FileSize + 1

Symmetry == Permutations(Participants) \cup Permutations(Downloads)
==============================================================================
