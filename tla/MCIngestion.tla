----------------------------- MODULE MCIngestion -----------------------------
(* Ingestion on a small instance: its requests are interchangeable.         *)
EXTENDS Ingestion, TLC

Symmetry == Permutations(Reqs)
==============================================================================
