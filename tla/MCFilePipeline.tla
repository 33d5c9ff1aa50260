--------------------------- MODULE MCFilePipeline ----------------------------
(* FilePipeline on small instances.                                         *)
EXTENDS FilePipeline, TLC

Symmetry == Permutations(Reqs)
==============================================================================
