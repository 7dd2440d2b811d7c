---------------------------- MODULE MCTsQueue -----------------------------
(* Instances of TsQueue for TLC: two producers, so that pushes also compete *)
(* with each other, and a few pushes each.                                  *)
EXTENDS TsQueue, TLC

\* The producers are interchangeable (used by the safety runs only).
ProducerSymmetry == Permutations(Producers)
=============================================================================
