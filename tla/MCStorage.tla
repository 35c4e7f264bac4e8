----------------------------- MODULE MCStorage -----------------------------
(* Storage on four batches, two days and lines of three cells. The batches *)
(* are interchangeable; the days are too (the clock may go back).           *)
EXTENDS StorageRefinement, TLC

Symm == Permutations(Batches) \cup Permutations(Days)
=============================================================================
