--------------------------- MODULE MCClaudeUsage ---------------------------
(***************************************************************************)
(* ClaudeUsage with samples that may be exchanged for one another.         *)
(***************************************************************************)
EXTENDS ClaudeUsage, TLC

Symmetry == Permutations(Samples)
=============================================================================
