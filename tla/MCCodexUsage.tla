---------------------------- MODULE MCCodexUsage ----------------------------
(***************************************************************************)
(* CodexUsage with samples and conversations that may be exchanged.        *)
(***************************************************************************)
EXTENDS CodexUsage, TLC

Symmetry == Permutations(Samples) \cup Permutations(Conversations)
=============================================================================
