--------------------------- MODULE MCPrettyOutput ---------------------------
(* Two short batches and a long one: a short one fills the queue, the      *)
(* long one the byte budget.                                               *)
EXTENDS PrettyOutput

CONSTANTS Short, Long

MCBatches == Short \cup {Long}
MCSize == [b \in MCBatches |-> IF b = Long THEN MaxBytes ELSE 1]
=============================================================================
