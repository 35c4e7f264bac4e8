------------------------------ MODULE MCFiles ------------------------------
(***************************************************************************)
(* One instance for the two components that share files with other         *)
(* processes and no state with each other, start-up and retention: a       *)
(* behaviour runs one of them, chosen at the start, and the other does     *)
(* nothing.                                                                *)
(***************************************************************************)
EXTENDS MCStartup, MCRetention

VARIABLE part

AnyWorld == CHOOSE w \in Worlds : TRUE

MCInit ==
    /\ part \in {"startup", "retention"}
    /\ Init
    /\ RetentionInit
    /\ part = "retention" => world = AnyWorld

MCNext ==
    \/ part = "startup" /\ Next /\ UNCHANGED <<part, retentionVars>>
    \/ part = "retention" /\ RetentionNext /\ UNCHANGED <<part, vars>>

MCSpec == MCInit /\ [][MCNext]_<<part, vars, retentionVars>>
=============================================================================
