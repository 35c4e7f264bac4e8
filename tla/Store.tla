------------------------------- MODULE Store -------------------------------
(***************************************************************************)
(* What the JSONL store promises to those who send batches and to those    *)
(* who read the files, without files, handles, rollbacks or system calls:  *)
(* a batch is one line of one day, it is there before its sender is told   *)
(* so, one that was refused is never there, and only a power loss takes    *)
(* lines away, and then none that was accepted before a sync of its day.   *)
(***************************************************************************)
CONSTANTS Batches, Days

VARIABLES lines,      \* the <<batch, day>> a reader finds as whole lines
          accepted,   \* those whose sender was told they are saved
          durable,    \* those of accepted that a sync covered
          refused     \* the batches whose sender was told to try again

vars == <<lines, accepted, durable, refused>>

Init == lines = {} /\ accepted = {} /\ durable = {} /\ refused = {}

\* A batch is written once, on one day, and not after it was refused.
Persist(b, d) ==
    /\ b \notin refused
    /\ \A e \in Days : <<b, e>> \notin lines
    /\ lines' = lines \cup {<<b, d>>}
    /\ UNCHANGED <<accepted, durable, refused>>

Accept(b, d) ==
    /\ <<b, d>> \in lines
    /\ accepted' = accepted \cup {<<b, d>>}
    /\ UNCHANGED <<lines, durable, refused>>

Refuse(b) ==
    /\ \A d \in Days : <<b, d>> \notin lines
    /\ refused' = refused \cup {b}
    /\ UNCHANGED <<lines, accepted, durable>>

Sync(d) ==
    /\ durable' = durable \cup {a \in accepted : a[2] = d}
    /\ UNCHANGED <<lines, accepted, refused>>

Lose ==
    /\ lines' \in SUBSET lines
    /\ durable \subseteq lines'
    /\ accepted' = durable
    /\ UNCHANGED <<durable, refused>>

Next ==
    \/ \E b \in Batches, d \in Days : Persist(b, d) \/ Accept(b, d)
    \/ \E b \in Batches : Refuse(b)
    \/ \E d \in Days : Sync(d)
    \/ Lose

Spec == Init /\ [][Next]_vars
=============================================================================
