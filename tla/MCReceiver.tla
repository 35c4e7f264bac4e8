----------------------------- MODULE MCReceiver -----------------------------
(* Receiver with one slot and one place to wait.                            *)
EXTENDS Receiver, SequencesExt

Order == SetToSeq(Requests)

\* The HTTP requests come first. Requests differ in their kind only, so every
\* behavior of FairSpec is one of these with its requests renamed.
LiveInit ==
    /\ Init
    /\ \A i, j \in DOMAIN Order :
          i < j /\ kind[Order[j]] = "http" => kind[Order[i]] = "http"

LiveSpec == LiveInit /\ [][Next]_vars /\ Fairness
=============================================================================
