---------------------------- MODULE PrettyOutput ----------------------------
(***************************************************************************)
(* One human-readable destination of src/src/sink.rs: PrettyOutput with    *)
(* its two budgets (batches and bytes), the writer task that serialises    *)
(* what is written, and the drain at shutdown. The recording tasks enqueue *)
(* concurrently: the byte counter is added to before it is compared, and   *)
(* the steps of enqueue interleave with each other and with the writer.    *)
(*                                                                         *)
(* A batch is aggregated before it is enqueued (record_admitted). Its text *)
(* is its size; a summary is the set of batches it counts.                 *)
(***************************************************************************)
EXTENDS Integers, Sequences, FiniteSets

CONSTANTS Batches,    \* the batches recorded
          Size,       \* the length of each one's rendered text
          Capacity,   \* PRETTY_QUEUE_CAPACITY
          MaxBytes,   \* PRETTY_QUEUE_MAX_BYTES
          IsStdout,   \* the destination is stdout, not a pretty-log file
          Sync        \* the job of drain, which carries no text

ASSUME PrettyAssumption ==
    /\ IsFiniteSet(Batches)
    /\ Size \in [Batches -> Nat \ {0}]
    /\ Capacity \in Nat \ {0}
    /\ MaxBytes \in Nat
    /\ IsStdout \in BOOLEAN
    /\ Sync \notin Batches

VARIABLES
    st,          \* where the enqueue of each batch is
    saw,         \* what its fetch_add returned
    bytes,       \* queued_bytes
    queue,       \* the channel
    closed,      \* the writer task has ended
    w,           \* where the writer is
    job,         \* the job it has taken
    brokenPipe,  \* PrettyWriterState.broken_pipe
    total,       \* the batches in the aggregator
    snap,        \* the summary taken for the job
    out,         \* what was written: <<batch, summary>> in order
    drain,       \* how the drain at shutdown stands
    dropped,     \* the number of batches dropped
    stopReported,  \* writer_stop_reported
    notices      \* what was logged of it: <<kind, dropped_total>>

drops == <<dropped, stopReported, notices>>
vars == <<st, saw, bytes, queue, closed, w, job, brokenPipe, total, snap, out, drain, drops>>

SizeOf(j) == IF j = Sync THEN 0 ELSE Size[j]

Init ==
    /\ st = [b \in Batches |-> "new"]
    /\ saw = [b \in Batches |-> 0]
    /\ bytes = 0
    /\ queue = <<>>
    /\ closed = FALSE
    /\ w = "recv"
    /\ job = Sync
    /\ brokenPipe = FALSE
    /\ total = {}
    /\ snap = {}
    /\ out = <<>>
    /\ drain = "no"
    /\ dropped = 0
    /\ stopReported = FALSE
    /\ notices = {}

\* The batch is counted before it is queued for output.
Aggregate(b) ==
    /\ st[b] = "new"
    /\ drain = "no"
    /\ total' = total \cup {b}
    /\ st' = [st EXCEPT ![b] = "counted"]
    /\ UNCHANGED <<saw, bytes, queue, closed, w, job, brokenPipe, snap, out, drain, drops>>

\* queued_bytes.fetch_add
AddBytes(b) ==
    /\ st[b] = "counted"
    /\ saw' = [saw EXCEPT ![b] = bytes]
    /\ bytes' = bytes + Size[b]
    /\ st' = [st EXCEPT ![b] = "added"]
    /\ UNCHANGED <<queue, closed, w, job, brokenPipe, total, snap, out, drain, drops>>

\* The closed channel (DropReason::WriterStopped) and then the byte budget, judged
\* by what the fetch_add returned.
CheckBudget(b) ==
    /\ st[b] = "added"
    /\ st' = [st EXCEPT ![b] = IF closed THEN "stopped"
                              ELSE IF saw[b] + Size[b] > MaxBytes THEN "behind" ELSE "send"]
    /\ UNCHANGED <<saw, bytes, queue, closed, w, job, brokenPipe, total, snap, out, drain, drops>>

\* try_send
TrySend(b) ==
    /\ st[b] = "send"
    /\ IF closed \/ Len(queue) = Capacity
       THEN st' = [st EXCEPT ![b] = IF closed THEN "stopped" ELSE "behind"] /\ UNCHANGED queue
       ELSE st' = [st EXCEPT ![b] = "queued"] /\ queue' = Append(queue, b)
    /\ UNCHANGED <<saw, bytes, closed, w, job, brokenPipe, total, snap, out, drain, drops>>

SubBytes_Forgotten(b) ==
    /\ st[b] \in {"behind", "stopped"}
    /\ st' = [st EXCEPT ![b] = IF @ = "stopped" THEN "countStopped" ELSE "countBehind"]
    /\ UNCHANGED <<saw, bytes, queue, closed, w, job, brokenPipe, total, snap, out, drain, drops>>

\* A dropped batch gives its bytes back.
SubBytes(b) ==
    /\ st[b] \in {"behind", "stopped"}
    /\ bytes' = bytes - Size[b]
    /\ st' = [st EXCEPT ![b] = IF @ = "stopped" THEN "countStopped" ELSE "countBehind"]
    /\ UNCHANGED <<saw, queue, closed, w, job, brokenPipe, total, snap, out, drain, drops>>

PowersOfTwo == {2^k : k \in 0..Cardinality(Batches)}

\* report_drop: dropped.fetch_add, and the notice that the writer is behind when
\* the number is a power of two.
ReportBehind(b) ==
    /\ st[b] = "countBehind"
    /\ dropped' = dropped + 1
    /\ notices' = IF dropped + 1 \in PowersOfTwo THEN notices \cup {<<"behind", dropped + 1>>} ELSE notices
    /\ st' = [st EXCEPT ![b] = "dropped"]
    /\ UNCHANGED <<saw, bytes, queue, closed, w, job, brokenPipe, total, snap, out, drain, stopReported>>

\* report_drop for a writer that has stopped: the number, and then the flag.
CountStopped(b) ==
    /\ st[b] = "countStopped"
    /\ dropped' = dropped + 1
    /\ saw' = [saw EXCEPT ![b] = dropped + 1]
    /\ st' = [st EXCEPT ![b] = "reportStopped"]
    /\ UNCHANGED <<bytes, queue, closed, w, job, brokenPipe, total, snap, out, drain, stopReported, notices>>

\* The stop is thinned out like the rest.
ReportStopped_Thinned(b) ==
    /\ st[b] = "reportStopped"
    /\ stopReported' = TRUE
    /\ notices' = IF saw[b] \in PowersOfTwo
                  THEN notices \cup {<<IF stopReported THEN "still" ELSE "stopped", saw[b]>>} ELSE notices
    /\ st' = [st EXCEPT ![b] = "dropped"]
    /\ UNCHANGED <<saw, bytes, queue, closed, w, job, brokenPipe, total, snap, out, drain, dropped>>

\* writer_stop_reported.swap: the first one is logged whatever its number is.
ReportStopped(b) ==
    /\ st[b] = "reportStopped"
    /\ stopReported' = TRUE
    /\ notices' = IF ~ stopReported THEN notices \cup {<<"stopped", saw[b]>>}
                  ELSE IF saw[b] \in PowersOfTwo THEN notices \cup {<<"still", saw[b]>>}
                  ELSE notices
    /\ st' = [st EXCEPT ![b] = "dropped"]
    /\ UNCHANGED <<saw, bytes, queue, closed, w, job, brokenPipe, total, snap, out, drain, dropped>>
-----------------------------------------------------------------------------
\* rx.recv().await, and the summary taken just before the write. With a broken
\* pipe, and for the job of drain, nothing is written.
Recv ==
    /\ w = "recv"
    /\ ~ closed
    /\ queue # <<>>
    /\ job' = Head(queue)
    /\ queue' = Tail(queue)
    /\ IF brokenPipe \/ Head(queue) = Sync
       THEN w' = "free" /\ UNCHANGED snap
       ELSE w' = "write" /\ snap' = total
    /\ UNCHANGED <<st, saw, bytes, closed, brokenPipe, total, out, drain, drops>>

\* The summary knows only what its own enqueue had counted.
WriteEnd_OwnSummary ==
    /\ w = "write"
    /\ out' \in {out, Append(out, <<job, {job}>>)}
    /\ w' = "free"
    /\ UNCHANGED <<st, saw, bytes, queue, closed, job, brokenPipe, total, snap, drain, drops>>

\* The write returns: everything, or an error that loses this batch only.
WriteEnd ==
    /\ w = "write"
    /\ out' \in {out, Append(out, <<job, snap>>)}
    /\ w' = "free"
    /\ UNCHANGED <<st, saw, bytes, queue, closed, job, brokenPipe, total, snap, drain, drops>>

\* The reader of stdout is gone: nothing is written to it any more.
WriteBrokenPipe ==
    /\ w = "write"
    /\ IsStdout
    /\ brokenPipe' = TRUE
    /\ w' = "free"
    /\ UNCHANGED <<st, saw, bytes, queue, closed, job, total, snap, out, drain, drops>>

\* The job's bytes are given back, and the drain is told if it is its job.
Free ==
    /\ w = "free"
    /\ bytes' = bytes - SizeOf(job)
    /\ drain' = IF job = Sync /\ drain = "wait" THEN "drained" ELSE drain
    /\ w' = "recv"
    /\ UNCHANGED <<st, saw, queue, closed, job, brokenPipe, total, snap, out, drops>>

\* A panic of the writer task closes the channel with all that is in it.
WriterDies ==
    /\ ~ closed
    /\ closed' = TRUE
    /\ queue' = <<>>
    /\ w' = "dead"
    /\ drain' = IF drain = "wait" THEN "stopped" ELSE drain
    /\ UNCHANGED <<st, saw, bytes, job, brokenPipe, total, snap, out, drops>>
-----------------------------------------------------------------------------
\* Sink::flush runs when no recording task is left (see Receiver).
DrainBegin ==
    /\ drain = "no"
    /\ \A b \in Batches : st[b] \in {"new", "queued", "dropped"}
    /\ drain' = "send"
    /\ UNCHANGED <<st, saw, bytes, queue, closed, w, job, brokenPipe, total, snap, out, drops>>

\* send(job).await waits for room, unless the channel is closed.
DrainSend ==
    /\ drain = "send"
    /\ IF closed
       THEN drain' = "stopped" /\ UNCHANGED queue
       ELSE /\ Len(queue) < Capacity
            /\ queue' = Append(queue, Sync)
            /\ drain' = "wait"
    /\ UNCHANGED <<st, saw, bytes, closed, w, job, brokenPipe, total, snap, out, drops>>

\* Only the wait for the answer is bounded, not the send.
DrainLate_NotWhileSending ==
    /\ drain = "wait"
    /\ drain' = "late"
    /\ UNCHANGED <<st, saw, bytes, queue, closed, w, job, brokenPipe, total, snap, out, drops>>

\* drain_pretty_until: the deadline covers both the send and the answer.
DrainLate ==
    /\ drain \in {"send", "wait"}
    /\ drain' = "late"
    /\ UNCHANGED <<st, saw, bytes, queue, closed, w, job, brokenPipe, total, snap, out, drops>>

Ended == drain \in {"drained", "stopped", "late"}

Next == \/ \E b \in Batches : \/ Aggregate(b) \/ AddBytes(b) \/ CheckBudget(b)
                              \/ TrySend(b) \/ SubBytes(b) \/ ReportBehind(b)
                              \/ CountStopped(b) \/ ReportStopped(b)
        \/ Recv \/ WriteEnd \/ WriteBrokenPipe \/ Free \/ WriterDies
        \/ DrainBegin \/ DrainSend \/ DrainLate
        \/ Ended /\ UNCHANGED vars

Spec == Init /\ [][Next]_vars

\* The deadline of the drain passes; a write may block for ever.
FairSpec == Spec /\ WF_vars(DrainLate)
-----------------------------------------------------------------------------
TypeOK ==
    /\ st \in [Batches -> {"new", "counted", "added", "send", "queued", "behind", "stopped",
                         "countBehind", "countStopped", "reportStopped", "dropped"}]
    /\ saw \in [Batches -> Nat]
    /\ bytes \in Nat
    /\ queue \in Seq(Batches \cup {Sync}) /\ Len(queue) <= Capacity
    /\ closed \in BOOLEAN /\ brokenPipe \in BOOLEAN
    /\ w \in {"recv", "write", "free", "dead"}
    /\ job \in Batches \cup {Sync}
    /\ total \in SUBSET Batches /\ snap \in SUBSET Batches
    /\ out \in Seq(Batches \X SUBSET Batches)
    /\ drain \in {"no", "send", "wait", "drained", "stopped", "late"}
    /\ dropped \in Nat /\ stopReported \in BOOLEAN
    /\ notices \in SUBSET ({"behind", "stopped", "still"} \X Nat)

\* The batches whose text is in memory: queued, or taken and not yet freed.
Held == {b \in Batches : \/ \E i \in DOMAIN queue : queue[i] = b
                         \/ w \in {"write", "free"} /\ job = b}

\* The bytes of the texts of S, each one told apart, and how many there are.
TextBytes(S) == UNION {{b} \X (1..Size[b]) : b \in S}

SumSize(S) == Cardinality(TextBytes(S))

\* The text held for a destination never exceeds its byte budget, although the
\* budget is checked against a counter that other tasks change meanwhile; and
\* while the writer lives the counter is the text held plus that of the enqueues
\* under way: it returns to zero, and is never lost or negative.
BytesExact ==
    /\ SumSize(Held) <= MaxBytes
    /\ ~ closed => bytes = SumSize(Held)
                           + SumSize({b \in Batches : st[b] \in {"added", "send", "behind", "stopped"}})

\* What is lost is said: once no enqueue is under way, the drops are counted,
\* there is a notice for every power of two up to their number, and a writer
\* that has stopped was reported exactly once as soon as a batch found it so,
\* however many tasks find it at the same time.
DropsNoticed ==
    (\A b \in Batches : st[b] \in {"new", "queued", "dropped"}) =>
        /\ dropped = Cardinality({b \in Batches : st[b] = "dropped"})
        /\ \A n \in 1..dropped : n \in PowersOfTwo => \E notice \in notices : notice[2] = n
        /\ Cardinality({notice \in notices : notice[1] = "stopped"}) = IF stopReported THEN 1 ELSE 0

\* The totals printed after a batch count that batch, and they never go back
\* from one output to the next, although tasks aggregate and enqueue in
\* different orders.
SummariesMonotone ==
    /\ \A i \in DOMAIN out : out[i][1] \in out[i][2]
    /\ \A i \in 1..(Len(out) - 1) : out[i][2] \subseteq out[i+1][2]

\* The shutdown gets past the drain even when a write never returns.
DrainEnds == drain = "send" ~> Ended
=============================================================================
