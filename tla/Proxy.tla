------------------------------- MODULE Proxy -------------------------------
(***************************************************************************)
(* The forwarding proxy of src/src/forward: Router::notify puts a saved    *)
(* batch into the bounded queue of every route it matches, and one worker  *)
(* per route sends it upstream with retries; at shutdown the worker drains *)
(* what is left within a deadline, the interrupted batch first.            *)
(*                                                                         *)
(* The k-th batch that notify offers to a route is the number k. Which     *)
(* signals and service names a batch has is data: notify offers it to any  *)
(* set of routes, one lane after the other; the numbers are the order of   *)
(* those offers, not of the saves. Durations carry no clock. The upstream  *)
(* may take a batch and the answer may still be lost, late or an error;    *)
(* and an export that failed, ran into its timeout or was dropped by the   *)
(* select may have its request on the wire, which the upstream takes at    *)
(* any later moment, or never. Not modelled because they cannot happen: an *)
(* empty request (the filters of notify return None for it) and a channel  *)
(* whose senders are all gone (the ProxyHandle keeps one until the token   *)
(* is cancelled).                                                          *)
(***************************************************************************)
EXTENDS Integers, Sequences, FiniteSets, RouteClient

CONSTANTS Routes,      \* the configured routes
          Capacity,    \* the capacity of a route's queue
          RetryMax,    \* retry_max: attempts after the first one
          MaxBatches   \* bound on the batches offered to a route

ASSUME ProxyAssumption ==
    /\ Capacity \in Nat \ {0}
    /\ RetryMax \in Nat
    /\ MaxBatches \in Nat

\* The batches of a route, by the order of their offers.
Batch == 1..MaxBatches

VARIABLES
    offered,    \* number of batches notify had for the route
    queue,      \* the channel of the route
    closed,     \* receiver.close() was called, or the worker is gone
    w,          \* where the worker of the route is
    cur,        \* the batch it has taken from the queue, 0 for none
    attempt,    \* attempts made at it before this one
    taken,      \* the upstream has taken the attempt in progress
    abandoned,  \* local counter of drain_remaining
    deadline,   \* the drain's deadline token is cancelled
    shutdown,   \* the shutdown token is cancelled
    sent, failed, dropped,   \* the route's metrics
    took,       \* how often the upstream took a batch
    late        \* requests of a batch the worker has given up, still on the wire

worker == <<w, cur, attempt, taken, abandoned>>
metrics == <<sent, failed, dropped>>
upstream == <<took, late>>
vars == <<offered, queue, closed, worker, deadline, shutdown, metrics, upstream>>

Worker == {"recv", "attempt", "export", "backoff", "close", "drain",
           "drainExport", "stopped"}

\* c is one of the counters above, r the route it counts for.
Inc(c, r) == [c EXCEPT ![r] = @ + 1]

Init ==
    /\ offered = [r \in Routes |-> 0]
    /\ queue = [r \in Routes |-> <<>>]
    /\ closed = [r \in Routes |-> FALSE]
    /\ w = [r \in Routes |-> "recv"]
    /\ cur = [r \in Routes |-> 0]
    /\ attempt = [r \in Routes |-> 0]
    /\ taken = [r \in Routes |-> FALSE]
    /\ abandoned = [r \in Routes |-> 0]
    /\ deadline = [r \in Routes |-> FALSE]
    /\ shutdown = FALSE
    /\ sent = [r \in Routes |-> 0]
    /\ failed = [r \in Routes |-> 0]
    /\ dropped = [r \in Routes |-> 0]
    /\ took = [r \in Routes |-> [b \in Batch |-> 0]]
    /\ late = [r \in Routes |-> [b \in Batch |-> 0]]

\* A batch refused by a closed queue is not counted.
Notify_ClosedUncounted(r) ==
    /\ offered[r] < MaxBatches
    /\ offered' = Inc(offered, r)
    /\ IF closed[r] \/ Len(queue[r]) = Capacity
       THEN dropped' = (IF closed[r] THEN dropped ELSE Inc(dropped, r)) /\ UNCHANGED queue
       ELSE queue' = [queue EXCEPT ![r] = Append(@, offered[r] + 1)] /\ UNCHANGED dropped
    /\ UNCHANGED <<closed, worker, deadline, shutdown, sent, failed, upstream>>

\* One lane of notify that the batch matches: try_send, or count a drop when
\* the queue is full or closed.
Notify(r) ==
    /\ offered[r] < MaxBatches
    /\ offered' = Inc(offered, r)
    /\ IF closed[r] \/ Len(queue[r]) = Capacity
       THEN dropped' = Inc(dropped, r) /\ UNCHANGED queue
       ELSE queue' = [queue EXCEPT ![r] = Append(@, offered[r] + 1)] /\ UNCHANGED dropped
    /\ UNCHANGED <<closed, worker, deadline, shutdown, sent, failed, upstream>>

Shutdown ==
    /\ ~ shutdown
    /\ shutdown' = TRUE
    /\ UNCHANGED <<offered, queue, closed, worker, deadline, metrics, upstream>>

\* The select of run is biased: a cancelled token wins over the queue.
Recv(r) ==
    /\ w[r] = "recv"
    /\ ~ shutdown
    /\ queue[r] # <<>>
    /\ cur' = [cur EXCEPT ![r] = Head(queue[r])]
    /\ queue' = [queue EXCEPT ![r] = Tail(@)]
    /\ attempt' = [attempt EXCEPT ![r] = 0]
    /\ w' = [w EXCEPT ![r] = "attempt"]
    /\ UNCHANGED <<offered, closed, taken, abandoned, deadline, shutdown, metrics, upstream>>

\* An idle worker stops at once, without the drain.
RecvShutdown_NoDrain(r) ==
    /\ w[r] = "recv"
    /\ shutdown
    /\ w' = [w EXCEPT ![r] = "stopped"]
    /\ UNCHANGED <<offered, queue, closed, cur, attempt, taken, abandoned, deadline, shutdown, metrics, upstream>>

RecvShutdown(r) ==
    /\ w[r] = "recv"
    /\ shutdown
    /\ w' = [w EXCEPT ![r] = "close"]
    /\ UNCHANGED <<offered, queue, closed, cur, attempt, taken, abandoned, deadline, shutdown, metrics, upstream>>

\* send_with_retry, top of the loop: start an export unless cancelled.
Attempt(r) ==
    /\ w[r] = "attempt"
    /\ ~ shutdown
    /\ w' = [w EXCEPT ![r] = "export"]
    /\ taken' = [taken EXCEPT ![r] = FALSE]
    /\ UNCHANGED <<offered, queue, closed, cur, attempt, abandoned, deadline, shutdown, metrics, upstream>>

\* The upstream takes the batch of the export in progress.
UpstreamTakes(r) ==
    /\ w[r] \in {"export", "drainExport"}
    /\ ~ taken[r]
    /\ taken' = [taken EXCEPT ![r] = TRUE]
    /\ took' = [took EXCEPT ![r][cur[r]] = @ + 1]
    /\ UNCHANGED <<offered, queue, closed, w, cur, attempt, abandoned, deadline, shutdown, metrics, late>>

\* The worker turns away from the export in progress without a success: what
\* the upstream has not taken of it may still be on the wire.
GiveUp(r) ==
    /\ late' = [late EXCEPT ![r][cur[r]] = IF taken[r] THEN @ ELSE @ + 1]
    /\ UNCHANGED took

\* The upstream takes a request that the worker has given up.
UpstreamTakesLate(r, b) ==
    /\ late[r][b] > 0
    /\ late' = [late EXCEPT ![r][b] = @ - 1]
    /\ took' = [took EXCEPT ![r][b] = @ + 1]
    /\ UNCHANGED <<offered, queue, closed, worker, deadline, shutdown, metrics>>

\* The batch in hand is settled and the worker goes back to its loop.
Settle(r, next) ==
    /\ cur' = [cur EXCEPT ![r] = 0]
    /\ w' = [w EXCEPT ![r] = next]

ExportOk(r) ==
    /\ w[r] = "export"
    /\ ~ shutdown
    /\ taken[r]
    /\ sent' = Inc(sent, r)
    /\ Settle(r, "recv")
    /\ UNCHANGED <<offered, queue, closed, attempt, taken, abandoned, deadline, shutdown, failed, dropped, upstream>>

\* The export ends in a failure f that may be retried, with attempts left.
ExportRetry(r, f) ==
    /\ w[r] = "export"
    /\ ~ shutdown
    /\ Retryable(f) /\ attempt[r] < RetryMax
    /\ attempt' = Inc(attempt, r)
    /\ w' = [w EXCEPT ![r] = "backoff"]
    /\ GiveUp(r)
    /\ UNCHANGED <<offered, queue, closed, cur, taken, abandoned, deadline, shutdown, metrics>>

\* A failure that may not be retried, or that of the last attempt.
ExportFail(r, f) ==
    /\ w[r] = "export"
    /\ ~ shutdown
    /\ ~ Retryable(f) \/ attempt[r] = RetryMax
    /\ failed' = Inc(failed, r)
    /\ Settle(r, "recv")
    /\ GiveUp(r)
    /\ UNCHANGED <<offered, queue, closed, attempt, taken, abandoned, deadline, shutdown, sent, dropped>>

\* The sleep between attempts ends. This select is not biased: it may win
\* against a cancelled token, and the next attempt sees the token then.
BackoffEnd(r) ==
    /\ w[r] = "backoff"
    /\ w' = [w EXCEPT ![r] = "attempt"]
    /\ UNCHANGED <<offered, queue, closed, cur, attempt, taken, abandoned, deadline, shutdown, metrics, upstream>>

\* The interrupted batch is put behind the queue.
Interrupt_ToBack(r) ==
    /\ w[r] \in {"attempt", "export", "backoff"}
    /\ shutdown
    /\ w' = [w EXCEPT ![r] = "close"]
    /\ queue' = [queue EXCEPT ![r] = Append(@, cur[r])]
    /\ cur' = [cur EXCEPT ![r] = 0]
    /\ IF w[r] = "export" THEN GiveUp(r) ELSE UNCHANGED upstream
    /\ UNCHANGED <<offered, closed, attempt, taken, abandoned, deadline, shutdown, metrics>>

\* The token is cancelled before, during or after an attempt: the batch in
\* hand becomes the interrupted one.
Interrupt(r) ==
    /\ w[r] \in {"attempt", "export", "backoff"}
    /\ shutdown
    /\ w' = [w EXCEPT ![r] = "close"]
    /\ IF w[r] = "export" THEN GiveUp(r) ELSE UNCHANGED upstream
    /\ UNCHANGED <<offered, queue, closed, cur, attempt, taken, abandoned, deadline, shutdown, metrics>>

\* receiver.close(); from now on notify sees Closed. The drain's timer starts.
Close(r) ==
    /\ w[r] = "close"
    /\ closed' = [closed EXCEPT ![r] = TRUE]
    /\ w' = [w EXCEPT ![r] = "drain"]
    /\ UNCHANGED <<offered, queue, cur, attempt, taken, abandoned, deadline, shutdown, metrics, upstream>>

DrainDeadline(r) ==
    /\ w[r] \in {"drain", "drainExport"}
    /\ ~ deadline[r]
    /\ deadline' = [deadline EXCEPT ![r] = TRUE]
    /\ UNCHANGED <<offered, queue, closed, worker, shutdown, metrics, upstream>>

\* The batch drain_remaining looks at next, the interrupted one first, and the
\* queue behind it.
NextToDrain(r) == IF cur[r] # 0 THEN cur[r] ELSE Head(queue[r])
QueueBehind(r) == IF cur[r] # 0 THEN queue[r] ELSE Tail(queue[r])

\* One round of the loop: send without retries, or abandon after the deadline.
DrainNext(r) ==
    /\ w[r] = "drain"
    /\ cur[r] # 0 \/ queue[r] # <<>>
    /\ queue' = [queue EXCEPT ![r] = QueueBehind(r)]
    /\ IF deadline[r]
       THEN /\ abandoned' = Inc(abandoned, r)
            /\ cur' = [cur EXCEPT ![r] = 0]
            /\ UNCHANGED <<w, taken>>
       ELSE /\ cur' = [cur EXCEPT ![r] = NextToDrain(r)]
            /\ w' = [w EXCEPT ![r] = "drainExport"]
            /\ taken' = [taken EXCEPT ![r] = FALSE]
            /\ UNCHANGED abandoned
    /\ UNCHANGED <<offered, closed, attempt, deadline, shutdown, metrics, upstream>>

DrainOk(r) ==
    /\ w[r] = "drainExport"
    /\ ~ deadline[r]
    /\ taken[r]
    /\ sent' = Inc(sent, r)
    /\ Settle(r, "drain")
    /\ UNCHANGED <<offered, queue, closed, attempt, taken, abandoned, deadline, shutdown, failed, dropped, upstream>>

DrainFail(r) ==
    /\ w[r] = "drainExport"
    /\ ~ deadline[r]
    /\ failed' = Inc(failed, r)
    /\ Settle(r, "drain")
    /\ GiveUp(r)
    /\ UNCHANGED <<offered, queue, closed, attempt, taken, abandoned, deadline, shutdown, sent, dropped>>

\* The deadline is looked at only once the upstream has reacted.
DrainCancelled_Waits(r) ==
    /\ w[r] = "drainExport"
    /\ deadline[r]
    /\ taken[r]
    /\ abandoned' = Inc(abandoned, r)
    /\ Settle(r, "drain")
    /\ GiveUp(r)
    /\ UNCHANGED <<offered, queue, closed, attempt, taken, deadline, shutdown, metrics>>

\* The deadline cancels the export in progress.
DrainCancelled(r) ==
    /\ w[r] = "drainExport"
    /\ deadline[r]
    /\ abandoned' = Inc(abandoned, r)
    /\ Settle(r, "drain")
    /\ GiveUp(r)
    /\ UNCHANGED <<offered, queue, closed, attempt, taken, deadline, shutdown, metrics>>

\* The iterator is exhausted: the abandoned batches are added to the drops.
DrainEnd(r) ==
    /\ w[r] = "drain"
    /\ cur[r] = 0
    /\ queue[r] = <<>>
    /\ dropped' = [dropped EXCEPT ![r] = @ + abandoned[r]]
    /\ abandoned' = [abandoned EXCEPT ![r] = 0]
    /\ w' = [w EXCEPT ![r] = "stopped"]
    /\ UNCHANGED <<offered, queue, closed, cur, attempt, taken, deadline, shutdown, sent, failed, upstream>>

\* All that a worker does by itself, the answers of the upstream aside.
WorkerStep(r) ==
    \/ Recv(r) \/ RecvShutdown(r) \/ Attempt(r) \/ BackoffEnd(r) \/ Interrupt(r)
    \/ Close(r) \/ DrainNext(r) \/ DrainCancelled(r) \/ DrainEnd(r)

Answer(r) ==
    \/ ExportOk(r) \/ DrainOk(r) \/ DrainFail(r)
    \/ \E f \in Failures : ExportRetry(r, f) \/ ExportFail(r, f)

Done == shutdown /\ \A r \in Routes : w[r] = "stopped" /\ offered[r] = MaxBatches

Next == \/ \E r \in Routes : \/ Notify(r) \/ WorkerStep(r) \/ Answer(r)
                             \/ UpstreamTakes(r) \/ DrainDeadline(r)
                             \/ \E b \in Batch : UpstreamTakesLate(r, b)
        \/ Shutdown
        \/ Done /\ UNCHANGED vars

Spec == Init /\ [][Next]_vars

\* The worker runs and its timers fire; nothing is assumed of the upstream.
Running ==
    \A r \in Routes : WF_vars(WorkerStep(r)) /\ WF_vars(DrainDeadline(r))

FairSpec == Spec /\ Running

\* An export ends: the clients have a request timeout.
Answering == \A r \in Routes : WF_vars(Answer(r))
-----------------------------------------------------------------------------
\* The counters that GET /stats shows for a route: RouteMetrics::snapshot, with
\* the depth of the queue as its capacity less the free places.
Snapshot(r) ==
    [sent_total |-> sent[r], failed_total |-> failed[r], dropped_total |-> dropped[r],
     queue_depth |-> LET free == Capacity - Len(queue[r]) IN Capacity - free]

InHand(r) == IF cur[r] = 0 THEN 0 ELSE 1

TypeOK ==
    /\ offered \in [Routes -> Nat]
    /\ queue \in [Routes -> Seq(Batch)]
    /\ closed \in [Routes -> BOOLEAN]
    /\ w \in [Routes -> Worker]
    /\ cur \in [Routes -> Batch \cup {0}]
    /\ attempt \in [Routes -> 0..RetryMax]
    /\ taken \in [Routes -> BOOLEAN]
    /\ abandoned \in [Routes -> Nat]
    /\ deadline \in [Routes -> BOOLEAN]
    /\ shutdown \in BOOLEAN
    /\ sent \in [Routes -> Nat]
    /\ failed \in [Routes -> Nat]
    /\ dropped \in [Routes -> Nat]
    /\ took \in [Routes -> [Batch -> Nat]]
    /\ late \in [Routes -> [Batch -> Nat]]
    /\ \A r \in Routes : Len(queue[r]) <= Capacity

\* The batches the upstream has taken.
Seen(r) == {b \in Batch : took[r][b] > 0}

\* What GET /stats shows adds up to the batches offered to the route, apart from
\* the one in the worker's hands and those in the drain's own counter; none is
\* left when the worker has stopped. So every batch is counted exactly once,
\* whichever way the shutdown cuts through the retries, and the upstream has
\* taken at least those counted as sent.
Accounted ==
    \A r \in Routes :
        LET s == Snapshot(r)
        IN  /\ s.sent_total + s.failed_total + s.dropped_total + s.queue_depth
                  + abandoned[r] + InHand(r) = offered[r]
            /\ w[r] = "stopped" => s.queue_depth = 0 /\ cur[r] = 0 /\ abandoned[r] = 0
            /\ s.sent_total <= Cardinality(Seen(r))

\* A batch that the worker still has, queued, in hand or interrupted, is never
\* older than one the upstream has: through retries, interruption and drain the
\* exports reach the upstream in the order in which notify offered the batches.
\* Only a request the worker has given up arrives behind a later batch. And the
\* upstream has, now and with all that is still on the wire, no batch more often
\* than its first attempt, the retries and the one attempt of the drain.
OnlyGivenUpOvertaken ==
    \A r \in Routes : \A b \in Batch :
        /\ (\E c \in Seen(r) : b < c) => b # cur[r] /\ \A i \in DOMAIN queue[r] : b # queue[r][i]
        /\ took[r][b] + late[r][b] <= RetryMax + 2

\* The workers stop after a shutdown even when the upstream never answers.
WorkersStop == \A r \in Routes : shutdown ~> w[r] = "stopped"

\* A queued batch does not stay behind: when exports end, in whatever way, the
\* queue of every route empties and the worker has nothing in hand.
QueuesEmpty ==
    Answering => \A r \in Routes : []<>(queue[r] = <<>> /\ cur[r] = 0)
=============================================================================
