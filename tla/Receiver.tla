------------------------------ MODULE Receiver ------------------------------
(***************************************************************************)
(* The path of an OTLP request from its arrival to its answer, and the     *)
(* shutdown that closes it: ReceiveLimits (admission.rs), the HTTP and     *)
(* gRPC handlers (http.rs, grpc.rs), Sink::record_with_permit, the task it *)
(* spawns and Sink::shutdown (sink.rs), server::run and the end of main.   *)
(*                                                                         *)
(* A request is its own batch: a sender's retry is another request. The    *)
(* JSONL file is the set of batches appended to it (Storage models the     *)
(* file itself) and a JSONL output is configured. The semaphore is tokio's *)
(* fair one: a released slot goes to the first waiter, who owns it before  *)
(* it runs again. The admission RwLock has one writer, once: readers get   *)
(* in until the writer queues, and again after it released the lock.       *)
(* Deadlines carry no clock: a timer may fire at any point where it is     *)
(* polled. A handler is dropped only where it awaits.                      *)
(***************************************************************************)
EXTENDS Integers, Sequences, FiniteSets

CONSTANTS Requests,     \* the requests, each with one batch
          MaxInflight,  \* slots of the semaphore
          MaxWaiting    \* max_waiting, eight times MaxInflight in the code

ASSUME ReceiverAssumption ==
    /\ MaxInflight \in Nat \ {0}
    /\ MaxWaiting \in Nat
    /\ IsFiniteSet(Requests)

VARIABLES
    kind,      \* "http" or "grpc": which listener the request came to
    h,         \* where its handler is
    resp,      \* what the sender was told: "none", "ok", "retry" or "reject"
    fault,     \* history: whose fault a failure was, "nobody", "sender" or "receiver"
    permit,    \* who owns a clone of its ReceivePermit: "conn", "task"
    save,      \* where the task that records its batch is
    avail,     \* free slots
    queue,     \* the requests queued in the semaphore
    granted,   \* those whose slot is assigned and who have not run since
    waiting,   \* the atomic counter of WaitingGuard
    guards,    \* the requests whose task holds the admission read lock
    stage,     \* how far server::run and main are
    lines,     \* batches in the JSONL file
    counted,   \* batches the aggregator has ingested
    notified,  \* batches handed to the proxy router
    synced,    \* batches covered by the final fsync
    result     \* the first error of server::run

slots == <<avail, queue, granted, waiting>>
data == <<lines, counted, notified, synced>>
reply == <<resp, fault>>
vars == <<kind, h, reply, permit, save, slots, guards, stage, data, result>>

Handler == {"idle", "enter", "bounced", "joining", "queued", "reading",
            "locking", "saving", "answered", "gone"}
Saving == {"none", "write", "publish", "end", "endErr", "ok", "err"}
Stages == <<"run", "drain", "closing", "locked", "flushed", "released",
            "stopped", "exit">>

StageNo(s) == CHOOSE i \in DOMAIN Stages : Stages[i] = s

\* The process is at stage s or behind it.
Since(s) == StageNo(stage) >= StageNo(s)
-----------------------------------------------------------------------------
(***************************************************************************)
(* Slots. A slot is given back when the last clone of its permit drops.    *)
(***************************************************************************)
\* g is who stays in granted.
ReleaseSlot(g) ==
    \/ /\ queue = <<>>
       /\ avail' = avail + 1
       /\ granted' = g
       /\ UNCHANGED queue
    \/ /\ queue # <<>>
       /\ granted' = g \cup {Head(queue)}
       /\ queue' = Tail(queue)
       /\ UNCHANGED avail

\* Every owner that drops a clone returns the slot.
DropPermit_Twice(r, o) ==
    /\ permit' = [permit EXCEPT ![r] = @ \ {o}]
    /\ IF o \in permit[r] THEN ReleaseSlot(granted) ELSE UNCHANGED <<avail, queue, granted>>

\* Drop owner o's clone of r's permit, if it has one.
DropPermit(r, o) ==
    /\ permit' = [permit EXCEPT ![r] = @ \ {o}]
    /\ IF permit[r] = {o} THEN ReleaseSlot(granted) ELSE UNCHANGED <<avail, queue, granted>>

\* The queue after the waiter r, who has one place in it, has left.
WithoutWaiter(r) ==
    LET i == CHOOSE i \in DOMAIN queue : queue[i] = r
    IN  [j \in 1..(Len(queue) - 1) |-> queue[IF j < i THEN j ELSE j + 1]]
-----------------------------------------------------------------------------
(***************************************************************************)
(* Answers.                                                                *)
(***************************************************************************)
\* The content type, without parameters and in lower case, as it is compared.
ContentTypes == {"absent", "x-protobuf", "json", "other", "not text"}

DetectEncoding(ct) ==
    CASE ct \in {"absent", "x-protobuf"} -> "Protobuf"
      [] ct = "json" -> "Json"
      [] OTHER -> "UnsupportedContentType"

\* What decode_request may fail with.
DecodeError(encoding) == IF encoding = "Protobuf" THEN "BadProtobuf" ELSE "BadJson"

\* The errors that say something about the request itself.
SenderErrors == {"UnsupportedContentType", "BadProtobuf", "BadJson", "BadBody", "BodyTooLarge"}

\* HttpError::into_response
HttpStatus(error) ==
    CASE error = "UnsupportedContentType" -> "415"
      [] error \in {"BadProtobuf", "BadJson", "BadBody"} -> "400"
      [] error = "BodyTooLarge" -> "413"
      [] error \in {"Busy", "BodyTimeout", "Persistence"} -> "503"

\* Admission::call, deadline_exceeded_as_unavailable and persistence_status;
\* the status of a body that does not decode is tonic's choice.
GrpcStatuses(error) ==
    IF error \in {"Busy", "BodyTimeout", "Persistence"} THEN {"Unavailable"}
    ELSE {"Internal", "OutOfRange", "Unknown"}

\* What OTLP lets a sender retry; it drops the batch on anything else.
Retryable == {"429", "502", "503", "504", "Unavailable", "OutOfRange"}

AnswerOk(r) ==
    /\ h' = [h EXCEPT ![r] = "answered"]
    /\ resp' = [resp EXCEPT ![r] = "ok"]
    /\ UNCHANGED fault

AnswerError(r, error) ==
    /\ h' = [h EXCEPT ![r] = "answered"]
    /\ \E status \in IF kind[r] = "http" THEN {HttpStatus(error)} ELSE GrpcStatuses(error) :
          resp' = [resp EXCEPT ![r] = IF status \in Retryable THEN "retry" ELSE "reject"]
    /\ fault' = [fault EXCEPT ![r] = IF error \in SenderErrors THEN "sender" ELSE "receiver"]
-----------------------------------------------------------------------------
Init ==
    /\ kind \in [Requests -> {"http", "grpc"}]
    /\ h = [r \in Requests |-> "idle"]
    /\ resp = [r \in Requests |-> "none"]
    /\ fault = [r \in Requests |-> "nobody"]
    /\ permit = [r \in Requests |-> {}]
    /\ save = [r \in Requests |-> "none"]
    /\ avail = MaxInflight
    /\ queue = <<>>
    /\ granted = {}
    /\ waiting = 0
    /\ guards = {}
    /\ stage = "run"
    /\ lines = {}
    /\ counted = {}
    /\ notified = {}
    /\ synced = {}
    /\ result = "ok"

\* HTTP: detect_encoding refuses the content type before a slot is taken.
Unsupported(r) ==
    /\ stage \in {"run", "drain"}
    /\ h[r] = "idle"
    /\ kind[r] = "http"
    /\ \E ct \in ContentTypes :
          /\ DetectEncoding(ct) = "UnsupportedContentType"
          /\ AnswerError(r, "UnsupportedContentType")
    /\ UNCHANGED <<kind, permit, save, slots, guards, stage, data, result>>

\* admit: try_acquire_owned, without joining the queue.
Arrive(r) ==
    /\ stage \in {"run", "drain"}
    /\ h[r] = "idle"
    /\ IF avail > 0
       THEN /\ avail' = avail - 1
            /\ h' = [h EXCEPT ![r] = "reading"]
            /\ permit' = [permit EXCEPT ![r] = {"conn"}]
       ELSE /\ h' = [h EXCEPT ![r] = "enter"]
            /\ UNCHANGED <<avail, permit>>
    /\ UNCHANGED <<kind, reply, save, queue, granted, waiting, guards, stage, data, result>>

\* WaitingGuard::enter: count first, compare after.
EnterWaiting(r) ==
    /\ h[r] = "enter"
    /\ waiting' = waiting + 1
    /\ h' = [h EXCEPT ![r] = IF waiting + 1 > MaxWaiting THEN "bounced" ELSE "joining"]
    /\ UNCHANGED <<kind, reply, permit, save, avail, queue, granted, guards, stage, data, result>>

\* The guard of a request that did not fit is dropped: Rejected::Busy.
Bounce(r) ==
    /\ h[r] = "bounced"
    /\ waiting' = waiting - 1
    /\ AnswerError(r, "Busy")
    /\ UNCHANGED <<kind, permit, save, avail, queue, granted, guards, stage, data, result>>

\* acquire_owned, first poll: a slot may have become free meanwhile.
Join(r) ==
    /\ h[r] = "joining"
    /\ IF avail > 0
       THEN /\ avail' = avail - 1
            /\ waiting' = waiting - 1
            /\ h' = [h EXCEPT ![r] = "reading"]
            /\ permit' = [permit EXCEPT ![r] = {"conn"}]
            /\ UNCHANGED queue
       ELSE /\ queue' = Append(queue, r)
            /\ h' = [h EXCEPT ![r] = "queued"]
            /\ UNCHANGED <<avail, waiting, permit>>
    /\ UNCHANGED <<kind, reply, save, granted, guards, stage, data, result>>

\* The waiter runs again with its slot; timeout_at polls it before the timer.
Granted(r) ==
    /\ r \in granted
    /\ granted' = granted \ {r}
    /\ waiting' = waiting - 1
    /\ h' = [h EXCEPT ![r] = "reading"]
    /\ permit' = [permit EXCEPT ![r] = {"conn"}]
    /\ UNCHANGED <<kind, reply, save, avail, queue, guards, stage, data, result>>

\* The deadline passes without a slot: Rejected::TimedOut.
WaitTimeout(r) ==
    /\ h[r] = "queued"
    /\ r \notin granted
    /\ queue' = WithoutWaiter(r)
    /\ waiting' = waiting - 1
    /\ AnswerError(r, "Busy")
    /\ UNCHANGED <<kind, permit, save, avail, granted, guards, stage, data, result>>

\* The body is complete and decodes.
BodyRead(r) ==
    /\ h[r] = "reading"
    /\ h' = [h EXCEPT ![r] = "locking"]
    /\ UNCHANGED <<kind, reply, permit, save, slots, guards, stage, data, result>>

\* Only the gRPC server bounds the time a body may take.
BodyTimeout_GrpcOnly(r) ==
    /\ h[r] = "reading"
    /\ kind[r] = "grpc"
    /\ AnswerError(r, "BodyTimeout")
    /\ DropPermit(r, "conn")
    /\ UNCHANGED <<kind, save, waiting, guards, stage, data, result>>

\* The deadline passes before the body is complete.
BodyTimeout(r) ==
    /\ h[r] = "reading"
    /\ AnswerError(r, "BodyTimeout")
    /\ DropPermit(r, "conn")
    /\ UNCHANGED <<kind, save, waiting, guards, stage, data, result>>

\* The body is too large, broken or does not decode.
BodyFail(r) ==
    /\ h[r] = "reading"
    /\ \E ct \in ContentTypes :
          /\ DetectEncoding(ct) # "UnsupportedContentType"
          /\ \E error \in {"BodyTooLarge", "BadBody", DecodeError(DetectEncoding(ct))} :
                AnswerError(r, error)
    /\ DropPermit(r, "conn")
    /\ UNCHANGED <<kind, save, waiting, guards, stage, data, result>>

\* The handler looks at the flag and takes no lock for the task.
Record_NoGuard(r) ==
    /\ h[r] = "locking"
    /\ ~ Since("closing")
    /\ save' = [save EXCEPT ![r] = "write"]
    /\ permit' = [permit EXCEPT ![r] = IF kind[r] = "grpc" THEN {"conn", "task"} ELSE {"task"}]
    /\ h' = [h EXCEPT ![r] = "saving"]
    /\ UNCHANGED <<kind, reply, slots, guards, stage, data, result>>

\* record_with_permit gets the read lock and finds the sink open: the guard
\* and the permit move into a task of their own. The gRPC layer keeps a clone
\* of the permit, the HTTP handler does not.
Record(r) ==
    /\ h[r] = "locking"
    /\ ~ Since("closing")
    /\ guards' = guards \cup {r}
    /\ save' = [save EXCEPT ![r] = "write"]
    /\ permit' = [permit EXCEPT ![r] = IF kind[r] = "grpc" THEN {"conn", "task"} ELSE {"task"}]
    /\ h' = [h EXCEPT ![r] = "saving"]
    /\ UNCHANGED <<kind, reply, slots, stage, data, result>>

\* The lock is free again, but the sink is closed.
RecordRefused(r) ==
    /\ h[r] = "locking"
    /\ Since("released")
    /\ AnswerError(r, "Persistence")
    /\ DropPermit(r, "conn")
    /\ UNCHANGED <<kind, save, waiting, guards, stage, data, result>>

\* The handler's future is dropped because the client went away. Queued: the
\* waiting guard and the place in the queue go with it.
CancelQueued(r) ==
    /\ h[r] = "queued"
    /\ r \notin granted
    /\ h' = [h EXCEPT ![r] = "gone"]
    /\ waiting' = waiting - 1
    /\ queue' = WithoutWaiter(r)
    /\ UNCHANGED <<kind, reply, permit, save, avail, granted, guards, stage, data, result>>

\* With its slot assigned but not yet taken: the slot goes to the next waiter.
CancelGranted(r) ==
    /\ r \in granted
    /\ h' = [h EXCEPT ![r] = "gone"]
    /\ waiting' = waiting - 1
    /\ ReleaseSlot(granted \ {r})
    /\ UNCHANGED <<kind, reply, permit, save, guards, stage, data, result>>

\* Past the queue: the connection's clone of the permit is dropped, and the
\* recording task, if there is one, goes on with its own.
CancelRunning(r) ==
    /\ h[r] \in {"reading", "locking", "saving"}
    /\ h' = [h EXCEPT ![r] = "gone"]
    /\ DropPermit(r, "conn")
    /\ UNCHANGED <<kind, reply, save, waiting, guards, stage, data, result>>
-----------------------------------------------------------------------------
(***************************************************************************)
(* The task of record_admitted.                                            *)
(***************************************************************************)
\* write_jsonl: the append under the writer's mutex, which may fail.
Persist(r) ==
    /\ save[r] = "write"
    /\ \/ lines' = lines \cup {r} /\ save' = [save EXCEPT ![r] = "publish"]
       \/ UNCHANGED lines /\ save' = [save EXCEPT ![r] = "endErr"]
    /\ UNCHANGED <<kind, h, reply, permit, slots, guards, stage, counted, notified, synced, result>>

\* Aggregate, queue the human-readable output (best effort) and notify the
\* proxy, in this order and only after the append.
Publish(r) ==
    /\ save[r] = "publish"
    /\ counted' = counted \cup {r}
    /\ notified' = notified \cup {r}
    /\ save' = [save EXCEPT ![r] = "end"]
    /\ UNCHANGED <<kind, h, reply, permit, slots, guards, stage, lines, synced, result>>

\* A failed save forgets to let go of the admission lock.
EndTask_KeepsGuard(r) ==
    /\ save[r] \in {"end", "endErr"}
    /\ save' = [save EXCEPT ![r] = IF @ = "end" THEN "ok" ELSE "err"]
    /\ guards' = IF save[r] = "end" THEN guards \ {r} ELSE guards
    /\ DropPermit(r, "task")
    /\ UNCHANGED <<kind, h, reply, waiting, stage, data, result>>

\* The task returns: its guard and its clone of the permit are dropped before
\* the handler is woken.
EndTask(r) ==
    /\ save[r] \in {"end", "endErr"}
    /\ save' = [save EXCEPT ![r] = IF @ = "end" THEN "ok" ELSE "err"]
    /\ guards' = guards \ {r}
    /\ DropPermit(r, "task")
    /\ UNCHANGED <<kind, h, reply, waiting, stage, data, result>>

\* The handler keeps the deadline through the save.
Respond_Deadline(r) ==
    /\ h[r] = "saving"
    /\ IF save[r] = "ok" THEN AnswerOk(r) ELSE AnswerError(r, "Persistence")
    /\ DropPermit(r, "conn")
    /\ UNCHANGED <<kind, save, waiting, guards, stage, data, result>>

\* The handler gets the task's result: 200 / Ok, or 503 / Unavailable.
Respond(r) ==
    /\ h[r] = "saving"
    /\ save[r] \in {"ok", "err"}
    /\ IF save[r] = "ok" THEN AnswerOk(r) ELSE AnswerError(r, "Persistence")
    /\ DropPermit(r, "conn")
    /\ UNCHANGED <<kind, save, waiting, guards, stage, data, result>>
-----------------------------------------------------------------------------
(***************************************************************************)
(* server::run and the end of main.                                        *)
(***************************************************************************)
\* join_result: a listener task ended, failed or panicked.
JoinResults == {"ok", "listener"}

\* merge_task_result: the first error stays.
MergeTaskResult(next) == IF result = "ok" THEN next ELSE result

\* shutdown_signal: SIGINT or SIGTERM; the listeners are told to stop accepting.
Signal ==
    /\ stage = "run"
    /\ stage' = "drain"
    /\ UNCHANGED <<kind, h, reply, permit, save, slots, guards, data, result>>

\* A listener ended by itself; the other one is told to stop.
ListenerEnds ==
    /\ stage = "run"
    /\ stage' = "drain"
    /\ result' \in JoinResults
    /\ UNCHANGED <<kind, h, reply, permit, save, slots, guards, data>>

\* The listeners have ended and with them every request: Sink::shutdown asks for
\* the write lock.
DrainDone ==
    /\ stage = "drain"
    /\ \A r \in Requests : h[r] \in {"idle", "answered", "gone"}
    /\ stage' = "closing"
    /\ \E next \in JoinResults : result' = MergeTaskResult(next)
    /\ UNCHANGED <<kind, h, reply, permit, save, slots, guards, data>>

\* A second signal, or the end of SHUTDOWN_GRACE: the listeners are aborted, the
\* connection tasks are left to themselves.
Abandon ==
    /\ stage = "drain"
    /\ stage' = "closing"
    /\ UNCHANGED <<kind, h, reply, permit, save, slots, guards, data, result>>

\* The write lock is granted when no task holds the read lock; *admission =
\* false.
CloseAdmission ==
    /\ stage = "closing"
    /\ guards = {}
    /\ stage' = "locked"
    /\ UNCHANGED <<kind, h, reply, permit, save, slots, guards, data, result>>

\* The final sync_all, still under the write lock, and then the bounded drain
\* of the human-readable writers; a failure is kept unless there is one.
FinalSync ==
    /\ stage = "locked"
    /\ \/ synced' = lines /\ UNCHANGED result
       \/ UNCHANGED synced /\ result' = MergeTaskResult("sync")
    /\ stage' = "flushed"
    /\ UNCHANGED <<kind, h, reply, permit, save, slots, guards, lines, counted, notified>>

\* Sink::shutdown returns and drops the write lock.
ReleaseAdmission ==
    /\ stage = "flushed"
    /\ stage' = "released"
    /\ UNCHANGED <<kind, h, reply, permit, save, slots, guards, data, result>>

\* main cancels the proxy workers and joins them (see Proxy).
StopProxy ==
    /\ stage = "released"
    /\ stage' = "stopped"
    /\ UNCHANGED <<kind, h, reply, permit, save, slots, guards, data, result>>

\* The runtime is shut down; what is left of the handlers is never answered.
Exit ==
    /\ stage = "stopped"
    /\ stage' = "exit"
    /\ UNCHANGED <<kind, h, reply, permit, save, slots, guards, data, result>>

HandlerStep(r) ==
    \/ EnterWaiting(r) \/ Bounce(r) \/ Join(r) \/ Granted(r) \/ WaitTimeout(r)
    \/ BodyTimeout(r) \/ Record(r) \/ RecordRefused(r) \/ Respond(r)

TaskStep(r) == Persist(r) \/ Publish(r) \/ EndTask(r)

ClientStep(r) ==
    \/ Unsupported(r) \/ Arrive(r) \/ BodyRead(r) \/ BodyFail(r)
    \/ CancelQueued(r) \/ CancelGranted(r) \/ CancelRunning(r)

ShutdownStep == DrainDone \/ Abandon \/ CloseAdmission \/ FinalSync \/ ReleaseAdmission
                \/ StopProxy \/ Exit

Next ==
    /\ stage # "exit"
    /\ \/ \E r \in Requests : HandlerStep(r) \/ TaskStep(r) \/ ClientStep(r)
       \/ Signal \/ ListenerEnds
       \/ ShutdownStep

Spec == Init /\ [][Next]_vars

\* Handlers and tasks are scheduled, timers fire, and the disk answers. Nothing
\* is assumed of the clients: a body may never come, a signal neither.
Fairness ==
    /\ \A r \in Requests : WF_vars(stage # "exit" /\ HandlerStep(r))
    /\ \A r \in Requests : WF_vars(stage # "exit" /\ TaskStep(r))
    /\ WF_vars(ShutdownStep)

FairSpec == Spec /\ Fairness
-----------------------------------------------------------------------------
TypeOK ==
    /\ kind \in [Requests -> {"http", "grpc"}]
    /\ h \in [Requests -> Handler]
    /\ resp \in [Requests -> {"none", "ok", "retry", "reject"}]
    /\ fault \in [Requests -> {"nobody", "sender", "receiver"}]
    /\ permit \in [Requests -> SUBSET {"conn", "task"}]
    /\ save \in [Requests -> Saving]
    /\ avail \in 0..MaxInflight
    /\ queue \in Seq(Requests)
    /\ granted \in SUBSET Requests
    /\ waiting \in Nat
    /\ guards \in SUBSET Requests
    /\ stage \in {Stages[i] : i \in DOMAIN Stages}
    /\ lines \in SUBSET Requests
    /\ counted \in SUBSET Requests
    /\ notified \in SUBSET Requests
    /\ synced \in SUBSET Requests
    /\ result \in {"ok", "listener", "sync"}

\* The requests whose body may be in memory: being read, or being saved, with
\* or without a handler left to answer it.
InMemory ==
    {r \in Requests : \/ h[r] \in {"reading", "locking"}
                      \/ save[r] \in {"write", "publish", "end", "endErr"}}

\* Slots and waiting places are neither lost nor made up, however often handlers
\* are cancelled and whichever of the two owners of a permit drops it first: at
\* any time each slot is free, assigned to a waiter or owned through a permit,
\* the counter is the number of those in line, and no more bodies are read or
\* saved at once than there are slots.
SlotsConserved ==
    /\ avail + Cardinality(granted)
          + Cardinality({r \in Requests : permit[r] # {}}) = MaxInflight
    /\ waiting = Cardinality({r \in Requests : h[r] \in {"bounced", "joining", "queued"}})
    /\ queue # <<>> => avail = 0
    /\ Cardinality(InMemory) <= MaxInflight

\* A sender that was told of a failure has no line in the file and nothing in the
\* totals from this request, so its retry is not a duplicate; and it is told to
\* give the batch up only where the batch itself is at fault: being busy, late,
\* shutting down or out of disk never costs a batch whose sender retries.
RetryMeansUnsaved ==
    \A r \in Requests :
        /\ resp[r] \in {"retry", "reject"} => r \notin lines \cup counted
        /\ fault[r] = "receiver" => resp[r] = "retry"

\* A clean exit has synced every batch that was ever acknowledged, those of
\* handlers that outlived their listener too.
CleanExitDurable ==
    Since("flushed") /\ result = "ok" =>
        \A r \in Requests : resp[r] = "ok" => r \in synced

\* A shutdown that has begun ends, whatever clients and bodies are pending.
ShutdownCompletes == stage = "drain" ~> stage = "exit"

\* Every request that arrived is answered, unless its client left or the
\* process ended first.
RequestsSettle ==
    \A r \in Requests :
        h[r] # "idle" ~> (h[r] \in {"answered", "gone"} \/ stage = "exit")
=============================================================================
