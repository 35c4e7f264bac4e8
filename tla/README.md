# otel-logger in TLA+

A verification project for otel-logger, a local OTLP receiver that writes every batch it is sent to
a JSONL file of the day, keeps usage totals of Claude Code and Codex, prints a readable form, and
forwards batches to upstream collectors. TLC checks the models on small instances; TLAPS proves all
safety properties of the stateful components, but for one, for every value of the constants.
`PROJECT.json` lists runs, mutants, the map from definitions to source lines, findings, hazards and
theorems.

    tlc -workers 2 -config MCStorage.cfg MCStorage      # one run
    tlapm StorageProofs.tla                             # one proof module

## Inventory

| Component | State it keeps | Operations | Hard behaviour |
|---|---|---|---|
| JSONL storage (`storage.rs`) | the open daily file, its date, a rollback offset | append, repair, rotate, flush, open | a write that fails half way, a rollback that fails too, crash, power loss |
| Tail recovery (`storage.rs`) | a read position in the file | chunked backward scan, truncate | newline at a chunk boundary, read errors |
| Admission (`admission.rs`) | semaphore, waiting counter | admit, wait, release | cancelled waiters, a permit that outlives its handler |
| Receivers (`http.rs`, `grpc.rs`) | one handler per request | admit, read, decode, record, answer | disconnects, deadlines, answers that must match what was saved |
| Server lifecycle (`server.rs`, `main.rs`) | the stage of shutdown | signal, drain, close, fsync, stop proxy | connection tasks that survive, bodies that never end |
| Sink (`sink.rs`) | admission lock, outputs, retention state | record, shutdown, cleanup | saves on other threads, order of save, totals and answer |
| Pretty output (`sink.rs`) | bounded queue, byte counter, writer task | enqueue, write, drain | concurrent reservations, a terminal nobody reads |
| Retention (`sink.rs`) | last cleanup day, files by mtime | cleanup at start and at date change | UTC dates, local dates and 24-hour ages disagree |
| Proxy (`forward/`) | a queue and a worker per route, counters | notify, export, retry, drain | upstream errors and hangs, shutdown in the middle of a retry |
| Diagnostics (`diagnostics.rs`) | bounded queue, lost-line counter | log, write, flush at exit | lost and torn lines, a stuck stderr |
| Usage totals (`aggregator.rs`) | totals, buckets, sources, sessions, pending usage | one handler for each log, metric and span | the same usage from two sources in any order, names and sessions that come late |
| Counters and snapshot (`aggregator.rs`) | a total and one row per bucket | convert, add, subtract, move, merge | saturation, values that are no amounts, keys that are joined texts |
| Write health log (`sink.rs`) | at most one streak of failures | failure, success, shutdown | writes that fail and succeed in turn |
| Settings (`cli.rs`, `config.rs`, `path.rs`) | none over time | merge of flag, environment, file and default; routes and headers | a lower layer that shows through, one service in two routes |
| Start-up (`main.rs`, `config.rs`, `sink.rs`, `server.rs`) | the configuration file, log files, ports | init, dry run, load, open, bind | processes side by side over the same files and ports |
| Route filters (`forward/router.rs`) | the matcher | match, filter | services nobody or several list |
| Formatting (`format.rs`), JSON (`proto_json.rs`) | none | render, escape, serialize | control characters, nested values, doubles that are not finite |

How they interact: a receiver admits a request, reads its body and calls
`Sink::record_with_permit`, which takes a read guard of the admission lock and spawns
a task. The task appends to storage (behind a mutex, on a blocking thread), then
ingests into the aggregator, enqueues the readable form and notifies the proxy; only
then is the sender answered. `Sink::shutdown` takes the write side of the admission
lock, so it waits for all such tasks, flushes storage, and leaves admission closed.
The proxy's token is cancelled after it, so notify never races the closing of a
route's queue in the assembled program; `Proxy` nevertheless allows the race.

What makes each part right: what was acknowledged stays and what was refused never
appears (storage); an answer tells the truth about the save and slots are neither lost
nor doubled (receiver); shutdown ends and loses nothing that was acknowledged
(lifecycle); every batch is exported in the order it was offered, or counted (proxy); memory stays
bounded and output in order (pretty output, diagnostics); a batch is kept as long as
promised (retention); usage is counted once and under the right name (totals), with
totals that equal the sum of what is shown (counters); the last report about an output is
true (write health); a dry run predicts the start and touches nothing, and what flags and
variables override in the file has no effect (start-up, settings); received text stays in its
line, and escaping does not multiply with nesting (formatting); no received number becomes
`null` (JSON).

## Modules

| Module | Models | Composition |
|---|---|---|
| `Storage` | `TransactionalAppend`, `AppendFile`, `DailyWriter` | uses the result of `TailScan` as `IsValidLen` |
| `Store` | what the JSONL writer promises, without files | abstract |
| `StorageRefinement` | | `Storage` as an implementation of `Store` (`INSTANCE Store WITH ...`) |
| `StorageProofs` | | proofs about `Storage`, its refinement of `Store`, and `TailScan` |
| `TailScan` | the loop of `recover_tail` | |
| `Receiver` | admission, handlers, statuses, save task, `Sink::shutdown`, `server::run` | composes `admission.rs`, `http.rs`, `grpc.rs`, `sink.rs`, `server.rs` |
| `RouteClient` | the failures of an export and `retry_delay` | extended by `Proxy` |
| `Proxy` | `ProxyRouter::notify`, the worker, `drain_remaining`, the counters of `/stats` | |
| `PrettyOutput` | `PrettyOutput::enqueue`, `report_drop`, `run_pretty_writer`, the drain | |
| `Retention` | `cleanup_if_day_changed`, `cleanup_old_rotated_logs`, the open handle | |
| `Diagnostics` | the writer thread and its guard | |
| `ClaudeUsage`, `CodexUsage` | the two halves of `Aggregator` | |
| `Counters` | amounts, `ModelStats`, `AgentStats`, bucket keys, the rows of a snapshot | below both usage modules |
| `WriteHealth` | `WriteHealth`, `FailureStreak`, `PrettyWriterState` | |
| `Settings` | `Cli`, `Settings::merge`, `resolve_proxy_settings`, templates of `init` | |
| `Routing` | building the clients, `ProxyRouter::new`, the filters | extends `Settings` |
| `Startup` | `init`, the dry run and the start of the receiver as processes | extends `Routing` |
| `Format` | `render`, `render_summary` and what they call | |
| `ProtoJson` | the serializer of `proto_json.rs` | |
| `PrettyOutputProofs` | | proofs about `PrettyOutput` and `WriteHealth` |
| `StartupProofs` | | proofs about `Startup`, with `Settings` and `Routing`, and about `Retention` |
| `ReceiverProofs`, `ProxyProofs`, `DiagnosticsProofs`, `ClaudeUsageProofs`, `CodexUsageProofs` | | proofs about the module of the same name |
| `MC...` | constants, symmetry, inputs for TLC; `MCAlgorithms` runs five sequential modules in one instance, `MCFiles` runs `Startup` and `Retention` | |

A definition whose name has a suffix after `_` is a mutant: a plausible bug in the
definition of the same name. Every checked property is violated by one.

**Storage.** A file is a sequence of cells and a line is `Width` of them, the last a
newline. `pc` walks through `append_at`: repair of an old rollback, sync and open at a
change of date, `append_start`, the cells of `write_all` one by one, the undo. Every
call may fail wherever the code has a `?` or an error branch; a failing truncate may or
may not have cut. `Stop` ends the process at any point and keeps what the kernel
has; `PowerLoss` keeps at least the synced prefix of each file. `acked`, `nacked` and
`safe` record what senders were told and what a sync covered.

**Store** has five actions: a batch appears as one line of one day, is accepted, is
refused, a day is synced, and power is lost. `StorageRefinement` maps the whole lines of the
files to its lines and `acked`, `safe`, `nacked` to the rest. A rollback, a tail recovery
or a failed rotation must then be invisible, and `Ack` must come after the last cell.

**TailScan.** Bytes matter only as newlines or not, so a file is its length and the set of
its newline positions; all files up to `MaxLen` are initial states.

**Receiver.** `h` is where a request's handler is, `save` where its task is. The permit
has two owners, the connection and the task, and goes back with the last. The semaphore
is tokio's: a freed slot is assigned to the first waiter before that waiter runs. A
client may leave at every await. Every error has the status that `HttpError::into_response`
or the gRPC layer gives it, and `resp` is what OTLP makes of the status: retry or give up;
`fault` remembers whose fault the error was. Where tonic chooses the status of a body that
does not decode, any of its choices may come. `stage` is the sequence of `server::run` and
`main`: `Abandon` may happen at any time of the drain, which has a deadline, and leaves
handlers running.

**Proxy.** The k-th batch offered to a route is the number k. `cur` is the batch in the
worker's hands, `abandoned` the local counter of the drain, `took` how often the
collector has taken each batch. The collector may take a batch whose export then fails. An
export that the worker gives up, because it failed, timed out or was dropped at shutdown,
may be on the wire (`late`) and be taken at any time after, behind a retry or a later batch.
`RouteClient`
lists HTTP statuses, failures to send and gRPC codes with `RetryInfo` and source, and which
of them are retried.

**PrettyOutput.** `enqueue` is a chain of steps (add, look at the channel and the budget, send,
give back, count, report) that interleave among batches and with the writer, which may also
end by a panic. A summary is the set of batches counted
when it was taken.

**Retention.** Ticks of one clock, and three readings of it: the local date names the
file, the UTC date triggers the cleanup, the age in multiples of 24 hours selects what
is removed. Each writer stats and removes entries one at a time. `orphan` says that the
open handle's file has lost its name.

**Diagnostics.** Refusing a line and counting it are two steps. A write puts all, nothing
or an unterminated part of a text on stderr.

**ClaudeUsage, CodexUsage.** Every handler runs under the aggregator's write lock and is
one step. A counter is the set of samples added up in it, which distinguishes counting
twice, counting in two buckets and not counting, and abstracts from amounts. `seen` is
the history of what arrived.

**Counters.** The same operations with numbers: `Width` bits in place of 64, doubles that may
exceed them, keys built from escaped components. Holders note what they recorded, and later
subtract or move it, as the two usage modules do.

**WriteHealth.** One output at a time, with a clock in ticks and the two periods as constants.
History variables hold the times of the last failure and the last success.

**Settings, Routing.** A layer is a partial function and `Or(a, b)` takes each option
from the first layer that has it; variables of the program that are set to nothing are removed before
any layer is read (`ClearEmptyEnv`). Every check
that refuses a combination is a predicate (`...Ok`), every result an operator defined where the
predicate holds. A header key is its name and its spelling.

**Startup.** Two inits, a dry run and a receiver, each with a program counter, over one set of
configuration files, log files and ports. A world fixes flags, variables, files and which
operations fail. The steps are those at which another process can see a difference: a file
between its open and its write (`midway`), and the ports a reader holds (`held`). The dry run
binds gRPC, then HTTP with gRPC still held, and drops both; the receiver binds them in two tasks,
the second perhaps after the first has failed. `clash` marks a reader that failed at a port the
other held. A receiver also recovers the tails of its files, which may fail; a dry run does not.

**Format.** A text is a sequence of character classes; a number or a fixed part of a line is one
item, however long it is printed. Rendering is one step, and the result is compared with the lines
and the characters of the record. **ProtoJson** distinguishes the kinds of serde parents, since each
forwards its children in a method of its own.

## Runs

| Run | Instance | Shows |
|---|---|---|
| `storage` | 4 batches, 2 days, lines of 3 cells | `LinesWhole`, `AnswersHonest` under all failures and crashes; `RotationLeavesSafe` (a file is left only when durable); `ImplementsStore` (the refinement) |
| `receiver` | 3 requests of either kind, 1 slot, 1 waiting place | `SlotsConserved`, `RetryMeansUnsaved`, `CleanExitDurable`, `ShutdownCompletes`, `RequestsSettle` |
| `proxy` | 1 route, queue of 2, 1 retry, 4 batches | `Accounted`, `OnlyGivenUpOvertaken`, `WorkersStop`, `QueuesEmpty` |
| `pretty` | 2 short batches, a long one, queue of 1, 3 bytes | `BytesExact`, `DropsNoticed`, `SummariesMonotone`, `DrainEnds` |
| `retention_long_day` | 1 writer, half-hour ticks, one local day of 25 hours | violation of `Retained` |
| `diagnostics` | queue of 2, 5 lines | `LostLinesCounted`, `NothingGlued`, `GuardReturns` |
| `claude_usage` | 4 samples, the bare names `unknown` and one more, 2 variants | `OneSourceCounts`, `NamesResolved` |
| `claude_summary` | 2 samples | violation of `SummaryOnChange` |
| `codex_usage` | 2 samples, 2 conversations | `FirstSourceCounts`, `PendingUntilKnown`, `SettlesUnderSession`, `KnownStaysKnown`, `SummaryOnChange` |
| `files` | start-up in four families of worlds (layers, routes and headers, inits, faults and ports); retention with 2 writers, days of 4 ticks, 11 ticks, 3 batches | `DryRunAgrees`, `ProbeHarmless`, `InitKeepsExisting`, `ConfigReachesServe`, `OverriddenIsInert`, `ServiceRoutedOnce`; `Retained` with 24-hour local days |
| `startup_sinks` | start-up in the worlds of the layers | violation of `FlagBeatsVariable` |
| `algorithms` | files to 8 bytes in chunks of 3; 10 ticks of failing and succeeding writes; 2 reports to 5 buckets with 3-bit counters; records with every character class and value kind; JSON values two levels deep | `CutsBehindLastNewline`, `LastWordIsTrue`, `CountersAgree`, `TextStaysInLine`, `EscapedOnce`, `NonFiniteKept` |

Why the bounds are enough: in `storage` three cells give a line a beginning, a middle and
its newline, and four batches let a failed rollback be followed by a repair, another line
and a rotation. In `receiver` one request holds the slot, one waits and one bounces; a symmetry
reduction would be unsound for its liveness, so the run starts with the HTTP requests first
(`LiveSpec`): the other assignments of kinds are renamings of these. In `proxy` two are queued,
one is in hand and one is refused; routes share nothing, so one is enough. In `pretty` a
short batch fills the queue, the long one needs the whole byte budget, and two
producers find a writer that has stopped. Two UTC days and three local dates pass in
the retention part of `files`. Codex usage needs a sample from each source and two conversations that must not
touch each other; both usage models have one service and provider besides the default and one
effort at most. In the start-up part two inits race, the dry run and the receiver share addresses or not,
and each family varies what one group of properties depends on. In `algorithms` files span up to three buffers; the clock passes two report intervals
and the quiet period; the buckets are those whose keys collide without escapes, and the points lie
on both sides of 0 and of the counter's limit; a text nested in maps shows whether each level
escapes it once more.

`ClaudeUsage` (both runs), `receiver`, `files` and `algorithms` switch off the deadlock check:
processes end, and samples are used up. Elsewhere a final state is an explicit stuttering step.

`TypeOK` is part of no run. In the modules with proofs it is part of the inductive invariant
and proved with it; in the others it documents the types of the variables.

### Fairness

- `Receiver!Fairness`: handlers and tasks that can run do (the tokio scheduler), including
  a timer that has passed; the stages of shutdown follow one another. Nothing is assumed of
  clients: bodies may never arrive, and clients need not leave.
- `Proxy!Running`: the worker runs and the drain's timer fires. `QueuesEmpty` has in
  addition, as its premise, that exports end; each client is built with a request timeout.
  `WorkersStop` does without.
- `PrettyOutput!FairSpec` and `Diagnostics!FairSpec` assume only that the deadline of the
  drain and of the guard passes. A write may block for ever.

## Findings

1. **Cleanup can unlink the file being written** (`retention_long_day`).
   `cleanup_old_rotated_logs` removes what is older than `log-keep-days` times 24 hours by mtime
   and does not spare the open file. With `log-keep-days` 1, on a local day of 25 hours, a
   receiver that was idle for more than 24 hours since the day's file was opened or last
   written has its next batch run the cleanup (the UTC date has changed) and then append to
   the file just removed. The sender is told that the batch was saved. With 24-hour days
   `Retained` holds.
2. **Totals can change without a summary** (`claude_summary`). A metric that names the
   variant of a model moves the usage recorded under the bare name, but returns no hit
   when its own usage is not counted. README and docs/usage-stats.md promise a summary
   after every batch that changes the totals. For Codex `SummaryOnChange` holds, in both directions.
3. **A flag does not win over a variable across the log sinks** (`startup_sinks`). With `--log-file`
   as a flag and `OTEL_LOGGER_LOG_DIR` in the environment, or the reverse, the start is refused
   (`cli.rs`, line 440): clap has put both in the same fields. docs/configuration.md (line 19) says that
   flag before environment "also applies across `log-file` and `log-dir`". Over a sink of the file
   flags and variables do win (`OverriddenIsInert`).

## Proofs

Every proved module has one inductive invariant, a conjunction of named parts; a lemma shows that
`Init` establishes it and one that every step keeps it, with a case for each action; the theorems about
checked properties follow from it. The invariants were tried with TLC on small instances before
they were proved. The proofs rest on the named assumptions of the modules, which every run
evaluates: limits and sizes are numbers, most of them positive; sets are finite where something is
counted; markers are distinct; and in `Startup` the flags are options of `Cli` and a file that can be
parsed has the routes serde makes of it (`WorldsAssumption`). One theorem has a premise, `ShortDays`.

| Property | Theorem | Holds for |
|---|---|---|
| `LinesWhole`, `AnswersHonest`, `RotationLeavesSafe` | `LinesStayWhole`, `AnswersStayHonest`, `RotationIsSafe` | any batches, days and `Width` above 1 |
| `ImplementsStore` | `StorageImplementsStore` | the same |
| `CutsBehindLastNewline` | `ScanCutsBehindLastNewline` | every file and buffer size |
| `LastWordIsTrue` | `LastWordTheorem` | every interval and quiet period |
| `SlotsConserved`, `RetryMeansUnsaved`, `CleanExitDurable` | `SlotsTheorem`, `RetryTheorem`, `CleanExitTheorem` | any finite set of requests, any limits |
| `Accounted`, `OnlyGivenUpOvertaken` | `AccountedTheorem`, `OvertakenTheorem` | any routes, capacity, retries |
| `BytesExact`, `DropsNoticed`, `SummariesMonotone` | `BytesTheorem`, `DropsTheorem`, `SummariesTheorem` | any finite set of batches, sizes, limits |
| `Retained` | `RetainedTheorem` | any writers, settings and calendar with `ShortDays` |
| `LostLinesCounted`, `NothingGlued` | `LostLinesTheorem`, `NothingGluedTheorem` | any capacity and number of lines |
| `OneSourceCounts`, `NamesResolved` | `OneSourceTheorem`, `NamesTheorem` | any samples, names, variants, efforts |
| `FirstSourceCounts`, `PendingUntilKnown`, `SettlesUnderSession`, `KnownStaysKnown`, `SummaryOnChange` (Codex) | `FirstSourceTheorem`, `PendingTheorem`, `SettlesTheorem`, `KnownTheorem`, `SummaryTheorem` | any samples, conversations, services, providers, models, efforts |
| `InitKeepsExisting`, `ConfigReachesServe` | `InitKeepsTheorem`, `ConfigTheorem` | any number of inits, any world |
| `ProbeHarmless`, `DryRunAgrees` | `ProbeTheorem`, `DryRunTheorem` | any world, with any faults and ports in use |
| `OverriddenIsInert`, `ServiceRoutedOnce` | `OverriddenTheorem`, `RoutedTheorem` | all flags, variables, files and routes |

**`StorageProofs`.** None of the properties is inductive: a repair or undo cuts the file to an
offset stored earlier, so one must know that this offset is a line boundary with no newline behind
it (`RollbackSound`); a write must know what lies behind `start` (`WriteSound`) and that a handle
without a rollback stands at a boundary (`TailSound`, `StepSound`); a refused batch stays absent
because its newline can only have come from itself (`Fresh`); a power loss keeps what is owed
because the synced prefix holds it (`SafeSound`). `IInv` is their conjunction. The lemmas
`CutWhole`, `CutLines`, `PrefixLines` and `AppendWhole` say what truncating and appending do to
lines; `CutEffect`, `ShrunkKeeps` and `SyncKeeps` lift them to the actions. `RotationIsSafe` adds
`LeaveSafe`: between the sync and the open of a rotation nothing new is acknowledged. For the
refinement each action is an action of `Store` or a stutter: only the last cell of a line is a
step of `Store` among the writes, and a cut at a rollback point is none.

The section about `TailScan` rests on `ScanInv`: there is no newline behind `end`, and the newline
the scan finds is the last one of the file.

**`ReceiverProofs`.** `RInv` says, for each request, who owns its permit and what its task has done
at each place of the handler (`RequestOK`); that the semaphore's queue holds exactly the waiters
without a slot, each once, and that a slot is free only when nobody waits (`SlotsOK`); and that no
guard is out once the write lock was granted and the final sync covers all lines (`StageOK`). The
count of slots needs the second: a slot is handed to a waiter that may be leaving.

**`ProxyProofs`.** The invariant is about one route. The batches are in order from those ever sent,
taken or still on the wire, over the worker's hands to the queue (`OrderOK`); what is counted as sent
was taken, apart from the batch in hand (`SentOK`); and how often the upstream can have the batch in
hand, requests still on the wire included, is bounded by the attempts made so far (`RetryOK`), which
the interruption and the drain exceed by one.

**`PrettyOutputProofs`.** The byte budget is the hard part: tasks add to the counter before they
compare it, so the counter may exceed the budget at any time. `BytesOK` says that in every set of
charged batches one saw all the others when it was added (`Within`): if they are all held, that one passed
the comparison with their sum. `DropsOK` gives every number that deserves a notice to a notice or
to the one task that is about to write it; `SummaryOK` orders the summaries. In the section about
`WriteHealth`, the streak the health log keeps is the one of the history: it exists exactly while
failures are unresolved, with their number and the times of the last failure and the last report
(`StreakSound`). With it a success a quiet period after the last failure cannot pass in silence.

**`DiagnosticsProofs`.** Lines are in the queue in the order they were logged, behind the one in
the thread's hands (`QueueSound`), and the guard's message is behind all lines logged before it
(`GuardSound`); the count of a note that failed is given back (`ThreadSound`).

**`ClaudeUsageProofs`.** `UsageInv` gives each part of `AggregatorInner` as a function of the set of
records that arrived, hence independent of their order: the total (`TotalOK`), the source of a key
(`SourceOK`), what metrics have counted and where (`MeteredOK`), which names are merged into which
(`CanonOK`) and under which bare names usage may be (`BareOK`). The lemmas show for `RecordInto`, the
change of source and the merge of names what they do to a value that has these parts.

**`CodexUsageProofs`.** A handler is a chain of updates: it records a sample, moves usage between
buckets, drops what has settled from `pending`, replaces a session. `UsageInv` says of each sample that
arrived whether it counts, that it is in one bucket only, and, when it belongs to a conversation,
that it is pending exactly while the provider of its session is unconfirmed or its own effort is
unknown. Usage is moved by the entries of `pending`, so it is this last part that keeps a move from
finding its sample in another bucket or from moving it twice. For each kind of update a lemma says
what it does to a value with these parts and which samples it moves; the step lemmas put the chains
together (`StepOf`), and the action properties are read off them. That a confirmed provider stays
(`KnownTheorem`) is a fact about the updates of a session that come without one (`ProviderStays`).

**`StartupProofs`.** `StartInv` says for each process what holds at the step it has reached: which
files the inits have opened and who alone may have written them (`ConfInv`), that a file is the
user's, a template of an init that has reported it, or empty because an init is midway or failed there
(`FilesInv`), that a receiver writes to a log file that is there (`LogInv`), that a reader which passed
a step has what the step asks for while one that failed there has not (`PassInv`), and at which steps
who holds which ports (`PortInv`). The last two make two processes comparable: a dry run and a receiver
with the same settings pass the same checks, whatever happened in between, except that one may find a
port in the hands of the other (`clash`) and that the receiver also cleans up and recovers tails.
`SettingsInv` adds that the settings of a reader are those of `Settings::merge` for the file it has
loaded, which an init may since have replaced. `OverriddenTheorem` is then a fact about `Merge`
(`MergeKept`), shown part by part of the file: single keys (`LayersKept`), the sinks (`SinksKept`),
the headers of a vendor by name (`HeadersKept`), its lane (`VendorKept`), all lanes and the checks
that refuse them (`ProxyOkKept`). Refusals are part of it: what is left of a file is refused exactly
when the file is. `RoutedTheorem` needs that the routes merged claim each service once and have one
each (`LanesAre`), and that the matcher then gives a lane exactly the services it lists
(`MatchesLaneIs`).

In the section about `Retention` a file is stat'ed and removed in two steps, with other writers
between them. With `ShortDays` (no local date lasts longer than 24 hours) a file found to be old is
one whose date is over, so nobody can have written to it since (`CleanupOK`). `ShortDays` is a premise
of the theorem and true of the calendar of `MCRetention`; `retention_long_day` shows that
`Retained` fails without it.

Only model-checked:

- Liveness (`ShutdownCompletes`, `RequestsSettle`, `WorkersStop`, `QueuesEmpty`, `DrainEnds`,
  `GuardReturns`), which depends on fairness and is out of the prover's reach.
- `CountersAgree`. A total is compared with a sum over rows, and a row is found by a key put together
  from escaped components: that sums add up and that such keys are distinct, for every input, needs an
  induction over data that the provers cannot do.
- `TextStaysInLine`, `EscapedOnce` and `NonFiniteKept`. `Format` and `ProtoJson` follow nested values
  with recursive operators, about which nothing can be proved.

## Not modelled

- Libraries and the wire: the decoders of protobuf and JSON bodies, gzip, the syntax of flags
  and TOML, tonic and reqwest. For gRPC the request timeout covers an export up to the response
  headers; that the rest of the response follows is an assumption on the upstream.
- `/healthz` and `/stats`, which read state and change none (the rows of a snapshot are in
  `Counters`, the counters of a route in `Proxy`), and the warning about a partial success.
- Modes of new files, the installation of signal handlers and of tracing, transport options.
- The matching of file names in the cleanup beyond the daily files themselves.
- Widths and alignment of rendered columns; the rounding of `cost_usd`; durations of requests
  and retries.
- Two receivers on one directory, which docs/architecture.md rules out.

In `ClaudeUsage` a log without a model stays under `unknown` even when a metric names
`unknown[...]`; `NamesResolved` exempts that name. An init leaves an empty file between its open and
its write, and for good when the write fails; a receiver that starts then accepts it as a configuration
without keys. `ConfigReachesServe` lists this among what a receiver can have loaded.
