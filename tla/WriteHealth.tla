---------------------------- MODULE WriteHealth ----------------------------
(***************************************************************************)
(* What is logged about failing writes (src/src/sink.rs): WriteHealth, one *)
(* for the JSONL output and one in the PrettyWriterState of each           *)
(* human-readable output. A streak of failures is opened by the first and  *)
(* closed by a success a quiet period after the last; in between there is  *)
(* one report per interval.                                                *)
(*                                                                         *)
(* The calls come one after the other (the writer task owns its state, the *)
(* JSONL one is behind a mutex and reads the clock inside it), so the      *)
(* clock does not go back. MaxTime bounds it and the failures.             *)
(***************************************************************************)
EXTENDS Integers

CONSTANTS Interval,   \* PRETTY_FAILURE_REPORT_INTERVAL
          Quiet,      \* PRETTY_RECOVERY_QUIET_PERIOD
          MaxTime     \* bound

ASSUME HealthAssumption ==
    /\ Interval \in Nat \ {0}
    /\ Quiet \in Nat \ {0}
    /\ MaxTime \in Nat

Targets == {"jsonl", "stdout", "pretty-log"}

VARIABLES
    target,      \* the output
    now,         \* the time of the next call
    failing,     \* WriteHealth.failing: at most one FailureStreak
    pipe,        \* "open", or "broken": PrettyWriterState.broken_pipe
    report,      \* the last report that was logged
    reportAt,    \* when
    lastFail,    \* history: when a write last failed
    lastOk,      \* history: when a write last succeeded
    failures     \* history: the failures since the last "Recovered"

healthVars == <<target, now, failing, pipe, report, reportAt, lastFail, lastOk, failures>>

HealthInit ==
    /\ target \in Targets
    /\ now = 0
    /\ failing = {}
    /\ pipe = "open"
    /\ report = [kind |-> "none", failures |-> 0]
    /\ reportAt = 0
    /\ lastFail = 0
    /\ lastOk = 0
    /\ failures = 0

Tick ==
    /\ now < MaxTime
    /\ now' = now + 1
    /\ UNCHANGED <<target, failing, pipe, report, reportAt, lastFail, lastOk, failures>>

\* should_write
ShouldWrite == pipe = "open"

Log(kind, n) ==
    /\ report' = [kind |-> kind, failures |-> n]
    /\ reportAt' = now

\* An error, as the history has it.
WriteFailed ==
    /\ ShouldWrite
    /\ failures < MaxTime
    /\ failures' = failures + 1
    /\ lastFail' = now
    /\ UNCHANGED <<target, now, pipe, lastOk>>

\* on_failure outside a streak
FailureStarts ==
    /\ failing = {}
    /\ failing' = {[failures |-> 1, last_failure |-> now, last_report |-> now]}
    /\ Log("Started", 1)
    /\ WriteFailed

\* on_failure in a streak that was reported less than an interval ago
FailureSilent ==
    /\ \E s \in failing :
          /\ now - s.last_report < Interval
          /\ failing' = {[failures |-> s.failures + 1, last_failure |-> now, last_report |-> s.last_report]}
    /\ UNCHANGED <<report, reportAt>>
    /\ WriteFailed

\* on_failure when a report is due
FailureOngoing ==
    /\ \E s \in failing :
          /\ now - s.last_report >= Interval
          /\ failing' = {[failures |-> s.failures + 1, last_failure |-> now, last_report |-> now]}
          /\ Log("Ongoing", s.failures + 1)
    /\ WriteFailed

\* The quiet period is counted from the last report.
Recovers_SinceReport(s) == now - s.last_report >= Quiet

\* The guard of on_success.
Recovers(s) == now - s.last_failure >= Quiet

\* on_success a quiet period after the last failure
SuccessRecovers ==
    /\ ShouldWrite
    /\ \E s \in failing : Recovers(s) /\ Log("Recovered", s.failures)
    /\ failing' = {}
    /\ failures' = 0
    /\ lastOk' = now
    /\ UNCHANGED <<target, now, pipe, lastFail>>

\* Any other on_success says nothing and forgets nothing.
SuccessSilent ==
    /\ ShouldWrite
    /\ \A s \in failing : ~ Recovers(s)
    /\ lastOk' = now
    /\ UNCHANGED <<target, now, failing, pipe, report, reportAt, lastFail, failures>>

\* record_result when nobody reads stdout any more: no failure is counted.
BrokenPipe ==
    /\ ShouldWrite
    /\ target = "stdout"
    /\ pipe' = "broken"
    /\ UNCHANGED <<target, now, failing, report, reportAt, lastFail, lastOk, failures>>

\* report_unresolved_at_shutdown, for the job of drain; it is the last one.
Shutdown ==
    /\ target # "jsonl"
    /\ pipe # "drained"
    /\ pipe' = "drained"
    /\ \/ \E s \in failing : Log("Unresolved", s.failures)
       \/ failing = {} /\ UNCHANGED <<report, reportAt>>
    /\ UNCHANGED <<target, now, failing, lastFail, lastOk, failures>>

HealthNext ==
    \/ Tick
    \/ FailureStarts \/ FailureSilent \/ FailureOngoing
    \/ SuccessRecovers \/ SuccessSilent
    \/ BrokenPipe \/ Shutdown

HealthSpec == HealthInit /\ [][HealthNext]_healthVars
-----------------------------------------------------------------------------
\* The last thing in the log is true. While writes fail it says so, with no more
\* failures than there were, and is less than an interval older than the last
\* of them; the first write that succeeds a quiet period after the last failure
\* ends that; "recovered" is said no earlier and stands until the next failure;
\* and an outage that lasts to the end of a human-readable output is its last
\* word, with the exact number of failures.
LastWordIsTrue ==
    /\ failures > 0 =>
          /\ report.kind \in {"Started", "Ongoing", "Unresolved"}
          /\ report.failures <= failures
          /\ lastFail - reportAt < Interval
          /\ lastOk - lastFail < Quiet
    /\ failures = 0 =>
          report.kind = "none" \/ (report.kind = "Recovered" /\ reportAt - lastFail >= Quiet)
    /\ pipe = "drained" /\ failures > 0 => report.kind = "Unresolved" /\ report.failures = failures
=============================================================================
