----------------------------- MODULE Retention -----------------------------
(***************************************************************************)
(* The daily files of --log-dir: which file a batch goes to and when an    *)
(* old file is removed. RotatedWriter::cleanup_if_day_changed,             *)
(* cleanup_old_rotated_logs, open_rotated_sync (sink.rs) and the handle of *)
(* DailyWriter (storage.rs).                                               *)
(*                                                                         *)
(* Three clocks meet here: the file of a batch is chosen by the local      *)
(* calendar date, a cleanup is due when the UTC date changes, and a file   *)
(* is old by its mtime in multiples of 24 hours. Blocking threads write    *)
(* batches concurrently; the cleanup runs outside the lock of the roller.  *)
(*                                                                         *)
(* A file is named by its local date. Files of other names are skipped by  *)
(* daily_log_kind and never touched; they are not modelled, nor is a       *)
(* directory entry whose stat has no mtime (it is skipped). Appends that   *)
(* fail are the matter of Storage.                                         *)
(***************************************************************************)
EXTENDS Integers, Sequences

CONSTANTS Writers,      \* the threads of spawn_blocking that write batches
          Hours24,      \* the clock ticks of 24 hours
          MaxTime,      \* bound on the clock
          MaxBatches,   \* bound on the batches written
          LogKeepDays,  \* --log-keep-days
          LocalDate     \* the local calendar date of each tick

ASSUME RetentionAssumption ==
    /\ Hours24 \in Nat \ {0}
    /\ MaxTime \in Nat
    /\ MaxBatches \in Nat
    /\ LogKeepDays \in Nat
    /\ LocalDate \in [0..MaxTime -> Nat]

VARIABLES
    now,      \* SystemTime::now()
    exists,   \* the dates whose file is in the directory
    mtime,    \* when the file of a date was last written
    content,  \* the batches in the file of a date
    date,     \* DailyWriter.date
    orphan,   \* the file of the open handle has been removed
    lastDay,  \* last_cleanup_day
    phase,    \* where each writer is
    cutoff,   \* the cutoff of its cleanup
    todo,     \* the directory entries it has not looked at
    victim,   \* the file it found to be old and has not removed yet, if any
    wrote     \* when each batch was acknowledged, in order of its number

files == <<exists, mtime, content>>
thread == <<phase, cutoff, todo, victim>>
retentionVars == <<now, files, date, orphan, lastDay, thread, wrote>>

Dates == {LocalDate[t] : t \in 0..MaxTime}

UtcDate(t) == t \div Hours24

\* keep_days.max(1)
KeepDays == IF LogKeepDays = 0 THEN 1 ELSE LogKeepDays

\* A setting of 0 is taken as it is.
Cutoff_Unclamped == IF now >= LogKeepDays * Hours24 THEN now - LogKeepDays * Hours24 ELSE 0

\* checked_sub, and the epoch if there is no such time.
Cutoff == IF now >= KeepDays * Hours24 THEN now - KeepDays * Hours24 ELSE 0

RetentionInit ==
    /\ now = 0
    /\ exists = {LocalDate[0]}
    /\ mtime = [d \in Dates |-> 0]
    /\ content = [d \in Dates |-> {}]
    /\ date = LocalDate[0]
    /\ orphan = FALSE
    /\ lastDay = UtcDate(0)
    /\ phase = [t \in Writers |-> "idle"]
    /\ cutoff = [t \in Writers |-> 0]
    /\ todo = [t \in Writers |-> {}]
    /\ victim = [t \in Writers |-> {}]
    /\ wrote = <<>>

Tick ==
    /\ now < MaxTime
    /\ now' = now + 1
    /\ UNCHANGED <<files, date, orphan, lastDay, thread, wrote>>

\* cleanup_if_day_changed: the first writer of a UTC day claims the cleanup and
\* lists the directory; the others go straight on.
CheckDay(t) ==
    /\ phase[t] = "idle"
    /\ IF lastDay = UtcDate(now)
       THEN /\ phase' = [phase EXCEPT ![t] = "append"]
            /\ UNCHANGED <<lastDay, cutoff, todo>>
       ELSE /\ lastDay' = UtcDate(now)
            /\ cutoff' = [cutoff EXCEPT ![t] = Cutoff]
            /\ todo' = [todo EXCEPT ![t] = exists]
            /\ phase' = [phase EXCEPT ![t] = "scan"]
    /\ UNCHANGED <<now, files, date, orphan, victim, wrote>>

\* The next entry: gone, young enough, or to be removed.
Stat(t, d) ==
    /\ phase[t] = "scan"
    /\ victim[t] = {}
    /\ d \in todo[t]
    /\ todo' = [todo EXCEPT ![t] = @ \ {d}]
    /\ victim' = [victim EXCEPT ![t] = IF d \in exists /\ mtime[d] < cutoff[t] THEN {d} ELSE {}]
    /\ UNCHANGED <<now, files, date, orphan, lastDay, phase, cutoff, wrote>>

\* remove_file; a file that is already gone is no error.
Remove(t) ==
    /\ \E d \in victim[t] :
          /\ exists' = exists \ {d}
          /\ mtime' = [mtime EXCEPT ![d] = 0]
          /\ content' = [content EXCEPT ![d] = {}]
          /\ orphan' = (orphan \/ d = date)
    /\ victim' = [victim EXCEPT ![t] = {}]
    /\ UNCHANGED <<now, date, lastDay, phase, cutoff, todo, wrote>>

\* The scan is over, or an entry could not be read or removed: the cleanup
\* failed, which is logged and does not keep the batch from being written.
ScanEnd(t) ==
    /\ phase[t] = "scan"
    /\ phase' = [phase EXCEPT ![t] = "append"]
    /\ cutoff' = [cutoff EXCEPT ![t] = 0]
    /\ todo' = [todo EXCEPT ![t] = {}]
    /\ victim' = [victim EXCEPT ![t] = {}]
    /\ UNCHANGED <<now, files, date, orphan, lastDay, wrote>>

\* append_at under the lock of the roller: on another local date the file of
\* that date is opened or created; then the line goes to the open handle,
\* whether its file still has a name or not.
AppendLine(t) ==
    /\ phase[t] = "append"
    /\ Len(wrote) < MaxBatches
    /\ LET today == LocalDate[now]
           lost  == orphan /\ today = date
       IN  /\ date' = today
           /\ orphan' = lost
           /\ exists' = IF lost THEN exists ELSE exists \cup {today}
           /\ mtime' = [mtime EXCEPT ![today] = IF lost THEN @ ELSE now]
           /\ content' = [content EXCEPT ![today] = IF lost THEN @ ELSE @ \cup {Len(wrote) + 1}]
    /\ wrote' = Append(wrote, now)
    /\ phase' = [phase EXCEPT ![t] = "idle"]
    /\ UNCHANGED <<now, lastDay, cutoff, todo, victim>>

\* A new process: open_rotated_sync cleans up before it opens today's file.
Restart ==
    /\ LET old   == {d \in exists : mtime[d] < Cutoff}
           today == LocalDate[now]
       IN  /\ exists' = (exists \ old) \cup {today}
           /\ content' = [d \in Dates |-> IF d \in old THEN {} ELSE content[d]]
           /\ mtime' = [d \in Dates |-> IF d = today /\ d \notin exists \ old THEN now
                                       ELSE IF d \in old THEN 0 ELSE mtime[d]]
           /\ date' = today
    /\ orphan' = FALSE
    /\ lastDay' = UtcDate(now)
    /\ phase' = [t \in Writers |-> "idle"]
    /\ cutoff' = [t \in Writers |-> 0]
    /\ todo' = [t \in Writers |-> {}]
    /\ victim' = [t \in Writers |-> {}]
    /\ UNCHANGED <<now, wrote>>

RetentionNext ==
    \/ Tick
    \/ \E t \in Writers : \/ CheckDay(t)
                          \/ \E d \in Dates : Stat(t, d)
                          \/ Remove(t) \/ ScanEnd(t) \/ AppendLine(t)
    \/ Restart

RetentionSpec == RetentionInit /\ [][RetentionNext]_retentionVars
-----------------------------------------------------------------------------
RetentionTypeOK ==
    /\ now \in 0..MaxTime
    /\ exists \in SUBSET Dates
    /\ mtime \in [Dates -> Nat]
    /\ content \in [Dates -> SUBSET (1..MaxBatches)]
    /\ date \in Dates
    /\ orphan \in BOOLEAN
    /\ lastDay \in Nat
    /\ phase \in [Writers -> {"idle", "scan", "append"}]
    /\ cutoff \in [Writers -> Nat]
    /\ todo \in [Writers -> SUBSET Dates]
    /\ victim \in [Writers -> SUBSET Dates]
    /\ wrote \in Seq(Nat)

\* The batches that are in a file of the directory.
Stored == UNION {content[d] : d \in exists}

\* A batch is kept for log-keep-days days from its acknowledgement: until then
\* it is in a file of the directory, whatever UTC and local dates, concurrent
\* writers and restarts make of the cleanup.
Retained ==
    \A b \in 1..Len(wrote) : now - wrote[b] <= KeepDays * Hours24 => b \in Stored
=============================================================================
