------------------------------ MODULE Storage ------------------------------
(***************************************************************************)
(* The JSONL store of src/src/storage.rs: TransactionalAppend (undo of a   *)
(* partial write), AppendFile (tail recovery on open) and DailyWriter (one *)
(* file per calendar day, fsync before the file is left), with the lock    *)
(* holder's sync of sink.rs.                                               *)
(*                                                                         *)
(* A file is a sequence of cells. The line of a batch is Width cells; the  *)
(* last one is its newline and no other cell is one. write_all puts cells  *)
(* in the file one at a time, so a write may fail, and the process may     *)
(* stop, after any of them. Every system call of append_at is an action.   *)
(*                                                                         *)
(* Simplifications: one writer process per directory (docs/architecture.md *)
(* asks for it); the caller holds the writer's mutex through an append, so *)
(* appends do not interleave with each other; after a power loss a file is *)
(* a prefix of what it held, at least as long as its synced part.          *)
(***************************************************************************)
EXTENDS Integers, Sequences

CONSTANTS Batches,      \* the telemetry batches, each one JSON line
          Days,         \* the calendar dates Local::now() may return
          Width         \* the number of cells of a line, its newline included

ASSUME WidthAssumption == Width \in Nat /\ Width > 1

VARIABLES
    file,      \* the cells of each day's file
    synced,    \* how many of them are known to be on the disk
    pc,        \* where append_at is; "down" when there is no process
    date,      \* DailyWriter.date, the day of the open handle
    rollback,  \* TransactionalAppend.rollback, NoRollback for None
    start,     \* append_start of the append in progress
    cur,       \* the batch of the append in progress
    target,    \* the date that append_at was given
    used,      \* the batches submitted so far
    acked,     \* the <<batch, day>> whose append returned Ok
    safe,      \* those of acked that a later sync_all covered
    nacked     \* the batches whose append returned Err

handle == <<date, rollback>>
call == <<start, cur, target, used>>
ghost == <<acked, safe, nacked>>
vars == <<file, synced, pc, handle, call, ghost>>

NoRollback == -1

Cell == [batch : Batches, idx : 1..Width]

\* The newline that ends the line of batch b.
Newline(b) == [batch |-> b, idx |-> Width]

\* The steps of append_at and append, in the order of the code.
Steps == {"rotateRepair", "rotateSync", "rotateOpen",
          "repair", "start", "write", "undo", "done"}

\* A file that ends with a newline, or is empty, up to position n.
WholeAt(s, n) == n > 0 => s[n].idx = Width

EndsWhole(s) == WholeAt(s, Len(s))

\* The line of batch b is in s, newline included.
HasLine(s, b) == \E i \in 1..Len(s) : s[i] = Newline(b)

\* Each cell of s follows the previous cell of its own line, and a line starts
\* at the beginning of the file or behind a newline.
WholeLines(s) ==
    \A i \in 1..Len(s) :
        /\ s[i].idx > 1 => i > 1 /\ s[i-1] = [batch |-> s[i].batch, idx |-> s[i].idx - 1]
        /\ s[i].idx = 1 => WholeAt(s, i - 1)

Min2(m, n) == IF m < n THEN m ELSE n
-----------------------------------------------------------------------------
(***************************************************************************)
(* Effects of the system calls.                                            *)
(***************************************************************************)
\* truncate(n) on the file of day d: set_len, then a seek that changes nothing
\* here. What is cut off is no longer part of the synced prefix.
SetLen(d, n) ==
    /\ file' = [file EXCEPT ![d] = SubSeq(@, 1, n)]
    /\ synced' = [synced EXCEPT ![d] = Min2(@, n)]

\* The length recover_tail keeps: up to the last newline (see TailScan).
IsValidLen(s, n) ==
    /\ n \in 0..Len(s)
    /\ WholeAt(s, n)
    /\ \A i \in (n + 1)..Len(s) : s[i].idx # Width

\* The append returns an error: nothing else of the writer changes.
Fail ==
    /\ pc' = "idle"
    /\ nacked' = nacked \cup {cur}
    /\ UNCHANGED <<call, acked, safe>>
-----------------------------------------------------------------------------
Init ==
    /\ file = [d \in Days |-> <<>>]
    /\ synced = [d \in Days |-> 0]
    /\ pc = "down"
    /\ date \in Days
    /\ rollback = NoRollback
    /\ start = 0
    /\ cur \in Batches
    /\ target \in Days
    /\ used = {}
    /\ acked = {}
    /\ safe = {}
    /\ nacked = {}

\* DailyWriter::at_date: create or open the day's file and recover its tail.
\* A failure of any part ends the start of the process: it stays down.
Open(d) ==
    /\ pc = "down"
    /\ \E n \in 0..Len(file[d]) : IsValidLen(file[d], n) /\ SetLen(d, n)
    /\ date' = d
    /\ rollback' = NoRollback
    /\ pc' = "idle"
    /\ UNCHANGED <<call, ghost>>

\* write_line takes the lock and calls append_at(line of b, Local::now()).
\* The clock may have been set back: d is any date.
Submit(b, d) ==
    /\ pc = "idle"
    /\ b \notin used
    /\ used' = used \cup {b}
    /\ cur' = b
    /\ target' = d
    /\ pc' = IF d # date THEN "rotateRepair" ELSE "repair"
    /\ UNCHANGED <<file, synced, handle, start, ghost>>

\* repair() succeeds: nothing to undo, or the truncate worked.
RepairOk(at, next) ==
    /\ pc = at
    /\ IF rollback = NoRollback
       THEN UNCHANGED <<file, synced>>
       ELSE SetLen(date, rollback)
    /\ rollback' = NoRollback
    /\ pc' = next
    /\ UNCHANGED <<date, call, ghost>>

\* repair() fails in set_len (no effect) or in the seek after it.
RepairFail(at) ==
    /\ pc = at
    /\ rollback # NoRollback
    /\ UNCHANGED <<file, synced>> \/ SetLen(date, rollback)
    /\ Fail
    /\ UNCHANGED handle

\* sync_all of the file that is about to be left.
SyncEffect ==
    /\ synced' = [synced EXCEPT ![date] = Len(file[date])]
    /\ safe' = safe \cup {a \in acked : a[2] = date}

RotateSyncOk_NoSync ==
    /\ pc = "rotateSync"
    /\ pc' = "rotateOpen"
    /\ UNCHANGED <<file, synced, handle, call, ghost>>

RotateSyncOk ==
    /\ pc = "rotateSync"
    /\ SyncEffect
    /\ pc' = "rotateOpen"
    /\ UNCHANGED <<file, handle, call, acked, nacked>>

RotateSyncFail ==
    /\ pc = "rotateSync"
    /\ Fail
    /\ UNCHANGED <<file, synced, handle>>

\* AppendFile::open of the target day; only then is the handle replaced.
RotateOpenOk ==
    /\ pc = "rotateOpen"
    /\ \E n \in 0..Len(file[target]) :
          IsValidLen(file[target], n) /\ SetLen(target, n)
    /\ date' = target
    /\ rollback' = NoRollback
    /\ pc' = "repair"
    /\ UNCHANGED <<call, ghost>>

\* The open fails before or after the tail was cut; the old handle stays.
RotateOpenFail ==
    /\ pc = "rotateOpen"
    /\ \/ UNCHANGED <<file, synced>>
       \/ \E n \in 0..Len(file[target]) :
             IsValidLen(file[target], n) /\ SetLen(target, n)
    /\ Fail
    /\ UNCHANGED handle

\* append_start(): the length of the file, or an error.
AppendStart ==
    /\ pc = "start"
    /\ start' = Len(file[date])
    /\ pc' = "write"
    /\ UNCHANGED <<file, synced, handle, cur, target, used, ghost>>

AppendStartFail ==
    /\ pc = "start"
    /\ Fail
    /\ UNCHANGED <<file, synced, handle>>

\* One more cell of the line reaches the file (O_APPEND); the last one ends
\* write_all, and the flush of a File does nothing.
Write ==
    /\ pc = "write"
    /\ LET k == Len(file[date]) - start + 1
       IN  /\ file' = [file EXCEPT ![date] = Append(@, [batch |-> cur, idx |-> k])]
           /\ pc' = IF k = Width THEN "done" ELSE "write"
    /\ UNCHANGED <<synced, handle, call, ghost>>

\* The rollback is recorded one cell too late.
WriteFail_KeepsCell ==
    /\ pc = "write"
    /\ rollback' = Len(file[date])
    /\ pc' = "undo"
    /\ UNCHANGED <<file, synced, date, call, ghost>>

\* write_all fails with part of the line written: remember where it began.
WriteFail ==
    /\ pc = "write"
    /\ rollback' = start
    /\ pc' = "undo"
    /\ UNCHANGED <<file, synced, date, call, ghost>>

\* The write's error is lost and the batch is acknowledged.
UndoOk_ReturnsOk ==
    /\ pc = "undo"
    /\ SetLen(date, rollback)
    /\ rollback' = NoRollback
    /\ pc' = "idle"
    /\ acked' = acked \cup {<<cur, date>>}
    /\ UNCHANGED <<date, call, safe, nacked>>

\* The truncate after a failed write; append returns the write's error in both
\* cases, and the rollback is kept when the truncate failed.
UndoOk ==
    /\ pc = "undo"
    /\ SetLen(date, rollback)
    /\ rollback' = NoRollback
    /\ Fail
    /\ UNCHANGED date

UndoFail ==
    /\ pc = "undo"
    /\ UNCHANGED <<file, synced>> \/ SetLen(date, rollback)
    /\ Fail
    /\ UNCHANGED handle

\* An error is reported for a line that stays in the file.
Ack_RefusesLate ==
    /\ pc = "done"
    /\ \/ acked' = acked \cup {<<cur, date>>} /\ UNCHANGED nacked
       \/ nacked' = nacked \cup {cur} /\ UNCHANGED acked
    /\ pc' = "idle"
    /\ UNCHANGED <<file, synced, handle, call, safe>>

\* append returns Ok and the caller goes on to acknowledge the batch.
Ack ==
    /\ pc = "done"
    /\ acked' = acked \cup {<<cur, date>>}
    /\ pc' = "idle"
    /\ UNCHANGED <<file, synced, handle, call, safe, nacked>>

\* JsonlWriter::flush at shutdown: sync_all under the lock, no repair.
Flush ==
    /\ pc = "idle"
    /\ SyncEffect
    /\ UNCHANGED <<file, pc, handle, call, acked, nacked>>

\* The process ends or is killed at any point: the kernel keeps every cell.
Stop ==
    /\ pc # "down"
    /\ pc' = "down"
    /\ rollback' = NoRollback
    /\ UNCHANGED <<file, synced, date, call, ghost>>

\* The machine loses power: every file keeps at least its synced prefix, and
\* an acknowledged batch that no sync_all covered is owed no longer.
PowerLoss ==
    /\ \E cut \in [Days -> UNION {synced[d]..Len(file[d]) : d \in Days}] :
          /\ \A d \in Days : cut[d] \in synced[d]..Len(file[d])
          /\ file' = [d \in Days |-> SubSeq(file[d], 1, cut[d])]
    /\ pc' = "down"
    /\ rollback' = NoRollback
    /\ acked' = safe
    /\ UNCHANGED <<synced, date, call, safe, nacked>>

Rotate == \/ RepairOk("rotateRepair", "rotateSync")
          \/ RepairFail("rotateRepair")
          \/ RotateSyncOk
          \/ RotateSyncFail
          \/ RotateOpenOk
          \/ RotateOpenFail

AppendLine == \/ RepairOk("repair", "start")
              \/ RepairFail("repair")
              \/ AppendStart
              \/ AppendStartFail
              \/ Write
              \/ WriteFail
              \/ UndoOk
              \/ UndoFail
              \/ Ack

Next == \/ \E d \in Days : Open(d)
        \/ \E b \in Batches, d \in Days : Submit(b, d)
        \/ Rotate
        \/ AppendLine
        \/ Flush
        \/ Stop
        \/ PowerLoss

Spec == Init /\ [][Next]_vars
-----------------------------------------------------------------------------
TypeOK ==
    /\ file \in [Days -> Seq(Cell)]
    /\ synced \in [Days -> Nat]
    /\ pc \in {"down", "idle"} \cup Steps
    /\ date \in Days
    /\ rollback \in Nat \cup {NoRollback}
    /\ start \in Nat
    /\ cur \in Batches
    /\ target \in Days
    /\ used \in SUBSET Batches
    /\ acked \in SUBSET (Batches \X Days)
    /\ safe \in SUBSET (Batches \X Days)
    /\ nacked \in SUBSET Batches

\* No line is ever glued to the remains of another: each cell of a file follows
\* the previous cell of its own line, and a line starts at the beginning of the
\* file or behind a newline. Whatever fails, and wherever the process stops,
\* every newline-terminated line of a file is exactly one whole batch.
LinesWhole == \A d \in Days : WholeLines(file[d])

\* An acknowledged batch stays in the file of its day through later failures,
\* rollbacks, rotations and restarts; through a power loss it does if a sync
\* (rotation or shutdown) came after it.
AckedPersist == \A a \in acked : HasLine(file[a[2]], a[1])

\* A batch whose sender was told it failed never shows up as a line, so the
\* sender's retry does not duplicate it.
NackedAbsent == \A d \in Days, b \in nacked : ~ HasLine(file[d], b)

\* Both answers are honest, as the two properties above say.
AnswersHonest == AckedPersist /\ NackedAbsent

\* When the writer moves to another day, the file it leaves ends with a whole
\* line and every batch acknowledged from it has been synced.
RotationLeavesSafe ==
    [][pc = "rotateOpen" /\ date' # date
          => /\ EndsWhole(file[date])
             /\ \A a \in acked : a[2] = date => a \in safe]_vars
=============================================================================
