---------------------------- MODULE Diagnostics ----------------------------
(***************************************************************************)
(* The writer of diagnostic logs, src/src/diagnostics.rs: any thread hands *)
(* a line to a bounded queue without waiting, one thread writes them to    *)
(* stderr, lines that are lost are counted and announced by a note before  *)
(* the next line that can be written, and the guard waits a bounded time   *)
(* for the queue at the end of main.                                       *)
(*                                                                         *)
(* A write of a text ends in one of three ways: all of it, nothing, or a   *)
(* part of it without its newline. Lines are numbered in the order they    *)
(* are queued or refused; their text is not modelled. The thread itself    *)
(* does not fail, so the channel is never disconnected.                    *)
(***************************************************************************)
EXTENDS Integers, Sequences, FiniteSets

CONSTANTS Capacity,   \* QUEUE_CAPACITY
          MaxLines    \* bound on the lines logged

ASSUME DiagnosticsAssumption ==
    /\ Capacity \in Nat \ {0}
    /\ MaxLines \in Nat

VARIABLES
    logged,    \* number of lines logged
    refused,   \* writers that found the queue full and have not counted it yet
    dropped,   \* the shared counter
    queue,     \* the channel
    pc,        \* where the thread is
    line,      \* the message it has taken
    lost,      \* what its swap returned
    torn,      \* the last text written has no newline
    out,       \* what stderr holds: texts, and the lines each accounts for
    guard,     \* how the guard's flush stands
    mark       \* the last line logged before the guard's message was queued

vars == <<logged, refused, dropped, queue, pc, line, lost, torn, out, guard, mark>>

\* Message::Flush; a line is its number.
Flush == 0

\* A text on stderr: a line, a note, a part of either without its newline, or
\* the newline that ends such a part.
Text(k, n) == [kind |-> k, lines |-> n]

Init ==
    /\ logged = 0
    /\ refused = 0
    /\ dropped = 0
    /\ queue = <<>>
    /\ pc = "recv"
    /\ line = 0
    /\ lost = 0
    /\ torn = FALSE
    /\ out = <<>>
    /\ guard = "no"
    /\ mark = 0

\* DiagnosticWriter::write: try_send, never waiting.
Log ==
    /\ logged < MaxLines
    /\ logged' = logged + 1
    /\ IF Len(queue) < Capacity
       THEN queue' = Append(queue, logged + 1) /\ UNCHANGED refused
       ELSE refused' = refused + 1 /\ UNCHANGED queue
    /\ UNCHANGED <<dropped, pc, line, lost, torn, out, guard, mark>>

\* fetch_add of a writer that was refused.
CountRefused ==
    /\ refused > 0
    /\ refused' = refused - 1
    /\ dropped' = dropped + 1
    /\ UNCHANGED <<logged, queue, pc, line, lost, torn, out, guard, mark>>
-----------------------------------------------------------------------------
RecvLine ==
    /\ pc = "recv"
    /\ queue # <<>>
    /\ Head(queue) # Flush
    /\ line' = Head(queue)
    /\ queue' = Tail(queue)
    /\ pc' = "swap"
    /\ UNCHANGED <<logged, refused, dropped, lost, torn, out, guard, mark>>

RecvFlush ==
    /\ pc = "recv"
    /\ queue # <<>>
    /\ Head(queue) = Flush
    /\ queue' = Tail(queue)
    /\ guard' = IF guard = "wait" THEN "done" ELSE guard
    /\ UNCHANGED <<logged, refused, dropped, pc, line, lost, torn, out, mark>>

\* lost = dropped.swap(0)
Swap ==
    /\ pc = "swap"
    /\ lost' = dropped
    /\ dropped' = 0
    /\ pc' = IF dropped > 0 THEN "note" ELSE "line"
    /\ UNCHANGED <<logged, refused, queue, line, torn, out, guard, mark>>

\* write_line, first part: end a torn text before anything else is written.
EndTorn ==
    /\ pc \in {"note", "line"}
    /\ torn
    /\ torn' = FALSE
    /\ out' = Append(out, Text("newline", 0))
    /\ UNCHANGED <<logged, refused, dropped, queue, pc, line, lost, guard, mark>>

NoteOk ==
    /\ pc = "note"
    /\ ~ torn
    /\ out' = Append(out, Text("note", lost))
    /\ lost' = 0
    /\ pc' = "line"
    /\ UNCHANGED <<logged, refused, dropped, queue, line, torn, guard, mark>>

LineOk ==
    /\ pc = "line"
    /\ ~ torn
    /\ out' = Append(out, Text("line", 1))
    /\ line' = 0
    /\ pc' = "recv"
    /\ UNCHANGED <<logged, refused, dropped, queue, lost, torn, guard, mark>>

\* A failure after part of the text is taken for one before it.
WriteFails_ForgetsTorn ==
    /\ out' \in {out, Append(out, Text("part", 0))}
    /\ UNCHANGED torn

\* write_line fails: the newline it owed, the text before its first byte, or
\* the text after a part of it.
WriteFails ==
    \/ UNCHANGED <<out, torn>>
    \/ ~ torn /\ out' = Append(out, Text("part", 0)) /\ torn' = TRUE

\* The count of a note that was not written is forgotten.
NoteFails_ForgetsLost ==
    /\ pc = "note"
    /\ WriteFails
    /\ dropped' = dropped + 1
    /\ lost' = 0
    /\ line' = 0
    /\ pc' = "recv"
    /\ UNCHANGED <<logged, refused, queue, guard, mark>>

\* The note is not written: its count and this line are counted again.
NoteFails ==
    /\ pc = "note"
    /\ WriteFails
    /\ dropped' = dropped + lost + 1
    /\ lost' = 0
    /\ line' = 0
    /\ pc' = "recv"
    /\ UNCHANGED <<logged, refused, queue, guard, mark>>

LineFails ==
    /\ pc = "line"
    /\ WriteFails
    /\ dropped' = dropped + 1
    /\ line' = 0
    /\ pc' = "recv"
    /\ UNCHANGED <<logged, refused, queue, lost, guard, mark>>
-----------------------------------------------------------------------------
\* Drop of the guard, when main returns.
GuardDrop ==
    /\ guard = "no"
    /\ guard' = "send"
    /\ UNCHANGED <<logged, refused, dropped, queue, pc, line, lost, torn, out, mark>>

\* flush_until: try_send until there is room.
GuardSend ==
    /\ guard = "send"
    /\ Len(queue) < Capacity
    /\ queue' = Append(queue, Flush)
    /\ guard' = "wait"
    /\ mark' = logged
    /\ UNCHANGED <<logged, refused, dropped, pc, line, lost, torn, out>>

\* The loop around try_send does not look at the clock.
GuardLate_OnlyAnswer ==
    /\ guard = "wait"
    /\ guard' = "late"
    /\ UNCHANGED <<logged, refused, dropped, queue, pc, line, lost, torn, out, mark>>

\* The deadline passes before there is room or before the answer.
GuardLate ==
    /\ guard \in {"send", "wait"}
    /\ guard' = "late"
    /\ UNCHANGED <<logged, refused, dropped, queue, pc, line, lost, torn, out, mark>>

Exited == guard \in {"done", "late"}

Next == \/ /\ ~ Exited
           /\ \/ Log \/ CountRefused
              \/ RecvLine \/ RecvFlush \/ Swap \/ EndTorn
              \/ NoteOk \/ LineOk \/ NoteFails \/ LineFails
              \/ GuardDrop \/ GuardSend \/ GuardLate
        \/ Exited /\ UNCHANGED vars

Spec == Init /\ [][Next]_vars

\* Time passes for the guard; a write to stderr may block for ever.
FairSpec == Spec /\ WF_vars(GuardLate)
-----------------------------------------------------------------------------
Texts == [kind : {"line", "note", "part", "newline"}, lines : Nat]

TypeOK ==
    /\ logged \in 0..MaxLines
    /\ refused \in Nat
    /\ dropped \in Nat
    /\ queue \in Seq(0..MaxLines) /\ Len(queue) <= Capacity
    /\ pc \in {"recv", "swap", "note", "line"}
    /\ line \in 0..MaxLines
    /\ lost \in Nat
    /\ torn \in BOOLEAN
    /\ out \in Seq(Texts)
    /\ guard \in {"no", "send", "wait", "done", "late"}
    /\ mark \in 0..MaxLines

\* The lines that are queued or in the hands of the thread.
Pending == ({queue[i] : i \in DOMAIN queue} \cup {line}) \ {Flush}

\* What stderr accounts for: a pair of a text and a number for every line that
\* the text is or announces.
Told(texts) == UNION {{i} \X (1..texts[i].lines) : i \in DOMAIN texts}

\* Every line logged is on stderr, announced as lost by a note on stderr,
\* still to be announced, or pending, and only one of these: a lost line is
\* counted once even when the note that announces it is lost itself. When the
\* guard's flush succeeds, no line logged before it is pending any more.
LostLinesCounted ==
    /\ logged = Cardinality(Told(out)) + refused + dropped + lost + Cardinality(Pending)
    /\ guard = "done" => \A k \in Pending : k > mark

\* A line or a note never continues a torn text: it starts on a line of its
\* own, behind the newline that write_line owed.
NothingGlued ==
    \A i \in 1..(Len(out) - 1) :
        out[i].kind = "part" => out[i+1].kind = "newline"

\* main returns even when stderr takes nothing.
GuardReturns == guard = "send" ~> Exited
=============================================================================
