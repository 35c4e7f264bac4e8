------------------------------ MODULE TailScan ------------------------------
(***************************************************************************)
(* recover_tail of src/src/storage.rs as the loop it is: the file is read  *)
(* backwards in buffers of Chunk bytes until one holds a newline, and the  *)
(* file is truncated behind the last one. Storage uses the result of this  *)
(* loop as IsValidLen; here the loop is shown to compute it.               *)
(*                                                                         *)
(* Of the bytes only the newlines matter: newlines is the set of their     *)
(* positions, counted from 1, so a prefix of length n ends with a newline  *)
(* when n \in newlines.                                                    *)
(***************************************************************************)
EXTENDS Integers

CONSTANTS Chunk,    \* the size of the buffer, 8192 in the code
          MaxLen    \* the longest file considered

ASSUME ScanAssumption == Chunk \in Nat \ {0} /\ MaxLen \in Nat

VARIABLES originalLen, newlines, end, validLen, len, phase

scanVars == <<originalLen, newlines, end, validLen, len, phase>>

ScanInit ==
    /\ originalLen \in 0..MaxLen
    /\ newlines \in SUBSET (1..originalLen)
    /\ end = originalLen
    /\ validLen = 0
    /\ len = originalLen
    /\ phase = "scan"

\* start = end.saturating_sub(buf.len())
BufStart == IF end > Chunk THEN end - Chunk ELSE 0

\* The first byte of the buffer is not looked at.
Buf_SkipsFirst == (BufStart + 2)..end

\* The positions the buffer holds once it is read.
Buf == (BufStart + 1)..end

\* The whole file has no newline: nothing of it is kept.
ReachStart ==
    /\ phase = "scan"
    /\ end = 0
    /\ validLen' = 0
    /\ phase' = "truncate"
    /\ UNCHANGED <<originalLen, newlines, end, len>>

\* rposition finds the last newline of the buffer; keep up to and with it.
FoundNewline ==
    /\ phase = "scan"
    /\ end # 0
    /\ \E p \in Buf \cap newlines :
          /\ \A q \in Buf \cap newlines : q <= p
          /\ validLen' = p
    /\ phase' = "truncate"
    /\ UNCHANGED <<originalLen, newlines, end, len>>

\* No newline in it: the buffer before this one is next.
NextBuffer ==
    /\ phase = "scan"
    /\ end # 0
    /\ Buf \cap newlines = {}
    /\ end' = BufStart
    /\ UNCHANGED <<originalLen, newlines, validLen, len, phase>>

\* The seek or the read fails: open fails, the file is as it was.
ReadFail ==
    /\ phase = "scan"
    /\ end # 0
    /\ phase' = "failed"
    /\ UNCHANGED <<originalLen, newlines, end, validLen, len>>

\* The file is truncated only when something is to be removed.
Truncate ==
    /\ phase = "truncate"
    /\ len' = IF validLen # originalLen THEN validLen ELSE len
    /\ phase' = "done"
    /\ UNCHANGED <<originalLen, newlines, end, validLen>>

\* set_len fails, or the seek behind it does.
TruncateFail ==
    /\ phase = "truncate"
    /\ validLen # originalLen
    /\ len' \in {len, validLen}
    /\ phase' = "failed"
    /\ UNCHANGED <<originalLen, newlines, end, validLen>>

ScanNext == ReachStart \/ FoundNewline \/ NextBuffer \/ ReadFail \/ Truncate \/ TruncateFail

ScanSpec == ScanInit /\ [][ScanNext]_scanVars
-----------------------------------------------------------------------------
ScanTypeOK ==
    /\ originalLen \in Nat
    /\ newlines \in SUBSET (1..originalLen)
    /\ end \in 0..originalLen
    /\ validLen \in 0..originalLen
    /\ len \in 0..originalLen
    /\ phase \in {"scan", "truncate", "done", "failed"}

\* What is left of the file ends with a newline or is empty, and nothing that
\* was cut off holds a newline: no complete line is lost, no partial one kept.
\* A failed open leaves the file either untouched or in that same shape.
CutsBehindLastNewline ==
    LET Kept == /\ len = 0 \/ len \in newlines
                /\ \A p \in newlines : p <= len
    IN  /\ phase = "done" => Kept
        /\ phase = "failed" => Kept \/ len = originalLen
=============================================================================
