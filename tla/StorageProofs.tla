--------------------------- MODULE StorageProofs ---------------------------
(***************************************************************************)
(* Proofs about Storage, for every set of batches and days and every line  *)
(* width, up to its refinement of Store. IInv is the inductive invariant;  *)
(* each of its parts says what the code relies on at one point of          *)
(* append_at. The last section is about TailScan, the search for the last  *)
(* newline that Storage takes as one step.                                 *)
(***************************************************************************)
EXTENDS StorageRefinement, TailScan, TLAPS

\* A rollback point of a handle: a line boundary inside the file, with no
\* newline behind it, so that truncating to it removes no line.
RollbackSound ==
    rollback # NoRollback =>
        /\ rollback <= Len(file[date])
        /\ WholeAt(file[date], rollback)
        /\ \A i \in (rollback + 1)..Len(file[date]) : file[date][i].idx # Width

\* The line being written: its cells, and nothing else, are behind start.
WriteSound ==
    pc \in {"write", "done"} =>
        /\ rollback = NoRollback
        /\ start <= Len(file[date])
        /\ WholeAt(file[date], start)
        /\ \A i \in (start + 1)..Len(file[date]) :
              file[date][i] = [batch |-> cur, idx |-> i - start]
        /\ pc = "write" => Len(file[date]) < start + Width
        /\ pc = "done" => Len(file[date]) = start + Width

\* A handle without a pending rollback stands at a line boundary.
TailSound ==
    pc \notin {"down", "write"} /\ rollback = NoRollback => EndsWhole(file[date])

\* Where each step may find a rollback.
StepSound ==
    /\ pc \in {"down", "rotateSync", "rotateOpen", "start"} => rollback = NoRollback
    /\ pc = "undo" => rollback # NoRollback

\* Newlines are only those of submitted batches, and the batch in progress has
\* none before its append is done.
Fresh ==
    /\ \A d \in Days : \A i \in 1..Len(file[d]) : file[d][i].batch \in used
    /\ nacked \subseteq used
    /\ pc \in Steps => cur \in used \ nacked
    /\ pc \in Steps \ {"done"} => \A d \in Days : ~ HasLine(file[d], cur)

\* The synced prefix of a file holds the line of every safe batch.
SafeSound ==
    /\ \A d \in Days : synced[d] <= Len(file[d])
    /\ safe \subseteq acked
    /\ \A a \in safe : HasLine(SubSeq(file[a[2]], 1, synced[a[2]]), a[1])

IInv ==
    /\ TypeOK
    /\ LinesWhole
    /\ RollbackSound
    /\ WriteSound
    /\ TailSound
    /\ StepSound
    /\ Fresh
    /\ AckedPersist
    /\ SafeSound
    /\ NackedAbsent
-----------------------------------------------------------------------------
(***************************************************************************)
(* Sequences of cells.                                                     *)
(***************************************************************************)
\* Cutting a file anywhere leaves whole lines and one prefix of a line.
LEMMA CutWhole ==
    ASSUME NEW s \in Seq(Cell), NEW n \in 0..Len(s), WholeLines(s)
    PROVE  /\ SubSeq(s, 1, n) \in Seq(Cell)
           /\ Len(SubSeq(s, 1, n)) = n
           /\ \A i \in 1..n : SubSeq(s, 1, n)[i] = s[i]
           /\ WholeLines(SubSeq(s, 1, n))
<1>1. /\ SubSeq(s, 1, n) \in Seq(Cell)
      /\ Len(SubSeq(s, 1, n)) = n
      /\ \A i \in 1..n : SubSeq(s, 1, n)[i] = s[i]
  OBVIOUS
<1>2. ASSUME NEW i \in 1..n
      PROVE  /\ s[i].idx > 1 =>
                   i > 1 /\ s[i-1] = [batch |-> s[i].batch, idx |-> s[i].idx - 1]
             /\ s[i].idx = 1 => WholeAt(s, i - 1)
  BY DEF WholeLines
<1>3. ASSUME NEW i \in 1..n, i > 1
      PROVE  SubSeq(s, 1, n)[i-1] = s[i-1]
  BY <1>1, <1>3
<1> QED
  BY <1>1, <1>2, <1>3 DEF WholeLines, WholeAt

\* Cutting behind the last newline removes no line.
LEMMA CutLines ==
    ASSUME NEW s \in Seq(Cell), NEW n \in 0..Len(s),
           \A i \in (n + 1)..Len(s) : s[i].idx # Width
    PROVE  \A b \in Batches : HasLine(SubSeq(s, 1, n), b) <=> HasLine(s, b)
<1>1. Len(SubSeq(s, 1, n)) = n /\ \A i \in 1..n : SubSeq(s, 1, n)[i] = s[i]
  OBVIOUS
<1>2. ASSUME NEW b \in Batches, HasLine(SubSeq(s, 1, n), b)
      PROVE  HasLine(s, b)
  BY <1>1, <1>2 DEF HasLine
<1>3. ASSUME NEW b \in Batches, HasLine(s, b)
      PROVE  HasLine(SubSeq(s, 1, n), b)
  <2>1. PICK i \in 1..Len(s) : s[i] = Newline(b)
    BY <1>3 DEF HasLine
  <2>2. i \in 1..n
    BY <2>1 DEF Newline
  <2> QED
    BY <1>1, <2>1, <2>2 DEF HasLine
<1> QED
  BY <1>2, <1>3

\* A longer prefix of a file has the lines of a shorter one.
LEMMA PrefixLines ==
    ASSUME NEW s \in Seq(Cell), NEW m \in 0..Len(s), NEW n \in m..Len(s),
           NEW b \in Batches, HasLine(SubSeq(s, 1, m), b)
    PROVE  HasLine(SubSeq(s, 1, n), b)
BY DEF HasLine

\* Two files that agree up to n have the same prefix of length n.
LEMMA SamePrefix ==
    ASSUME NEW s \in Seq(Cell), NEW t \in Seq(Cell),
           NEW n \in 0..Len(s), n <= Len(t),
           \A i \in 1..n : t[i] = s[i]
    PROVE  SubSeq(t, 1, n) = SubSeq(s, 1, n)
OBVIOUS

\* Writing the next cell of a line extends the file without gluing lines.
LEMMA AppendWhole ==
    ASSUME NEW s \in Seq(Cell), NEW c \in Cell, WholeLines(s),
           c.idx > 1 => Len(s) > 0 /\ s[Len(s)] = [batch |-> c.batch, idx |-> c.idx - 1],
           c.idx = 1 => EndsWhole(s)
    PROVE  /\ Append(s, c) \in Seq(Cell)
           /\ Len(Append(s, c)) = Len(s) + 1
           /\ \A i \in 1..Len(s) : Append(s, c)[i] = s[i]
           /\ Append(s, c)[Len(s) + 1] = c
           /\ WholeLines(Append(s, c))
<1> DEFINE t == Append(s, c)
<1>1. /\ t \in Seq(Cell)
      /\ Len(t) = Len(s) + 1
      /\ \A i \in 1..Len(s) : t[i] = s[i]
      /\ t[Len(s) + 1] = c
  OBVIOUS
<1>2. ASSUME NEW i \in 1..Len(s)
      PROVE  /\ t[i].idx > 1 => i > 1 /\ t[i-1] = [batch |-> t[i].batch, idx |-> t[i].idx - 1]
             /\ t[i].idx = 1 => WholeAt(t, i - 1)
  <2>1. i > 1 => t[i-1] = s[i-1]
    BY <1>1
  <2> HIDE DEF t
  <2> QED
    BY <1>1, <2>1 DEF WholeLines, WholeAt
<1>3. /\ c.idx > 1 => Len(s) + 1 > 1 /\ t[Len(s)] = [batch |-> c.batch, idx |-> c.idx - 1]
      /\ c.idx = 1 => WholeAt(t, Len(s))
  <2> HIDE DEF t
  <2> QED
    BY <1>1 DEF EndsWhole, WholeAt
<1> HIDE DEF t
<1>4. WholeLines(t)
  BY <1>1, <1>2, <1>3 DEF WholeLines
<1> QED
  BY <1>1, <1>4 DEF t
-----------------------------------------------------------------------------
(***************************************************************************)
(* The part of the invariant that only the files and the ghosts matter to, *)
(* and the three ways the files change.                                    *)
(***************************************************************************)
FilesInv ==
    /\ file \in [Days -> Seq(Cell)]
    /\ synced \in [Days -> Nat]
    /\ LinesWhole
    /\ AckedPersist
    /\ SafeSound
    /\ NackedAbsent

\* No file has grown and no line, synced or not, is gone.
Shrunk ==
    /\ file' \in [Days -> Seq(Cell)]
    /\ synced' \in [Days -> Nat]
    /\ \A e \in Days : Len(file'[e]) <= Len(file[e])
    /\ \A e \in Days : \A i \in 1..Len(file'[e]) : file'[e][i] = file[e][i]
    /\ \A e \in Days : WholeLines(file'[e])
    /\ \A e \in Days, b \in Batches : HasLine(file'[e], b) <=> HasLine(file[e], b)
    /\ \A e \in Days : synced'[e] <= Len(file'[e])
    /\ \A a \in safe : HasLine(SubSeq(file'[a[2]], 1, synced'[a[2]]), a[1])

\* Truncating to a line boundary with no newline behind it (a pending rollback,
\* or what recover_tail keeps) loses no line, synced or not.
LEMMA CutEffect ==
    ASSUME FilesInv, TypeOK, NEW d \in Days, NEW n \in 0..Len(file[d]),
           \A i \in (n + 1)..Len(file[d]) : file[d][i].idx # Width,
           SetLen(d, n)
    PROVE  /\ Shrunk
           /\ Len(file'[d]) = n
           /\ \A e \in Days \ {d} : file'[e] = file[e]
<1> DEFINE s == file[d]
           t == SubSeq(s, 1, n)
<1>1. s \in Seq(Cell) /\ WholeLines(s)
  BY DEF FilesInv, LinesWhole
<1>2. /\ t \in Seq(Cell)
      /\ Len(t) = n
      /\ \A i \in 1..n : t[i] = s[i]
      /\ WholeLines(t)
  BY <1>1, CutWhole
<1>3. \A b \in Batches : HasLine(t, b) <=> HasLine(s, b)
  BY <1>1, CutLines
<1>4. /\ file' = [file EXCEPT ![d] = t]
      /\ synced' = [synced EXCEPT ![d] = Min2(@, n)]
  BY DEF SetLen
<1>5. Min2(synced[d], n) \in Nat /\ Min2(synced[d], n) <= n
  BY DEF Min2, FilesInv
<1>6. \A e \in Days : file'[e] = IF e = d THEN t ELSE file[e]
  BY <1>4 DEF FilesInv
<1>7. \A e \in Days : synced'[e] = IF e = d THEN Min2(synced[d], n) ELSE synced[e]
  BY <1>4 DEF FilesInv
<1>8. /\ file' \in [Days -> Seq(Cell)]
      /\ synced' \in [Days -> Nat]
  BY <1>2, <1>4, <1>5 DEF FilesInv
<1>9. ASSUME NEW a \in safe
      PROVE  HasLine(SubSeq(file'[a[2]], 1, synced'[a[2]]), a[1])
  <2>1. a[1] \in Batches /\ a[2] \in Days
    BY DEF TypeOK
  <2>2. HasLine(SubSeq(file[a[2]], 1, synced[a[2]]), a[1])
    BY DEF FilesInv, SafeSound
  <2>3. CASE a[2] # d
    BY <2>1, <2>2, <2>3, <1>6, <1>7
  <2>4. CASE a[2] = d
    <3>1. synced[d] \in 0..Len(s)
      BY DEF FilesInv, SafeSound
    <3>2. /\ SubSeq(s, 1, synced[d]) \in Seq(Cell)
          /\ Len(SubSeq(s, 1, synced[d])) = synced[d]
          /\ \A i \in 1..synced[d] : SubSeq(s, 1, synced[d])[i] = s[i]
      BY <1>1, <3>1, CutWhole
    <3>3. PICK i \in 1..synced[d] : s[i] = Newline(a[1])
      <4> HIDE DEF s
      <4> QED
        BY <2>2, <2>4, <3>2 DEF HasLine, s
    <3>4. i \in 1..n
      BY <3>1, <3>3, <2>1 DEF Newline
    <3>5. i \in 1..synced'[d]
      BY <1>7, <3>4 DEF Min2, FilesInv
    <3>6. t[i] = Newline(a[1])
      BY <1>2, <3>3, <3>4
    <3>7. synced'[d] \in 0..Len(t)
      BY <1>2, <1>5, <1>7
    <3>8. /\ Len(SubSeq(t, 1, synced'[d])) = synced'[d]
          /\ \A j \in 1..synced'[d] : SubSeq(t, 1, synced'[d])[j] = t[j]
      BY <1>2, <3>7, CutWhole
    <3>9. file'[d] = t
      BY <1>6
    <3> HIDE DEF t
    <3> QED
      BY <2>4, <3>5, <3>6, <3>8, <3>9 DEF HasLine
  <2> QED
    BY <2>3, <2>4
<1>10. \A e \in Days : Len(file'[e]) = IF e = d THEN n ELSE Len(file[e])
  BY <1>2, <1>6
<1>11. \A e \in Days : \A i \in 1..Len(file'[e]) : file'[e][i] = file[e][i]
  BY <1>2, <1>6
<1>12. \A e \in Days : WholeLines(file'[e])
  BY <1>2, <1>6 DEF FilesInv, LinesWhole
<1>13. \A e \in Days, b \in Batches : HasLine(file'[e], b) <=> HasLine(file[e], b)
  BY <1>3, <1>6
<1>14. \A e \in Days : synced'[e] <= Len(file'[e])
  BY <1>5, <1>7, <1>10 DEF FilesInv, SafeSound
<1>15. \A e \in Days \ {d} : file'[e] = file[e]
  BY <1>6
<1>16. \A e \in Days : Len(file'[e]) <= Len(file[e])
  <2>1. \A e \in Days : Len(file[e]) \in Nat /\ file[e] \in Seq(Cell)
    BY DEF FilesInv
  <2> QED
    BY <1>10, <2>1
<1>17. Shrunk
  BY <1>8, <1>9, <1>11, <1>12, <1>13, <1>14, <1>16 DEF Shrunk
<1> QED
  BY <1>10, <1>15, <1>17

LEMMA SameShrunk ==
    ASSUME FilesInv, UNCHANGED <<file, synced>>
    PROVE  Shrunk
BY DEF FilesInv, Shrunk, LinesWhole, SafeSound

\* What such a step preserves, when all it does to the ghosts is to report the
\* failure of an append that has not written its newline.
LEMMA ShrunkKeeps ==
    ASSUME IInv, Shrunk, UNCHANGED <<acked, safe>>,
           used \subseteq used', used' \in SUBSET Batches,
           \/ nacked' = nacked
           \/ pc \in Steps \ {"done"} /\ nacked' = nacked \cup {cur}
    PROVE  /\ FilesInv'
           /\ nacked' \subseteq used'
           /\ \A d \in Days : \A i \in 1..Len(file'[d]) : file'[d][i].batch \in used'
<1> USE DEF IInv
<1>1. LinesWhole'
  BY DEF Shrunk, LinesWhole
<1>2. AckedPersist'
  BY DEF Shrunk, AckedPersist, TypeOK
<1>3. SafeSound'
  BY DEF Shrunk, SafeSound
<1>4. nacked' \subseteq used'
  BY DEF Fresh
<1>5. \A d \in Days, b \in nacked' : ~ HasLine(file[d], b)
  BY DEF Fresh, NackedAbsent
<1>6. NackedAbsent'
  BY <1>4, <1>5 DEF Shrunk, NackedAbsent
<1>7. \A d \in Days : \A i \in 1..Len(file'[d]) : file'[d][i].batch \in used'
  <2> SUFFICES ASSUME NEW d \in Days, NEW i \in 1..Len(file'[d])
               PROVE  file'[d][i].batch \in used'
    OBVIOUS
  <2>1. i \in 1..Len(file[d]) /\ file'[d][i] = file[d][i]
    BY DEF Shrunk, TypeOK
  <2> QED
    BY <2>1 DEF Fresh
<1> QED
  BY <1>1, <1>2, <1>3, <1>4, <1>6, <1>7 DEF FilesInv, Shrunk
\* A sync_all makes every batch acknowledged from the open file safe.
LEMMA SyncKeeps ==
    ASSUME IInv, file' = file, acked' = acked,
           synced' = [synced EXCEPT ![date] = Len(file[date])],
           safe' = safe \cup {a \in acked : a[2] = date}
    PROVE  SafeSound'
<1> USE DEF IInv
<1>1. \A d \in Days : synced'[d] = IF d = date THEN Len(file[d]) ELSE synced[d]
  BY DEF TypeOK
<1>2. \A d \in Days : synced'[d] <= Len(file[d]) /\ synced[d] <= synced'[d]
  BY <1>1 DEF SafeSound, TypeOK
<1>3. ASSUME NEW a \in safe'
      PROVE  HasLine(SubSeq(file[a[2]], 1, synced'[a[2]]), a[1])
  <2>0. a[1] \in Batches /\ a[2] \in Days /\ a \in acked
    BY DEF TypeOK, SafeSound
  <2>1. /\ file[a[2]] \in Seq(Cell)
        /\ synced[a[2]] \in 0..Len(file[a[2]])
        /\ synced'[a[2]] \in synced[a[2]]..Len(file[a[2]])
    BY <1>1, <1>2, <2>0 DEF TypeOK
  <2>2. CASE a \in safe
    BY <2>0, <2>1, <2>2, PrefixLines DEF SafeSound
  <2>3. CASE a[2] = date
    <3>1. SubSeq(file[date], 1, Len(file[date])) = file[date]
      BY <2>0, <2>1, <2>3
    <3>2. HasLine(file[date], a[1])
      BY <2>0, <2>3 DEF AckedPersist
    <3>3. synced'[a[2]] = Len(file[date])
      BY <1>1, <2>0, <2>3
    <3> QED
      BY ONLY <2>3, <3>1, <3>2, <3>3
  <2> QED
    BY <2>2, <2>3
<1>4. safe' \subseteq acked'
  BY DEF SafeSound
<1> QED
  BY <1>2, <1>3, <1>4 DEF SafeSound
-----------------------------------------------------------------------------
LEMMA InitIInv == Init => IInv
<1> SUFFICES ASSUME Init PROVE IInv
  OBVIOUS
<1> USE DEF Init
<1>1. TypeOK
  BY DEF TypeOK, NoRollback
<1>2. \A d \in Days : file[d] = <<>> /\ Len(file[d]) = 0 /\ synced[d] = 0
  OBVIOUS
<1>3. LinesWhole
  BY <1>2 DEF LinesWhole, WholeLines
<1>4. RollbackSound /\ WriteSound /\ TailSound /\ StepSound
  BY DEF RollbackSound, WriteSound, TailSound, StepSound
<1>5. Fresh /\ AckedPersist /\ SafeSound /\ NackedAbsent
  BY <1>2 DEF Fresh, AckedPersist, SafeSound, NackedAbsent, Steps
<1> QED
  BY <1>1, <1>3, <1>4, <1>5 DEF IInv

\* Every step of the writer preserves the invariant.
LEMMA StepIInv == IInv /\ [Next]_vars => IInv'
<1> SUFFICES ASSUME IInv, [Next]_vars PROVE IInv'
  OBVIOUS
<1>0. FilesInv
  BY DEF IInv, FilesInv, TypeOK
<1> USE <1>0, WidthAssumption DEF IInv, NoRollback
<1>1. ASSUME NEW b \in Batches, NEW d \in Days, Submit(b, d) PROVE IInv'
  <2> USE <1>1 DEF Submit
  <2>1. Shrunk
    BY SameShrunk
  <2>2. /\ FilesInv'
        /\ nacked' \subseteq used'
        /\ \A e \in Days : \A i \in 1..Len(file'[e]) : file'[e][i].batch \in used'
    BY <2>1, ShrunkKeeps DEF call, ghost, handle, Steps, TypeOK
  <2>3. TypeOK'
    BY <2>2 DEF TypeOK, FilesInv, Steps, call, ghost, handle
  <2>4. RollbackSound' /\ WriteSound' /\ TailSound' /\ StepSound'
    BY DEF RollbackSound, WriteSound, TailSound, StepSound, Steps, TypeOK, call, ghost, handle
  <2>5. \A e \in Days : ~ HasLine(file[e], b)
    BY DEF Fresh, HasLine, Newline
  <2>6. Fresh'
    BY <2>2, <2>5 DEF Fresh, Steps, TypeOK, HasLine, ghost
  <2> QED
    BY <2>2, <2>3, <2>4, <2>6 DEF FilesInv
<1>2. ASSUME RotateSyncFail PROVE IInv'
  <2> USE <1>2 DEF RotateSyncFail, Fail
  <2>1. Shrunk
    BY SameShrunk
  <2>2. /\ FilesInv'
        /\ nacked' \subseteq used'
        /\ \A d \in Days : \A i \in 1..Len(file'[d]) : file'[d][i].batch \in used'
    BY <2>1, ShrunkKeeps DEF call, ghost, handle, Steps, TypeOK
  <2>3. TypeOK'
    BY <2>2 DEF TypeOK, FilesInv, Steps, call, ghost, handle
  <2>4. RollbackSound' /\ WriteSound' /\ TailSound' /\ StepSound'
    BY DEF RollbackSound, WriteSound, TailSound, StepSound, Steps, TypeOK, call, ghost, handle
  <2>5. Fresh'
    BY <2>2 DEF Fresh, Steps, TypeOK, call, ghost, handle
  <2> QED
    BY <2>2, <2>3, <2>4, <2>5 DEF FilesInv
<1>3. ASSUME AppendStart PROVE IInv'
  <2> USE <1>3 DEF AppendStart
  <2>1. Shrunk
    BY SameShrunk
  <2>2. /\ FilesInv'
        /\ nacked' \subseteq used'
        /\ \A d \in Days : \A i \in 1..Len(file'[d]) : file'[d][i].batch \in used'
    BY <2>1, ShrunkKeeps DEF call, ghost, handle, Steps, TypeOK
  <2>3. TypeOK'
    BY <2>2 DEF TypeOK, FilesInv, Steps, call, ghost, handle
  <2>4. RollbackSound' /\ WriteSound' /\ TailSound' /\ StepSound'
    <3>1. Len(file[date]) \in Nat /\ WholeAt(file[date], Len(file[date]))
      BY DEF TailSound, StepSound, TypeOK, EndsWhole
    <3>2. WriteSound'
      BY <3>1 DEF WriteSound, StepSound, TypeOK, handle
    <3> QED
      BY <3>2 DEF RollbackSound, TailSound, StepSound, handle
  <2>5. Fresh'
    BY <2>2 DEF Fresh, Steps, TypeOK, call, ghost, handle
  <2> QED
    BY <2>2, <2>3, <2>4, <2>5 DEF FilesInv
<1>4. ASSUME AppendStartFail PROVE IInv'
  <2> USE <1>4 DEF AppendStartFail, Fail
  <2>1. Shrunk
    BY SameShrunk
  <2>2. /\ FilesInv'
        /\ nacked' \subseteq used'
        /\ \A d \in Days : \A i \in 1..Len(file'[d]) : file'[d][i].batch \in used'
    BY <2>1, ShrunkKeeps DEF call, ghost, handle, Steps, TypeOK
  <2>3. TypeOK'
    BY <2>2 DEF TypeOK, FilesInv, Steps, call, ghost, handle
  <2>4. RollbackSound' /\ WriteSound' /\ TailSound' /\ StepSound'
    BY DEF RollbackSound, WriteSound, TailSound, StepSound, Steps, TypeOK, call, ghost, handle
  <2>5. Fresh'
    BY <2>2 DEF Fresh, Steps, TypeOK, call, ghost, handle
  <2> QED
    BY <2>2, <2>3, <2>4, <2>5 DEF FilesInv
<1>5. ASSUME WriteFail PROVE IInv'
  <2> USE <1>5 DEF WriteFail
  <2>1. Shrunk
    BY SameShrunk
  <2>2. /\ FilesInv'
        /\ nacked' \subseteq used'
        /\ \A d \in Days : \A i \in 1..Len(file'[d]) : file'[d][i].batch \in used'
    BY <2>1, ShrunkKeeps DEF call, ghost, handle, Steps, TypeOK
  <2>3. TypeOK'
    BY <2>2 DEF TypeOK, FilesInv, Steps, call, ghost, handle
  <2>4. RollbackSound' /\ WriteSound' /\ TailSound' /\ StepSound'
    <3>1. ASSUME NEW i \in (start + 1)..Len(file[date])
          PROVE  file[date][i].idx # Width
      <4>1. file[date][i] = [batch |-> cur, idx |-> i - start]
        BY DEF WriteSound
      <4>2. i - start # Width
        BY DEF WriteSound, TypeOK
      <4> QED
        BY <4>1, <4>2
    <3>2. RollbackSound'
      BY <3>1 DEF RollbackSound, WriteSound, TypeOK
    <3> QED
      BY <3>2 DEF WriteSound, TailSound, StepSound, TypeOK
  <2>5. Fresh'
    BY <2>2 DEF Fresh, Steps, TypeOK, call, ghost, handle
  <2> QED
    BY <2>2, <2>3, <2>4, <2>5 DEF FilesInv
<1>6. ASSUME Stop PROVE IInv'
  <2> USE <1>6 DEF Stop
  <2>1. Shrunk
    BY SameShrunk
  <2>2. /\ FilesInv'
        /\ nacked' \subseteq used'
        /\ \A d \in Days : \A i \in 1..Len(file'[d]) : file'[d][i].batch \in used'
    BY <2>1, ShrunkKeeps DEF call, ghost, handle, Steps, TypeOK
  <2>3. TypeOK'
    BY <2>2 DEF TypeOK, FilesInv, Steps, call, ghost, handle
  <2>4. RollbackSound' /\ WriteSound' /\ TailSound' /\ StepSound'
    BY DEF RollbackSound, WriteSound, TailSound, StepSound, Steps, TypeOK, call, ghost, handle
  <2>5. Fresh'
    BY <2>2 DEF Fresh, Steps, TypeOK, call, ghost, handle
  <2> QED
    BY <2>2, <2>3, <2>4, <2>5 DEF FilesInv
<1>7. ASSUME UNCHANGED vars PROVE IInv'
  <2> USE <1>7 DEF vars, handle, call, ghost
  <2>1. Shrunk
    BY SameShrunk
  <2>2. /\ FilesInv'
        /\ nacked' \subseteq used'
        /\ \A d \in Days : \A i \in 1..Len(file'[d]) : file'[d][i].batch \in used'
    BY <2>1, ShrunkKeeps DEF call, ghost, handle, Steps, TypeOK
  <2>3. TypeOK'
    BY <2>2 DEF TypeOK, FilesInv, Steps, call, ghost, handle
  <2>4. RollbackSound' /\ WriteSound' /\ TailSound' /\ StepSound'
    BY DEF RollbackSound, WriteSound, TailSound, StepSound, Steps, TypeOK, call, ghost, handle
  <2>5. Fresh'
    BY <2>2 DEF Fresh, Steps, TypeOK, call, ghost, handle
  <2> QED
    BY <2>2, <2>3, <2>4, <2>5 DEF FilesInv
<1>8. ASSUME NEW d \in Days, Open(d) PROVE IInv'
  <2> USE <1>8 DEF Open
  <2>0. PICK n \in 0..Len(file[d]) : IsValidLen(file[d], n) /\ SetLen(d, n)
    OBVIOUS
  <2>1. Shrunk /\ Len(file'[d]) = n
    BY <2>0, CutEffect DEF IsValidLen
  <2>2. /\ FilesInv'
        /\ nacked' \subseteq used'
        /\ \A e \in Days : \A i \in 1..Len(file'[e]) : file'[e][i].batch \in used'
    BY <2>1, ShrunkKeeps DEF call, ghost, handle, Steps, TypeOK, Fail
  <2>3. TypeOK'
    BY <2>2 DEF TypeOK, FilesInv, Steps, call, ghost, handle, Fail
  <2>4. RollbackSound' /\ WriteSound' /\ TailSound' /\ StepSound'
    <3>1. n > 0 => file'[d][n] = file[d][n]
      BY <2>1 DEF Shrunk, TypeOK
    <3>2. EndsWhole(file'[d])
      BY <2>0, <2>1, <3>1 DEF EndsWhole, WholeAt, IsValidLen
    <3> QED
      BY <3>2 DEF RollbackSound, WriteSound, TailSound, StepSound
  <2>5. Fresh'
    BY <2>2 DEF Fresh, Steps, TypeOK, call, ghost, handle, Fail
  <2> QED
    BY <2>2, <2>3, <2>4, <2>5 DEF FilesInv
<1>9. ASSUME NEW at \in {"rotateRepair", "repair"}, NEW next \in {"rotateSync", "start"},
             RepairOk(at, next)
      PROVE  IInv'
  <2> USE <1>9 DEF RepairOk
  <2>1. Shrunk /\ EndsWhole(file'[date])
    <3>1. CASE rollback = NoRollback
      BY <3>1, SameShrunk DEF TailSound, EndsWhole
    <3>2. CASE rollback # NoRollback
      <4>1. rollback \in 0..Len(file[date]) /\ date \in Days
        BY <3>2 DEF RollbackSound, TypeOK
      <4>2. Shrunk /\ Len(file'[date]) = rollback
        BY <3>2, <4>1, CutEffect DEF RollbackSound
      <4>3. rollback > 0 => file'[date][rollback] = file[date][rollback]
        BY <4>1, <4>2 DEF Shrunk
      <4> QED
        BY <3>2, <4>2, <4>3 DEF RollbackSound, EndsWhole, WholeAt
    <3> QED
      BY <3>1, <3>2
  <2>2. /\ FilesInv'
        /\ nacked' \subseteq used'
        /\ \A d \in Days : \A i \in 1..Len(file'[d]) : file'[d][i].batch \in used'
    BY <2>1, ShrunkKeeps DEF call, ghost, handle, Steps, TypeOK, Fail
  <2>3. TypeOK'
    BY <2>2 DEF TypeOK, FilesInv, Steps, call, ghost, handle, Fail
  <2>4. RollbackSound' /\ WriteSound' /\ TailSound' /\ StepSound'
    BY <2>1 DEF RollbackSound, WriteSound, TailSound, StepSound
  <2>5. Fresh'
    BY <2>1, <2>2 DEF Fresh, Steps, TypeOK, call, ghost, Shrunk
  <2> QED
    BY <2>2, <2>3, <2>4, <2>5 DEF FilesInv
<1>10. ASSUME NEW at \in {"rotateRepair", "repair"}, RepairFail(at) PROVE IInv'
  <2> USE <1>10 DEF RepairFail, Fail
  <2>0. /\ rollback \in 0..Len(file[date])
        /\ date \in Days
        /\ pc \in Steps \ {"done"}
    BY DEF RollbackSound, StepSound, TypeOK, Steps
  <2>1. Shrunk /\ rollback <= Len(file'[date])
    <3>1. CASE UNCHANGED <<file, synced>>
      BY <2>0, <3>1, SameShrunk
    <3>2. CASE SetLen(date, rollback)
      BY <2>0, <3>2, CutEffect DEF RollbackSound, StepSound
    <3> QED
      BY <3>1, <3>2
  <2>2. /\ FilesInv'
        /\ nacked' \subseteq used'
        /\ \A d \in Days : \A i \in 1..Len(file'[d]) : file'[d][i].batch \in used'
    BY <2>1, ShrunkKeeps DEF call, ghost, handle, Steps, TypeOK, Fail
  <2>3. TypeOK'
    BY <2>2 DEF TypeOK, FilesInv, Steps, call, ghost, handle, Fail
  <2>4. RollbackSound' /\ WriteSound' /\ TailSound' /\ StepSound'
    <3>1. \A i \in 1..Len(file'[date]) : file'[date][i] = file[date][i]
      BY <2>0, <2>1 DEF Shrunk
    <3>2. /\ Len(file'[date]) \in Nat
          /\ Len(file[date]) \in Nat
          /\ Len(file'[date]) <= Len(file[date])
      <4>1. file'[date] \in Seq(Cell) /\ file[date] \in Seq(Cell)
        BY <2>0, <2>1 DEF Shrunk, TypeOK
      <4> QED
        BY <2>0, <2>1, <4>1 DEF Shrunk
    <3>3. RollbackSound'
      <4>1. rollback' = rollback /\ date' = date /\ rollback # NoRollback
        BY DEF StepSound, handle
      <4>2. WholeAt(file'[date], rollback)
        BY <2>0, <2>1, <3>1, <4>1 DEF RollbackSound, WholeAt
      <4>3. \A i \in (rollback + 1)..Len(file'[date]) : file'[date][i].idx # Width
        BY <2>0, <3>1, <3>2, <4>1 DEF RollbackSound
      <4> QED
        BY <2>1, <4>1, <4>2, <4>3 DEF RollbackSound
    <3> QED
      BY <3>3 DEF WriteSound, TailSound, StepSound, handle
  <2>5. Fresh'
    BY <2>2 DEF Fresh, Steps, TypeOK, call, ghost, handle, Fail
  <2> QED
    BY <2>2, <2>3, <2>4, <2>5 DEF FilesInv
<1>11. ASSUME UndoFail PROVE IInv'
  <2> USE <1>11 DEF UndoFail, Fail
  <2>0. /\ rollback \in 0..Len(file[date])
        /\ date \in Days
        /\ pc \in Steps \ {"done"}
    BY DEF RollbackSound, StepSound, TypeOK, Steps
  <2>1. Shrunk /\ rollback <= Len(file'[date])
    <3>1. CASE UNCHANGED <<file, synced>>
      BY <2>0, <3>1, SameShrunk
    <3>2. CASE SetLen(date, rollback)
      BY <2>0, <3>2, CutEffect DEF RollbackSound, StepSound
    <3> QED
      BY <3>1, <3>2
  <2>2. /\ FilesInv'
        /\ nacked' \subseteq used'
        /\ \A d \in Days : \A i \in 1..Len(file'[d]) : file'[d][i].batch \in used'
    BY <2>1, ShrunkKeeps DEF call, ghost, handle, Steps, TypeOK, Fail
  <2>3. TypeOK'
    BY <2>2 DEF TypeOK, FilesInv, Steps, call, ghost, handle, Fail
  <2>4. RollbackSound' /\ WriteSound' /\ TailSound' /\ StepSound'
    <3>1. \A i \in 1..Len(file'[date]) : file'[date][i] = file[date][i]
      BY <2>0, <2>1 DEF Shrunk
    <3>2. /\ Len(file'[date]) \in Nat
          /\ Len(file[date]) \in Nat
          /\ Len(file'[date]) <= Len(file[date])
      <4>1. file'[date] \in Seq(Cell) /\ file[date] \in Seq(Cell)
        BY <2>0, <2>1 DEF Shrunk, TypeOK
      <4> QED
        BY <2>0, <2>1, <4>1 DEF Shrunk
    <3>3. RollbackSound'
      <4>1. rollback' = rollback /\ date' = date /\ rollback # NoRollback
        BY DEF StepSound, handle
      <4>2. WholeAt(file'[date], rollback)
        BY <2>0, <2>1, <3>1, <4>1 DEF RollbackSound, WholeAt
      <4>3. \A i \in (rollback + 1)..Len(file'[date]) : file'[date][i].idx # Width
        BY <2>0, <3>1, <3>2, <4>1 DEF RollbackSound
      <4> QED
        BY <2>1, <4>1, <4>2, <4>3 DEF RollbackSound
    <3> QED
      BY <3>3 DEF WriteSound, TailSound, StepSound, handle
  <2>5. Fresh'
    BY <2>2 DEF Fresh, Steps, TypeOK, call, ghost, handle, Fail
  <2> QED
    BY <2>2, <2>3, <2>4, <2>5 DEF FilesInv
<1>12. ASSUME UndoOk PROVE IInv'
  <2> USE <1>12 DEF UndoOk, Fail
  <2>0. rollback \in 0..Len(file[date]) /\ date \in Days
    BY DEF RollbackSound, StepSound, TypeOK
  <2>1. Shrunk /\ Len(file'[date]) = rollback
    BY <2>0, CutEffect DEF RollbackSound, StepSound
  <2>2. /\ FilesInv'
        /\ nacked' \subseteq used'
        /\ \A d \in Days : \A i \in 1..Len(file'[d]) : file'[d][i].batch \in used'
    BY <2>1, ShrunkKeeps DEF call, ghost, handle, Steps, TypeOK, Fail
  <2>3. TypeOK'
    BY <2>2 DEF TypeOK, FilesInv, Steps, call, ghost, handle, Fail
  <2>4. RollbackSound' /\ WriteSound' /\ TailSound' /\ StepSound'
    <3>1. rollback > 0 => file'[date][rollback] = file[date][rollback]
      BY <2>0, <2>1 DEF Shrunk
    <3>2. EndsWhole(file'[date])
      BY <2>1, <3>1 DEF EndsWhole, WholeAt, RollbackSound, StepSound
    <3> QED
      BY <3>2 DEF RollbackSound, WriteSound, TailSound, StepSound
  <2>5. Fresh'
    BY <2>2 DEF Fresh, Steps, TypeOK, call, ghost, handle, Fail
  <2> QED
    BY <2>2, <2>3, <2>4, <2>5 DEF FilesInv
<1>13. ASSUME RotateOpenOk PROVE IInv'
  <2> USE <1>13 DEF RotateOpenOk
  <2>0. PICK n \in 0..Len(file[target]) :
            IsValidLen(file[target], n) /\ SetLen(target, n)
    OBVIOUS
  <2>1. Shrunk /\ Len(file'[target]) = n
    BY <2>0, CutEffect DEF IsValidLen, TypeOK
  <2>2. /\ FilesInv'
        /\ nacked' \subseteq used'
        /\ \A d \in Days : \A i \in 1..Len(file'[d]) : file'[d][i].batch \in used'
    BY <2>1, ShrunkKeeps DEF call, ghost, handle, Steps, TypeOK, Fail
  <2>3. TypeOK'
    BY <2>2 DEF TypeOK, FilesInv, Steps, call, ghost, handle, Fail
  <2>4. RollbackSound' /\ WriteSound' /\ TailSound' /\ StepSound'
    <3>0. target \in Days
      BY DEF TypeOK
    <3>1. n > 0 => file'[target][n] = file[target][n]
      BY <2>0, <2>1, <3>0 DEF Shrunk
    <3>2. EndsWhole(file'[target])
      BY <2>0, <2>1, <3>1 DEF EndsWhole, WholeAt, IsValidLen
    <3> QED
      BY <3>2 DEF RollbackSound, WriteSound, TailSound, StepSound
  <2>5. Fresh'
    BY <2>1, <2>2 DEF Fresh, Steps, TypeOK, call, ghost, handle, Shrunk
  <2> QED
    BY <2>2, <2>3, <2>4, <2>5 DEF FilesInv
<1>14. ASSUME RotateOpenFail PROVE IInv'
  <2> USE <1>14 DEF RotateOpenFail, Fail
  <2>0. rollback = NoRollback /\ EndsWhole(file[date]) /\ date \in Days
    BY DEF StepSound, TailSound, TypeOK
  <2>1. Shrunk /\ EndsWhole(file'[date])
    <3>1. CASE UNCHANGED <<file, synced>>
      BY <2>0, <3>1, SameShrunk
    <3>2. CASE \E n \in 0..Len(file[target]) :
                  IsValidLen(file[target], n) /\ SetLen(target, n)
      <4>1. PICK n \in 0..Len(file[target]) :
                IsValidLen(file[target], n) /\ SetLen(target, n)
        BY <3>2
      <4>2. /\ Shrunk
            /\ Len(file'[target]) = n
            /\ \A e \in Days \ {target} : file'[e] = file[e]
        BY <4>1, CutEffect DEF IsValidLen, TypeOK
      <4>3. n > 0 => file'[target][n] = file[target][n]
        BY <4>2 DEF Shrunk, TypeOK
      <4>4. EndsWhole(file'[target])
        BY <4>1, <4>2, <4>3 DEF EndsWhole, WholeAt, IsValidLen
      <4> QED
        BY <2>0, <4>2, <4>4
    <3> QED
      BY <3>1, <3>2
  <2>2. /\ FilesInv'
        /\ nacked' \subseteq used'
        /\ \A d \in Days : \A i \in 1..Len(file'[d]) : file'[d][i].batch \in used'
    BY <2>1, ShrunkKeeps DEF call, ghost, handle, Steps, TypeOK, Fail
  <2>3. TypeOK'
    BY <2>2 DEF TypeOK, FilesInv, Steps, call, ghost, handle, Fail
  <2>4. RollbackSound' /\ WriteSound' /\ TailSound' /\ StepSound'
    BY <2>0, <2>1 DEF RollbackSound, WriteSound, TailSound, StepSound, handle
  <2>5. Fresh'
    BY <2>2 DEF Fresh, Steps, TypeOK, call, ghost, handle, Fail
  <2> QED
    BY <2>2, <2>3, <2>4, <2>5 DEF FilesInv
<1>15. ASSUME RotateSyncOk PROVE IInv'
  <2> USE <1>15 DEF RotateSyncOk
  <2>1. /\ file' = file
        /\ synced' = [synced EXCEPT ![date] = Len(file[date])]
        /\ safe' = safe \cup {a \in acked : a[2] = date}
        /\ UNCHANGED <<handle, call, acked, nacked>>
    BY DEF SyncEffect
  <2>2. SafeSound'
    BY <2>1, SyncKeeps
  <2>3. TypeOK'
    BY <2>1 DEF TypeOK, Steps, handle, call
  <2>4. RollbackSound' /\ WriteSound' /\ TailSound' /\ StepSound'
    BY <2>1 DEF RollbackSound, WriteSound, TailSound, StepSound, TypeOK, handle, call
  <2>5. LinesWhole' /\ AckedPersist' /\ NackedAbsent' /\ Fresh'
    BY <2>1 DEF LinesWhole, AckedPersist, NackedAbsent, Fresh, Steps, call
  <2> QED
    BY <2>2, <2>3, <2>4, <2>5
<1>16. ASSUME Flush PROVE IInv'
  <2> USE <1>16 DEF Flush
  <2>1. /\ file' = file
        /\ synced' = [synced EXCEPT ![date] = Len(file[date])]
        /\ safe' = safe \cup {a \in acked : a[2] = date}
        /\ UNCHANGED <<handle, call, acked, nacked>>
    BY DEF SyncEffect
  <2>2. SafeSound'
    BY <2>1, SyncKeeps
  <2>3. TypeOK'
    BY <2>1 DEF TypeOK, Steps, handle, call
  <2>4. RollbackSound' /\ WriteSound' /\ TailSound' /\ StepSound'
    BY <2>1 DEF RollbackSound, WriteSound, TailSound, StepSound, TypeOK, handle, call
  <2>5. LinesWhole' /\ AckedPersist' /\ NackedAbsent' /\ Fresh'
    BY <2>1 DEF LinesWhole, AckedPersist, NackedAbsent, Fresh, Steps, call
  <2> QED
    BY <2>2, <2>3, <2>4, <2>5
<1>17. ASSUME Ack PROVE IInv'
  <2> USE <1>17 DEF Ack
  <2>1. HasLine(file[date], cur)
    <3>1. /\ Len(file[date]) = start + Width
          /\ Len(file[date]) \in (start + 1)..Len(file[date])
          /\ Len(file[date]) \in 1..Len(file[date])
      BY DEF WriteSound, TypeOK
    <3>2. file[date][Len(file[date])] = [batch |-> cur, idx |-> Len(file[date]) - start]
      BY <3>1 DEF WriteSound
    <3>3. Len(file[date]) - start = Width
      BY <3>1 DEF TypeOK
    <3> QED
      BY <3>1, <3>2, <3>3 DEF HasLine, Newline
  <2>2. AckedPersist'
    BY <2>1 DEF AckedPersist
  <2>3. TypeOK'
    BY DEF TypeOK, handle, call
  <2>4. RollbackSound' /\ WriteSound' /\ TailSound' /\ StepSound'
    BY DEF RollbackSound, WriteSound, TailSound, StepSound, handle
  <2>5. LinesWhole' /\ SafeSound' /\ NackedAbsent' /\ Fresh'
    BY DEF LinesWhole, SafeSound, NackedAbsent, Fresh, Steps, call
  <2> QED
    BY <2>2, <2>3, <2>4, <2>5
<1>18. ASSUME Write PROVE IInv'
  <2> DEFINE s == file[date]
             k == Len(s) - start + 1
             c == [batch |-> cur, idx |-> k]
             t == Append(s, c)
  <2> USE <1>18
  <2>0. /\ pc = "write"
        /\ file' = [file EXCEPT ![date] = t]
        /\ pc' = IF k = Width THEN "done" ELSE "write"
        /\ UNCHANGED <<synced, handle, call, ghost>>
    BY DEF Write
  <2>1. /\ s \in Seq(Cell) /\ Len(s) \in Nat /\ date \in Days /\ start \in Nat
        /\ start <= Len(s) /\ Len(s) < start + Width
        /\ WholeAt(s, start)
        /\ \A i \in (start + 1)..Len(s) : s[i] = [batch |-> cur, idx |-> i - start]
        /\ rollback = NoRollback
        /\ cur \in used \ nacked /\ cur \in Batches
        /\ \A d \in Days : ~ HasLine(file[d], cur)
    BY <2>0 DEF WriteSound, TypeOK, Fresh, Steps
  <2>2. k \in 1..Width /\ c \in Cell
    BY <2>1 DEF Cell
  <2>3. /\ c.idx > 1 => Len(s) > 0 /\ s[Len(s)] = [batch |-> c.batch, idx |-> c.idx - 1]
        /\ c.idx = 1 => EndsWhole(s)
    BY <2>1 DEF EndsWhole
  <2>4. /\ t \in Seq(Cell)
        /\ Len(t) = Len(s) + 1
        /\ \A i \in 1..Len(s) : t[i] = s[i]
        /\ t[Len(s) + 1] = c
        /\ WholeLines(t)
    BY <2>1, <2>2, <2>3, AppendWhole DEF LinesWhole
  <2> HIDE DEF t
  <2>5. \A d \in Days : file'[d] = IF d = date THEN t ELSE file[d]
    BY <2>0 DEF TypeOK
  <2>6. TypeOK'
    BY <2>0, <2>4 DEF TypeOK, Steps, handle, call, ghost
  <2>7. LinesWhole'
    BY <2>4, <2>5 DEF LinesWhole
  <2>8. ASSUME NEW b \in Batches
        PROVE  /\ HasLine(s, b) => HasLine(t, b)
               /\ HasLine(t, b) => HasLine(s, b) \/ (b = cur /\ k = Width)
    <3>1. HasLine(s, b) => HasLine(t, b)
      BY <2>1, <2>4 DEF HasLine
    <3>2. ASSUME HasLine(t, b)
          PROVE  HasLine(s, b) \/ (b = cur /\ k = Width)
      <4>1. PICK i \in 1..Len(t) : t[i] = Newline(b)
        BY <3>2 DEF HasLine
      <4>2. CASE i \in 1..Len(s)
        BY <2>4, <4>1, <4>2 DEF HasLine
      <4>3. CASE i = Len(s) + 1
        BY <2>4, <4>1, <4>3 DEF Newline
      <4> QED
        BY <2>1, <2>4, <4>2, <4>3
    <3> QED
      BY <3>1, <3>2
  <2>9. AckedPersist'
    BY <2>0, <2>5, <2>8 DEF AckedPersist, TypeOK, ghost
  <2>10. NackedAbsent'
    BY <2>0, <2>1, <2>5, <2>8 DEF NackedAbsent, TypeOK, ghost
  <2>11. SafeSound'
    <3>1. synced[date] \in 0..Len(s)
      BY <2>1 DEF SafeSound, TypeOK
    <3>2. SubSeq(t, 1, synced[date]) = SubSeq(s, 1, synced[date])
      <4>1. synced[date] <= Len(t) /\ \A i \in 1..synced[date] : t[i] = s[i]
        BY <2>1, <2>4, <3>1
      <4> HIDE DEF s
      <4> QED
        BY <2>1, <2>4, <3>1, <4>1, SamePrefix
    <3>3. \A d \in Days : SubSeq(file'[d], 1, synced[d]) = SubSeq(file[d], 1, synced[d])
      BY <2>5, <3>2
    <3>4. \A d \in Days : synced[d] <= Len(file'[d])
      <4>1. \A d \in Days : synced[d] \in Nat /\ synced[d] <= Len(file[d])
        BY DEF SafeSound, TypeOK
      <4>2. synced[date] <= Len(t)
        BY <2>1, <2>4, <3>1
      <4> HIDE DEF s
      <4> QED
        BY ONLY <2>5, <4>1, <4>2
    <3> QED
      BY <2>0, <3>3, <3>4 DEF SafeSound, TypeOK, ghost
  <2>12. WriteSound'
    <3>1. \A i \in (start + 1)..Len(t) : t[i] = [batch |-> cur, idx |-> i - start]
      <4> SUFFICES ASSUME NEW i \in (start + 1)..Len(t)
                   PROVE  t[i] = [batch |-> cur, idx |-> i - start]
        OBVIOUS
      <4>1. CASE i \in (start + 1)..Len(s)
        <5>1. i \in 1..Len(s)
          BY <2>1, <4>1
        <5> QED
          BY <2>1, <2>4, <4>1, <5>1
      <4>2. CASE i = Len(s) + 1
        <5>1. i - start = k
          BY <2>1, <4>2
        <5> QED
          BY <2>4, <4>2, <5>1
      <4>3. Len(t) = Len(s) + 1 /\ Len(s) \in Nat /\ start \in Nat
        BY <2>1, <2>4
      <4>4. i \in (start + 1)..Len(s) \/ i = Len(s) + 1
        BY ONLY <4>3
      <4> QED
        BY ONLY <4>1, <4>2, <4>4
    <3>2. start > 0 => t[start] = s[start]
      BY <2>1, <2>4
    <3>3. WholeAt(t, start)
      BY <2>1, <3>2 DEF WholeAt
    <3>4. file'[date] = t
      BY <2>1, <2>5
    <3>5. /\ start <= Len(t)
          /\ k # Width => Len(t) < start + Width
          /\ k = Width => Len(t) = start + Width
      <4>1. Len(t) = Len(s) + 1 /\ Len(s) \in Nat /\ start \in Nat
            /\ start <= Len(s) /\ Len(s) < start + Width /\ Width \in Nat
        BY <2>1, <2>4
      <4> HIDE DEF s
      <4> QED
        BY <4>1
    <3>6. date' = date /\ start' = start /\ cur' = cur /\ rollback' = rollback
      BY <2>0 DEF handle, call
    <3> HIDE DEF k, s
    <3> QED
      BY <2>0, <2>1, <3>1, <3>3, <3>4, <3>5, <3>6 DEF WriteSound
  <2>13. TailSound'
    <3>1. k = Width => EndsWhole(t)
      BY <2>1, <2>4 DEF EndsWhole, WholeAt
    <3> QED
      BY <2>0, <2>1, <2>5, <3>1 DEF TailSound, handle
  <2>14. RollbackSound' /\ StepSound'
    BY <2>0, <2>1 DEF RollbackSound, StepSound, handle
  <2>15. Fresh'
    <3>1. \A d \in Days : \A i \in 1..Len(file'[d]) : file'[d][i].batch \in used
      <4> SUFFICES ASSUME NEW d \in Days, NEW i \in 1..Len(file'[d])
                   PROVE  file'[d][i].batch \in used
        OBVIOUS
      <4>1. CASE d # date
        BY <2>5, <4>1 DEF Fresh
      <4>2. CASE d = date /\ i \in 1..Len(s)
        BY <2>4, <2>5, <4>2 DEF Fresh
      <4>3. CASE d = date /\ i = Len(s) + 1
        BY <2>1, <2>4, <2>5, <4>3
      <4> QED
        BY <2>1, <2>4, <2>5, <4>1, <4>2, <4>3
    <3>2. pc' # "done" => \A d \in Days : ~ HasLine(file'[d], cur)
      BY <2>0, <2>1, <2>5, <2>8
    <3> QED
      BY <2>0, <2>1, <3>1, <3>2 DEF Fresh, Steps, call, ghost
  <2> QED
    BY <2>6, <2>7, <2>9, <2>10, <2>11, <2>12, <2>13, <2>14, <2>15
<1>19. ASSUME PowerLoss PROVE IInv'
  <2> USE <1>19
  <2>0. PICK cut \in [Days -> UNION {synced[d]..Len(file[d]) : d \in Days}] :
            /\ \A d \in Days : cut[d] \in synced[d]..Len(file[d])
            /\ file' = [d \in Days |-> SubSeq(file[d], 1, cut[d])]
    BY DEF PowerLoss
  <2>1. /\ pc' = "down"
        /\ rollback' = NoRollback
        /\ acked' = safe
        /\ UNCHANGED <<synced, date, call, safe, nacked>>
    BY DEF PowerLoss
  <2>2. ASSUME NEW d \in Days
        PROVE  /\ file[d] \in Seq(Cell) /\ synced[d] \in 0..Len(file[d])
               /\ cut[d] \in 0..Len(file[d]) /\ cut[d] \in synced[d]..Len(file[d])
               /\ file'[d] = SubSeq(file[d], 1, cut[d])
    <3>1. file[d] \in Seq(Cell) /\ synced[d] \in Nat /\ synced[d] <= Len(file[d])
      BY DEF TypeOK, SafeSound
    <3>2. cut[d] \in synced[d]..Len(file[d]) /\ file'[d] = SubSeq(file[d], 1, cut[d])
      BY <2>0
    <3>3. Len(file[d]) \in Nat
      BY <3>1
    <3> QED
      BY <3>1, <3>2, <3>3
  <2>3. ASSUME NEW d \in Days
        PROVE  /\ file'[d] \in Seq(Cell)
               /\ Len(file'[d]) = cut[d]
               /\ \A i \in 1..cut[d] : file'[d][i] = file[d][i]
               /\ WholeLines(file'[d])
    <3>1. WholeLines(file[d]) /\ file[d] \in Seq(Cell) /\ cut[d] \in 0..Len(file[d])
      BY <2>2 DEF LinesWhole
    <3>2. file'[d] = SubSeq(file[d], 1, cut[d])
      BY <2>2
    <3> QED
      BY <3>1, <3>2, CutWhole
  <2>4. TypeOK'
    BY <2>0, <2>1, <2>3 DEF TypeOK, call
  <2>5. LinesWhole'
    BY <2>3 DEF LinesWhole
  <2>6. RollbackSound' /\ WriteSound' /\ TailSound' /\ StepSound'
    BY <2>1 DEF RollbackSound, WriteSound, TailSound, StepSound
  <2>7. Fresh'
    <3>1. \A d \in Days : \A i \in 1..Len(file'[d]) : file'[d][i].batch \in used
      <4> SUFFICES ASSUME NEW d \in Days, NEW i \in 1..Len(file'[d])
                   PROVE  file'[d][i].batch \in used
        OBVIOUS
      <4>1. Len(file'[d]) = cut[d] /\ cut[d] \in 0..Len(file[d])
        <5>1. cut[d] \in 0..Len(file[d])
          BY <2>2
        <5>2. Len(file'[d]) = cut[d]
          BY <2>3
        <5> QED
          BY ONLY <5>1, <5>2
      <4>2. file[d] \in Seq(Cell) /\ Len(file[d]) \in Nat
        <5>1. file[d] \in Seq(Cell)
          BY <2>2
        <5> QED
          BY ONLY <5>1
      <4>3. i \in 1..cut[d] /\ i \in 1..Len(file[d])
        BY <4>1, <4>2
      <4>4. file'[d][i] = file[d][i]
        BY <2>3, <4>3
      <4> QED
        BY <4>3, <4>4 DEF Fresh
    <3> QED
      BY <2>1, <3>1 DEF Fresh, Steps, call
  <2>8. AckedPersist'
    <3> SUFFICES ASSUME NEW a \in safe
                 PROVE  HasLine(file'[a[2]], a[1])
      BY <2>1 DEF AckedPersist
    <3>1. a[1] \in Batches /\ a[2] \in Days
      BY DEF TypeOK
    <3>2. HasLine(SubSeq(file[a[2]], 1, synced[a[2]]), a[1])
      BY DEF SafeSound
    <3>3. /\ file[a[2]] \in Seq(Cell) /\ synced[a[2]] \in 0..Len(file[a[2]])
          /\ cut[a[2]] \in synced[a[2]]..Len(file[a[2]])
          /\ file'[a[2]] = SubSeq(file[a[2]], 1, cut[a[2]])
      BY <2>2, <3>1
    <3> QED
      BY <3>1, <3>2, <3>3, PrefixLines
  <2>9. SafeSound'
    <3>1. ASSUME NEW d \in Days
          PROVE  SubSeq(file'[d], 1, synced[d]) = SubSeq(file[d], 1, synced[d])
      <4>1. /\ file[d] \in Seq(Cell) /\ file'[d] \in Seq(Cell)
            /\ Len(file[d]) \in Nat /\ Len(file'[d]) = cut[d]
            /\ synced[d] \in 0..Len(file[d])
            /\ cut[d] \in synced[d]..Len(file[d])
        <5>1. file[d] \in Seq(Cell) /\ synced[d] \in 0..Len(file[d]) /\ cut[d] \in synced[d]..Len(file[d])
          BY <2>2
        <5>2. file'[d] \in Seq(Cell) /\ Len(file'[d]) = cut[d]
          BY <2>3
        <5>3. Len(file[d]) \in Nat
          BY ONLY <5>1
        <5> QED
          BY ONLY <5>1, <5>2, <5>3
      <4>2. synced[d] <= Len(file'[d]) /\ 1..synced[d] \subseteq 1..cut[d]
        BY <4>1
      <4>3. \A i \in 1..synced[d] : file'[d][i] = file[d][i]
        BY <2>3, <4>2
      <4> QED
        BY <4>1, <4>2, <4>3, SamePrefix
    <3>2. ASSUME NEW d \in Days  PROVE synced[d] <= Len(file'[d])
      <4>1. cut[d] \in synced[d]..Len(file[d]) /\ Len(file'[d]) = cut[d]
        BY <2>2, <2>3
      <4>2. synced[d] \in 0..Len(file[d]) /\ file[d] \in Seq(Cell)
        BY <2>2
      <4> QED
        BY ONLY <4>1, <4>2
    <3> QED
      BY <2>1, <3>1, <3>2 DEF SafeSound, TypeOK
  <2>10. NackedAbsent'
    <3> SUFFICES ASSUME NEW d \in Days, NEW b \in nacked, HasLine(file'[d], b)
                 PROVE  HasLine(file[d], b)
      BY <2>1 DEF NackedAbsent
    <3>1. PICK i \in 1..Len(file'[d]) : file'[d][i] = Newline(b)
      BY DEF HasLine
    <3>2. i \in 1..Len(file[d]) /\ file[d][i] = Newline(b)
      <4>1. Len(file'[d]) = cut[d] /\ cut[d] \in 0..Len(file[d])
        <5>1. cut[d] \in 0..Len(file[d])
          BY <2>2
        <5>2. Len(file'[d]) = cut[d]
          BY <2>3
        <5> QED
          BY ONLY <5>1, <5>2
      <4>2. file[d] \in Seq(Cell) /\ Len(file[d]) \in Nat
        <5>1. file[d] \in Seq(Cell)
          BY <2>2
        <5> QED
          BY ONLY <5>1
      <4>3. i \in 1..cut[d] /\ i \in 1..Len(file[d])
        BY <3>1, <4>1, <4>2
      <4> QED
        BY <2>3, <3>1, <4>3
    <3> QED
      BY <3>2 DEF HasLine
  <2> QED
    BY <2>4, <2>5, <2>6, <2>7, <2>8, <2>9, <2>10
<1> QED
  BY <1>1, <1>2, <1>3, <1>4, <1>5, <1>6, <1>7, <1>8, <1>9, <1>10, <1>11, <1>12,
     <1>13, <1>14, <1>15, <1>16, <1>17, <1>18, <1>19 DEF Next, Rotate, AppendLine
-----------------------------------------------------------------------------
\* The invariant holds throughout every execution.
THEOREM StorageInvariant == Spec => []IInv
BY InitIInv, StepIInv, PTL DEF Spec

\* Every variable of the writer keeps its type.
THEOREM TypeCorrect == Spec => []TypeOK
BY StorageInvariant, PTL DEF IInv

\* Whatever write, truncate, sync or open fails and wherever the process or the
\* machine stops, every newline-terminated line is one whole batch.
THEOREM LinesStayWhole == Spec => []LinesWhole
BY StorageInvariant, PTL DEF IInv

\* An acknowledged batch stays in the file of its day (through a power loss, if
\* a sync_all covered it).
THEOREM AckedStayPersisted == Spec => []AckedPersist
BY StorageInvariant, PTL DEF IInv

\* A batch reported as failed is never in a file as a line.
THEOREM NackedStayAbsent == Spec => []NackedAbsent
BY StorageInvariant, PTL DEF IInv

\* So what append_at returned for a batch is true of the files ever after.
THEOREM AnswersStayHonest == Spec => []AnswersHonest
BY AckedStayPersisted, NackedStayAbsent, PTL DEF AnswersHonest
-----------------------------------------------------------------------------
\* Once the file of the day has been synced for a rotation, nothing more is
\* acknowledged from it before the handle moves.
LeaveSafe == pc = "rotateOpen" => \A a \in acked : a[2] = date => a \in safe

LEMMA StepLeaveSafe == LeaveSafe /\ [Next]_vars => LeaveSafe'
<1> SUFFICES ASSUME LeaveSafe, [Next]_vars, pc' = "rotateOpen"
             PROVE  \A a \in acked' : a[2] = date' => a \in safe'
  BY DEF LeaveSafe
<1>1. CASE UNCHANGED vars
  BY <1>1 DEF LeaveSafe, vars, handle, ghost
<1>2. CASE RotateSyncOk
  BY <1>2 DEF RotateSyncOk, SyncEffect, handle
<1>3. CASE Flush
  BY <1>3 DEF Flush
<1>4. CASE \E d \in Days : Open(d)
  BY <1>4 DEF Open
<1>5. CASE \E b \in Batches, d \in Days : Submit(b, d)
  BY <1>5 DEF Submit
<1>6. CASE AppendLine
  BY <1>6 DEF AppendLine, RepairOk, RepairFail, AppendStart, AppendStartFail,
              Write, WriteFail, UndoOk, UndoFail, Ack, Fail
<1>7. CASE Rotate /\ ~ RotateSyncOk
  BY <1>7 DEF Rotate, RepairOk, RepairFail, RotateSyncFail, RotateOpenOk,
              RotateOpenFail, Fail
<1>8. CASE Stop \/ PowerLoss
  BY <1>8 DEF Stop, PowerLoss
<1> QED
  BY <1>1, <1>2, <1>3, <1>4, <1>5, <1>6, <1>7, <1>8 DEF Next

\* A rotation leaves a file that ends with a whole line and whose acknowledged
\* batches are all synced.
THEOREM RotationIsSafe == Spec => RotationLeavesSafe
<1>1. Init => LeaveSafe
  BY DEF Init, LeaveSafe
<1>2. IInv /\ LeaveSafe =>
          (pc = "rotateOpen" =>
              /\ EndsWhole(file[date])
              /\ \A a \in acked : a[2] = date => a \in safe)
  BY DEF IInv, LeaveSafe, StepSound, TailSound
<1>3. IInv /\ LeaveSafe /\ [Next]_vars =>
          [pc = "rotateOpen" /\ date' # date
              => /\ EndsWhole(file[date])
                 /\ \A a \in acked : a[2] = date => a \in safe]_vars
  BY <1>2
<1> QED
  BY <1>1, <1>3, StepLeaveSafe, StorageInvariant, PTL DEF Spec, RotationLeavesSafe
-----------------------------------------------------------------------------
(***************************************************************************)
(* Storage implements Store.                                               *)
(***************************************************************************)
\* The two truncations a writer makes leave every whole line where it is.
LEMMA RollbackCut ==
    ASSUME IInv, rollback # NoRollback, SetLen(date, rollback)
    PROVE  Shrunk
<1>1. FilesInv /\ TypeOK /\ RollbackSound
  BY DEF IInv, FilesInv, TypeOK
<1>2. rollback \in 0..Len(file[date]) /\ date \in Days
  BY <1>1 DEF RollbackSound, TypeOK, NoRollback
<1> QED
  BY <1>1, <1>2, CutEffect DEF RollbackSound

LEMMA OpenCut ==
    ASSUME IInv, NEW d \in Days,
           \E n \in 0..Len(file[d]) : IsValidLen(file[d], n) /\ SetLen(d, n)
    PROVE  Shrunk
<1>1. FilesInv /\ TypeOK
  BY DEF IInv, FilesInv, TypeOK
<1> QED
  BY <1>1, CutEffect DEF IsValidLen

\* A step that loses no line and answers nobody is invisible.
LEMMA Invisible ==
    ASSUME Shrunk, UNCHANGED <<acked, safe, nacked>>
    PROVE  UNCHANGED Contract!vars
<1>1. VisibleLines' = VisibleLines
  BY DEF VisibleLines, Shrunk
<1> QED
  BY <1>1 DEF Contract!vars

\* An append that fails before its newline is written refuses its batch.
LEMMA Refusal ==
    ASSUME IInv, Shrunk, pc \in Steps \ {"done"}, Fail
    PROVE  Contract!Next
<1>1. VisibleLines' = VisibleLines
  BY DEF VisibleLines, Shrunk
<1>2. cur \in Batches /\ \A d \in Days : ~ HasLine(file[d], cur)
  BY DEF IInv, TypeOK, Fresh
<1>3. \A d \in Days : <<cur, d>> \notin VisibleLines
  BY <1>2 DEF VisibleLines
<1>4. Contract!Refuse(cur)
  BY <1>1, <1>3 DEF Fail, Contract!Refuse
<1> QED
  BY <1>2, <1>4 DEF Contract!Next

\* The last cell of a line makes the batch visible, once.
LEMMA WritePersists ==
    ASSUME IInv, Write
    PROVE  Contract!Next \/ UNCHANGED Contract!vars
<1> DEFINE s == file[date]
           k == Len(s) - start + 1
           c == [batch |-> cur, idx |-> k]
           t == Append(s, c)
<1>1. /\ pc = "write" /\ file' = [file EXCEPT ![date] = t]
      /\ UNCHANGED <<synced, handle, call, ghost>>
  BY DEF Write
<1>2. /\ s \in Seq(Cell) /\ Len(s) \in Nat /\ date \in Days /\ start \in Nat
      /\ start <= Len(s) /\ Len(s) < start + Width
      /\ cur \in used \ nacked /\ cur \in Batches
      /\ \A d \in Days : ~ HasLine(file[d], cur)
  BY <1>1 DEF IInv, WriteSound, TypeOK, Fresh, Steps
<1>3. k \in 1..Width /\ c \in Cell
  BY <1>2, WidthAssumption DEF Cell
<1>4. /\ t \in Seq(Cell) /\ Len(t) = Len(s) + 1
      /\ \A i \in 1..Len(s) : t[i] = s[i]
      /\ t[Len(s) + 1] = c
  BY <1>2, <1>3
<1> HIDE DEF t
<1>5. \A d \in Days : file'[d] = IF d = date THEN t ELSE file[d]
  BY <1>1 DEF IInv, TypeOK
<1>6. ASSUME NEW b \in Batches
      PROVE  HasLine(t, b) <=> HasLine(s, b) \/ (b = cur /\ k = Width)
  <2>1. HasLine(s, b) => HasLine(t, b)
    BY <1>2, <1>4 DEF HasLine
  <2>2. ASSUME b = cur, k = Width  PROVE HasLine(t, b)
    <3>1. Len(s) + 1 \in 1..Len(t) /\ t[Len(s) + 1] = Newline(b)
      BY <1>2, <1>4, <2>2 DEF Newline
    <3> QED
      BY <3>1 DEF HasLine
  <2>3. ASSUME HasLine(t, b)  PROVE HasLine(s, b) \/ (b = cur /\ k = Width)
    <3>1. PICK i \in 1..Len(t) : t[i] = Newline(b)
      BY <2>3 DEF HasLine
    <3>2. CASE i \in 1..Len(s)
      BY <1>4, <3>1, <3>2 DEF HasLine
    <3>3. CASE i = Len(s) + 1
      BY <1>4, <3>1, <3>3 DEF Newline
    <3> QED
      BY <1>2, <1>4, <3>2, <3>3
  <2> QED
    BY <2>1, <2>2, <2>3
<1>7. UNCHANGED <<acked, safe, nacked>>
  BY <1>1 DEF ghost
<1>8. CASE k = Width
  <2>1. VisibleLines' = VisibleLines \cup {<<cur, date>>}
    <3>1. \A b \in Batches, d \in Days :
             HasLine(file'[d], b) <=> HasLine(file[d], b) \/ (b = cur /\ d = date)
      BY <1>5, <1>6, <1>8
    <3> HIDE DEF s, k
    <3> QED
      BY <1>2, <3>1 DEF VisibleLines
  <2>2. \A d \in Days : <<cur, d>> \notin VisibleLines
    BY <1>2 DEF VisibleLines
  <2>3. Contract!Persist(cur, date)
    BY <1>2, <1>7, <2>1, <2>2 DEF Contract!Persist
  <2> QED
    BY <1>2, <2>3 DEF Contract!Next
<1>9. CASE k # Width
  <2>1. \A b \in Batches, d \in Days : HasLine(file'[d], b) <=> HasLine(file[d], b)
    BY <1>5, <1>6, <1>9
  <2>2. VisibleLines' = VisibleLines
    BY <2>1 DEF VisibleLines
  <2> QED
    BY <1>7, <2>2 DEF Contract!vars
<1> QED
  BY <1>8, <1>9

LEMMA AckAccepts ==
    ASSUME IInv, Ack
    PROVE  Contract!Next
<1>1. /\ pc = "done" /\ acked' = acked \cup {<<cur, date>>} /\ file' = file
      /\ UNCHANGED <<safe, nacked>>
  BY DEF Ack
<1>2. /\ Len(file[date]) \in (start + 1)..Len(file[date]) /\ Len(file[date]) \in 1..Len(file[date])
      /\ Len(file[date]) - start = Width /\ cur \in Batches /\ date \in Days
  BY <1>1, WidthAssumption DEF IInv, WriteSound, TypeOK
<1>3. file[date][Len(file[date])] = [batch |-> cur, idx |-> Len(file[date]) - start]
  BY <1>1, <1>2 DEF IInv, WriteSound
<1>4. HasLine(file[date], cur)
  BY <1>2, <1>3 DEF HasLine, Newline
<1>5. <<cur, date>> \in VisibleLines /\ VisibleLines' = VisibleLines
  BY <1>1, <1>2, <1>4 DEF VisibleLines
<1>6. Contract!Accept(cur, date)
  BY <1>1, <1>5 DEF Contract!Accept
<1> QED
  BY <1>2, <1>6 DEF Contract!Next

LEMMA SyncSyncs ==
    ASSUME IInv, SyncEffect, UNCHANGED <<file, acked, nacked>>
    PROVE  Contract!Next
<1>1. VisibleLines' = VisibleLines
  BY DEF VisibleLines
<1>2. Contract!Sync(date)
  BY <1>1 DEF SyncEffect, Contract!Sync
<1>3. date \in Days
  BY DEF IInv, TypeOK
<1> QED
  BY <1>2, <1>3 DEF Contract!Next

\* A power loss takes whole lines only, and none that is safe.
LEMMA PowerLossLoses ==
    ASSUME IInv, PowerLoss
    PROVE  Contract!Next
<1>1. PICK cut \in [Days -> UNION {synced[d]..Len(file[d]) : d \in Days}] :
          /\ \A d \in Days : cut[d] \in synced[d]..Len(file[d])
          /\ file' = [d \in Days |-> SubSeq(file[d], 1, cut[d])]
  BY DEF PowerLoss
<1>2. acked' = safe /\ UNCHANGED <<safe, nacked>>
  BY DEF PowerLoss
<1>3. ASSUME NEW d \in Days
      PROVE  /\ file[d] \in Seq(Cell) /\ synced[d] \in 0..Len(file[d])
             /\ cut[d] \in 0..Len(file[d]) /\ cut[d] \in synced[d]..Len(file[d])
             /\ file'[d] = SubSeq(file[d], 1, cut[d])
  <2>1. file[d] \in Seq(Cell) /\ synced[d] \in Nat /\ synced[d] <= Len(file[d])
    BY DEF IInv, TypeOK, SafeSound
  <2>2. cut[d] \in synced[d]..Len(file[d]) /\ file'[d] = SubSeq(file[d], 1, cut[d])
    BY <1>1
  <2>3. Len(file[d]) \in Nat
    BY <2>1
  <2> QED
    BY <2>1, <2>2, <2>3
<1>4. VisibleLines' \in SUBSET VisibleLines
  <2>1. ASSUME NEW d \in Days, NEW b \in Batches, HasLine(file'[d], b)
        PROVE  HasLine(file[d], b)
    <3>1. /\ file[d] \in Seq(Cell) /\ cut[d] \in 0..Len(file[d])
          /\ file'[d] = SubSeq(file[d], 1, cut[d])
      BY <1>3
    <3>2. SubSeq(file[d], 1, Len(file[d])) = file[d] /\ Len(file[d]) \in cut[d]..Len(file[d])
      BY <3>1
    <3> QED
      BY <2>1, <3>1, <3>2, PrefixLines
  <2> QED
    BY <2>1 DEF VisibleLines
<1>5. safe \subseteq VisibleLines'
  <2> SUFFICES ASSUME NEW a \in safe  PROVE a \in VisibleLines'
    OBVIOUS
  <2>1. a \in Batches \X Days /\ a[1] \in Batches /\ a[2] \in Days
    BY DEF IInv, TypeOK
  <2>2. HasLine(SubSeq(file[a[2]], 1, synced[a[2]]), a[1])
    BY DEF IInv, SafeSound
  <2>3. /\ file[a[2]] \in Seq(Cell) /\ synced[a[2]] \in 0..Len(file[a[2]])
        /\ cut[a[2]] \in synced[a[2]]..Len(file[a[2]])
        /\ file'[a[2]] = SubSeq(file[a[2]], 1, cut[a[2]])
    BY <1>3, <2>1
  <2>4. HasLine(file'[a[2]], a[1])
    BY <2>1, <2>2, <2>3, PrefixLines
  <2> QED
    BY <2>1, <2>4 DEF VisibleLines
<1>6. Contract!Lose
  BY <1>2, <1>4, <1>5 DEF Contract!Lose
<1> QED
  BY <1>6 DEF Contract!Next

\* Every step of the writer is a step of the store or invisible.
LEMMA StepRefines == IInv /\ [Next]_vars => [Contract!Next]_(Contract!vars)
<1> SUFFICES ASSUME IInv, [Next]_vars  PROVE Contract!Next \/ UNCHANGED Contract!vars
  OBVIOUS
<1>0. FilesInv
  BY DEF IInv, FilesInv, TypeOK
<1>1. CASE (\E b \in Batches, d \in Days : Submit(b, d)) \/ AppendStart \/ WriteFail \/ Stop \/ UNCHANGED vars
  <2>1. UNCHANGED <<file, synced>> /\ UNCHANGED <<acked, safe, nacked>>
    BY <1>1 DEF Submit, AppendStart, WriteFail, Stop, vars, ghost
  <2> QED
    BY <1>0, <2>1, SameShrunk, Invisible
<1>2. CASE RotateSyncFail \/ AppendStartFail
  <2>1. UNCHANGED <<file, synced>> /\ Fail /\ pc \in Steps \ {"done"}
    BY <1>2 DEF RotateSyncFail, AppendStartFail, Steps
  <2> QED
    BY <1>0, <2>1, SameShrunk, Refusal
<1>3. CASE \E d \in Days : Open(d)
  <2>1. PICK d \in Days : Open(d)
    BY <1>3
  <2>2. Shrunk
    BY <2>1, OpenCut DEF Open
  <2>3. UNCHANGED <<acked, safe, nacked>>
    BY <2>1 DEF Open, ghost
  <2> QED
    BY <2>2, <2>3, Invisible
<1>4. CASE RepairOk("rotateRepair", "rotateSync") \/ RepairOk("repair", "start")
  <2>1. UNCHANGED <<acked, safe, nacked>>
    BY <1>4 DEF RepairOk, ghost
  <2>2. CASE rollback = NoRollback
    <3>1. UNCHANGED <<file, synced>>
      BY <1>4, <2>2 DEF RepairOk
    <3> QED
      BY <1>0, <2>1, <3>1, SameShrunk, Invisible
  <2>3. CASE rollback # NoRollback
    <3>1. SetLen(date, rollback)
      BY <1>4, <2>3 DEF RepairOk
    <3> QED
      BY <2>1, <2>3, <3>1, RollbackCut, Invisible
  <2> QED
    BY <2>2, <2>3
<1>5. CASE RepairFail("rotateRepair") \/ RepairFail("repair") \/ UndoFail \/ UndoOk
  <2>1. Fail /\ pc \in Steps \ {"done"} /\ rollback # NoRollback
    BY <1>5 DEF RepairFail, UndoFail, UndoOk, Steps, IInv, StepSound
  <2>2. UNCHANGED <<file, synced>> \/ SetLen(date, rollback)
    BY <1>5 DEF RepairFail, UndoFail, UndoOk
  <2>3. Shrunk
    BY <1>0, <2>1, <2>2, SameShrunk, RollbackCut
  <2> QED
    BY <2>1, <2>3, Refusal
<1>6. CASE RotateOpenOk
  <2>1. Shrunk /\ UNCHANGED <<acked, safe, nacked>>
    BY <1>6, OpenCut DEF RotateOpenOk, IInv, TypeOK, ghost
  <2> QED
    BY <2>1, Invisible
<1>7. CASE RotateOpenFail
  <2>1. Fail /\ pc \in Steps \ {"done"} /\ target \in Days
    BY <1>7 DEF RotateOpenFail, Steps, IInv, TypeOK
  <2>2. Shrunk
    BY <1>0, <1>7, <2>1, OpenCut, SameShrunk DEF RotateOpenFail
  <2> QED
    BY <2>1, <2>2, Refusal
<1>8. CASE RotateSyncOk \/ Flush
  BY <1>8, SyncSyncs DEF RotateSyncOk, Flush
<1>9. CASE Write
  BY <1>9, WritePersists
<1>10. CASE Ack
  BY <1>10, AckAccepts
<1>11. CASE PowerLoss
  BY <1>11, PowerLossLoses
<1> QED
  BY <1>1, <1>2, <1>3, <1>4, <1>5, <1>6, <1>7, <1>8, <1>9, <1>10, <1>11 DEF Next, Rotate, AppendLine

\* The writer of storage.rs implements the store: for senders and readers its
\* files are a set of lines that grows by whole batches, shrinks only by a power
\* loss, and agrees with every answer.
THEOREM StorageImplementsStore == Spec => ImplementsStore
<1>1. Init => Contract!Init
  <2>1. Init => VisibleLines = {}
    BY DEF Init, VisibleLines, HasLine
  <2> QED
    BY <2>1 DEF Init, Contract!Init
<1> QED
  BY <1>1, StepRefines, StorageInvariant, PTL DEF Spec, ImplementsStore, Contract!Spec
-----------------------------------------------------------------------------
(***************************************************************************)
(* recover_tail, for every size of the buffer and every length of a file.  *)
(***************************************************************************)
\* What the scan has passed holds no newline, and the length it found is the
\* last one's position.
ScanInv ==
    /\ phase = "scan" => \A p \in newlines : p <= end
    /\ phase = "scan" => len = originalLen
    /\ phase \in {"truncate", "done"} => validLen = 0 \/ validLen \in newlines
    /\ phase \in {"truncate", "done"} => \A p \in newlines : p <= validLen
    /\ phase = "truncate" => len = originalLen
    /\ phase = "done" => len = validLen
    /\ phase = "failed" =>
          \/ len = originalLen
          \/ /\ len = 0 \/ len \in newlines
             /\ \A p \in newlines : p <= len

ScanIInv == ScanTypeOK /\ ScanInv

LEMMA ScanStep == ScanIInv /\ [ScanNext]_scanVars => ScanIInv'
<1> SUFFICES ASSUME ScanIInv, [ScanNext]_scanVars PROVE ScanIInv'
  OBVIOUS
<1> USE ScanAssumption DEF ScanIInv, ScanTypeOK, ScanInv
<1>1. CASE ReachStart
  BY <1>1 DEF ReachStart
<1>2. CASE FoundNewline
  <2>1. PICK p \in Buf \cap newlines :
            /\ \A q \in Buf \cap newlines : q <= p
            /\ validLen' = p
    BY <1>2 DEF FoundNewline
  <2>2. BufStart \in Nat /\ BufStart <= end
    BY DEF BufStart
  <2>3. p \in newlines /\ p \in 0..originalLen /\ p <= end /\ p > BufStart
    BY <2>1, <2>2 DEF Buf
  <2>4. ASSUME NEW q \in newlines PROVE q <= p
    <3>1. CASE q > BufStart
      BY <1>2, <2>1, <2>2, <3>1 DEF Buf, FoundNewline
    <3>2. CASE ~ (q > BufStart)
      BY <2>2, <2>3, <3>2
    <3> QED
      BY <3>1, <3>2
  <2>5. /\ phase = "scan" /\ phase' = "truncate"
        /\ UNCHANGED <<originalLen, newlines, end, len>>
    BY <1>2 DEF FoundNewline
  <2> QED
    BY <2>1, <2>3, <2>4, <2>5
<1>3. CASE NextBuffer
  <2>1. BufStart \in 0..end
    BY DEF BufStart
  <2>2. \A p \in newlines : p <= BufStart
    BY <1>3, <2>1 DEF NextBuffer, Buf
  <2> QED
    BY <1>3, <2>1, <2>2 DEF NextBuffer
<1>4. CASE ReadFail
  BY <1>4 DEF ReadFail
<1>5. CASE Truncate
  BY <1>5 DEF Truncate
<1>6. CASE TruncateFail
  BY <1>6 DEF TruncateFail
<1>7. CASE UNCHANGED scanVars
  BY <1>7 DEF scanVars
<1> QED
  BY <1>1, <1>2, <1>3, <1>4, <1>5, <1>6, <1>7 DEF ScanNext

\* recover_tail cuts a file exactly behind its last newline.
THEOREM ScanCutsBehindLastNewline == ScanSpec => []CutsBehindLastNewline
<1>1. ScanInit => ScanIInv
  BY ScanAssumption DEF ScanInit, ScanIInv, ScanTypeOK, ScanInv
<1>2. ScanIInv => CutsBehindLastNewline
  BY DEF ScanIInv, ScanInv, CutsBehindLastNewline
<1> QED
  BY <1>1, <1>2, ScanStep, PTL DEF ScanSpec
=============================================================================
