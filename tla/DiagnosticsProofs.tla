------------------------- MODULE DiagnosticsProofs -------------------------
(***************************************************************************)
(* No diagnostic line is lost unannounced and no text is glued to a torn   *)
(* one, for every capacity of the queue and any number of lines.           *)
(***************************************************************************)
EXTENDS Diagnostics, FiniteSetTheorems, TLAPS

\* What the thread holds: a line from recv to the end of its write, and the
\* count of a swap only until its note is written or given back.
ThreadSound ==
    /\ line # 0 <=> pc # "recv"
    /\ pc # "note" => lost = 0

\* The channel is a queue: lines are in the order they were logged, behind the
\* one in the hands of the thread.
QueueSound ==
    /\ \A i \in 1..Len(queue) : queue[i] <= logged
    /\ \A i, j \in 1..Len(queue) :
          i < j /\ queue[i] # Flush /\ queue[j] # Flush => queue[i] < queue[j]
    /\ line <= logged
    /\ \A i \in 1..Len(queue) : queue[i] # Flush => line < queue[i]

\* The guard's message stands behind all lines logged before it.
GuardSound ==
    /\ mark <= logged
    /\ guard \in {"no", "send"} => \A i \in 1..Len(queue) : queue[i] # Flush
    /\ \A i, j \in 1..Len(queue) :
          i < j /\ queue[i] = Flush /\ queue[j] # Flush => mark < queue[j]

\* torn remembers that stderr ends in a part of a text.
TornSound == Len(out) > 0 /\ out[Len(out)].kind = "part" => torn

DInv ==
    /\ TypeOK
    /\ IsFiniteSet(Told(out))
    /\ ThreadSound
    /\ QueueSound
    /\ GuardSound
    /\ TornSound
    /\ LostLinesCounted
    /\ NothingGlued
-----------------------------------------------------------------------------
\* The texts that are written are texts.
LEMMA TextType ==
    ASSUME NEW k \in {"line", "note", "part", "newline"}, NEW n \in Nat
    PROVE  Text(k, n) \in Texts /\ Text(k, n).kind = k
BY DEF Text, Texts

\* A text accounts for its own lines and leaves those of the others.
LEMMA ToldAppend ==
    ASSUME NEW o \in Seq(Texts), IsFiniteSet(Told(o)),
           NEW k \in {"line", "note", "part", "newline"}, NEW n \in Nat
    PROVE  /\ IsFiniteSet(Told(Append(o, Text(k, n))))
           /\ Cardinality(Told(Append(o, Text(k, n)))) = Cardinality(Told(o)) + n
<1> DEFINE l == Len(o) + 1
           p == Append(o, Text(k, n))
           N == {l} \X (1..n)
<1>1. /\ DOMAIN o = 1..Len(o) /\ DOMAIN p = 1..l /\ Len(o) \in Nat
      /\ \A i \in 1..Len(o) : p[i] = o[i]
      /\ p[l] = Text(k, n)
  BY DEF Text, Texts
<1>2. p[l].lines = n
  BY <1>1 DEF Text
<1> HIDE DEF p
<1>3. Told(p) = Told(o) \cup N
  <2>1. ASSUME NEW x \in Told(p) PROVE x \in Told(o) \cup N
    <3>1. PICK i \in DOMAIN p : x \in {i} \X (1..p[i].lines)
      BY <2>1 DEF Told
    <3>2. CASE i = l
      BY <1>2, <3>1, <3>2
    <3>3. CASE i # l
      <4>1. i \in DOMAIN o /\ p[i] = o[i]
        BY <1>1, <3>3
      <4> QED
        BY <3>1, <4>1 DEF Told
    <3> QED
      BY <3>2, <3>3
  <2>2. ASSUME NEW x \in Told(o) PROVE x \in Told(p)
    <3>1. PICK i \in DOMAIN o : x \in {i} \X (1..o[i].lines)
      BY <2>2 DEF Told
    <3>2. i \in DOMAIN p /\ p[i] = o[i]
      BY <1>1
    <3> QED
      BY <3>1, <3>2 DEF Told
  <2>3. ASSUME NEW x \in N PROVE x \in Told(p)
    <3>1. l \in DOMAIN p /\ x \in {l} \X (1..p[l].lines)
      BY <1>1, <1>2
    <3> HIDE DEF l
    <3> QED
      BY <3>1 DEF Told
  <2> QED
    BY <2>1, <2>2, <2>3
<1>4. IsFiniteSet(N) /\ Cardinality(N) = n
  <2>1. IsFiniteSet({l}) /\ Cardinality({l}) = 1
    BY FS_Singleton
  <2>2. IsFiniteSet(1..n) /\ Cardinality(1..n) = n
    BY FS_Interval
  <2> QED
    BY <2>1, <2>2, FS_Product
<1>5. Told(o) \cap N = {}
  <2>1. ASSUME NEW x \in Told(o) PROVE x \notin N
    <3>1. PICK i \in DOMAIN o : x \in {i} \X (1..o[i].lines)
      BY <2>1 DEF Told
    <3>2. x[1] = i /\ i # l
      BY <1>1, <3>1
    <3> QED
      BY <3>2
  <2> QED
    BY <2>1
<1>6. Cardinality({}) = 0 /\ Cardinality(Told(o)) \in Nat
  BY FS_EmptySet, FS_CardinalityType
<1>7. /\ IsFiniteSet(Told(o) \cup N)
      /\ Cardinality(Told(o) \cup N) = Cardinality(Told(o)) + Cardinality(N) - Cardinality(Told(o) \cap N)
  <2> HIDE DEF N
  <2> QED
    BY <1>4, FS_Union
<1>8. IsFiniteSet(Told(p)) /\ Cardinality(Told(p)) = Cardinality(Told(o)) + n
  <2>1. IsFiniteSet(Told(p)) /\ Cardinality(Told(p)) = Cardinality(Told(o) \cup N)
    BY <1>3, <1>7
  <2>2. Cardinality(Told(o) \cap N) = 0
    BY <1>5, <1>6
  <2> HIDE DEF N
  <2> QED
    BY <1>4, <1>6, <1>7, <2>1, <2>2
<1> QED
  BY <1>8 DEF p

\* A text that follows a whole one, or the newline behind a torn one, glues
\* nothing.
LEMMA GlueAppend ==
    ASSUME NEW o \in Seq(Texts), NEW k \in {"line", "note", "part", "newline"}, NEW n \in Nat,
           \A i \in 1..(Len(o) - 1) : o[i].kind = "part" => o[i+1].kind = "newline",
           Len(o) > 0 /\ o[Len(o)].kind = "part" => k = "newline"
    PROVE  /\ Append(o, Text(k, n)) \in Seq(Texts)
           /\ Len(Append(o, Text(k, n))) = Len(o) + 1
           /\ Append(o, Text(k, n))[Len(o) + 1].kind = k
           /\ \A i \in 1..Len(o) :
                 Append(o, Text(k, n))[i].kind = "part" => Append(o, Text(k, n))[i+1].kind = "newline"
BY TextType

\* What leaves a queue, and what stays.
LEMMA TailRange ==
    ASSUME NEW S, NEW q \in Seq(S), q # <<>>
    PROVE  /\ q[1] \in S /\ Head(q) = q[1] /\ Tail(q) \in Seq(S)
           /\ \A x \in {Tail(q)[i] : i \in DOMAIN Tail(q)} : \E i \in 2..Len(q) : x = q[i]
           /\ {q[i] : i \in DOMAIN q} = {Tail(q)[i] : i \in DOMAIN Tail(q)} \cup {q[1]}
<1> DEFINE t == Tail(q)
<1>1. /\ Len(q) \in Nat \ {0} /\ DOMAIN q = 1..Len(q)
      /\ DOMAIN t = 1..(Len(q) - 1)
      /\ \A i \in 1..(Len(q) - 1) : t[i] = q[i + 1]
  OBVIOUS
<1>2. q[1] \in S /\ Head(q) = q[1] /\ t \in Seq(S)
  OBVIOUS
<1> HIDE DEF t
<1>3. ASSUME NEW i \in DOMAIN q
      PROVE  q[i] \in {t[j] : j \in DOMAIN t} \cup {q[1]}
  <2>1. CASE i = 1
    BY <2>1
  <2>2. CASE i # 1
    <3>1. i - 1 \in DOMAIN t /\ t[i - 1] = q[i]
      BY <1>1, <2>2
    <3> QED
      BY <3>1
  <2> QED
    BY <2>1, <2>2
<1>4. ASSUME NEW i \in DOMAIN t PROVE i + 1 \in 2..Len(q) /\ t[i] = q[i + 1]
  BY <1>1
<1>5. 1 \in DOMAIN q /\ 2..Len(q) \subseteq DOMAIN q
  BY <1>1
<1>6. {q[i] : i \in DOMAIN q} = {t[i] : i \in DOMAIN t} \cup {q[1]}
  BY <1>3, <1>4, <1>5
<1>7. \A x \in {t[i] : i \in DOMAIN t} : \E i \in 2..Len(q) : x = q[i]
  BY <1>4
<1> QED
  BY <1>2, <1>6, <1>7 DEF t

\* The pending lines can be counted.
LEMMA PendingFinite == TypeOK => IsFiniteSet(Pending) /\ Cardinality(Pending) \in Nat
<1> SUFFICES ASSUME TypeOK PROVE IsFiniteSet(Pending) /\ Cardinality(Pending) \in Nat
  OBVIOUS
<1>1. Pending \in SUBSET (0..MaxLines) /\ 0 \in Int /\ MaxLines \in Int
  BY DiagnosticsAssumption DEF TypeOK, Pending
<1>2. IsFiniteSet(0..MaxLines)
  BY <1>1, FS_Interval
<1> QED
  BY <1>1, <1>2, FS_Subset, FS_CardinalityType

LEMMA DInitInv == Init => DInv
<1> SUFFICES ASSUME Init PROVE DInv
  OBVIOUS
<1>1. Told(out) = {} /\ Pending = {}
  BY DEF Init, Told, Pending, Flush
<1>2. IsFiniteSet({}) /\ Cardinality({}) = 0
  BY FS_EmptySet
<1>3. TypeOK
  <2>1. torn \in BOOLEAN
    BY DEF Init
  <2> QED
    BY <2>1, DiagnosticsAssumption DEF Init, TypeOK
<1>4. LostLinesCounted
  <2>1. Cardinality(Told(out)) = 0 /\ Cardinality(Pending) = 0
    BY <1>1, <1>2
  <2> QED
    BY <2>1 DEF Init, LostLinesCounted
<1>5. ThreadSound /\ QueueSound /\ GuardSound /\ TornSound /\ NothingGlued
  BY DEF Init, ThreadSound, QueueSound, GuardSound, TornSound, NothingGlued
<1> QED
  BY <1>1, <1>2, <1>3, <1>4, <1>5 DEF DInv

LEMMA DTypeStep == DInv /\ Next => TypeOK'
<1> SUFFICES ASSUME DInv, Next PROVE TypeOK'
  OBVIOUS
<1> USE DiagnosticsAssumption DEF DInv, TypeOK
<1>1. CASE Log
  <2>1. logged' \in 0..MaxLines /\ refused' \in Nat
    BY <1>1 DEF Log
  <2>2. queue' \in Seq(0..MaxLines) /\ Len(queue') <= Capacity
    <3>1. CASE Len(queue) < Capacity
      <4>1. queue' = Append(queue, logged + 1) /\ logged + 1 \in 0..MaxLines
        BY <1>1, <3>1 DEF Log
      <4> QED
        BY <3>1, <4>1
    <3>2. CASE ~ (Len(queue) < Capacity)
      BY <1>1, <3>2 DEF Log
    <3> QED
      BY <3>1, <3>2
  <2> QED
    BY <1>1, <2>1, <2>2 DEF Log
<1>2. CASE CountRefused
  BY <1>2 DEF CountRefused
<1>3. CASE RecvLine
  BY <1>3 DEF RecvLine
<1>4. CASE RecvFlush
  BY <1>4 DEF RecvFlush
<1>5. CASE Swap
  BY <1>5 DEF Swap
<1>6. CASE EndTorn
  <2>1. torn' \in BOOLEAN
    BY <1>6 DEF EndTorn
  <2> QED
    BY <1>6, <2>1, TextType DEF EndTorn
<1>7. CASE NoteOk
  BY <1>7, TextType DEF NoteOk
<1>8. CASE LineOk
  BY <1>8, TextType DEF LineOk
<1>9. CASE NoteFails
  <2>1. torn' \in BOOLEAN
    BY <1>9 DEF NoteFails, WriteFails
  <2>2. out' \in Seq(Texts)
    <3>1. out' = out \/ out' = Append(out, Text("part", 0))
      BY <1>9 DEF NoteFails, WriteFails
    <3>2. Text("part", 0) \in Texts
      BY TextType
    <3>3. out \in Seq(Texts)
      OBVIOUS
    <3>4. Append(out, Text("part", 0)) \in Seq(Texts)
      BY ONLY <3>2, <3>3
    <3> QED
      BY ONLY <3>1, <3>3, <3>4
  <2> QED
    BY <1>9, <2>1, <2>2 DEF NoteFails
<1>10. CASE LineFails
  <2>1. torn' \in BOOLEAN
    BY <1>10 DEF LineFails, WriteFails
  <2>2. out' \in Seq(Texts)
    <3>1. out' = out \/ out' = Append(out, Text("part", 0))
      BY <1>10 DEF LineFails, WriteFails
    <3>2. Text("part", 0) \in Texts
      BY TextType
    <3>3. out \in Seq(Texts)
      OBVIOUS
    <3>4. Append(out, Text("part", 0)) \in Seq(Texts)
      BY ONLY <3>2, <3>3
    <3> QED
      BY ONLY <3>1, <3>3, <3>4
  <2> QED
    BY <1>10, <2>1, <2>2 DEF LineFails
<1>11. CASE GuardDrop
  BY <1>11 DEF GuardDrop
<1>12. CASE GuardSend
  BY <1>12 DEF GuardSend, Flush
<1>13. CASE GuardLate
  BY <1>13 DEF GuardLate
<1>14. CASE UNCHANGED vars
  BY <1>14 DEF vars
<1> QED
  BY <1>1, <1>2, <1>3, <1>4, <1>5, <1>6, <1>7, <1>8, <1>9, <1>10, <1>11, <1>12, <1>13, <1>14
     DEF Next

\* The queue keeps its order and the thread what it holds.
LEMMA DOrderStep == DInv /\ Next => ThreadSound' /\ QueueSound' /\ GuardSound'
<1> SUFFICES ASSUME DInv, Next PROVE ThreadSound' /\ QueueSound' /\ GuardSound'
  OBVIOUS
<1>a. /\ queue \in Seq(0..MaxLines) /\ Len(queue) \in Nat /\ logged \in Nat /\ line \in Nat /\ mark \in Nat
      /\ dropped \in Nat /\ MaxLines \in Nat /\ \A i \in 1..Len(queue) : queue[i] \in Nat
  BY DiagnosticsAssumption DEF DInv, TypeOK
<1>b. ThreadSound /\ QueueSound /\ GuardSound
  BY DEF DInv
<1> USE <1>a, <1>b DEF ThreadSound, QueueSound, GuardSound, Flush
<1>1. CASE Log
  <2>1. CASE Len(queue) < Capacity
    <3>0. queue' = Append(queue, logged + 1) /\ logged' = logged + 1
      BY <1>1, <2>1 DEF Log
    <3>1. /\ Len(queue') = Len(queue) + 1
          /\ \A i \in 1..Len(queue) : queue'[i] = queue[i]
          /\ queue'[Len(queue) + 1] = logged + 1
          /\ \A i \in 1..Len(queue') : i \in 1..Len(queue) \/ i = Len(queue) + 1
      BY ONLY <1>a, <3>0
    <3>2. UNCHANGED <<dropped, pc, line, lost, torn, out, guard, mark>>
      BY <1>1 DEF Log
    <3>3. QueueSound'
      <4>1. \A i \in 1..Len(queue') : queue'[i] <= logged' /\ (queue'[i] # Flush => line' < queue'[i])
        BY <3>0, <3>1, <3>2
      <4>2. ASSUME NEW i \in 1..Len(queue'), NEW k \in 1..Len(queue'),
                   i < k, queue'[i] # Flush, queue'[k] # Flush
            PROVE  queue'[i] < queue'[k]
        <5>1. i \in 1..Len(queue) /\ queue'[i] = queue[i]
          BY <3>1, <4>2
        <5>2. CASE k \in 1..Len(queue)
          BY <3>1, <4>2, <5>1, <5>2
        <5>3. CASE k = Len(queue) + 1
          BY <3>1, <5>1, <5>3
        <5> QED
          BY <3>1, <5>2, <5>3
      <4> QED
        BY <3>0, <3>2, <4>1, <4>2
    <3>4. GuardSound'
      <4>1. guard \in {"no", "send"} => \A i \in 1..Len(queue') : queue'[i] # Flush
        BY <3>0, <3>1
      <4>2. ASSUME NEW i \in 1..Len(queue'), NEW k \in 1..Len(queue'),
                   i < k, queue'[i] = Flush, queue'[k] # Flush
            PROVE  mark < queue'[k]
        <5>1. i \in 1..Len(queue) /\ queue'[i] = queue[i]
          BY <3>1, <4>2
        <5>2. CASE k \in 1..Len(queue)
          BY <3>1, <4>2, <5>1, <5>2
        <5>3. CASE k = Len(queue) + 1
          BY <3>1, <5>3
        <5> QED
          BY <3>1, <5>2, <5>3
      <4> QED
        BY <3>0, <3>2, <4>1, <4>2
    <3> QED
      BY <3>2, <3>3, <3>4
  <2>2. CASE ~ (Len(queue) < Capacity)
    BY <1>1, <2>2 DEF Log
  <2> QED
    BY <2>1, <2>2
<1>2. CASE CountRefused
  BY <1>2 DEF CountRefused
<1>3. CASE RecvLine
  <2>1. /\ queue # <<>> /\ queue' = Tail(queue) /\ logged' = logged /\ mark' = mark
        /\ line' = Head(queue) /\ Head(queue) # Flush /\ pc = "recv" /\ pc' = "swap" /\ UNCHANGED <<lost, guard>>
    BY <1>3 DEF RecvLine
  <2>2. /\ Len(queue') = Len(queue) - 1 /\ Len(queue) >= 1 /\ Head(queue) = queue[1]
        /\ \A i \in 1..Len(queue') : i + 1 \in 1..Len(queue) /\ queue'[i] = queue[i + 1]
    BY ONLY <1>a, <2>1
  <2>3. /\ \A i \in 1..Len(queue') : queue'[i] <= logged /\ (queue'[i] # Flush => line' < queue'[i])
        /\ line' <= logged
    BY <2>1, <2>2
  <2>4. ASSUME NEW i \in 1..Len(queue'), NEW k \in 1..Len(queue'), i < k, queue'[k] # Flush
        PROVE  /\ queue'[i] # Flush => queue'[i] < queue'[k]
               /\ queue'[i] = Flush => mark < queue'[k]
    <3>1. i + 1 \in 1..Len(queue) /\ k + 1 \in 1..Len(queue) /\ i + 1 < k + 1
      BY <2>2, <2>4
    <3> QED
      BY <2>2, <2>4, <3>1
  <2>5. guard' \in {"no", "send"} => \A i \in 1..Len(queue') : queue'[i] # Flush
    BY <2>1, <2>2
  <2>6. ThreadSound'
    BY <2>1
  <2> QED
    BY <2>1, <2>3, <2>4, <2>5, <2>6
<1>4. CASE RecvFlush
  <2>1. /\ queue # <<>> /\ queue' = Tail(queue) /\ logged' = logged /\ mark' = mark
        /\ guard' = (IF guard = "wait" THEN "done" ELSE guard) /\ UNCHANGED <<pc, line, lost>>
    BY <1>4 DEF RecvFlush
  <2>2. /\ Len(queue') = Len(queue) - 1 /\ Len(queue) >= 1 /\ Head(queue) = queue[1]
        /\ \A i \in 1..Len(queue') : i + 1 \in 1..Len(queue) /\ queue'[i] = queue[i + 1]
    BY ONLY <1>a, <2>1
  <2>3. /\ \A i \in 1..Len(queue') : queue'[i] <= logged /\ (queue'[i] # Flush => line' < queue'[i])
        /\ line' <= logged
    BY <2>1, <2>2
  <2>4. ASSUME NEW i \in 1..Len(queue'), NEW k \in 1..Len(queue'), i < k, queue'[k] # Flush
        PROVE  /\ queue'[i] # Flush => queue'[i] < queue'[k]
               /\ queue'[i] = Flush => mark < queue'[k]
    <3>1. i + 1 \in 1..Len(queue) /\ k + 1 \in 1..Len(queue) /\ i + 1 < k + 1
      BY <2>2, <2>4
    <3> QED
      BY <2>2, <2>4, <3>1
  <2>5. guard' \in {"no", "send"} => \A i \in 1..Len(queue') : queue'[i] # Flush
    BY <2>1, <2>2
  <2>6. ThreadSound'
    BY <2>1
  <2> QED
    BY <2>1, <2>3, <2>4, <2>5, <2>6
<1>5. CASE Swap
  BY <1>5 DEF Swap
<1>6. CASE EndTorn
  BY <1>6 DEF EndTorn
<1>7. CASE NoteOk
  BY <1>7 DEF NoteOk
<1>8. CASE LineOk
  BY <1>8 DEF LineOk
<1>9. CASE NoteFails
  BY <1>9 DEF NoteFails
<1>10. CASE LineFails
  BY <1>10 DEF LineFails
<1>11. CASE GuardDrop
  BY <1>11 DEF GuardDrop
<1>12. CASE GuardSend
  <2>1. /\ queue' = Append(queue, Flush) /\ guard' = "wait" /\ mark' = logged
        /\ UNCHANGED <<logged, pc, line, lost>>
    BY <1>12 DEF GuardSend
  <2>2. /\ Len(queue') = Len(queue) + 1
        /\ \A i \in 1..Len(queue) : queue'[i] = queue[i]
        /\ queue'[Len(queue) + 1] = Flush
        /\ \A i \in 1..Len(queue') : i \in 1..Len(queue) \/ i = Len(queue) + 1
    BY ONLY <1>a, <2>1 DEF Flush
  <2>3. \A i \in 1..Len(queue) : queue[i] # Flush
    BY <1>12 DEF GuardSend
  <2>4. \A i \in 1..Len(queue') : queue'[i] <= logged /\ (queue'[i] # Flush => i \in 1..Len(queue) /\ line < queue'[i])
    BY <2>2
  <2>5. \A i, k \in 1..Len(queue') : i < k /\ queue'[i] # Flush /\ queue'[k] # Flush => queue'[i] < queue'[k]
    BY <2>2, <2>4
  <2>6. \A i, k \in 1..Len(queue') : i < k /\ queue'[i] = Flush /\ queue'[k] # Flush => logged < queue'[k]
    BY <2>2, <2>3, <2>4
  <2> QED
    BY <2>1, <2>4, <2>5, <2>6
<1>13. CASE GuardLate
  BY <1>13 DEF GuardLate
<1>14. CASE UNCHANGED vars
  BY <1>14 DEF vars
<1> QED
  BY <1>1, <1>2, <1>3, <1>4, <1>5, <1>6, <1>7, <1>8, <1>9, <1>10, <1>11, <1>12, <1>13, <1>14
     DEF Next

\* A text written where it may be leaves stderr sound and counts its lines.
LEMMA WriteStep ==
    ASSUME DInv, NEW k \in {"line", "note", "part", "newline"}, NEW n \in Nat,
           out' = Append(out, Text(k, n)), torn => k = "newline", k = "part" => torn'
    PROVE  /\ IsFiniteSet(Told(out')) /\ Cardinality(Told(out')) = Cardinality(Told(out)) + n
           /\ TornSound' /\ NothingGlued'
<1>1. out \in Seq(Texts) /\ IsFiniteSet(Told(out))
  BY DEF DInv, TypeOK
<1>2. Len(out) > 0 /\ out[Len(out)].kind = "part" => k = "newline"
  BY DEF DInv, TornSound
<1>3. /\ Len(out') = Len(out) + 1 /\ out'[Len(out) + 1].kind = k
      /\ \A i \in 1..Len(out) : out'[i].kind = "part" => out'[i+1].kind = "newline"
  BY <1>1, <1>2, GlueAppend DEF DInv, NothingGlued
<1>4. TornSound' /\ NothingGlued'
  BY <1>1, <1>3 DEF TornSound, NothingGlued
<1> QED
  BY <1>1, <1>4, ToldAppend

\* A step that writes nothing.
LEMMA QuietStep ==
    ASSUME DInv, UNCHANGED out, torn => torn'
    PROVE  /\ IsFiniteSet(Told(out')) /\ Cardinality(Told(out')) = Cardinality(Told(out))
           /\ TornSound' /\ NothingGlued'
BY DEF DInv, TornSound, NothingGlued

\* The thread lets go of its line: it was pending nowhere else.
LEMMA LineGone ==
    ASSUME DInv, line # 0, line' = 0, queue' = queue
    PROVE  Cardinality(Pending') = Cardinality(Pending) - 1
<1>1. Pending' = Pending \ {line} /\ line \in Pending
  BY DEF DInv, TypeOK, QueueSound, Pending, Flush
<1>2. IsFiniteSet(Pending)
  BY PendingFinite DEF DInv
<1>3. Cardinality(Pending \ {line}) = Cardinality(Pending) - 1
  BY <1>1, <1>2, FS_RemoveElement
<1> QED
  BY <1>1, <1>3

\* One step per action: what it moves from one count to another.
LEMMA DOutStep ==
    DInv /\ [Next]_vars =>
        IsFiniteSet(Told(out')) /\ TornSound' /\ NothingGlued' /\ LostLinesCounted'
<1> DEFINE Out == IsFiniteSet(Told(out')) /\ TornSound' /\ NothingGlued'
           told == Cardinality(Told(out))
           pend == Cardinality(Pending)
           Sum == logged = told + refused + dropped + lost + pend
<1> SUFFICES ASSUME DInv, [Next]_vars
             PROVE  Out /\ LostLinesCounted'
  OBVIOUS
<1>a. /\ told \in Nat /\ pend \in Nat /\ Sum
      /\ logged \in Nat /\ refused \in Nat /\ dropped \in Nat /\ lost \in Nat
      /\ Cardinality(Told(out')) = Cardinality(Told(out))'
      /\ Cardinality(Pending') = pend'
  BY PendingFinite, FS_CardinalityType, DiagnosticsAssumption DEF DInv, TypeOK, LostLinesCounted
<1>b. line \in Nat /\ (line # 0 <=> pc # "recv") /\ (pc # "note" => lost = 0)
  BY DiagnosticsAssumption DEF DInv, TypeOK, ThreadSound
<1>c. CASE UNCHANGED vars
  <2>1. Out
    BY <1>c, QuietStep DEF vars
  <2>2. told' = told /\ pend' = pend
    BY <1>c DEF vars, Told, Pending
  <2> QED
    BY <1>c, <2>1, <2>2 DEF vars, LostLinesCounted, Pending, DInv
<1>d. SUFFICES ASSUME Next, ~ Exited, ~ UNCHANGED vars PROVE Out /\ LostLinesCounted'
  BY <1>c DEF Next
<1>e. guard # "done"
  BY <1>d DEF Exited
<1>f. ASSUME guard' # "done", Sum' PROVE LostLinesCounted'
  BY <1>f DEF LostLinesCounted
<1> HIDE DEF told, pend
<1>1. CASE Log
  <2>1. Out /\ told' = told /\ guard' # "done"
    BY <1>1, <1>e, QuietStep DEF Log, told
  <2>2. CASE Len(queue) < Capacity
    <3>1. Pending' = Pending \cup {logged + 1} /\ logged + 1 \notin Pending
      <4>1. /\ queue' = Append(queue, logged + 1) /\ line' = line /\ queue \in Seq(0..MaxLines)
            /\ line < logged + 1 /\ \A i \in 1..Len(queue) : queue[i] < logged + 1
        BY <1>1, <2>2, DiagnosticsAssumption DEF Log, DInv, TypeOK, QueueSound
      <4>2. /\ DOMAIN queue = 1..Len(queue) /\ DOMAIN queue' = 1..(Len(queue) + 1)
            /\ \A i \in 1..Len(queue) : queue'[i] = queue[i]
            /\ queue'[Len(queue) + 1] = logged + 1
            /\ Len(queue) \in Nat
        BY <4>1, <1>a
      <4>3. {queue'[i] : i \in DOMAIN queue'} = {queue[i] : i \in DOMAIN queue} \cup {logged + 1}
        BY <4>2
      <4> QED
        BY <1>a, <4>1, <4>2, <4>3 DEF Pending, Flush
    <3>2. Cardinality(Pending \cup {logged + 1}) = pend + 1
      BY <3>1, PendingFinite, FS_AddElement DEF DInv, pend
    <3>3. pend' = pend + 1
      BY <3>1, <3>2 DEF pend
    <3> QED
      BY <1>1, <2>1, <2>2, <3>3, <1>a, <1>f DEF Log
  <2>3. CASE ~ (Len(queue) < Capacity)
    <3>1. pend' = pend
      BY <1>1, <2>3 DEF Log, Pending, pend
    <3> QED
      BY <1>1, <2>1, <2>3, <3>1, <1>a, <1>f DEF Log
  <2> QED
    BY <2>2, <2>3
<1>2. CASE CountRefused
  <2>1. Out /\ told' = told /\ guard' # "done"
    BY <1>2, <1>e, QuietStep DEF CountRefused, told
  <2>2. pend' = pend
    BY <1>2 DEF CountRefused, Pending, pend
  <2> QED
    BY <1>2, <2>1, <2>2, <1>a, <1>f DEF CountRefused
<1>3. CASE RecvLine
  <2>1. Out /\ told' = told /\ guard' # "done"
    BY <1>3, <1>e, QuietStep DEF RecvLine, told
  <2>2. Pending' = Pending
    <3>1. /\ queue \in Seq(0..MaxLines) /\ queue # <<>> /\ queue' = Tail(queue)
          /\ line = 0 /\ line' = Head(queue)
      BY <1>3, <1>b DEF RecvLine, DInv, TypeOK
    <3>2. /\ Head(queue) = queue[1]
          /\ {queue[i] : i \in DOMAIN queue} = {queue'[i] : i \in DOMAIN queue'} \cup {queue[1]}
      <4> DEFINE q == queue
      <4>1. q \in Seq(0..MaxLines) /\ q # <<>>
        BY <3>1
      <4> HIDE DEF q
      <4>2. Head(q) = q[1] /\ {q[i] : i \in DOMAIN q} = {Tail(q)[i] : i \in DOMAIN Tail(q)} \cup {q[1]}
        BY ONLY <4>1, TailRange
      <4> QED
        BY <3>1, <4>2 DEF q
    <3> QED
      BY <3>1, <3>2 DEF Pending, Flush
  <2>3. pend' = pend
    BY <2>2 DEF pend
  <2> QED
    BY <1>3, <2>1, <2>3, <1>a, <1>f DEF RecvLine
<1>4. CASE RecvFlush
  <2>1. Out /\ told' = told
    BY <1>4, QuietStep DEF RecvFlush, told
  <2>2. /\ queue \in Seq(0..MaxLines) /\ queue # <<>> /\ queue' = Tail(queue)
        /\ line = 0 /\ line' = 0 /\ Head(queue) = 0 /\ mark' = mark
    BY <1>4, <1>b DEF RecvFlush, DInv, TypeOK, Flush
  <2>3. /\ queue[1] = 0
        /\ {queue[i] : i \in DOMAIN queue} = {queue'[i] : i \in DOMAIN queue'} \cup {queue[1]}
        /\ \A x \in {queue'[i] : i \in DOMAIN queue'} : \E i \in 2..Len(queue) : x = queue[i]
    BY <2>2, TailRange
  <2>4. Pending' = Pending
    BY <2>2, <2>3 DEF Pending, Flush
  <2>5. pend' = pend
    BY <2>4 DEF pend
  <2>6. Sum'
    BY <1>4, <2>1, <2>5, <1>a DEF RecvFlush
  <2>7. \A k \in Pending' : k > mark'
    <3>1. TAKE k \in Pending'
    <3>2. PICK i \in 2..Len(queue) : k = queue[i]
      BY <2>2, <2>3, <3>1 DEF Pending, Flush
    <3>3. 1 \in 1..Len(queue) /\ i \in 1..Len(queue) /\ 1 < i /\ k # 0
      BY <2>2, <3>1, <3>2 DEF Pending, Flush
    <3>4. mark < queue[i] /\ mark \in Nat /\ queue[i] \in Nat
      BY <2>2, <2>3, <3>2, <3>3, DiagnosticsAssumption DEF DInv, TypeOK, GuardSound, Flush
    <3> QED
      BY <2>2, <3>2, <3>4
  <2> QED
    BY <2>1, <2>6, <2>7 DEF LostLinesCounted, told, pend
<1>5. CASE Swap
  <2>1. Out /\ told' = told /\ guard' # "done"
    BY <1>5, <1>e, QuietStep DEF Swap, told
  <2>2. pend' = pend
    BY <1>5 DEF Swap, Pending, pend
  <2> QED
    BY <1>5, <2>1, <2>2, <1>a, <1>b, <1>f DEF Swap
<1>6. CASE EndTorn
  <2>1. Out /\ told' = told + 0 /\ guard' # "done"
    BY <1>6, <1>e, WriteStep DEF EndTorn, told
  <2>2. pend' = pend
    BY <1>6 DEF EndTorn, Pending, pend
  <2> QED
    BY <1>6, <2>1, <2>2, <1>a, <1>f DEF EndTorn
<1>7. CASE NoteOk
  <2>1. Out /\ told' = told + lost /\ guard' # "done"
    BY <1>7, <1>a, <1>e, WriteStep DEF NoteOk, told
  <2>2. pend' = pend
    BY <1>7 DEF NoteOk, Pending, pend
  <2> QED
    BY <1>7, <2>1, <2>2, <1>a, <1>f DEF NoteOk
<1>8. CASE LineOk
  <2>1. Out /\ told' = told + 1 /\ guard' # "done"
    BY <1>8, <1>e, WriteStep DEF LineOk, told
  <2>2. pend' = pend - 1
    BY <1>8, <1>b, LineGone DEF LineOk, pend
  <2> QED
    BY <1>8, <2>1, <2>2, <1>a, <1>f DEF LineOk
<1>g. ASSUME WriteFails PROVE Out /\ told' = told
  <2>1. CASE UNCHANGED <<out, torn>>
    BY <2>1, QuietStep DEF told
  <2>2. CASE ~ torn /\ out' = Append(out, Text("part", 0)) /\ torn' = TRUE
    <3>1. Out /\ told' = told + 0
      BY <2>2, WriteStep DEF told
    <3> QED
      BY <1>a, <3>1
  <2> QED
    BY <1>g, <2>1, <2>2 DEF WriteFails
<1>9. CASE NoteFails
  <2>1. Out /\ told' = told /\ guard' # "done"
    BY <1>9, <1>e, <1>g DEF NoteFails
  <2>2. pend' = pend - 1
    BY <1>9, <1>b, LineGone DEF NoteFails, pend
  <2> QED
    BY <1>9, <2>1, <2>2, <1>a, <1>f DEF NoteFails
<1>10. CASE LineFails
  <2>1. Out /\ told' = told /\ guard' # "done"
    BY <1>10, <1>e, <1>g DEF LineFails
  <2>2. pend' = pend - 1
    BY <1>10, <1>b, LineGone DEF LineFails, pend
  <2> QED
    BY <1>10, <2>1, <2>2, <1>a, <1>f DEF LineFails
<1>11. CASE GuardDrop
  <2>1. Out /\ told' = told /\ guard' # "done"
    BY <1>11, <1>e, QuietStep DEF GuardDrop, told
  <2>2. pend' = pend
    BY <1>11 DEF GuardDrop, Pending, pend
  <2> QED
    BY <1>11, <2>1, <2>2, <1>a, <1>f DEF GuardDrop
<1>12. CASE GuardSend
  <2>1. Out /\ told' = told /\ guard' # "done"
    BY <1>12, <1>e, QuietStep DEF GuardSend, told
  <2>2. Pending' = Pending
    <3>1. queue' = Append(queue, 0) /\ line' = line /\ queue \in Seq(0..MaxLines) /\ 0 \in 0..MaxLines
      BY <1>12, DiagnosticsAssumption DEF GuardSend, Flush, DInv, TypeOK
    <3>2. /\ DOMAIN queue = 1..Len(queue) /\ DOMAIN queue' = 1..(Len(queue) + 1)
          /\ \A i \in 1..Len(queue) : queue'[i] = queue[i]
          /\ queue'[Len(queue) + 1] = 0
          /\ Len(queue) \in Nat
      BY <3>1
    <3>3. {queue'[i] : i \in DOMAIN queue'} = {queue[i] : i \in DOMAIN queue} \cup {0}
      BY <3>2
    <3> QED
      BY <3>1, <3>3 DEF Pending, Flush
  <2>3. pend' = pend
    BY <2>2 DEF pend
  <2> QED
    BY <1>12, <2>1, <2>3, <1>a, <1>f DEF GuardSend
<1>13. CASE GuardLate
  <2>1. Out /\ told' = told /\ guard' # "done"
    BY <1>13, <1>e, QuietStep DEF GuardLate, told
  <2>2. pend' = pend
    BY <1>13 DEF GuardLate, Pending, pend
  <2> QED
    BY <1>13, <2>1, <2>2, <1>a, <1>f DEF GuardLate
<1> QED
  BY <1>d, <1>1, <1>2, <1>3, <1>4, <1>5, <1>6, <1>7, <1>8, <1>9, <1>10, <1>11, <1>12, <1>13
     DEF Next
-----------------------------------------------------------------------------
LEMMA DInductive == Spec => []DInv
<1>1. DInv /\ [Next]_vars => DInv'
  <2>1. CASE Next
    <3>1. DInv => TypeOK' /\ ThreadSound' /\ QueueSound' /\ GuardSound'
      BY <2>1, DTypeStep, DOrderStep
    <3> QED
      BY <2>1, <3>1, DOutStep DEF DInv
  <2>2. CASE UNCHANGED vars
    <3>1. DInv => TypeOK' /\ ThreadSound' /\ QueueSound' /\ GuardSound'
      BY <2>2 DEF DInv, TypeOK, ThreadSound, QueueSound, GuardSound, vars
    <3> QED
      BY <2>2, <3>1, DOutStep DEF DInv
  <2> QED
    BY <2>1, <2>2
<1> QED
  BY DInitInv, <1>1, PTL DEF Spec

\* Every line handed to DiagnosticWriter is on stderr, announced as lost there,
\* counted for the next note or still pending, exactly once, whatever writes to
\* stderr fail; and a flush that was answered left nothing behind.
THEOREM LostLinesTheorem == Spec => []LostLinesCounted
<1>1. DInv => LostLinesCounted
  BY DEF DInv
<1> QED
  BY DInductive, <1>1, PTL

\* write_line ends a torn text before it writes the next one.
THEOREM NothingGluedTheorem == Spec => []NothingGlued
<1>1. DInv => NothingGlued
  BY DEF DInv
<1> QED
  BY DInductive, <1>1, PTL
=============================================================================
