------------------------ MODULE PrettyOutputProofs ------------------------
(***************************************************************************)
(* A human-readable destination keeps to its byte budget, says what it     *)
(* drops and prints totals that never go back: for every finite set of     *)
(* batches, all sizes and both budgets. Each part of the invariant is      *)
(* about one of the three, and the parts share what is known of the queue. *)
(* The last section is about WriteHealth, the reports about outputs that   *)
(* cannot be written.                                                      *)
(***************************************************************************)
EXTENDS PrettyOutput, WriteHealth, FiniteSetTheorems, TLAPS

\* The batches whose bytes are counted and not yet given back by enqueue.
Flying == {b \in Batches : st[b] \in {"added", "send", "behind", "stopped"}}

Charged == Held \cup Flying

\* The batches that dropped counts.
Lost == {b \in Batches : st[b] \in {"dropped", "reportStopped"}}

\* The queue holds a batch once, and the writer's job is not in it any more.
QueueOK ==
    /\ \A i, j \in 1..Len(queue) : queue[i] = queue[j] /\ queue[i] # Sync => i = j
    /\ \A i \in 1..Len(queue) : queue[i] # Sync => st[queue[i]] = "queued"
    /\ w \in {"write", "free"} /\ job # Sync =>
          st[job] = "queued" /\ \A i \in 1..Len(queue) : queue[i] # job
    /\ w = "write" => job # Sync
    /\ closed => queue = <<>> /\ w = "dead"

\* Of any of the batches in C there is one that saw the others when it was
\* added: the one that was added last.
Within(C, sw) == \A S \in SUBSET C : S # {} => \E m \in S : SumSize(S) <= sw[m] + Size[m]

\* The counter covers what is charged, and whatever got past the check was
\* within the budget with all that was charged before it.
BytesOK ==
    /\ bytes >= SumSize(Charged)
    /\ ~ closed => bytes = SumSize(Charged)
    /\ Within(Charged, saw)
    /\ \A b \in Batches : b \in Held \/ st[b] = "send" => saw[b] + Size[b] <= MaxBytes

\* A number that deserves a notice has one, or belongs to a batch that is about
\* to write it; the first report of a stopped writer is the only one.
DropsOK ==
    /\ dropped = Cardinality(Lost)
    /\ \A n \in 1..dropped : n \in PowersOfTwo =>
          \/ \E notice \in notices : notice[2] = n
          \/ \E b \in Batches : st[b] = "reportStopped" /\ saw[b] = n
    /\ ~ stopReported => \A notice \in notices : notice[1] # "stopped"
    /\ stopReported => \E x \in notices : {notice \in notices : notice[1] = "stopped"} = {x}

\* A batch that got past the aggregation is in the totals, and so in the summary
\* taken for it; whatever was written before is in that summary as well.
SummaryOK ==
    /\ \A b \in Batches : st[b] # "new" => b \in total
    /\ w = "write" => job \in snap /\ snap \subseteq total
    /\ \A i \in 1..Len(out) : out[i][2] \subseteq total /\ (w = "write" => out[i][2] \subseteq snap)
    /\ SummariesMonotone

PrettyInv == TypeOK /\ QueueOK /\ BytesOK /\ DropsOK /\ SummaryOK
-----------------------------------------------------------------------------
(***************************************************************************)
(* Sums of sizes.                                                          *)
(***************************************************************************)
LEMMA TextFinite ==
    ASSUME NEW S \in SUBSET Batches
    PROVE  IsFiniteSet(TextBytes(S)) /\ SumSize(S) \in Nat
<1> DEFINE T == {{b} \X (1..Size[b]) : b \in S}
           f == [b \in S |-> {b} \X (1..Size[b])]
<1>1. IsFiniteSet(S)  BY PrettyAssumption, FS_Subset
<1>2. f \in Surjection(S, T)  BY DEF Surjection
<1>3. IsFiniteSet(T)  BY <1>1, <1>2, FS_Surjection
<1>4. ASSUME NEW b \in S  PROVE IsFiniteSet({b} \X (1..Size[b]))
  <2>1. IsFiniteSet({b})  BY FS_Singleton
  <2>2. Size[b] \in Int  BY PrettyAssumption
  <2>3. IsFiniteSet(1..Size[b])  BY <2>2, FS_Interval
  <2> QED  BY <2>1, <2>3, FS_Product
<1>5. \A t \in T : IsFiniteSet(t)  BY <1>4
<1>6. IsFiniteSet(TextBytes(S))  BY <1>3, <1>5, FS_UNION DEF TextBytes
<1> QED  BY <1>6, FS_CardinalityType DEF SumSize

LEMMA SumSubset ==
    ASSUME NEW S \in SUBSET Batches, NEW T \in SUBSET S
    PROVE  SumSize(T) <= SumSize(S)
<1>1. TextBytes(T) \in SUBSET TextBytes(S)  BY DEF TextBytes
<1> QED  BY <1>1, TextFinite, FS_Subset DEF SumSize

LEMMA SumUnion ==
    ASSUME NEW S \in SUBSET Batches, NEW T \in SUBSET Batches, S \cap T = {}
    PROVE  SumSize(S \cup T) = SumSize(S) + SumSize(T)
<1>1. TextBytes(S \cup T) = TextBytes(S) \cup TextBytes(T)  BY DEF TextBytes
<1>2. TextBytes(S) \cap TextBytes(T) = {}  BY DEF TextBytes
<1>3. Cardinality(TextBytes(S) \cap TextBytes(T)) = 0  BY <1>2, FS_EmptySet
<1>4. /\ IsFiniteSet(TextBytes(S)) /\ IsFiniteSet(TextBytes(T))
      /\ SumSize(S) \in Nat /\ SumSize(T) \in Nat
  BY TextFinite
<1>5. Cardinality(TextBytes(S) \cup TextBytes(T))
        = Cardinality(TextBytes(S)) + Cardinality(TextBytes(T)) - 0
  BY <1>3, <1>4, FS_Union
<1>6. SumSize(S \cup T) = Cardinality(TextBytes(S) \cup TextBytes(T))  BY <1>1 DEF SumSize
<1> QED  BY <1>4, <1>5, <1>6 DEF SumSize

LEMMA SumOne ==
    ASSUME NEW b \in Batches
    PROVE  SumSize({b}) = Size[b] /\ Size[b] \in Nat \ {0}
<1>1. Size[b] \in Nat \ {0}  BY PrettyAssumption
<1>2. TextBytes({b}) = {b} \X (1..Size[b])  BY DEF TextBytes
<1>3. IsFiniteSet({b}) /\ Cardinality({b}) = 1  BY FS_Singleton
<1>4. IsFiniteSet(1..Size[b]) /\ Cardinality(1..Size[b]) = Size[b]
  <2>1. Size[b] \in Int /\ ~ (1 > Size[b]) /\ Size[b] - 1 + 1 = Size[b]  BY <1>1
  <2> QED  BY <2>1, FS_Interval
<1>5. Cardinality({b} \X (1..Size[b])) = Cardinality({b}) * Cardinality(1..Size[b])
  <2> DEFINE S == {b}
             T == 1..Size[b]
  <2>1. IsFiniteSet(S) /\ IsFiniteSet(T)  BY <1>3, <1>4
  <2> HIDE DEF S, T
  <2>2. Cardinality(S \X T) = Cardinality(S) * Cardinality(T)  BY <2>1, FS_Product
  <2> QED  BY <2>2 DEF S, T
<1>6. SumSize({b}) = Cardinality({b} \X (1..Size[b]))  BY <1>2 DEF SumSize
<1>7. SumSize({b}) = 1 * Size[b]  BY <1>3, <1>4, <1>5, <1>6
<1> QED  BY <1>1, <1>7

LEMMA SumMoves ==
    ASSUME NEW S \in SUBSET Batches, NEW b \in Batches
    PROVE  /\ SumSize(S) \in Nat /\ Size[b] \in Nat
           /\ b \notin S => SumSize(S \cup {b}) = SumSize(S) + Size[b]
           /\ b \in S => SumSize(S \ {b}) = SumSize(S) - Size[b] /\ Size[b] <= SumSize(S)
<1>1. SumSize(S) \in Nat  BY TextFinite
<1>2. SumSize({b}) = Size[b] /\ Size[b] \in Nat  BY SumOne
<1>3. ASSUME b \notin S  PROVE SumSize(S \cup {b}) = SumSize(S) + Size[b]
  <2>1. {b} \in SUBSET Batches /\ S \cap {b} = {}  BY <1>3
  <2> QED  BY <1>2, <2>1, SumUnion
<1>4. ASSUME b \in S
      PROVE  SumSize(S \ {b}) = SumSize(S) - Size[b] /\ Size[b] <= SumSize(S)
  <2> DEFINE R == S \ {b}
  <2>1. {b} \in SUBSET Batches /\ R \in SUBSET Batches /\ R \cap {b} = {} /\ S = R \cup {b}  BY <1>4
  <2>2. SumSize(R \cup {b}) = SumSize(R) + SumSize({b})  BY <2>1, SumUnion
  <2>3. SumSize(R) \in Nat  BY <2>1, TextFinite
  <2>4. SumSize(S) = SumSize(R \cup {b})  BY <2>1
  <2> HIDE DEF R
  <2>5. SumSize(R) = SumSize(S) - Size[b] /\ Size[b] <= SumSize(S)  BY <1>1, <1>2, <2>2, <2>3, <2>4
  <2> QED  BY <2>5 DEF R
<1> QED  BY <1>1, <1>2, <1>3, <1>4

\* Batches that leave take no claim with them.
LEMMA WithinShrinks ==
    ASSUME NEW C, NEW D \in SUBSET C, NEW sw, NEW tw, Within(C, sw), \A b \in D : tw[b] = sw[b]
    PROVE  Within(D, tw)
<1> SUFFICES ASSUME NEW S \in SUBSET D, S # {}
             PROVE  \E m \in S : SumSize(S) <= tw[m] + Size[m]
  BY DEF Within
<1>1. PICK m \in S : SumSize(S) <= sw[m] + Size[m]  BY DEF Within
<1>2. tw[m] = sw[m]  OBVIOUS
<1> QED  BY <1>1, <1>2

\* The batch that is added sees all that is charged.
LEMMA WithinGrows ==
    ASSUME NEW C \in SUBSET Batches, NEW b \in Batches, b \notin C, NEW sw, NEW tw,
           NEW n \in Nat, Within(C, sw), n >= SumSize(C), tw[b] = n, \A x \in C : tw[x] = sw[x]
    PROVE  Within(C \cup {b}, tw)
<1> SUFFICES ASSUME NEW S \in SUBSET (C \cup {b}), S # {}
             PROVE  \E m \in S : SumSize(S) <= tw[m] + Size[m]
  BY DEF Within
<1>1. CASE b \in S
  <2>1. SumSize(C \cup {b}) = SumSize(C) + Size[b] /\ SumSize(C) \in Nat /\ Size[b] \in Nat
    BY SumMoves
  <2>2. C \cup {b} \in SUBSET Batches  OBVIOUS
  <2>3. SumSize(S) <= SumSize(C \cup {b}) /\ SumSize(S) \in Nat
    BY <2>2, SumSubset, TextFinite
  <2>4. SumSize(S) <= n + Size[b]  BY <2>1, <2>3
  <2> QED  BY <1>1, <2>4
<1>2. CASE b \notin S
  <2>1. S \in SUBSET C  BY <1>2
  <2>2. PICK m \in S : SumSize(S) <= sw[m] + Size[m]  BY <2>1 DEF Within
  <2>3. tw[m] = sw[m]  BY <2>1
  <2> QED  BY <2>2, <2>3
<1> QED  BY <1>1, <1>2
-----------------------------------------------------------------------------
(***************************************************************************)
(* The steps of an enqueue move one batch, and not one that is queued.     *)
(***************************************************************************)
Enqueue(b) ==
    \/ Aggregate(b) \/ AddBytes(b) \/ CheckBudget(b) \/ TrySend(b) \/ SubBytes(b)
    \/ ReportBehind(b) \/ CountStopped(b) \/ ReportStopped(b)

States == {"new", "counted", "added", "send", "queued", "behind", "stopped",
           "countBehind", "countStopped", "reportStopped", "dropped"}

LEMMA EnqueueMoves ==
    ASSUME TypeOK, NEW b \in Batches, Enqueue(b)
    PROVE  /\ st' \in [Batches -> States]
           /\ st[b] # "queued" /\ st[b] # "dropped"
           /\ \A x \in Batches \ {b} : st'[x] = st[x]
           /\ UNCHANGED <<closed, w, job, brokenPipe, snap, out, drain>>
<1> USE DEF TypeOK, States
<1>1. CASE Aggregate(b)  BY <1>1 DEF Aggregate
<1>2. CASE AddBytes(b)  BY <1>2 DEF AddBytes
<1>3. CASE CheckBudget(b)  BY <1>3 DEF CheckBudget
<1>4. CASE TrySend(b)  BY <1>4 DEF TrySend
<1>5. CASE SubBytes(b)  BY <1>5 DEF SubBytes
<1>6. CASE ReportBehind(b)  BY <1>6 DEF ReportBehind
<1>7. CASE CountStopped(b)  BY <1>7 DEF CountStopped
<1>8. CASE ReportStopped(b)  BY <1>8 DEF ReportStopped
<1> QED  BY <1>1, <1>2, <1>3, <1>4, <1>5, <1>6, <1>7, <1>8 DEF Enqueue

\* The writer and the drain leave the enqueues alone.
Background == \/ Recv \/ WriteEnd \/ WriteBrokenPipe \/ Free \/ WriterDies
              \/ DrainBegin \/ DrainSend \/ DrainLate \/ UNCHANGED vars

LEMMA BackgroundMoves ==
    ASSUME Background
    PROVE  UNCHANGED <<st, saw, total, drops>>
BY DEF Background, Recv, WriteEnd, WriteBrokenPipe, Free, WriterDies, DrainBegin, DrainSend,
       DrainLate, vars

LEMMA NextIs ==
    ASSUME [Next]_vars
    PROVE  (\E b \in Batches : Enqueue(b)) \/ Background
BY DEF Next, Enqueue, Background
-----------------------------------------------------------------------------
(***************************************************************************)
(* The queue.                                                              *)
(***************************************************************************)
LEMMA Appended ==
    ASSUME NEW S, NEW q \in Seq(S), NEW e \in S
    PROVE  /\ Append(q, e) \in Seq(S)
           /\ Len(Append(q, e)) = Len(q) + 1
           /\ \A i \in 1..Len(q) : Append(q, e)[i] = q[i]
           /\ Append(q, e)[Len(q) + 1] = e
           /\ Len(q) \in Nat
           /\ \A i \in 1..(Len(q) + 1) : i \in 1..Len(q) \/ i = Len(q) + 1
OBVIOUS

LEMMA Tailed ==
    ASSUME NEW S, NEW q \in Seq(S), q # <<>>
    PROVE  /\ Tail(q) \in Seq(S)
           /\ Len(Tail(q)) = Len(q) - 1
           /\ \A i \in 1..(Len(q) - 1) : Tail(q)[i] = q[i + 1] /\ i + 1 \in 1..Len(q)
           /\ Head(q) = q[1] /\ Head(q) \in S
           /\ Len(q) \in Nat \ {0} /\ 1 \in 1..Len(q)
OBVIOUS

LEMMA QueueSame ==
    ASSUME QueueOK, TypeOK, UNCHANGED <<queue, w, job, closed>>,
           \A x \in Batches : st[x] = "queued" => st'[x] = "queued"
    PROVE  QueueOK'
<1>1. \A i \in 1..Len(queue) : queue[i] \in Batches \cup {Sync}  BY DEF TypeOK
<1>2. job \in Batches \cup {Sync}  BY DEF TypeOK
<1>3. \A i \in 1..Len(queue) : queue[i] # Sync => st'[queue[i]] = "queued"  BY <1>1 DEF QueueOK
<1>4. w \in {"write", "free"} /\ job # Sync => st'[job] = "queued"  BY <1>2 DEF QueueOK
<1> QED  BY <1>3, <1>4 DEF QueueOK

LEMMA QueueEnqueue ==
    ASSUME PrettyInv, NEW b \in Batches, Enqueue(b)
    PROVE  QueueOK' /\ queue' \in Seq(Batches \cup {Sync}) /\ Len(queue') <= Capacity
<1>0. TypeOK /\ QueueOK  BY DEF PrettyInv
<1>1. /\ st[b] # "queued"
      /\ \A x \in Batches \ {b} : st'[x] = st[x]
      /\ UNCHANGED <<closed, w, job>>
  BY <1>0, EnqueueMoves
<1>2. \A x \in Batches : st[x] = "queued" => st'[x] = "queued"  BY <1>1
<1>3. queue \in Seq(Batches \cup {Sync}) /\ Len(queue) <= Capacity /\ Capacity \in Nat
  BY <1>0, PrettyAssumption DEF TypeOK
<1>4. CASE queue' = queue  BY <1>0, <1>1, <1>2, <1>3, <1>4, QueueSame
<1>5. CASE queue' # queue
  <2>1. TrySend(b)
    BY <1>5 DEF Enqueue, Aggregate, AddBytes, CheckBudget, SubBytes, ReportBehind, CountStopped,
                ReportStopped
  <2>2. /\ st[b] = "send" /\ ~ closed /\ Len(queue) # Capacity
        /\ st' = [st EXCEPT ![b] = "queued"] /\ queue' = Append(queue, b)
    BY <1>5, <2>1 DEF TrySend
  <2>3. /\ queue' \in Seq(Batches \cup {Sync}) /\ Len(queue') = Len(queue) + 1
        /\ \A i \in 1..Len(queue) : queue'[i] = queue[i]
        /\ queue'[Len(queue) + 1] = b
        /\ Len(queue) \in Nat
        /\ \A i \in 1..(Len(queue) + 1) : i \in 1..Len(queue) \/ i = Len(queue) + 1
    BY <1>3, <2>2, Appended
  <2>4. b # Sync /\ st'[b] = "queued"  BY <1>0, <2>2, PrettyAssumption DEF TypeOK
  <2>5. \A i \in 1..Len(queue) : queue[i] # b /\ queue[i] \in Batches \cup {Sync}
    BY <1>0, <1>3, <2>2, <2>4 DEF QueueOK
  <2>6. \A i, j \in 1..Len(queue') : queue'[i] = queue'[j] /\ queue'[i] # Sync => i = j
    BY <1>0, <2>3, <2>5 DEF QueueOK
  <2>7. \A i \in 1..Len(queue') : queue'[i] # Sync => st'[queue'[i]] = "queued"
    BY <1>0, <1>2, <2>3, <2>4, <2>5 DEF QueueOK
  <2>8. w \in {"write", "free"} /\ job # Sync =>
           st'[job] = "queued" /\ \A i \in 1..Len(queue') : queue'[i] # job
    <3> SUFFICES ASSUME w \in {"write", "free"}, job # Sync
                 PROVE  st'[job] = "queued" /\ \A i \in 1..Len(queue') : queue'[i] # job
      OBVIOUS
    <3>1. st[job] = "queued" /\ job \in Batches /\ \A i \in 1..Len(queue) : queue[i] # job
      BY <1>0 DEF QueueOK, TypeOK
    <3>2. job # b  BY <2>2, <3>1
    <3> QED  BY <1>2, <2>3, <3>1, <3>2
  <2>9. QueueOK'  BY <1>0, <1>1, <2>2, <2>6, <2>7, <2>8 DEF QueueOK
  <2>10. Len(queue') <= Capacity  BY <1>3, <2>2, <2>3
  <2> QED  BY <2>3, <2>9, <2>10
<1> QED  BY <1>4, <1>5

LEMMA QueueBackground ==
    ASSUME PrettyInv, Background
    PROVE  /\ QueueOK' /\ queue' \in Seq(Batches \cup {Sync}) /\ Len(queue') <= Capacity
           /\ job' \in Batches \cup {Sync}
<1>0. TypeOK /\ QueueOK /\ st' = st  BY BackgroundMoves DEF PrettyInv
<1>1. /\ queue \in Seq(Batches \cup {Sync}) /\ Len(queue) <= Capacity /\ Capacity \in Nat
      /\ job \in Batches \cup {Sync}
  BY <1>0, PrettyAssumption DEF TypeOK
<1>2. CASE Recv
  <2>1. /\ w = "recv" /\ ~ closed /\ queue # <<>> /\ job' = Head(queue) /\ queue' = Tail(queue)
        /\ closed' = closed
        /\ w' = "free" \/ (w' = "write" /\ Head(queue) # Sync)
    BY <1>2 DEF Recv
  <2>2. /\ queue' \in Seq(Batches \cup {Sync}) /\ Len(queue') = Len(queue) - 1
        /\ \A i \in 1..(Len(queue) - 1) : queue'[i] = queue[i + 1] /\ i + 1 \in 1..Len(queue)
        /\ job' = queue[1] /\ job' \in Batches \cup {Sync}
        /\ Len(queue) \in Nat \ {0} /\ 1 \in 1..Len(queue)
    BY <1>1, <2>1, Tailed
  <2>3. \A i, j \in 1..Len(queue') : queue'[i] = queue'[j] /\ queue'[i] # Sync => i = j
    <3> SUFFICES ASSUME NEW i \in 1..Len(queue'), NEW j \in 1..Len(queue'),
                        queue'[i] = queue'[j], queue'[i] # Sync
                 PROVE  i = j
      OBVIOUS
    <3>1. /\ i + 1 \in 1..Len(queue) /\ j + 1 \in 1..Len(queue)
          /\ queue[i + 1] = queue[j + 1] /\ queue[i + 1] # Sync
      BY <2>2
    <3>2. i + 1 = j + 1  BY <1>0, <3>1 DEF QueueOK
    <3> QED  BY <2>2, <3>2
  <2>4. \A i \in 1..Len(queue') : queue'[i] # Sync => st[queue'[i]] = "queued"
    BY <1>0, <2>2 DEF QueueOK
  <2>5. job' # Sync => st[job'] = "queued" /\ \A i \in 1..Len(queue') : queue'[i] # job'
    <3>1. job' # Sync => st[job'] = "queued"  BY <1>0, <2>2 DEF QueueOK
    <3>2. ASSUME job' # Sync, NEW i \in 1..Len(queue'), queue'[i] = job'  PROVE FALSE
      <4>1. i + 1 \in 1..Len(queue) /\ queue[i + 1] = queue[1] /\ queue[1] # Sync /\ i \in 1..(Len(queue) - 1)
        BY <2>2, <3>2
      <4>2. i + 1 = 1  BY <1>0, <2>2, <4>1 DEF QueueOK
      <4> QED  BY <2>2, <4>1, <4>2
    <3> QED  BY <3>1, <3>2
  <2>6. QueueOK'  BY <1>0, <2>1, <2>3, <2>4, <2>5 DEF QueueOK
  <2>7. Len(queue') <= Capacity  BY <1>1, <2>2
  <2> QED  BY <2>2, <2>6, <2>7
<1>3. CASE WriteEnd \/ WriteBrokenPipe \/ Free
  <2>1. /\ UNCHANGED <<queue, closed, job>>
        /\ \/ w = "write" /\ w' = "free"
           \/ w = "free" /\ w' = "recv"
    BY <1>3 DEF WriteEnd, WriteBrokenPipe, Free
  <2>2. QueueOK'  BY <1>0, <2>1 DEF QueueOK
  <2> QED  BY <1>1, <2>1, <2>2
<1>4. CASE WriterDies
  <2>1. closed' = TRUE /\ queue' = <<>> /\ w' = "dead" /\ job' = job  BY <1>4 DEF WriterDies
  <2>2. queue' \in Seq(Batches \cup {Sync}) /\ Len(queue') = 0  BY <2>1
  <2>3. QueueOK'  BY <2>1, <2>2 DEF QueueOK
  <2> QED  BY <1>1, <2>1, <2>2, <2>3
<1>5. CASE queue' # queue /\ DrainSend
  <2>1. /\ ~ closed /\ Len(queue) < Capacity /\ queue' = Append(queue, Sync)
        /\ UNCHANGED <<w, job, closed>>
    BY <1>5 DEF DrainSend
  <2>2. /\ queue' \in Seq(Batches \cup {Sync}) /\ Len(queue') = Len(queue) + 1
        /\ \A i \in 1..Len(queue) : queue'[i] = queue[i]
        /\ queue'[Len(queue) + 1] = Sync
        /\ Len(queue) \in Nat
        /\ \A i \in 1..(Len(queue) + 1) : i \in 1..Len(queue) \/ i = Len(queue) + 1
    BY <1>1, <2>1, Appended
  <2>3. \A i, j \in 1..Len(queue') : queue'[i] = queue'[j] /\ queue'[i] # Sync => i = j
    BY <1>0, <2>2 DEF QueueOK
  <2>4. \A i \in 1..Len(queue') : queue'[i] # Sync => st[queue'[i]] = "queued"
    BY <1>0, <2>2 DEF QueueOK
  <2>5. w \in {"write", "free"} /\ job # Sync => \A i \in 1..Len(queue') : queue'[i] # job
    BY <1>0, <2>2 DEF QueueOK
  <2>6. QueueOK'  BY <1>0, <2>1, <2>3, <2>4, <2>5 DEF QueueOK
  <2>7. Len(queue') <= Capacity  BY <1>1, <2>1, <2>2
  <2> QED  BY <1>1, <2>1, <2>2, <2>6, <2>7
<1>6. CASE DrainBegin \/ DrainLate \/ UNCHANGED vars \/ (DrainSend /\ queue' = queue)
  <2>1. UNCHANGED <<queue, w, job, closed>>
    BY <1>6 DEF DrainBegin, DrainLate, DrainSend, vars
  <2> QED  BY <1>0, <1>1, <2>1, QueueSame
<1> QED  BY <1>2, <1>3, <1>4, <1>5, <1>6 DEF Background
-----------------------------------------------------------------------------
(***************************************************************************)
(* The byte budget.                                                        *)
(***************************************************************************)
LEMMA HeldQueued ==
    ASSUME TypeOK, QueueOK
    PROVE  /\ \A b \in Held : b \in Batches /\ st[b] = "queued"
           /\ Held \cap Flying = {}
           /\ Charged \in SUBSET Batches
<1>1. ASSUME NEW b \in Held  PROVE b \in Batches /\ st[b] = "queued"
  <2>1. b \in Batches /\ b # Sync  BY PrettyAssumption DEF Held
  <2>2. DOMAIN queue = 1..Len(queue)  BY DEF TypeOK
  <2>3. CASE \E i \in DOMAIN queue : queue[i] = b  BY <2>1, <2>2, <2>3 DEF QueueOK
  <2>4. CASE w \in {"write", "free"} /\ job = b  BY <2>1, <2>4 DEF QueueOK
  <2> QED  BY <2>1, <2>3, <2>4 DEF Held
<1>2. Held \cap Flying = {}  BY <1>1 DEF Flying
<1>3. Charged \in SUBSET Batches  BY <1>1 DEF Charged, Flying
<1> QED  BY <1>1, <1>2, <1>3

\* A step in which no bytes are added.
LEMMA BytesMove ==
    ASSUME BytesOK, Charged' \in SUBSET Charged, \A x \in Charged' : saw'[x] = saw[x],
           bytes' >= SumSize(Charged'), ~ closed' => bytes' = SumSize(Charged'),
           \A x \in Batches : x \in Held' \/ st'[x] = "send" =>
               \/ (x \in Held \/ st[x] = "send") /\ saw'[x] = saw[x]
               \/ saw'[x] + Size[x] <= MaxBytes
    PROVE  BytesOK'
<1>1. Within(Charged', saw')  BY WithinShrinks DEF BytesOK
<1>2. \A x \in Batches : x \in Held' \/ st'[x] = "send" => saw'[x] + Size[x] <= MaxBytes
  BY DEF BytesOK
<1> QED  BY <1>1, <1>2 DEF BytesOK, Within

LEMMA BytesEnqueue ==
    ASSUME PrettyInv, NEW b \in Batches, Enqueue(b)
    PROVE  BytesOK' /\ bytes' \in Nat /\ saw' \in [Batches -> Nat]
<1>0. TypeOK /\ QueueOK /\ BytesOK /\ bytes \in Nat /\ saw \in [Batches -> Nat] /\ dropped \in Nat
  BY DEF PrettyInv, TypeOK
<1>1. /\ st' \in [Batches -> States] /\ st[b] # "queued"
      /\ \A x \in Batches \ {b} : st'[x] = st[x]
      /\ UNCHANGED <<closed, w, job>>
  BY <1>0, EnqueueMoves
<1>2. /\ \A x \in Held : x \in Batches /\ st[x] = "queued"
      /\ Charged \in SUBSET Batches
  BY <1>0, HeldQueued
<1>3. b \notin Held  BY <1>1, <1>2
<1>4. /\ bytes >= SumSize(Charged) /\ (~ closed => bytes = SumSize(Charged))
      /\ \A x \in Batches : x \in Held \/ st[x] = "send" => saw[x] + Size[x] <= MaxBytes
  BY <1>0 DEF BytesOK
<1>5. CASE AddBytes(b)
  <2>1. /\ st[b] = "counted" /\ saw' = [saw EXCEPT ![b] = bytes] /\ bytes' = bytes + Size[b]
        /\ st' = [st EXCEPT ![b] = "added"] /\ queue' = queue
    BY <1>5 DEF AddBytes
  <2>2. saw'[b] = bytes /\ (\A x \in Batches \ {b} : saw'[x] = saw[x]) /\ saw' \in [Batches -> Nat]
    BY <1>0, <2>1
  <2>3. st'[b] = "added"  BY <1>0, <2>1 DEF TypeOK
  <2>4. Held' = Held  BY <1>1, <2>1 DEF Held
  <2>5. Flying' = Flying \cup {b}  BY <1>1, <2>3 DEF Flying
  <2>6. Charged' = Charged \cup {b}  BY <2>4, <2>5 DEF Charged
  <2>7. b \notin Charged  BY <1>3, <2>1 DEF Charged, Flying
  <2>8. /\ SumSize(Charged) \in Nat /\ Size[b] \in Nat
        /\ SumSize(Charged \cup {b}) = SumSize(Charged) + Size[b]
    BY <1>2, <2>7, SumMoves
  <2>9. SumSize(Charged') = SumSize(Charged) + Size[b]  BY <2>6, <2>8
  <2>10. \A x \in Charged : saw'[x] = saw[x]  BY <1>2, <2>2, <2>7
  <2>11. Within(Charged, saw)  BY <1>0 DEF BytesOK
  <2>12. Within(Charged \cup {b}, saw')
    BY <1>0, <1>2, <1>4, <2>2, <2>7, <2>10, <2>11, WithinGrows
  <2>13. Within(Charged', saw')  BY <2>6, <2>12
  <2>14. \A x \in Batches : x \in Held' \/ st'[x] = "send" => saw'[x] + Size[x] <= MaxBytes
    <3> SUFFICES ASSUME NEW x \in Batches, x \in Held' \/ st'[x] = "send"
                 PROVE  saw'[x] + Size[x] <= MaxBytes
      OBVIOUS
    <3>1. x # b  BY <1>3, <2>3, <2>4
    <3> QED  BY <1>1, <1>4, <2>2, <2>4, <3>1
  <2>15. bytes' \in Nat /\ bytes' >= SumSize(Charged') /\ (~ closed' => bytes' = SumSize(Charged'))
    BY <1>0, <1>1, <1>4, <2>1, <2>8, <2>9
  <2> QED  BY <2>2, <2>13, <2>14, <2>15 DEF BytesOK, Within
<1>6. CASE SubBytes(b)
  <2>1. /\ st[b] \in {"behind", "stopped"} /\ bytes' = bytes - Size[b] /\ saw' = saw /\ queue' = queue
        /\ st' = [st EXCEPT ![b] = IF @ = "stopped" THEN "countStopped" ELSE "countBehind"]
    BY <1>6 DEF SubBytes
  <2>2. st'[b] \in {"countStopped", "countBehind"}  BY <1>0, <2>1 DEF TypeOK
  <2>3. Held' = Held  BY <1>1, <2>1 DEF Held
  <2>4. Flying' = Flying \ {b}  BY <1>1, <2>2 DEF Flying
  <2>5. Charged' = Charged \ {b} /\ b \in Charged  BY <1>3, <2>1, <2>3, <2>4 DEF Charged, Flying
  <2>6. /\ SumSize(Charged) \in Nat /\ Size[b] \in Nat /\ Size[b] <= SumSize(Charged)
        /\ SumSize(Charged \ {b}) = SumSize(Charged) - Size[b]
    BY <1>2, <2>5, SumMoves
  <2>7. SumSize(Charged') = SumSize(Charged) - Size[b]  BY <2>5, <2>6
  <2>8. bytes' \in Nat /\ bytes' >= SumSize(Charged') /\ (~ closed' => bytes' = SumSize(Charged'))
    BY <1>0, <1>1, <1>4, <2>1, <2>6, <2>7
  <2>9. \A x \in Batches : x \in Held' \/ st'[x] = "send" => (x \in Held \/ st[x] = "send") /\ saw'[x] = saw[x]
    BY <1>1, <2>1, <2>2, <2>3
  <2>10. Charged' \in SUBSET Charged /\ \A x \in Charged' : saw'[x] = saw[x]  BY <2>1, <2>5
  <2> QED  BY <1>0, <2>1, <2>8, <2>9, <2>10, BytesMove
<1>7. CASE CheckBudget(b) \/ TrySend(b)
  <2>1. saw' = saw /\ bytes' = bytes  BY <1>7 DEF CheckBudget, TrySend
  <2>2. Charged' = Charged
    <3>1. CASE CheckBudget(b) \/ (TrySend(b) /\ queue' = queue)
      <4>1. queue' = queue  BY <3>1 DEF CheckBudget
      <4>2. Held' = Held  BY <1>1, <4>1 DEF Held
      <4>3. st[b] \in {"added", "send"} /\ st'[b] \in {"stopped", "behind", "send"}
        <5>1. CASE CheckBudget(b)  BY <1>0, <5>1 DEF CheckBudget, TypeOK
        <5>2. CASE TrySend(b) /\ queue' = queue
          <6>1. Append(queue, b) # queue
            <7>1. queue \in Seq(Batches \cup {Sync}) /\ b \in Batches \cup {Sync}  BY <1>0 DEF TypeOK
            <7>2. Len(Append(queue, b)) = Len(queue) + 1 /\ Len(queue) \in Nat  BY <7>1, Appended
            <7> QED  BY <7>2
          <6> QED  BY <1>0, <5>2, <6>1 DEF TrySend, TypeOK
        <5> QED  BY <3>1, <5>1, <5>2
      <4>4. Flying' = Flying  BY <1>1, <4>3 DEF Flying
      <4> QED  BY <4>2, <4>4 DEF Charged
    <3>2. CASE TrySend(b) /\ queue' # queue
      <4>1. st[b] = "send" /\ queue' = Append(queue, b) /\ st' = [st EXCEPT ![b] = "queued"]
        BY <3>2 DEF TrySend
      <4>2. st'[b] = "queued"  BY <1>0, <4>1 DEF TypeOK
      <4>3. Flying' = Flying \ {b} /\ b \in Flying  BY <1>1, <4>1, <4>2 DEF Flying
      <4>4. Held' = Held \cup {b}
        <5>1. queue \in Seq(Batches \cup {Sync}) /\ b \in Batches \cup {Sync}  BY <1>0 DEF TypeOK
        <5>2. /\ queue' \in Seq(Batches \cup {Sync}) /\ Len(queue') = Len(queue) + 1
              /\ \A i \in 1..Len(queue) : queue'[i] = queue[i]
              /\ queue'[Len(queue) + 1] = b
              /\ Len(queue) \in Nat
              /\ \A i \in 1..(Len(queue) + 1) : i \in 1..Len(queue) \/ i = Len(queue) + 1
          BY <4>1, <5>1, Appended
        <5>3. DOMAIN queue = 1..Len(queue) /\ DOMAIN queue' = 1..(Len(queue) + 1)  BY <5>1, <5>2
        <5>4. \A x : (\E i \in DOMAIN queue' : queue'[i] = x) <=> (\E i \in DOMAIN queue : queue[i] = x) \/ x = b
          <6> TAKE x
          <6>1. (\E i \in DOMAIN queue' : queue'[i] = x) => (\E i \in DOMAIN queue : queue[i] = x) \/ x = b
            BY <5>2, <5>3
          <6>2. (\E i \in DOMAIN queue : queue[i] = x) => \E i \in DOMAIN queue' : queue'[i] = x
            BY <5>2, <5>3
          <6>3. Len(queue) + 1 \in DOMAIN queue'  BY <5>2, <5>3
          <6> QED  BY <5>2, <6>1, <6>2, <6>3
        <5> QED  BY <1>1, <5>4 DEF Held
      <4> QED  BY <4>3, <4>4 DEF Charged
    <3> QED  BY <1>7, <3>1, <3>2
  <2>3. SumSize(Charged') = SumSize(Charged)  BY <2>2
  <2>4. \A x \in Batches : x \in Held' \/ st'[x] = "send" =>
            \/ (x \in Held \/ st[x] = "send") /\ saw'[x] = saw[x]
            \/ saw'[x] + Size[x] <= MaxBytes
    <3>1. ASSUME NEW x \in Batches \ {b}, x \in Held' \/ st'[x] = "send"
          PROVE  x \in Held \/ st[x] = "send"
      <4>1. x \in Held' => x \in Charged' /\ x \in Charged  BY <2>2 DEF Charged
      <4>2. x \in Held' => st'[x] = "queued"
        <5>1. QueueOK' /\ queue' \in Seq(Batches \cup {Sync})  BY QueueEnqueue
        <5>2. ASSUME x \in Held'  PROVE st'[x] = "queued"
          <6>1. x # Sync  BY PrettyAssumption
          <6>2. DOMAIN queue' = 1..Len(queue')  BY <5>1
          <6>3. CASE \E i \in DOMAIN queue' : queue'[i] = x  BY <5>1, <6>1, <6>2, <6>3 DEF QueueOK
          <6>4. CASE w' \in {"write", "free"} /\ job' = x  BY <5>1, <6>1, <6>4 DEF QueueOK
          <6> QED  BY <5>2, <6>3, <6>4 DEF Held
        <5> QED  BY <5>2
      <4>3. x \in Held' => st[x] = "queued"  BY <1>1, <4>2
      <4>4. x \in Held' => x \in Held  BY <4>1, <4>3 DEF Charged, Flying
      <4> QED  BY <1>1, <3>1, <4>4
    <3>2. b \in Held' \/ st'[b] = "send" => st[b] = "send" \/ saw[b] + Size[b] <= MaxBytes
      <4>1. CASE TrySend(b)  BY <4>1 DEF TrySend
      <4>2. CASE CheckBudget(b)
        <5>1. queue' = queue  BY <4>2 DEF CheckBudget
        <5>2. b \notin Held'  BY <1>1, <1>3, <5>1 DEF Held
        <5>3. st'[b] = "send" => ~ (saw[b] + Size[b] > MaxBytes)
          BY <1>0, <4>2 DEF CheckBudget, TypeOK
        <5>4. saw[b] \in Nat /\ Size[b] \in Nat /\ MaxBytes \in Nat  BY <1>0, PrettyAssumption
        <5> QED  BY <5>2, <5>3, <5>4
      <4> QED  BY <1>7, <4>1, <4>2
    <3> QED  BY <2>1, <3>1, <3>2
  <2>5. bytes' >= SumSize(Charged') /\ (~ closed' => bytes' = SumSize(Charged'))
    BY <1>1, <1>4, <2>1, <2>3
  <2>6. Charged' \in SUBSET Charged /\ \A x \in Charged' : saw'[x] = saw[x]  BY <2>1, <2>2
  <2> QED  BY <1>0, <2>1, <2>4, <2>5, <2>6, BytesMove
<1>8. CASE Aggregate(b) \/ ReportBehind(b) \/ CountStopped(b) \/ ReportStopped(b)
  <2>1. /\ st[b] \in {"new", "countBehind", "countStopped", "reportStopped"}
        /\ bytes' = bytes /\ queue' = queue
        /\ st'[b] \in {"counted", "dropped", "reportStopped"}
    BY <1>0, <1>8 DEF Aggregate, ReportBehind, CountStopped, ReportStopped, TypeOK
  <2>2. saw' \in [Batches -> Nat] /\ \A x \in Batches \ {b} : saw'[x] = saw[x]
    BY <1>0, <1>8 DEF Aggregate, ReportBehind, CountStopped, ReportStopped
  <2>3. Held' = Held  BY <1>1, <2>1 DEF Held
  <2>4. Flying' = Flying  BY <1>1, <2>1 DEF Flying
  <2>5. Charged' = Charged /\ b \notin Charged  BY <1>3, <2>1, <2>3, <2>4 DEF Charged, Flying
  <2>6. SumSize(Charged') = SumSize(Charged)  BY <2>5
  <2>7. \A x \in Batches : x \in Held' \/ st'[x] = "send" => (x \in Held \/ st[x] = "send") /\ saw'[x] = saw[x]
    BY <1>1, <1>3, <2>1, <2>2, <2>3
  <2>8. bytes' >= SumSize(Charged') /\ (~ closed' => bytes' = SumSize(Charged'))
    BY <1>1, <1>4, <2>1, <2>6
  <2>9. Charged' \in SUBSET Charged /\ \A x \in Charged' : saw'[x] = saw[x]  BY <1>2, <2>2, <2>5
  <2> QED  BY <1>0, <2>1, <2>2, <2>7, <2>8, <2>9, BytesMove
<1> QED  BY <1>5, <1>6, <1>7, <1>8 DEF Enqueue

LEMMA BytesBackground ==
    ASSUME PrettyInv, Background
    PROVE  BytesOK' /\ bytes' \in Nat
<1>0. TypeOK /\ QueueOK /\ BytesOK /\ bytes \in Nat /\ queue \in Seq(Batches \cup {Sync})
  BY DEF PrettyInv, TypeOK
<1>1. st' = st /\ saw' = saw  BY BackgroundMoves
<1>2. Flying' = Flying  BY <1>1 DEF Flying
<1>3. Charged \in SUBSET Batches /\ Held \cap Flying = {}  BY <1>0, HeldQueued
<1>4. bytes >= SumSize(Charged) /\ (~ closed => bytes = SumSize(Charged))  BY <1>0 DEF BytesOK
<1>5. SUFFICES /\ Held' \in SUBSET Held
               /\ bytes' \in Nat /\ bytes' >= SumSize(Charged')
               /\ ~ closed' => bytes' = SumSize(Charged')
  <2>1. Charged' \in SUBSET Charged /\ \A x \in Charged' : saw'[x] = saw[x]
    BY <1>1, <1>2, <1>5 DEF Charged
  <2>2. \A x \in Batches : x \in Held' \/ st'[x] = "send" => (x \in Held \/ st[x] = "send") /\ saw'[x] = saw[x]
    BY <1>1, <1>5
  <2> QED  BY <1>0, <1>5, <2>1, <2>2, BytesMove
<1>6. CASE Free
  <2>1. w = "free" /\ w' = "recv" /\ bytes' = bytes - SizeOf(job) /\ queue' = queue /\ closed' = closed
    BY <1>6 DEF Free
  <2>2. CASE job = Sync
    <3>1. Held' = Held  BY <2>1, <2>2, PrettyAssumption DEF Held
    <3>2. bytes' = bytes  BY <1>0, <2>1, <2>2 DEF SizeOf
    <3>3. Charged' = Charged  BY <1>2, <3>1 DEF Charged
    <3>4. SumSize(Charged') = SumSize(Charged)  BY <3>3
    <3> QED  BY <1>0, <1>4, <2>1, <3>1, <3>2, <3>4
  <2>3. CASE job # Sync
    <3>1. job \in Batches /\ job \in Held  BY <1>0, <2>1, <2>3 DEF Held, TypeOK
    <3>2. \A i \in DOMAIN queue : queue[i] # job
      <4>1. DOMAIN queue = 1..Len(queue)  BY <1>0
      <4> QED  BY <1>0, <2>1, <2>3, <4>1 DEF QueueOK
    <3>3. Held' = Held \ {job}  BY <2>1, <3>2 DEF Held
    <3>4. Charged' = Charged \ {job} /\ job \in Charged  BY <1>2, <1>3, <3>1, <3>3 DEF Charged
    <3>5. /\ SumSize(Charged) \in Nat /\ Size[job] \in Nat /\ Size[job] <= SumSize(Charged)
          /\ SumSize(Charged \ {job}) = SumSize(Charged) - Size[job]
      BY <1>3, <3>1, <3>4, SumMoves
    <3>6. SumSize(Charged') = SumSize(Charged) - Size[job]  BY <3>4, <3>5
    <3>7. bytes' = bytes - Size[job]  BY <2>1, <2>3 DEF SizeOf
    <3>8. bytes' \in Nat /\ bytes' >= SumSize(Charged') /\ (~ closed' => bytes' = SumSize(Charged'))
      BY <1>0, <1>4, <2>1, <3>5, <3>6, <3>7
    <3> QED  BY <3>3, <3>8
  <2> QED  BY <2>2, <2>3
<1>7. CASE WriterDies
  <2>1. closed' = TRUE /\ queue' = <<>> /\ w' = "dead" /\ bytes' = bytes  BY <1>7 DEF WriterDies
  <2>2. Held' = {}  BY <2>1 DEF Held
  <2>3. Charged' \in SUBSET Charged  BY <1>2, <2>2 DEF Charged
  <2>4. /\ SumSize(Charged') <= SumSize(Charged) /\ SumSize(Charged') \in Nat
        /\ SumSize(Charged) \in Nat
    <3>1. Charged' \in SUBSET Batches  BY <1>3, <2>3
    <3> QED  BY <1>3, <2>3, <3>1, SumSubset, TextFinite
  <2> QED  BY <1>0, <1>4, <2>1, <2>2, <2>4
<1>8. CASE ~ Free /\ ~ WriterDies
  <2>1. bytes' = bytes /\ closed' = closed
    BY <1>8 DEF Background, Recv, WriteEnd, WriteBrokenPipe, DrainBegin, DrainSend, DrainLate, vars
  <2>2. Held' = Held
    <3>1. CASE Recv
      <4>1. /\ w = "recv" /\ queue # <<>> /\ job' = Head(queue) /\ queue' = Tail(queue)
            /\ w' \in {"free", "write"}
        BY <3>1 DEF Recv
      <4>2. /\ queue' \in Seq(Batches \cup {Sync}) /\ Len(queue') = Len(queue) - 1
            /\ \A i \in 1..(Len(queue) - 1) : queue'[i] = queue[i + 1] /\ i + 1 \in 1..Len(queue)
            /\ job' = queue[1]
            /\ Len(queue) \in Nat \ {0} /\ 1 \in 1..Len(queue)
        BY <1>0, <4>1, Tailed
      <4>3. DOMAIN queue = 1..Len(queue) /\ DOMAIN queue' = 1..(Len(queue) - 1)  BY <1>0, <4>2
      <4>4. ASSUME NEW x, \E i \in DOMAIN queue : queue[i] = x
            PROVE  job' = x \/ \E i \in DOMAIN queue' : queue'[i] = x
        <5>1. PICK k \in 1..Len(queue) : queue[k] = x  BY <4>3, <4>4
        <5>2. CASE k = 1  BY <4>2, <5>1, <5>2
        <5>3. CASE k # 1
          <6>1. k - 1 \in 1..(Len(queue) - 1) /\ (k - 1) + 1 = k  BY <4>2, <5>3
          <6>2. queue'[k - 1] = queue[(k - 1) + 1]  BY <4>2, <6>1
          <6> QED  BY <4>3, <5>1, <6>1, <6>2
        <5> QED  BY <5>2, <5>3
      <4>5. ASSUME NEW x, job' = x \/ \E i \in DOMAIN queue' : queue'[i] = x
            PROVE  \E i \in DOMAIN queue : queue[i] = x
        BY <4>2, <4>3, <4>5
      <4> QED  BY <4>1, <4>4, <4>5 DEF Held
    <3>2. CASE queue' # queue /\ DrainSend
      <4>1. queue' = Append(queue, Sync) /\ UNCHANGED <<w, job>>  BY <3>2 DEF DrainSend
      <4>2. /\ queue' \in Seq(Batches \cup {Sync}) /\ Len(queue') = Len(queue) + 1
            /\ \A i \in 1..Len(queue) : queue'[i] = queue[i]
            /\ queue'[Len(queue) + 1] = Sync
            /\ Len(queue) \in Nat
            /\ \A i \in 1..(Len(queue) + 1) : i \in 1..Len(queue) \/ i = Len(queue) + 1
        BY <1>0, <4>1, Appended
      <4>3. DOMAIN queue = 1..Len(queue) /\ DOMAIN queue' = 1..(Len(queue) + 1)  BY <1>0, <4>2
      <4>4. \A x \in Batches : (\E i \in DOMAIN queue' : queue'[i] = x) <=> (\E i \in DOMAIN queue : queue[i] = x)
        <5> TAKE x \in Batches
        <5>1. x # Sync  BY PrettyAssumption
        <5>2. (\E i \in DOMAIN queue' : queue'[i] = x) => (\E i \in DOMAIN queue : queue[i] = x)
          BY <4>2, <4>3, <5>1
        <5>3. (\E i \in DOMAIN queue : queue[i] = x) => (\E i \in DOMAIN queue' : queue'[i] = x)
          BY <4>2, <4>3
        <5> QED  BY <5>2, <5>3
      <4> QED  BY <4>1, <4>4 DEF Held
    <3>3. CASE ~ Recv /\ ~ (queue' # queue /\ DrainSend)
      <4>1. UNCHANGED <<queue, job>> /\ (w \in {"write", "free"} <=> w' \in {"write", "free"})
        BY <1>8, <3>3 DEF Background, WriteEnd, WriteBrokenPipe, DrainBegin, DrainSend, DrainLate, vars
      <4> QED  BY <4>1 DEF Held
    <3> QED  BY <3>1, <3>2, <3>3
  <2>3. Charged' = Charged  BY <1>2, <2>2 DEF Charged
  <2>4. SumSize(Charged') = SumSize(Charged)  BY <2>3
  <2> QED  BY <1>0, <1>4, <2>1, <2>2, <2>4
<1> QED  BY <1>6, <1>7, <1>8
-----------------------------------------------------------------------------
(***************************************************************************)
(* The drops.                                                              *)
(***************************************************************************)
LEMMA LostFinite ==
    ASSUME NEW S \in SUBSET Batches, NEW b \in Batches
    PROVE  /\ Cardinality(S) \in Nat
           /\ b \notin S => Cardinality(S \cup {b}) = Cardinality(S) + 1
<1>1. IsFiniteSet(S)  BY PrettyAssumption, FS_Subset
<1> QED  BY <1>1, FS_CardinalityType, FS_AddElement

LEMMA DropsSame ==
    ASSUME DropsOK, UNCHANGED drops, Lost' = Lost,
           \A x \in Batches : st[x] = "reportStopped" => st'[x] = "reportStopped" /\ saw'[x] = saw[x]
    PROVE  DropsOK'
<1>1. dropped' = dropped /\ stopReported' = stopReported /\ notices' = notices  BY DEF drops
<1>2. dropped' = Cardinality(Lost')
  <2>1. Cardinality(Lost') = Cardinality(Lost)  OBVIOUS
  <2> QED  BY <1>1, <2>1 DEF DropsOK
<1>3. \A n \in 1..dropped : n \in PowersOfTwo =>
          \/ \E notice \in notices : notice[2] = n
          \/ \E x \in Batches : st'[x] = "reportStopped" /\ saw'[x] = n
  BY DEF DropsOK
<1> QED  BY <1>1, <1>2, <1>3 DEF DropsOK, PowersOfTwo

LEMMA DropsEnqueue ==
    ASSUME PrettyInv, NEW b \in Batches, Enqueue(b)
    PROVE  /\ DropsOK'
           /\ dropped' \in Nat /\ stopReported' \in BOOLEAN
           /\ notices' \in SUBSET ({"behind", "stopped", "still"} \X Nat)
<1>0. /\ TypeOK /\ DropsOK /\ dropped \in Nat /\ stopReported \in BOOLEAN
      /\ notices \in SUBSET ({"behind", "stopped", "still"} \X Nat) /\ saw \in [Batches -> Nat]
  BY DEF PrettyInv, TypeOK
<1>1. /\ \A x \in Batches \ {b} : st'[x] = st[x]
  BY <1>0, EnqueueMoves
<1>2. Lost \in SUBSET Batches  BY DEF Lost
<1>3. PowersOfTwo' = PowersOfTwo  BY DEF PowersOfTwo
<1>4. /\ dropped = Cardinality(Lost)
      /\ \A n \in 1..dropped : n \in PowersOfTwo =>
            \/ \E notice \in notices : notice[2] = n
            \/ \E x \in Batches : st[x] = "reportStopped" /\ saw[x] = n
      /\ ~ stopReported => \A notice \in notices : notice[1] # "stopped"
      /\ stopReported => \E x \in notices : {notice \in notices : notice[1] = "stopped"} = {x}
  BY <1>0 DEF DropsOK
<1>5. CASE ReportBehind(b)
  <2>1. /\ st[b] = "countBehind" /\ dropped' = dropped + 1 /\ st' = [st EXCEPT ![b] = "dropped"]
        /\ notices' = IF dropped + 1 \in PowersOfTwo THEN notices \cup {<<"behind", dropped + 1>>} ELSE notices
        /\ saw' = saw /\ stopReported' = stopReported
    BY <1>5 DEF ReportBehind
  <2>2. st'[b] = "dropped"  BY <1>0, <2>1 DEF TypeOK
  <2>3. Lost' = Lost \cup {b} /\ b \notin Lost  BY <1>1, <2>1, <2>2 DEF Lost
  <2>4. dropped' = Cardinality(Lost')
    <3>1. Cardinality(Lost \cup {b}) = Cardinality(Lost) + 1  BY <1>2, <2>3, LostFinite
    <3>2. Cardinality(Lost') = Cardinality(Lost \cup {b})  BY <2>3
    <3> QED  BY <1>4, <2>1, <3>1, <3>2
  <2>5. \A n \in 1..dropped' : n \in PowersOfTwo =>
            \/ \E notice \in notices' : notice[2] = n
            \/ \E x \in Batches : st'[x] = "reportStopped" /\ saw'[x] = n
    <3> SUFFICES ASSUME NEW n \in 1..dropped', n \in PowersOfTwo
                 PROVE  \/ \E notice \in notices' : notice[2] = n
                        \/ \E x \in Batches : st'[x] = "reportStopped" /\ saw'[x] = n
      OBVIOUS
    <3>1. CASE n = dropped + 1
      <4>1. <<"behind", dropped + 1>> \in notices'  BY <2>1, <3>1
      <4> QED  BY <3>1, <4>1
    <3>2. CASE n \in 1..dropped
      <4>1. \/ \E notice \in notices : notice[2] = n
            \/ \E x \in Batches : st[x] = "reportStopped" /\ saw[x] = n
        BY <1>4, <3>2
      <4>2. notices \subseteq notices'  BY <2>1
      <4>3. \A x \in Batches : st[x] = "reportStopped" => st'[x] = "reportStopped" /\ saw'[x] = saw[x]
        BY <1>1, <2>1
      <4> QED  BY <4>1, <4>2, <4>3
    <3> QED  BY <1>0, <2>1, <3>1, <3>2
  <2>6. {notice \in notices' : notice[1] = "stopped"} = {notice \in notices : notice[1] = "stopped"}
    BY <2>1
  <2>7. /\ ~ stopReported' => \A notice \in notices' : notice[1] # "stopped"
        /\ stopReported' => \E x \in notices' : {notice \in notices' : notice[1] = "stopped"} = {x}
    <3>1. notices \subseteq notices'  BY <2>1
    <3>2. stopReported' => \E x \in notices' : {notice \in notices' : notice[1] = "stopped"} = {x}
      <4>1. SUFFICES ASSUME stopReported
                     PROVE  \E x \in notices' : {notice \in notices' : notice[1] = "stopped"} = {x}
        BY <2>1
      <4>2. PICK x \in notices : {notice \in notices : notice[1] = "stopped"} = {x}  BY <1>4, <4>1
      <4>3. x \in notices'  BY <3>1
      <4> QED  BY <2>6, <4>2, <4>3
    <3>3. ~ stopReported' => \A notice \in notices' : notice[1] # "stopped"
      <4>1. ~ stopReported' => \A notice \in notices : notice[1] # "stopped"  BY <1>4, <2>1
      <4> QED  BY <2>6, <4>1
    <3> QED  BY <3>2, <3>3
  <2>8. DropsOK'  BY <1>3, <2>4, <2>5, <2>7 DEF DropsOK
  <2>9. notices' \in SUBSET ({"behind", "stopped", "still"} \X Nat)  BY <1>0, <2>1
  <2> QED  BY <1>0, <2>1, <2>8, <2>9
<1>6. CASE CountStopped(b)
  <2>1. /\ st[b] = "countStopped" /\ dropped' = dropped + 1
        /\ st' = [st EXCEPT ![b] = "reportStopped"] /\ saw' = [saw EXCEPT ![b] = dropped + 1]
        /\ notices' = notices /\ stopReported' = stopReported
    BY <1>6 DEF CountStopped
  <2>2. /\ st'[b] = "reportStopped" /\ saw'[b] = dropped + 1
        /\ \A x \in Batches \ {b} : saw'[x] = saw[x]
    BY <1>0, <2>1 DEF TypeOK
  <2>3. Lost' = Lost \cup {b} /\ b \notin Lost  BY <1>1, <2>1, <2>2 DEF Lost
  <2>4. dropped' = Cardinality(Lost')
    <3>1. Cardinality(Lost \cup {b}) = Cardinality(Lost) + 1  BY <1>2, <2>3, LostFinite
    <3>2. Cardinality(Lost') = Cardinality(Lost \cup {b})  BY <2>3
    <3> QED  BY <1>4, <2>1, <3>1, <3>2
  <2>5. \A n \in 1..dropped' : n \in PowersOfTwo =>
            \/ \E notice \in notices' : notice[2] = n
            \/ \E x \in Batches : st'[x] = "reportStopped" /\ saw'[x] = n
    <3> SUFFICES ASSUME NEW n \in 1..dropped', n \in PowersOfTwo
                 PROVE  \/ \E notice \in notices' : notice[2] = n
                        \/ \E x \in Batches : st'[x] = "reportStopped" /\ saw'[x] = n
      OBVIOUS
    <3>1. CASE n = dropped + 1  BY <2>2, <3>1
    <3>2. CASE n \in 1..dropped
      <4>1. \/ \E notice \in notices : notice[2] = n
            \/ \E x \in Batches : st[x] = "reportStopped" /\ saw[x] = n
        BY <1>4, <3>2
      <4>2. \A x \in Batches : st[x] = "reportStopped" => st'[x] = "reportStopped" /\ saw'[x] = saw[x]
        BY <1>1, <2>1, <2>2
      <4> QED  BY <2>1, <4>1, <4>2
    <3> QED  BY <1>0, <2>1, <3>1, <3>2
  <2>6. DropsOK'  BY <1>3, <1>4, <2>1, <2>4, <2>5 DEF DropsOK
  <2> QED  BY <1>0, <2>1, <2>6
<1>7. CASE ReportStopped(b)
  <2>1. /\ st[b] = "reportStopped" /\ dropped' = dropped /\ st' = [st EXCEPT ![b] = "dropped"]
        /\ saw' = saw /\ stopReported' = TRUE
        /\ ~ stopReported => notices' = notices \cup {<<"stopped", saw[b]>>}
        /\ stopReported /\ saw[b] \in PowersOfTwo => notices' = notices \cup {<<"still", saw[b]>>}
        /\ stopReported /\ saw[b] \notin PowersOfTwo => notices' = notices
    BY <1>7 DEF ReportStopped
  <2>2. st'[b] = "dropped"  BY <1>0, <2>1 DEF TypeOK
  <2>3. Lost' = Lost  BY <1>1, <2>1, <2>2 DEF Lost
  <2>4. dropped' = Cardinality(Lost')
    <3>1. Cardinality(Lost') = Cardinality(Lost)  BY <2>3
    <3> QED  BY <1>4, <2>1, <3>1
  <2>5. notices \subseteq notices'  BY <2>1
  <2>6. \A n \in 1..dropped' : n \in PowersOfTwo =>
            \/ \E notice \in notices' : notice[2] = n
            \/ \E x \in Batches : st'[x] = "reportStopped" /\ saw'[x] = n
    <3> SUFFICES ASSUME NEW n \in 1..dropped, n \in PowersOfTwo
                 PROVE  \/ \E notice \in notices' : notice[2] = n
                        \/ \E x \in Batches : st'[x] = "reportStopped" /\ saw'[x] = n
      BY <2>1
    <3>1. \/ \E notice \in notices : notice[2] = n
          \/ \E x \in Batches : st[x] = "reportStopped" /\ saw[x] = n
      BY <1>4
    <3>2. CASE \E notice \in notices : notice[2] = n  BY <2>5, <3>2
    <3>3. CASE \E x \in Batches \ {b} : st[x] = "reportStopped" /\ saw[x] = n
      BY <1>1, <2>1, <3>3
    <3>4. CASE saw[b] = n
      <4>1. <<"stopped", saw[b]>> \in notices' \/ <<"still", saw[b]>> \in notices'  BY <2>1, <3>4
      <4> QED  BY <3>4, <4>1
    <3> QED  BY <3>1, <3>2, <3>3, <3>4
  <2>7. \E x \in notices' : {notice \in notices' : notice[1] = "stopped"} = {x}
    <3>1. CASE stopReported
      <4>1. PICK x \in notices : {notice \in notices : notice[1] = "stopped"} = {x}  BY <1>4, <3>1
      <4>2. {notice \in notices' : notice[1] = "stopped"} = {notice \in notices : notice[1] = "stopped"}
        BY <2>1, <3>1
      <4>3. x \in notices'  BY <2>5
      <4> QED  BY <4>1, <4>2, <4>3
    <3>2. CASE ~ stopReported
      <4>1. \A notice \in notices : notice[1] # "stopped"  BY <1>4, <3>2
      <4>2. notices' = notices \cup {<<"stopped", saw[b]>>}  BY <2>1, <3>2
      <4>3. {notice \in notices' : notice[1] = "stopped"} = {<<"stopped", saw[b]>>}  BY <4>1, <4>2
      <4> QED  BY <4>2, <4>3
    <3> QED  BY <3>1, <3>2
  <2>8. DropsOK'  BY <1>3, <2>1, <2>4, <2>6, <2>7 DEF DropsOK
  <2>9. notices' \in SUBSET ({"behind", "stopped", "still"} \X Nat)
    <3>1. saw[b] \in Nat  BY <1>0
    <3> QED  BY <1>0, <2>1, <3>1
  <2> QED  BY <1>0, <2>1, <2>8, <2>9
<1>8. CASE Aggregate(b) \/ AddBytes(b) \/ CheckBudget(b) \/ TrySend(b) \/ SubBytes(b)
  <2>1. /\ UNCHANGED drops
        /\ st[b] \notin {"reportStopped", "dropped"} /\ st'[b] \notin {"reportStopped", "dropped"}
        /\ \A x \in Batches \ {b} : saw'[x] = saw[x]
    BY <1>0, <1>8 DEF Aggregate, AddBytes, CheckBudget, TrySend, SubBytes, TypeOK
  <2>2. Lost' = Lost  BY <1>1, <2>1 DEF Lost
  <2>3. \A x \in Batches : st[x] = "reportStopped" => st'[x] = "reportStopped" /\ saw'[x] = saw[x]
    BY <1>1, <2>1
  <2>4. DropsOK'  BY <1>0, <2>1, <2>2, <2>3, DropsSame
  <2> QED  BY <1>0, <2>1, <2>4 DEF drops
<1> QED  BY <1>5, <1>6, <1>7, <1>8 DEF Enqueue

LEMMA DropsBackground ==
    ASSUME PrettyInv, Background
    PROVE  DropsOK'
<1>1. UNCHANGED <<st, saw, drops>>  BY BackgroundMoves
<1>2. Lost' = Lost  BY <1>1 DEF Lost
<1> QED  BY <1>1, <1>2, DropsSame DEF PrettyInv
-----------------------------------------------------------------------------
(***************************************************************************)
(* The summaries.                                                          *)
(***************************************************************************)
LEMMA SummaryEnqueue ==
    ASSUME PrettyInv, NEW b \in Batches, Enqueue(b)
    PROVE  SummaryOK' /\ total' \in SUBSET Batches
<1>0. TypeOK /\ SummaryOK /\ total \in SUBSET Batches  BY DEF PrettyInv, TypeOK
<1>1. (\A x \in Batches \ {b} : st'[x] = st[x]) /\ UNCHANGED <<w, job, snap, out>>
  BY <1>0, EnqueueMoves
<1>2. total' = total \cup {b} \/ (total' = total /\ st[b] # "new")
  BY DEF Enqueue, Aggregate, AddBytes, CheckBudget, TrySend, SubBytes, ReportBehind, CountStopped,
         ReportStopped
<1>3. total \subseteq total' /\ b \in total' /\ total' \in SUBSET Batches  BY <1>0, <1>2 DEF SummaryOK
<1>4. \A x \in Batches : st'[x] # "new" => x \in total'  BY <1>0, <1>1, <1>3 DEF SummaryOK
<1>5. w = "write" => job \in snap /\ snap \subseteq total'  BY <1>0, <1>3 DEF SummaryOK
<1>6. \A i \in 1..Len(out) : out[i][2] \subseteq total' /\ (w = "write" => out[i][2] \subseteq snap)
  BY <1>0, <1>3 DEF SummaryOK
<1>7. SummariesMonotone'  BY <1>0, <1>1 DEF SummaryOK, SummariesMonotone
<1> QED  BY <1>1, <1>3, <1>4, <1>5, <1>6, <1>7 DEF SummaryOK

LEMMA SummaryBackground ==
    ASSUME PrettyInv, Background
    PROVE  SummaryOK' /\ snap' \in SUBSET Batches /\ out' \in Seq(Batches \X SUBSET Batches)
<1>0. /\ TypeOK /\ QueueOK /\ SummaryOK /\ queue \in Seq(Batches \cup {Sync})
      /\ total \in SUBSET Batches /\ snap \in SUBSET Batches
      /\ out \in Seq(Batches \X SUBSET Batches) /\ job \in Batches \cup {Sync}
  BY DEF PrettyInv, TypeOK
<1>1. st' = st /\ total' = total  BY BackgroundMoves
<1>2. /\ \A x \in Batches : st[x] # "new" => x \in total
      /\ w = "write" => job \in snap /\ snap \subseteq total
      /\ \A i \in 1..Len(out) : out[i][2] \subseteq total /\ (w = "write" => out[i][2] \subseteq snap)
      /\ SummariesMonotone
  BY <1>0 DEF SummaryOK
<1>3. CASE Recv /\ w' = "write"
  <2>1. queue # <<>> /\ job' = Head(queue) /\ Head(queue) # Sync /\ snap' = total /\ out' = out
    BY <1>3 DEF Recv
  <2>2. job' = queue[1] /\ job' \in Batches \cup {Sync} /\ 1 \in 1..Len(queue)  BY <1>0, <2>1, Tailed
  <2>3. job' \in Batches /\ st[job'] = "queued"  BY <1>0, <2>1, <2>2 DEF QueueOK
  <2>4. job' \in snap'  BY <1>2, <2>1, <2>3
  <2>5. SummariesMonotone'  BY <1>2, <2>1 DEF SummariesMonotone
  <2> QED  BY <1>0, <1>1, <1>2, <2>1, <2>4, <2>5 DEF SummaryOK
<1>4. CASE WriteEnd /\ out' # out
  <2> DEFINE e == <<job, snap>>
  <2>1. w = "write" /\ w' = "free" /\ out' = Append(out, e) /\ snap' = snap
    BY <1>4 DEF WriteEnd
  <2>2. job \in Batches /\ job \in snap /\ snap \subseteq total
    BY <1>0, <1>2, <2>1
  <2>3. e \in Batches \X SUBSET Batches /\ e[1] = job /\ e[2] = snap  BY <1>0, <2>2
  <2> HIDE DEF e
  <2>4. /\ out' \in Seq(Batches \X SUBSET Batches) /\ Len(out') = Len(out) + 1
        /\ \A i \in 1..Len(out) : out'[i] = out[i]
        /\ out'[Len(out) + 1] = e
        /\ Len(out) \in Nat
        /\ \A i \in 1..(Len(out) + 1) : i \in 1..Len(out) \/ i = Len(out) + 1
    BY <1>0, <2>1, <2>3, Appended
  <2>5. DOMAIN out = 1..Len(out) /\ DOMAIN out' = 1..(Len(out) + 1)  BY <1>0, <2>4
  <2>6. \A i \in DOMAIN out' : out'[i][1] \in out'[i][2]
    BY <1>2, <2>2, <2>3, <2>4, <2>5 DEF SummariesMonotone
  <2>7. ASSUME NEW i \in 1..(Len(out') - 1)  PROVE out'[i][2] \subseteq out'[i+1][2]
    <3>1. i \in 1..Len(out) /\ i + 1 \in 1..(Len(out) + 1)  BY <2>4
    <3>2. CASE i = Len(out)  BY <1>2, <2>1, <2>3, <2>4, <3>1, <3>2
    <3>3. CASE i # Len(out)
      <4>1. i \in 1..(Len(out) - 1) /\ i + 1 \in 1..Len(out)  BY <2>4, <3>1, <3>3
      <4>2. out[i][2] \subseteq out[i+1][2]  BY <1>2, <4>1 DEF SummariesMonotone
      <4> QED  BY <2>4, <3>1, <4>1, <4>2
    <3> QED  BY <3>2, <3>3
  <2>8. SummariesMonotone'  BY <2>6, <2>7 DEF SummariesMonotone
  <2>9. \A i \in 1..Len(out') : out'[i][2] \subseteq total  BY <1>2, <2>2, <2>3, <2>4
  <2> QED  BY <1>0, <1>1, <1>2, <2>1, <2>4, <2>8, <2>9 DEF SummaryOK
<1>5. CASE out' = out /\ ~ (Recv /\ w' = "write")
  <2>1. snap' = snap /\ (w' = "write" => w = "write" /\ job' = job)
    BY <1>5 DEF Background, Recv, WriteEnd, WriteBrokenPipe, Free, WriterDies, DrainBegin, DrainSend,
                DrainLate, vars
  <2>2. SummariesMonotone'  BY <1>2, <1>5 DEF SummariesMonotone
  <2> QED  BY <1>0, <1>1, <1>2, <1>5, <2>1, <2>2 DEF SummaryOK
<1>6. out' = out \/ WriteEnd
  BY DEF Background, Recv, WriteBrokenPipe, Free, WriterDies, DrainBegin, DrainSend, DrainLate, vars
<1> QED  BY <1>3, <1>4, <1>5, <1>6
-----------------------------------------------------------------------------
(***************************************************************************)
(* The invariant and what follows from it.                                 *)
(***************************************************************************)
LEMMA SumNone == SumSize({}) = 0
<1>1. TextBytes({}) = {}  BY DEF TextBytes
<1>2. Cardinality(TextBytes({})) = Cardinality({})  BY <1>1
<1> QED  BY <1>2, FS_EmptySet DEF SumSize

LEMMA PrettyStart == Init => PrettyInv
<1> SUFFICES ASSUME Init  PROVE PrettyInv
  OBVIOUS
<1>1. TypeOK
  <2>1. /\ queue \in Seq(Batches \cup {Sync}) /\ Len(queue) <= Capacity
        /\ out \in Seq(Batches \X SUBSET Batches)
    BY PrettyAssumption DEF Init
  <2>2. st \in [Batches -> States] /\ saw \in [Batches -> Nat]  BY DEF Init, States
  <2>3. closed \in BOOLEAN /\ brokenPipe \in BOOLEAN /\ stopReported \in BOOLEAN  BY DEF Init
  <2> QED  BY <2>1, <2>2, <2>3 DEF Init, TypeOK, States
<1>2. QueueOK  BY DEF Init, QueueOK
<1>3. BytesOK
  <2>1. Held = {} /\ Flying = {}  BY DEF Init, Held, Flying
  <2>2. Charged = {}  BY <2>1 DEF Charged
  <2>3. SumSize(Charged) = 0  BY <2>2, SumNone
  <2>4. Within(Charged, saw)  BY <2>2 DEF Within
  <2>5. \A b \in Batches : st[b] # "send" /\ b \notin Held  BY <2>1 DEF Init
  <2> QED  BY <2>3, <2>4, <2>5 DEF Init, BytesOK
<1>4. DropsOK
  <2>1. Lost = {}  BY DEF Init, Lost
  <2>2. Cardinality(Lost) = 0
    <3>1. Cardinality(Lost) = Cardinality({})  BY <2>1
    <3> QED  BY <3>1, FS_EmptySet
  <2>3. \A n \in 1..dropped : FALSE  BY DEF Init
  <2> QED  BY <2>2, <2>3 DEF Init, DropsOK
<1>5. SummaryOK  BY DEF Init, SummaryOK, SummariesMonotone
<1> QED  BY <1>1, <1>2, <1>3, <1>4, <1>5 DEF PrettyInv

LEMMA PrettyStep == PrettyInv /\ [Next]_vars => PrettyInv'
<1> SUFFICES ASSUME PrettyInv, [Next]_vars  PROVE PrettyInv'
  OBVIOUS
<1>0. TypeOK  BY DEF PrettyInv
<1>1. ASSUME NEW b \in Batches, Enqueue(b)  PROVE PrettyInv'
  <2>1. QueueOK' /\ queue' \in Seq(Batches \cup {Sync}) /\ Len(queue') <= Capacity
    BY <1>1, QueueEnqueue
  <2>2. BytesOK' /\ bytes' \in Nat /\ saw' \in [Batches -> Nat]  BY <1>1, BytesEnqueue
  <2>3. /\ DropsOK' /\ dropped' \in Nat /\ stopReported' \in BOOLEAN
        /\ notices' \in SUBSET ({"behind", "stopped", "still"} \X Nat)
    BY <1>1, DropsEnqueue
  <2>4. SummaryOK' /\ total' \in SUBSET Batches  BY <1>1, SummaryEnqueue
  <2>5. st' \in [Batches -> States] /\ UNCHANGED <<closed, w, job, brokenPipe, snap, out, drain>>
    BY <1>0, <1>1, EnqueueMoves
  <2>6. TypeOK'  BY <1>0, <2>1, <2>2, <2>3, <2>4, <2>5 DEF TypeOK, States
  <2> QED  BY <2>1, <2>2, <2>3, <2>4, <2>6 DEF PrettyInv
<1>2. ASSUME Background  PROVE PrettyInv'
  <2>1. /\ QueueOK' /\ queue' \in Seq(Batches \cup {Sync}) /\ Len(queue') <= Capacity
        /\ job' \in Batches \cup {Sync}
    BY <1>2, QueueBackground
  <2>2. BytesOK' /\ bytes' \in Nat  BY <1>2, BytesBackground
  <2>3. DropsOK'  BY <1>2, DropsBackground
  <2>4. SummaryOK' /\ snap' \in SUBSET Batches /\ out' \in Seq(Batches \X SUBSET Batches)
    BY <1>2, SummaryBackground
  <2>5. UNCHANGED <<st, saw, total, dropped, stopReported, notices>>
    BY <1>2, BackgroundMoves DEF drops
  <2>6. /\ closed' \in BOOLEAN /\ brokenPipe' \in BOOLEAN
        /\ w' \in {"recv", "write", "free", "dead"}
        /\ drain' \in {"no", "send", "wait", "drained", "stopped", "late"}
    <3>1. closed' \in BOOLEAN /\ brokenPipe' \in BOOLEAN
      BY <1>0, <1>2 DEF Background, Recv, WriteEnd, WriteBrokenPipe, Free, WriterDies, DrainBegin,
                        DrainSend, DrainLate, vars, TypeOK
    <3>2. w' \in {"recv", "write", "free", "dead"}
      BY <1>0, <1>2 DEF Background, Recv, WriteEnd, WriteBrokenPipe, Free, WriterDies, DrainBegin,
                        DrainSend, DrainLate, vars, TypeOK
    <3>3. drain' \in {"no", "send", "wait", "drained", "stopped", "late"}
      BY <1>0, <1>2 DEF Background, Recv, WriteEnd, WriteBrokenPipe, Free, WriterDies, DrainBegin,
                        DrainSend, DrainLate, vars, TypeOK
    <3> QED  BY <3>1, <3>2, <3>3
  <2>7. TypeOK'  BY <1>0, <2>1, <2>2, <2>4, <2>5, <2>6 DEF TypeOK
  <2> QED  BY <2>1, <2>2, <2>3, <2>4, <2>7 DEF PrettyInv
<1> QED  BY <1>1, <1>2, NextIs

\* The inductive invariant of the destination holds in every behaviour.
THEOREM PrettyInvariant == Spec => []PrettyInv
BY PrettyStart, PrettyStep, PTL DEF Spec

\* The text held for a destination stays within its byte budget, and while the
\* writer lives the counter is exactly the text held and that of the enqueues
\* under way: the batch that was added last saw all the others in the counter
\* when it compared it, whatever the tasks did between their fetch_add and check.
THEOREM BytesTheorem == Spec => []BytesExact
<1>1. PrettyInv => BytesExact
  <2> SUFFICES ASSUME PrettyInv  PROVE BytesExact
    OBVIOUS
  <2>0. TypeOK /\ QueueOK /\ BytesOK /\ saw \in [Batches -> Nat] /\ MaxBytes \in Nat
    BY PrettyAssumption DEF PrettyInv, TypeOK
  <2>1. Held \cap Flying = {} /\ Charged \in SUBSET Batches  BY <2>0, HeldQueued
  <2>2. Held \in SUBSET Charged /\ Held \in SUBSET Batches /\ Flying \in SUBSET Batches
    BY <2>1 DEF Charged
  <2>3. SumSize(Held) <= MaxBytes
    <3>1. CASE Held = {}
      <4>1. SumSize(Held) = 0  BY <3>1, SumNone
      <4> QED  BY <2>0, <4>1
    <3>2. CASE Held # {}
      <4>1. PICK m \in Held : SumSize(Held) <= saw[m] + Size[m]
        BY <2>0, <2>2, <3>2 DEF BytesOK, Within
      <4>2. saw[m] + Size[m] <= MaxBytes /\ saw[m] \in Nat /\ Size[m] \in Nat
        BY <2>0, <2>2, PrettyAssumption DEF BytesOK
      <4>3. SumSize(Held) \in Nat  BY <2>2, TextFinite
      <4> QED  BY <2>0, <4>1, <4>2, <4>3
    <3> QED  BY <3>1, <3>2
  <2>4. ~ closed => bytes = SumSize(Held) + SumSize(Flying)
    <3>1. SumSize(Charged) = SumSize(Held) + SumSize(Flying)  BY <2>1, <2>2, SumUnion DEF Charged
    <3> QED  BY <2>0, <3>1 DEF BytesOK
  <2> QED  BY <2>3, <2>4 DEF BytesExact, Flying
<1> QED  BY <1>1, PrettyInvariant, PTL

\* What is lost is said: when no enqueue is under way, every drop was counted,
\* every power of two up to their number has its notice, and a stopped writer
\* was reported exactly once, however the reports of several tasks interleave.
THEOREM DropsTheorem == Spec => []DropsNoticed
<1>1. PrettyInv => DropsNoticed
  <2> SUFFICES ASSUME PrettyInv, \A b \in Batches : st[b] \in {"new", "queued", "dropped"}
               PROVE  /\ dropped = Cardinality({b \in Batches : st[b] = "dropped"})
                      /\ \A n \in 1..dropped : n \in PowersOfTwo => \E notice \in notices : notice[2] = n
                      /\ Cardinality({notice \in notices : notice[1] = "stopped"})
                           = IF stopReported THEN 1 ELSE 0
    BY DEF DropsNoticed
  <2>0. DropsOK /\ stopReported \in BOOLEAN  BY DEF PrettyInv, TypeOK
  <2>1. Lost = {b \in Batches : st[b] = "dropped"}  BY DEF Lost
  <2>2. Cardinality(Lost) = Cardinality({b \in Batches : st[b] = "dropped"})  BY <2>1
  <2>3. \A b \in Batches : st[b] # "reportStopped"  OBVIOUS
  <2>4. \A n \in 1..dropped : n \in PowersOfTwo => \E notice \in notices : notice[2] = n
    BY <2>0, <2>3 DEF DropsOK
  <2> DEFINE Stops == {notice \in notices : notice[1] = "stopped"}
  <2>5. CASE stopReported
    <3>1. PICK x \in notices : Stops = {x}  BY <2>0, <2>5 DEF DropsOK
    <3>2. Cardinality(Stops) = Cardinality({x})  BY <3>1
    <3>3. Cardinality(Stops) = 1  BY <3>2, FS_Singleton
    <3> QED  BY <2>0, <2>2, <2>4, <2>5, <3>3 DEF DropsOK
  <2>6. CASE ~ stopReported
    <3>1. Stops = {}  BY <2>0, <2>6 DEF DropsOK
    <3>2. Cardinality(Stops) = Cardinality({})  BY <3>1
    <3>3. Cardinality(Stops) = 0  BY <3>2, FS_EmptySet
    <3> QED  BY <2>0, <2>2, <2>4, <2>6, <3>3 DEF DropsOK
  <2> QED  BY <2>5, <2>6
<1> QED  BY <1>1, PrettyInvariant, PTL

\* The totals printed after a batch count that batch and never go back, in
\* whatever order the tasks aggregate and enqueue: the writer reads them when it
\* takes the job, after the batch was counted, and it is the only one to write.
THEOREM SummariesTheorem == Spec => []SummariesMonotone
<1>1. PrettyInv => SummariesMonotone  BY DEF PrettyInv, SummaryOK
<1> QED  BY <1>1, PrettyInvariant, PTL
-----------------------------------------------------------------------------
(***************************************************************************)
(* The last report about failing writes is true, for every report interval *)
(* and quiet period, at every time and after any number of failures.       *)
(***************************************************************************)
\* The type of the state; a time is never in the future.
HealthTypeOK ==
    /\ target \in Targets
    /\ now \in Nat
    /\ failing \subseteq [failures : Nat, last_failure : Nat, last_report : Nat]
    /\ pipe \in {"open", "broken", "drained"}
    /\ report \in [kind : {"none", "Started", "Ongoing", "Recovered", "Unresolved"}, failures : Nat]
    /\ reportAt \in 0..now
    /\ lastFail \in 0..now
    /\ lastOk \in 0..now
    /\ failures \in Nat

\* The streak the code keeps is the one the history has: it is there exactly
\* while failures are unresolved, and it has their number, the time of the last
\* and, until the shutdown report, the time of the last report.
StreakSound ==
    /\ failing = {} <=> failures = 0
    /\ \A s \in failing :
          /\ s.failures = failures
          /\ s.last_failure = lastFail
          /\ pipe # "drained" => s.last_report = reportAt

HealthInv ==
    /\ HealthTypeOK
    /\ StreakSound
    /\ LastWordIsTrue
-----------------------------------------------------------------------------
LEMMA HealthInitInv == HealthInit => HealthInv
BY HealthAssumption
   DEF HealthInit, HealthInv, HealthTypeOK, StreakSound, LastWordIsTrue, Targets

LEMMA HealthStepInv == HealthInv /\ [HealthNext]_healthVars => HealthInv'
<1> SUFFICES ASSUME HealthInv, [HealthNext]_healthVars
             PROVE  HealthInv'
  OBVIOUS
<1> USE HealthAssumption
<1> USE DEF HealthInv, HealthTypeOK, StreakSound, LastWordIsTrue
<1>1. CASE Tick
  BY <1>1 DEF Tick
<1>2. CASE FailureStarts
  <2> DEFINE s == [failures |-> 1, last_failure |-> now, last_report |-> now]
  <2>1. /\ failing' = {s}
        /\ s \in [failures : Nat, last_failure : Nat, last_report : Nat]
        /\ s.failures = 1 /\ s.last_failure = now /\ s.last_report = now
    BY <1>2 DEF FailureStarts
  <2>2. /\ failures = 0 /\ failures' = 1
        /\ lastFail' = now /\ lastOk' = lastOk /\ pipe' = "open"
        /\ target' = target /\ now' = now
        /\ report' = [kind |-> "Started", failures |-> 1] /\ reportAt' = now
    BY <1>2 DEF FailureStarts, WriteFailed, ShouldWrite, Log
  <2> HIDE DEF s
  <2> QED
    BY <2>1, <2>2
<1>3. CASE FailureSilent
  <2>1. PICK o \in failing :
           /\ now - o.last_report < Interval
           /\ failing' = {[failures |-> o.failures + 1, last_failure |-> now, last_report |-> o.last_report]}
    BY <1>3 DEF FailureSilent
  <2> DEFINE s == [failures |-> o.failures + 1, last_failure |-> now, last_report |-> o.last_report]
  <2>2. /\ failing' = {s}
        /\ s \in [failures : Nat, last_failure : Nat, last_report : Nat]
        /\ s.failures = failures + 1 /\ s.last_failure = now /\ s.last_report = o.last_report
    BY <2>1
  <2>3. /\ failures' = failures + 1
        /\ lastFail' = now /\ lastOk' = lastOk /\ pipe = "open" /\ pipe' = pipe
        /\ target' = target /\ now' = now
        /\ report' = report /\ reportAt' = reportAt
    BY <1>3 DEF FailureSilent, WriteFailed, ShouldWrite
  <2>4. failures > 0 /\ o.last_report = reportAt
    BY <2>1, <2>3
  <2> HIDE DEF s
  <2> QED
    BY <2>1, <2>2, <2>3, <2>4
<1>4. CASE FailureOngoing
  <2>1. PICK o \in failing :
           /\ failing' = {[failures |-> o.failures + 1, last_failure |-> now, last_report |-> now]}
           /\ report' = [kind |-> "Ongoing", failures |-> o.failures + 1]
           /\ reportAt' = now
    BY <1>4 DEF FailureOngoing, Log
  <2> DEFINE s == [failures |-> o.failures + 1, last_failure |-> now, last_report |-> now]
  <2>2. /\ failing' = {s}
        /\ s \in [failures : Nat, last_failure : Nat, last_report : Nat]
        /\ s.failures = failures + 1 /\ s.last_failure = now /\ s.last_report = now
    BY <2>1
  <2>3. /\ failures' = failures + 1
        /\ lastFail' = now /\ lastOk' = lastOk /\ pipe = "open" /\ pipe' = pipe
        /\ target' = target /\ now' = now
    BY <1>4 DEF FailureOngoing, WriteFailed, ShouldWrite
  <2>4. report' = [kind |-> "Ongoing", failures |-> failures + 1]
    BY <2>1
  <2> HIDE DEF s
  <2> QED
    BY <2>1, <2>2, <2>3, <2>4
<1>5. CASE SuccessRecovers
  BY <1>5 DEF SuccessRecovers, Recovers, ShouldWrite, Log
<1>6. CASE SuccessSilent
  <2>1. failures > 0 => now - lastFail < Quiet
    BY <1>6 DEF SuccessSilent, Recovers
  <2> QED
    BY <1>6, <2>1 DEF SuccessSilent
<1>7. CASE BrokenPipe
  BY <1>7 DEF BrokenPipe, ShouldWrite
<1>8. CASE Shutdown
  BY <1>8 DEF Shutdown, Log
<1>9. CASE UNCHANGED healthVars
  BY <1>9 DEF healthVars
<1> QED
  BY <1>1, <1>2, <1>3, <1>4, <1>5, <1>6, <1>7, <1>8, <1>9 DEF HealthNext

\* What on_failure, on_success and report_unresolved_at_shutdown logged last is
\* true at every moment: an outage is in the log with a count that is not too
\* high and not older than an interval, until a write succeeds a quiet period
\* after the last failure, a recovery is claimed no earlier, and the shutdown
\* report has the exact count.
THEOREM LastWordTheorem == HealthSpec => []LastWordIsTrue
<1>1. HealthInv => LastWordIsTrue
  BY DEF HealthInv
<1> QED
  BY HealthInitInv, HealthStepInv, <1>1, PTL DEF HealthSpec
=============================================================================
