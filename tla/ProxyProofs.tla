---------------------------- MODULE ProxyProofs ----------------------------
(***************************************************************************)
(* A route counts every batch once and only requests it has given up come  *)
(* behind later batches, for every set of routes, queue capacity and       *)
(* number of retries. All of the invariant is about one route: no action   *)
(* of a route touches another.                                             *)
(***************************************************************************)
EXTENDS Proxy, FiniteSetTheorems, TLAPS

\* What the worker has in its hands where, and who may still put into the queue.
HandOK(r) ==
    /\ w[r] \in {"recv", "stopped"} => cur[r] = 0
    /\ w[r] \in {"attempt", "export", "backoff", "drainExport"} => cur[r] # 0
    /\ w[r] \notin {"drain", "drainExport"} => abandoned[r] = 0
    /\ w[r] \in {"drain", "drainExport", "stopped"} => closed[r]
    /\ w[r] = "stopped" => queue[r] = <<>>

\* How often batch b of a route is with the upstream or on the wire to it, and
\* the batches this has happened to.
Times(r, b) == took[r][b] + late[r][b]
Requested(r) == {b \in Batch : Times(r, b) > 0}

\* From the requests (u) over the worker (c) to the queue (q), batches are in
\* the order in which they were offered, the last of them as number o.
Ordered(o, c, q, u) ==
    /\ c <= o
    /\ \A i \in 1..Len(q) : q[i] <= o /\ c < q[i]
    /\ \A i, j \in 1..Len(q) : i < j => q[i] < q[j]
    /\ \A b \in u : b <= o /\ (c # 0 => b <= c)
    /\ \A b \in u : \A j \in 1..Len(q) : b < q[j]

OrderOK(r) == Ordered(offered[r], cur[r], queue[r], Requested(r))

\* What counts as sent was taken, not counting the batch in hand; a batch whose
\* export was taken is among those the upstream has.
SentOK(r) ==
    /\ sent[r] <= Cardinality(Seen(r) \ {cur[r]})
    /\ w[r] \in {"export", "drainExport"} /\ taken[r] => cur[r] \in Seen(r)

\* How often the batch in hand may have been requested.
Allowed(r) ==
    LET now == IF taken[r] THEN 1 ELSE 0
    IN  CASE w[r] \in {"attempt", "backoff"} -> attempt[r]
          [] w[r] = "export" -> attempt[r] + now
          [] w[r] = "drainExport" -> RetryMax + 1 + now
          [] OTHER -> RetryMax + 1

RetryOK(r) ==
    /\ \A b \in Batch : Times(r, b) <= RetryMax + 2
    /\ cur[r] # 0 => Times(r, cur[r]) <= Allowed(r)

SumOK(r) ==
    sent[r] + failed[r] + dropped[r] + Len(queue[r]) + abandoned[r] + InHand(r) = offered[r]

RouteInv(r) == HandOK(r) /\ OrderOK(r) /\ SentOK(r) /\ RetryOK(r) /\ SumOK(r)

PInv == TypeOK /\ \A r \in Routes : RouteInv(r)
-----------------------------------------------------------------------------
\* Batches are positive numbers, finitely many.
LEMMA BatchNat == /\ \A b \in Batch : b \in Nat /\ b # 0 /\ b \in Nat \ {0}
                  /\ 0 \notin Batch /\ Batch \in SUBSET Nat /\ IsFiniteSet(Batch)
<1>1. MaxBatches \in Nat
  BY ProxyAssumption
<1>2. IsFiniteSet(Batch)
  BY <1>1, FS_Interval DEF Batch
<1>3. \A b \in Batch : b \in Nat /\ b # 0
  BY <1>1 DEF Batch
<1> QED
  BY <1>2, <1>3

\* Counting and settling keep the types.
LEMMA IncType ==
    ASSUME NEW f \in [Routes -> Nat], NEW r \in Routes
    PROVE  Inc(f, r) \in [Routes -> Nat]
BY DEF Inc

LEMMA SettleType ==
    ASSUME cur \in [Routes -> Batch \cup {0}], w \in [Routes -> Worker], NEW r \in Routes,
           NEW next \in Worker, Settle(r, next)
    PROVE  cur' \in [Routes -> Batch \cup {0}] /\ w' \in [Routes -> Worker]
BY DEF Settle

\* Where an export is in progress there is a batch in hand.
LEMMA InHandType ==
    ASSUME PInv, NEW r \in Routes, w[r] \in {"attempt", "export", "backoff", "drainExport"}
    PROVE  cur[r] \in Batch
<1>1. cur[r] \in Batch \cup {0} /\ cur[r] # 0
  BY DEF PInv, TypeOK, RouteInv, HandOK
<1> QED
  BY <1>1

\* One entry of took or late changes.
LEMMA EntryType ==
    ASSUME NEW f \in [Routes -> [Batch -> Nat]], NEW r \in Routes, NEW b \in Batch,
           NEW n \in Nat
    PROVE  /\ [f EXCEPT ![r][b] = n] \in [Routes -> [Batch -> Nat]]
           /\ [f EXCEPT ![r][b] = n][r] = [f[r] EXCEPT ![b] = n]
           /\ [f EXCEPT ![r][b] = n][r][b] = n
           /\ \A c \in Batch : c # b => [f EXCEPT ![r][b] = n][r][c] = f[r][c]
           /\ \A x \in Routes : x # r => [f EXCEPT ![r][b] = n][x] = f[x]
<1> DEFINE g == [f[r] EXCEPT ![b] = n]
<1>1. g \in [Batch -> Nat] /\ g[b] = n /\ \A c \in Batch : c # b => g[c] = f[r][c]
  OBVIOUS
<1>2. [f EXCEPT ![r][b] = n] = [f EXCEPT ![r] = g]
  OBVIOUS
<1> HIDE DEF g
<1>3. /\ [f EXCEPT ![r] = g] \in [Routes -> [Batch -> Nat]]
      /\ [f EXCEPT ![r] = g][r] = g
      /\ \A x \in Routes : x # r => [f EXCEPT ![r] = g][x] = f[x]
  BY <1>1
<1>4. [f EXCEPT ![r] = g][r] = [f[r] EXCEPT ![b] = n]
  BY <1>3 DEF g
<1> QED
  BY <1>1, <1>2, <1>3, <1>4

\* What giving up an export does to the requests on the wire,
LEMMA GiveUpEffect ==
    ASSUME TypeOK, NEW r \in Routes, cur[r] \in Batch, GiveUp(r)
    PROVE  /\ late' \in [Routes -> [Batch -> Nat]] /\ took' = took
           /\ late'[r][cur[r]] = IF taken[r] THEN late[r][cur[r]] ELSE late[r][cur[r]] + 1
           /\ \A c \in Batch : c # cur[r] => late'[r][c] = late[r][c]
           /\ \A x \in Routes : x # r => late'[x] = late[x]
<1> DEFINE n == IF taken[r] THEN late[r][cur[r]] ELSE late[r][cur[r]] + 1
<1>1. late \in [Routes -> [Batch -> Nat]]
  BY DEF TypeOK
<1>2. n \in Nat
  BY <1>1
<1>3. late' = [late EXCEPT ![r][cur[r]] = n] /\ took' = took
  BY <1>1 DEF GiveUp
<1> HIDE DEF n
<1>4. /\ [late EXCEPT ![r][cur[r]] = n] \in [Routes -> [Batch -> Nat]]
      /\ [late EXCEPT ![r][cur[r]] = n][r][cur[r]] = n
      /\ \A c \in Batch : c # cur[r] => [late EXCEPT ![r][cur[r]] = n][r][c] = late[r][c]
      /\ \A x \in Routes : x # r => [late EXCEPT ![r][cur[r]] = n][x] = late[x]
  BY <1>1, <1>2, EntryType
<1> QED
  BY <1>3, <1>4 DEF n

\* what the upstream does by taking the export in progress,
LEMMA TakesEffect ==
    ASSUME TypeOK, NEW r \in Routes, cur[r] \in Batch, UpstreamTakes(r)
    PROVE  /\ took' \in [Routes -> [Batch -> Nat]] /\ late' = late
           /\ took'[r][cur[r]] = took[r][cur[r]] + 1
           /\ \A c \in Batch : c # cur[r] => took'[r][c] = took[r][c]
           /\ \A x \in Routes : x # r => took'[x] = took[x]
<1> DEFINE n == took[r][cur[r]] + 1
<1>1. took \in [Routes -> [Batch -> Nat]]
  BY DEF TypeOK
<1>2. n \in Nat
  BY <1>1
<1>3. took' = [took EXCEPT ![r][cur[r]] = n] /\ late' = late
  BY <1>1 DEF UpstreamTakes
<1> HIDE DEF n
<1>4. /\ [took EXCEPT ![r][cur[r]] = n] \in [Routes -> [Batch -> Nat]]
      /\ [took EXCEPT ![r][cur[r]] = n][r][cur[r]] = n
      /\ \A c \in Batch : c # cur[r] => [took EXCEPT ![r][cur[r]] = n][r][c] = took[r][c]
      /\ \A x \in Routes : x # r => [took EXCEPT ![r][cur[r]] = n][x] = took[x]
  BY <1>1, <1>2, EntryType
<1> QED
  BY <1>3, <1>4 DEF n

\* and by taking one that was given up.
LEMMA LateEffect ==
    ASSUME TypeOK, NEW r \in Routes, NEW b \in Batch, UpstreamTakesLate(r, b)
    PROVE  /\ took' \in [Routes -> [Batch -> Nat]]
           /\ late' \in [Routes -> [Batch -> Nat]]
           /\ took'[r][b] = took[r][b] + 1 /\ late'[r][b] = late[r][b] - 1
           /\ \A c \in Batch : c # b => took'[r][c] = took[r][c] /\ late'[r][c] = late[r][c]
           /\ \A x \in Routes : x # r => took'[x] = took[x] /\ late'[x] = late[x]
<1> DEFINE n == took[r][b] + 1
           m == late[r][b] - 1
<1>1. took \in [Routes -> [Batch -> Nat]] /\ late \in [Routes -> [Batch -> Nat]]
  BY DEF TypeOK
<1>2. n \in Nat /\ m \in Nat
  <2>1. late[r][b] \in Nat /\ took[r][b] \in Nat /\ late[r][b] > 0
    BY <1>1 DEF UpstreamTakesLate
  <2> QED
    BY <2>1
<1>3. took' = [took EXCEPT ![r][b] = n] /\ late' = [late EXCEPT ![r][b] = m]
  BY <1>1 DEF UpstreamTakesLate
<1> HIDE DEF n, m
<1>4. /\ [took EXCEPT ![r][b] = n] \in [Routes -> [Batch -> Nat]]
      /\ [took EXCEPT ![r][b] = n][r][b] = n
      /\ \A c \in Batch : c # b => [took EXCEPT ![r][b] = n][r][c] = took[r][c]
      /\ \A x \in Routes : x # r => [took EXCEPT ![r][b] = n][x] = took[x]
  BY <1>1, <1>2, EntryType
<1>5. /\ [late EXCEPT ![r][b] = m] \in [Routes -> [Batch -> Nat]]
      /\ [late EXCEPT ![r][b] = m][r][b] = m
      /\ \A c \in Batch : c # b => [late EXCEPT ![r][b] = m][r][c] = late[r][c]
      /\ \A x \in Routes : x # r => [late EXCEPT ![r][b] = m][x] = late[x]
  BY <1>1, <1>2, EntryType
<1> QED
  BY <1>3, <1>4, <1>5 DEF n, m

LEMMA PTypeStep == PInv /\ [Next]_vars => TypeOK'
<1> SUFFICES ASSUME PInv, [Next]_vars PROVE TypeOK'
  OBVIOUS
<1>a. TypeOK
  BY DEF PInv
<1> USE <1>a, ProxyAssumption DEF TypeOK, Worker
<1>1. ASSUME NEW r \in Routes, Notify(r) PROVE TypeOK'
  <2>0. offered[r] + 1 \in Batch /\ offered' = [offered EXCEPT ![r] = @ + 1]
    <3>1. offered' = [offered EXCEPT ![r] = @ + 1] /\ offered[r] < MaxBatches
      BY <1>1 DEF Notify, Inc
    <3>2. offered[r] \in Nat /\ MaxBatches \in Nat
      OBVIOUS
    <3>3. offered[r] + 1 \in Batch
      BY ONLY <3>1, <3>2 DEF Batch
    <3> QED
      BY <3>1, <3>3
  <2>1. CASE closed[r] \/ Len(queue[r]) = Capacity
    <3>1. dropped' \in [Routes -> Nat]
      <4>1. dropped' = Inc(dropped, r)
        BY <1>1, <2>1 DEF Notify
      <4> QED
        BY <4>1, IncType
    <3>2. offered' \in [Routes -> Nat]
      BY <2>0
    <3> QED
      BY <1>1, <2>1, <3>1, <3>2 DEF Notify, worker, upstream
  <2>2. CASE ~ (closed[r] \/ Len(queue[r]) = Capacity)
    <3>1. /\ queue' = [queue EXCEPT ![r] = Append(@, offered[r] + 1)]
          /\ UNCHANGED <<dropped, closed, worker, deadline, shutdown, sent, failed, upstream>>
      BY <1>1, <2>2 DEF Notify
    <3>2. /\ Append(queue[r], offered[r] + 1) \in Seq(Batch)
          /\ Len(Append(queue[r], offered[r] + 1)) <= Capacity
      BY <2>0, <2>2
    <3>3. queue' \in [Routes -> Seq(Batch)] /\ \A x \in Routes : Len(queue'[x]) <= Capacity
      BY <3>1, <3>2
    <3>4. offered' \in [Routes -> Nat]
      BY <2>0
    <3> QED
      BY <3>1, <3>3, <3>4 DEF worker, upstream
  <2> QED
    BY <2>1, <2>2
<1>2. ASSUME NEW r \in Routes, Recv(r) PROVE TypeOK'
  <2>1. /\ Head(queue[r]) \in Batch /\ Tail(queue[r]) \in Seq(Batch)
        /\ Len(Tail(queue[r])) <= Capacity
    BY <1>2 DEF Recv
  <2>2. queue' \in [Routes -> Seq(Batch)] /\ \A x \in Routes : Len(queue'[x]) <= Capacity
    BY <1>2, <2>1 DEF Recv
  <2>3. cur' \in [Routes -> Batch \cup {0}]
    BY <1>2, <2>1 DEF Recv
  <2>4. attempt' \in [Routes -> 0..RetryMax] /\ w' \in [Routes -> Worker]
    BY <1>2 DEF Recv
  <2> QED
    BY <1>2, <2>2, <2>3, <2>4 DEF Recv, metrics, upstream
<1>3. ASSUME NEW r \in Routes, RecvShutdown(r) PROVE TypeOK'
  BY <1>3 DEF RecvShutdown, worker, metrics, upstream
<1>4. ASSUME NEW r \in Routes, Attempt(r) PROVE TypeOK'
  BY <1>4 DEF Attempt, worker, metrics, upstream
<1>5. ASSUME NEW r \in Routes, BackoffEnd(r) PROVE TypeOK'
  BY <1>5 DEF BackoffEnd, worker, metrics, upstream
<1>6. ASSUME NEW r \in Routes, Interrupt(r) PROVE TypeOK'
  <2>1. took' = took /\ late' \in [Routes -> [Batch -> Nat]]
    <3>1. CASE w[r] = "export"
      BY <1>6, <3>1, InHandType, GiveUpEffect DEF Interrupt
    <3>2. CASE w[r] # "export"
      BY <1>6, <3>2 DEF Interrupt, upstream
    <3> QED
      BY <3>1, <3>2
  <2>2. w' \in [Routes -> Worker]
    BY <1>6 DEF Interrupt
  <2> QED
    BY <1>6, <2>1, <2>2 DEF Interrupt, metrics
<1>7. ASSUME NEW r \in Routes, Close(r) PROVE TypeOK'
  BY <1>7 DEF Close, worker, metrics, upstream
<1>8. ASSUME NEW r \in Routes, DrainNext(r) PROVE TypeOK'
  <2>1. /\ NextToDrain(r) \in Batch \cup {0} /\ QueueBehind(r) \in Seq(Batch)
        /\ Len(QueueBehind(r)) <= Capacity
    BY <1>8 DEF DrainNext, NextToDrain, QueueBehind
  <2>2. queue' \in [Routes -> Seq(Batch)] /\ \A x \in Routes : Len(queue'[x]) <= Capacity
    BY <1>8, <2>1 DEF DrainNext
  <2>3. CASE deadline[r]
    <3>1. abandoned' \in [Routes -> Nat] /\ cur' \in [Routes -> Batch \cup {0}]
      <4>1. abandoned' = Inc(abandoned, r) /\ cur' = [cur EXCEPT ![r] = 0]
        BY <1>8, <2>3 DEF DrainNext
      <4> QED
        BY <4>1 DEF Inc
    <3> QED
      BY <1>8, <2>2, <2>3, <3>1 DEF DrainNext, metrics, upstream
  <2>4. CASE ~ deadline[r]
    <3>1. cur' \in [Routes -> Batch \cup {0}]
      BY <1>8, <2>1, <2>4 DEF DrainNext
    <3>2. w' \in [Routes -> Worker] /\ taken' \in [Routes -> BOOLEAN]
      BY <1>8, <2>4 DEF DrainNext
    <3> QED
      BY <1>8, <2>2, <2>4, <3>1, <3>2 DEF DrainNext, metrics, upstream
  <2> QED
    BY <2>3, <2>4
<1>9. ASSUME NEW r \in Routes, DrainCancelled(r) PROVE TypeOK'
  <2>1. abandoned' = Inc(abandoned, r) /\ Settle(r, "drain")
    BY <1>9 DEF DrainCancelled
  <2>2. abandoned' \in [Routes -> Nat] /\ cur' \in [Routes -> Batch \cup {0}] /\ w' \in [Routes -> Worker]
    BY <2>1, IncType, SettleType
  <2>3. took' = took /\ late' \in [Routes -> [Batch -> Nat]]
    BY <1>9, InHandType, GiveUpEffect DEF DrainCancelled
  <2> QED
    BY <1>9, <2>2, <2>3 DEF DrainCancelled, metrics
<1>10. ASSUME NEW r \in Routes, DrainEnd(r) PROVE TypeOK'
  <2>1. dropped[r] + abandoned[r] \in Nat
    OBVIOUS
  <2>2. dropped' \in [Routes -> Nat] /\ abandoned' \in [Routes -> Nat] /\ w' \in [Routes -> Worker]
    BY <1>10, <2>1 DEF DrainEnd
  <2> QED
    BY <1>10, <2>2 DEF DrainEnd, upstream
<1>11. ASSUME NEW r \in Routes, ExportOk(r) PROVE TypeOK'
  <2>1. sent' = Inc(sent, r) /\ Settle(r, "recv")
    BY <1>11 DEF ExportOk
  <2>2. sent' \in [Routes -> Nat] /\ cur' \in [Routes -> Batch \cup {0}] /\ w' \in [Routes -> Worker]
    BY <2>1, IncType, SettleType
  <2> QED
    BY <1>11, <2>2 DEF ExportOk, metrics, upstream
<1>12. ASSUME NEW r \in Routes, DrainOk(r) PROVE TypeOK'
  <2>1. sent' = Inc(sent, r) /\ Settle(r, "drain")
    BY <1>12 DEF DrainOk
  <2>2. sent' \in [Routes -> Nat] /\ cur' \in [Routes -> Batch \cup {0}] /\ w' \in [Routes -> Worker]
    BY <2>1, IncType, SettleType
  <2> QED
    BY <1>12, <2>2 DEF DrainOk, metrics, upstream
<1>13. ASSUME NEW r \in Routes, DrainFail(r) PROVE TypeOK'
  <2>1. failed' = Inc(failed, r) /\ Settle(r, "drain")
    BY <1>13 DEF DrainFail
  <2>2. failed' \in [Routes -> Nat] /\ cur' \in [Routes -> Batch \cup {0}] /\ w' \in [Routes -> Worker]
    BY <2>1, IncType, SettleType
  <2>3. took' = took /\ late' \in [Routes -> [Batch -> Nat]]
    BY <1>13, InHandType, GiveUpEffect DEF DrainFail
  <2> QED
    BY <1>13, <2>2, <2>3 DEF DrainFail, metrics
<1>14. ASSUME NEW r \in Routes, NEW f \in Failures, ExportRetry(r, f) PROVE TypeOK'
  <2>1. attempt' \in [Routes -> 0..RetryMax]
    BY <1>14 DEF ExportRetry, Inc
  <2>2. w' \in [Routes -> Worker]
    BY <1>14 DEF ExportRetry
  <2>3. took' = took /\ late' \in [Routes -> [Batch -> Nat]]
    BY <1>14, InHandType, GiveUpEffect DEF ExportRetry
  <2> QED
    BY <1>14, <2>1, <2>2, <2>3 DEF ExportRetry, metrics
<1>15. ASSUME NEW r \in Routes, NEW f \in Failures, ExportFail(r, f) PROVE TypeOK'
  <2>1. failed' = Inc(failed, r) /\ Settle(r, "recv")
    BY <1>15 DEF ExportFail
  <2>2. failed' \in [Routes -> Nat] /\ cur' \in [Routes -> Batch \cup {0}] /\ w' \in [Routes -> Worker]
    BY <2>1, IncType, SettleType
  <2>3. took' = took /\ late' \in [Routes -> [Batch -> Nat]]
    BY <1>15, InHandType, GiveUpEffect DEF ExportFail
  <2> QED
    BY <1>15, <2>2, <2>3 DEF ExportFail, metrics
<1>16. ASSUME NEW r \in Routes, UpstreamTakes(r) PROVE TypeOK'
  <2>1. took' \in [Routes -> [Batch -> Nat]] /\ late' = late
    BY <1>16, InHandType, TakesEffect DEF UpstreamTakes
  <2>2. taken' \in [Routes -> BOOLEAN]
    BY <1>16 DEF UpstreamTakes
  <2> QED
    BY <1>16, <2>1, <2>2 DEF UpstreamTakes, metrics
<1>20. ASSUME NEW r \in Routes, NEW b \in Batch, UpstreamTakesLate(r, b) PROVE TypeOK'
  <2>1. took' \in [Routes -> [Batch -> Nat]] /\ late' \in [Routes -> [Batch -> Nat]]
    BY <1>20, LateEffect
  <2> QED
    BY <1>20, <2>1 DEF UpstreamTakesLate, worker, metrics
<1>17. ASSUME NEW r \in Routes, DrainDeadline(r) PROVE TypeOK'
  BY <1>17 DEF DrainDeadline, worker, metrics, upstream
<1>18. CASE Shutdown
  BY <1>18 DEF Shutdown, worker, metrics, upstream
<1>19. CASE UNCHANGED vars
  BY <1>19 DEF vars, worker, metrics, upstream
<1> QED
  BY <1>1, <1>2, <1>3, <1>4, <1>5, <1>6, <1>7, <1>8, <1>9, <1>10, <1>11, <1>12, <1>13,
     <1>14, <1>15, <1>16, <1>17, <1>18, <1>19, <1>20
     DEF Next, WorkerStep, Answer

Batches == Seq(Batch)

LEMMA BatchesNat == ASSUME NEW q \in Batches PROVE q \in Seq(Nat \ {0})
<1>1. Len(q) \in Nat /\ q \in [1..Len(q) -> Batch]
  BY DEF Batches
<1>2. q \in [1..Len(q) -> Nat \ {0}]
  BY <1>1, BatchNat
<1> QED
  BY <1>1, <1>2

\* The order survives an offer, whether it is queued or dropped,
LEMMA OrderOffer ==
    ASSUME NEW o \in Nat, NEW c \in Nat, NEW q \in Batches, NEW u \in SUBSET Nat, Ordered(o, c, q, u)
    PROVE  Ordered(o + 1, c, q, u) /\ Ordered(o + 1, c, Append(q, o + 1), u)
<1> DEFINE t == Append(q, o + 1)
<1>1. /\ Len(t) = Len(q) + 1 /\ Len(q) \in Nat
      /\ \A i \in 1..Len(q) : t[i] = q[i] /\ q[i] \in Nat
      /\ \A b \in u : b \in Nat
      /\ t[Len(q) + 1] = o + 1
  BY BatchesNat
<1>2. Ordered(o + 1, c, q, u)
  BY <1>1 DEF Ordered
<1> HIDE DEF t
<1>3. \A i \in 1..Len(t) : i \in 1..Len(q) \/ i = Len(q) + 1
  BY <1>1
<1>4. \A i \in 1..Len(t) : t[i] <= o + 1 /\ c < t[i]
  BY <1>1, <1>3 DEF Ordered
<1>5. ASSUME NEW i \in 1..Len(t), NEW j \in 1..Len(t), i < j
      PROVE  t[i] < t[j]
  <2>1. i \in 1..Len(q)
    BY <1>1, <1>5
  <2>2. CASE j \in 1..Len(q)
    BY <1>1, <1>5, <2>1, <2>2 DEF Ordered
  <2>3. CASE j = Len(q) + 1
    <3>1. q[i] <= o /\ t[i] = q[i] /\ t[j] = o + 1 /\ q[i] \in Nat
      BY <1>1, <2>1, <2>3 DEF Ordered
    <3> QED
      BY <3>1
  <2> QED
    BY <1>3, <2>2, <2>3
<1>6. \A b \in u : \A j \in 1..Len(t) : b < t[j]
  BY <1>1, <1>3 DEF Ordered
<1>7. Ordered(o + 1, c, t, u)
  BY <1>2, <1>4, <1>5, <1>6 DEF Ordered
<1> QED
  BY <1>2, <1>7 DEF t

\* the end of the work at a batch,
LEMMA OrderSettle ==
    ASSUME NEW o \in Nat, NEW c \in Nat, NEW q \in Batches, NEW u \in SUBSET Nat, Ordered(o, c, q, u)
    PROVE  Ordered(o, 0, q, u)
<1>1. Len(q) \in Nat /\ \A i \in 1..Len(q) : q[i] \in Nat \ {0}
  BY BatchesNat
<1> QED
  BY <1>1 DEF Ordered

\* the receipt of the next batch, which was not requested so far,
LEMMA OrderTake ==
    ASSUME NEW o \in Nat, NEW q \in Batches, NEW u \in SUBSET Nat, Ordered(o, 0, q, u), q # <<>>
    PROVE  /\ Ordered(o, Head(q), Tail(q), u)
           /\ Head(q) \notin u
<1> DEFINE t == Tail(q)
           b == Head(q)
<1>1. /\ Len(q) \in Nat \ {0} /\ b = q[1] /\ b \in Nat \ {0} /\ 1 \in 1..Len(q)
      /\ Len(t) = Len(q) - 1
      /\ \A i \in 1..Len(t) : t[i] = q[i+1] /\ i + 1 \in 1..Len(q) /\ 1 < i + 1
      /\ \A a \in u : a \in Nat
  BY BatchesNat
<1> HIDE DEF t, b
<1>2. b <= o /\ \A a \in u : a < b /\ a <= b
  BY <1>1 DEF Ordered
<1>3. \A i \in 1..Len(t) : t[i] <= o /\ b < t[i]
  BY <1>1 DEF Ordered
<1>4. ASSUME NEW i \in 1..Len(t), NEW j \in 1..Len(t), i < j PROVE t[i] < t[j]
  <2>1. i + 1 < j + 1 /\ i + 1 \in 1..Len(q) /\ j + 1 \in 1..Len(q)
    BY <1>1, <1>4
  <2> QED
    BY <1>1, <2>1 DEF Ordered
<1>5. \A a \in u : \A j \in 1..Len(t) : a < t[j]
  BY <1>1 DEF Ordered
<1>6. Ordered(o, b, t, u)
  BY <1>2, <1>3, <1>4, <1>5 DEF Ordered
<1> QED
  BY <1>1, <1>2, <1>6 DEF t, b

\* and one more request of the batch in hand.
LEMMA OrderSent ==
    ASSUME NEW o \in Nat, NEW c \in Nat \ {0}, NEW q \in Batches, NEW u \in SUBSET Nat, Ordered(o, c, q, u),
           NEW v \in SUBSET (u \cup {c})
    PROVE  Ordered(o, c, q, v)
BY DEF Ordered

\* What a step leaves alone on route r: its counters, and the batches on their
\* way to the upstream.
SameCounts(r) ==
    /\ offered'[r] = offered[r] /\ abandoned'[r] = abandoned[r]
    /\ sent'[r] = sent[r] /\ failed'[r] = failed[r] /\ dropped'[r] = dropped[r]

SameWire(r) == took'[r] = took[r] /\ late'[r] = late[r]

SameHand(r) == queue'[r] = queue[r] /\ cur'[r] = cur[r] /\ SameWire(r)

\* Nothing is taken, and no batch but the one in hand is put on the wire.
NearWire(r) ==
    /\ took'[r] = took[r]
    /\ \A b \in Batch : b # cur[r] => late'[r][b] = late[r][b]

\* With the same requests, what is derived from them is the same.
LEMMA SameRequests ==
    ASSUME NEW r \in Routes, SameWire(r)
    PROVE  /\ Seen(r)' = Seen(r) /\ Requested(r)' = Requested(r)
           /\ \A b \in Batch : Times(r, b)' = Times(r, b)
<1>1. \A b \in Batch : Times(r, b)' = Times(r, b)
  BY DEF SameWire, Times
<1>2. Seen(r)' = Seen(r)
  BY DEF SameWire, Seen
<1>3. Requested(r)' = Requested(r)
  BY <1>1 DEF Requested
<1> QED
  BY <1>1, <1>2, <1>3

\* The types of a route's state, one by one.
LEMMA RouteType ==
    ASSUME TypeOK, NEW r \in Routes
    PROVE  /\ offered[r] \in Nat /\ cur[r] \in Nat /\ cur[r] \in Batch \cup {0}
           /\ abandoned[r] \in Nat /\ attempt[r] \in 0..RetryMax
           /\ sent[r] \in Nat /\ failed[r] \in Nat /\ dropped[r] \in Nat
           /\ queue[r] \in Batches /\ Len(queue[r]) \in Nat
           /\ \A b \in Batch : took[r][b] \in Nat /\ late[r][b] \in Nat /\ Times(r, b) \in Nat
           /\ Seen(r) \in SUBSET Batch /\ IsFiniteSet(Seen(r))
           /\ Requested(r) \in SUBSET Batch /\ Requested(r) \in SUBSET Nat
           /\ 0 \notin Seen(r)
<1>2. \A b \in Batch : took[r][b] \in Nat /\ late[r][b] \in Nat
  BY DEF TypeOK
<1>3. \A b \in Batch : Times(r, b) \in Nat
  BY <1>2 DEF Times
<1>4. Seen(r) \in SUBSET Batch /\ 0 \notin Seen(r)
  BY BatchNat DEF Seen
<1>5. IsFiniteSet(Seen(r))
  BY <1>4, BatchNat, FS_Subset
<1>6. Requested(r) \in SUBSET Batch /\ Requested(r) \in SUBSET Nat
  BY BatchNat DEF Requested
<1>7. /\ offered[r] \in Nat /\ cur[r] \in Batch \cup {0} /\ abandoned[r] \in Nat /\ attempt[r] \in 0..RetryMax
      /\ sent[r] \in Nat /\ failed[r] \in Nat /\ dropped[r] \in Nat
      /\ queue[r] \in Batches /\ Len(queue[r]) \in Nat
  BY DEF TypeOK, Batches
<1>8. cur[r] \in Nat
  <2>1. CASE cur[r] \in Batch
    BY <2>1, BatchNat
  <2>2. CASE cur[r] = 0
    BY <2>2
  <2> QED
    BY <1>7, <2>1, <2>2
<1> QED
  BY <1>2, <1>3, <1>4, <1>5, <1>6, <1>7, <1>8

\* What giving up an export does to the bounds on the requests.
LEMMA GivesUp ==
    ASSUME PInv, NEW r \in Routes, w[r] \in {"export", "drainExport"}, GiveUp(r)
    PROVE  /\ NearWire(r)
           /\ took'[r][cur[r]] + late'[r][cur[r]]
                 <= IF w[r] = "export" THEN attempt[r] + 1 ELSE RetryMax + 2
<1>1. TypeOK /\ RouteInv(r) /\ cur[r] \in Batch /\ cur[r] # 0
  BY InHandType, BatchNat DEF PInv
<1>2. /\ took' = took
      /\ late'[r][cur[r]] = IF taken[r] THEN late[r][cur[r]] ELSE late[r][cur[r]] + 1
      /\ \A c \in Batch : c # cur[r] => late'[r][c] = late[r][c]
  BY <1>1, GiveUpEffect
<1>3. NearWire(r)
  BY <1>2 DEF NearWire
<1>4. took[r][cur[r]] + late[r][cur[r]] <= Allowed(r)
  BY <1>1 DEF RouteInv, RetryOK, Times
<1>5. took[r][cur[r]] \in Nat /\ late[r][cur[r]] \in Nat /\ attempt[r] \in 0..RetryMax /\ RetryMax \in Nat
  BY <1>1, RouteType, ProxyAssumption
<1> DEFINE t == took[r][cur[r]]
           l == late[r][cur[r]]
           m == late'[r][cur[r]]
           a == attempt[r]
<1>6. Allowed(r) = IF w[r] = "export" THEN (IF taken[r] THEN a + 1 ELSE a)
                   ELSE (IF taken[r] THEN RetryMax + 2 ELSE RetryMax + 1)
  BY <1>5 DEF Allowed
<1>7. took'[r][cur[r]] = t
  BY <1>2
<1>8. t + m <= IF w[r] = "export" THEN a + 1 ELSE RetryMax + 2
  <2>1. t \in Nat /\ l \in Nat /\ a \in Nat /\ RetryMax \in Nat /\ m = IF taken[r] THEN l ELSE l + 1
    BY <1>2, <1>5
  <2>2. t + l <= Allowed(r)
    BY <1>4
  <2> HIDE DEF t, l, m, a
  <2>3. CASE w[r] = "export"
    BY <1>6, <2>1, <2>2, <2>3
  <2>4. CASE w[r] # "export"
    BY <1>6, <2>1, <2>2, <2>4
  <2> QED
    BY <2>3, <2>4
<1> QED
  BY <1>3, <1>7, <1>8

\* A step of another route.
LEMMA Elsewhere ==
    ASSUME NEW r \in Routes, TypeOK, RouteInv(r),
           SameCounts(r), SameHand(r), closed'[r] = closed[r],
           w'[r] = w[r], attempt'[r] = attempt[r], taken'[r] = taken[r]
    PROVE  RouteInv(r)'
<1> USE DEF SameCounts, SameHand
<1>0. /\ Seen(r)' = Seen(r) /\ Requested(r)' = Requested(r)
      /\ \A b \in Batch : Times(r, b)' = Times(r, b)
  BY SameRequests
<1>1. HandOK(r)'
  BY DEF RouteInv, HandOK
<1>2. OrderOK(r)'
  BY <1>0 DEF RouteInv, OrderOK
<1>3. SentOK(r)'
  BY <1>0 DEF RouteInv, SentOK
<1>4. RetryOK(r)'
  <2>1. \A b \in Batch : Times(r, b)' <= RetryMax + 2
    BY <1>0 DEF RouteInv, RetryOK
  <2>2. ASSUME cur'[r] # 0 PROVE Times(r, cur[r])' <= Allowed(r)'
    <3>1. Allowed(r)' = Allowed(r)
      BY DEF Allowed
    <3>2. cur[r] # 0 /\ Times(r, cur[r]) <= Allowed(r)
      BY <2>2 DEF RouteInv, RetryOK
    <3>3. took'[r][cur'[r]] + late'[r][cur'[r]] = took[r][cur[r]] + late[r][cur[r]]
      BY DEF SameWire
    <3> QED
      BY <3>1, <3>2, <3>3 DEF Times
  <2> QED
    BY <2>1, <2>2 DEF RetryOK
<1>5. SumOK(r)'
  BY DEF RouteInv, SumOK, InHand
<1> QED
  BY <1>1, <1>2, <1>3, <1>4, <1>5 DEF RouteInv

\* What follows for the order and for what was taken when no batch but the one
\* in hand is put on the wire.
LEMMA NearRequests ==
    ASSUME NEW r \in Routes, TypeOK, RouteInv(r), cur[r] # 0, NearWire(r)
    PROVE  /\ Seen(r)' = Seen(r)
           /\ \A b \in Batch : b # cur[r] => Times(r, b)' = Times(r, b)
           /\ Requested(r)' \in SUBSET Nat
           /\ Ordered(offered[r], cur[r], queue[r], Requested(r)')
<1>1. Seen(r)' = Seen(r)
  BY DEF Seen, NearWire
<1>2. \A b \in Batch : b # cur[r] => Times(r, b)' = Times(r, b)
  BY DEF Times, NearWire
<1>3. Requested(r)' \in SUBSET (Requested(r) \cup {cur[r]}) /\ Requested(r)' \in SUBSET Nat
  BY <1>2, BatchNat DEF Requested
<1>4. Ordered(offered[r], cur[r], queue[r], Requested(r))
  BY DEF RouteInv, OrderOK
<1>5. Ordered(offered[r], cur[r], queue[r], Requested(r)')
  BY <1>3, <1>4, RouteType, OrderSent
<1> QED
  BY <1>1, <1>2, <1>3, <1>5

\* The worker moves on with the batch it has.
LEMMA MovesOn ==
    ASSUME NEW r \in Routes, TypeOK, RouteInv(r), SameCounts(r), SameHand(r), HandOK(r)',
           w'[r] \in {"export", "drainExport"} /\ taken'[r] => cur[r] \in Seen(r),
           cur[r] # 0 => Times(r, cur[r]) <= Allowed(r)'
    PROVE  RouteInv(r)'
<1> USE DEF SameCounts, SameHand
<1>0. /\ Seen(r)' = Seen(r) /\ Requested(r)' = Requested(r)
      /\ \A b \in Batch : Times(r, b)' = Times(r, b)
  BY SameRequests
<1>1. OrderOK(r)'
  BY <1>0 DEF RouteInv, OrderOK
<1>2. SentOK(r)'
  BY <1>0 DEF RouteInv, SentOK
<1>3. RetryOK(r)'
  <2>1. \A b \in Batch : Times(r, b)' <= RetryMax + 2
    BY <1>0 DEF RouteInv, RetryOK
  <2>2. took'[r][cur'[r]] + late'[r][cur'[r]] = took[r][cur[r]] + late[r][cur[r]]
    BY DEF SameWire
  <2> QED
    BY <2>1, <2>2 DEF RetryOK, Times
<1>4. SumOK(r)'
  BY DEF RouteInv, SumOK, InHand
<1> QED
  BY <1>1, <1>2, <1>3, <1>4 DEF RouteInv

\* The worker gives an export up and keeps the batch.
LEMMA TurnsAway ==
    ASSUME NEW r \in Routes, TypeOK, TypeOK', RouteInv(r), SameCounts(r), cur[r] # 0,
           queue'[r] = queue[r], cur'[r] = cur[r], NearWire(r), HandOK(r)',
           w'[r] \notin {"export", "drainExport"},
           took'[r][cur[r]] + late'[r][cur[r]] <= Allowed(r)',
           Allowed(r)' \in Nat, Allowed(r)' <= RetryMax + 2
    PROVE  RouteInv(r)'
<1> USE DEF SameCounts
<1>0. /\ Seen(r)' = Seen(r)
      /\ \A b \in Batch : b # cur[r] => Times(r, b)' = Times(r, b)
      /\ Ordered(offered[r], cur[r], queue[r], Requested(r)')
  BY NearRequests
<1>1. OrderOK(r)'
  BY <1>0 DEF OrderOK
<1>2. SentOK(r)'
  BY <1>0 DEF RouteInv, SentOK
<1>3. RetryOK(r)'
  <2>1. Times(r, cur[r])' = took'[r][cur'[r]] + late'[r][cur'[r]]
    BY DEF Times
  <2>2. cur[r] \in Batch /\ RetryMax \in Nat
    BY RouteType, ProxyAssumption
  <2>3. took'[r][cur[r]] \in Nat /\ late'[r][cur[r]] \in Nat
    BY <2>2 DEF TypeOK
  <2>4. took'[r][cur[r]] + late'[r][cur[r]] <= RetryMax + 2
    <3> DEFINE x == took'[r][cur[r]]
               y == late'[r][cur[r]]
               z == Allowed(r)'
    <3>1. x \in Nat /\ y \in Nat /\ z \in Nat /\ x + y <= z /\ z <= RetryMax + 2 /\ RetryMax \in Nat
      BY <2>2, <2>3
    <3> HIDE DEF x, y, z
    <3>2. x + y <= RetryMax + 2
      BY ONLY <3>1
    <3> QED
      BY <3>2 DEF x, y
  <2>5. ASSUME NEW b \in Batch PROVE Times(r, b)' <= RetryMax + 2
    <3>1. CASE b = cur[r]
      BY <2>4, <3>1 DEF Times
    <3>2. CASE b # cur[r]
      BY <1>0, <3>2 DEF RouteInv, RetryOK
    <3> QED
      BY <3>1, <3>2
  <2> QED
    BY <2>1, <2>5 DEF RetryOK
<1>4. SumOK(r)'
  BY DEF RouteInv, SumOK, InHand
<1> QED
  BY <1>1, <1>2, <1>3, <1>4 DEF RouteInv

LEMMA Regroup ==
    ASSUME NEW a \in Nat, NEW b \in Nat, NEW c \in Nat, NEW d \in Nat, NEW l \in Nat, NEW o \in Nat,
           a + b + c + d + l = o
    PROVE  a + b + c + l + d + 0 = o
OBVIOUS

\* The batch in hand is settled, by a success only if the upstream took it.
LEMMA Settles ==
    ASSUME NEW r \in Routes, TypeOK, TypeOK', RouteInv(r), cur[r] # 0, cur'[r] = 0, HandOK(r)',
           offered'[r] = offered[r], queue'[r] = queue[r], NearWire(r),
           took'[r][cur[r]] + late'[r][cur[r]] <= RetryMax + 2,
           w'[r] \notin {"export", "drainExport"},
           \/ sent'[r] = sent[r]
           \/ sent'[r] = sent[r] + 1 /\ cur[r] \in Seen(r),
           sent'[r] + failed'[r] + dropped'[r] + abandoned'[r]
               = sent[r] + failed[r] + dropped[r] + abandoned[r] + 1
    PROVE  RouteInv(r)'
<1> DEFINE S == Seen(r)
<1>0. /\ Seen(r)' = S
      /\ \A b \in Batch : b # cur[r] => Times(r, b)' = Times(r, b)
      /\ Requested(r)' \in SUBSET Nat
      /\ Ordered(offered[r], cur[r], queue[r], Requested(r)')
  BY NearRequests
<1>1. OrderOK(r)'
  BY <1>0, RouteType, OrderSettle DEF OrderOK
<1>2. SentOK(r)'
  <2>1. IsFiniteSet(S) /\ Cardinality(S) \in Nat /\ sent[r] \in Nat
    BY RouteType, FS_CardinalityType
  <2>2. Cardinality(S \ {cur[r]}) = IF cur[r] \in S THEN Cardinality(S) - 1 ELSE Cardinality(S)
    BY <2>1, FS_RemoveElement
  <2>3. sent[r] <= Cardinality(S \ {cur[r]})
    BY DEF RouteInv, SentOK
  <2>4. S \ {0} = S
    BY RouteType
  <2>5. Cardinality(S \ {0}) = Cardinality(S)
    BY <2>4
  <2>6. sent'[r] <= Cardinality(S)
    <3>1. sent'[r] = sent[r] \/ (sent'[r] = sent[r] + 1 /\ cur[r] \in S)
      OBVIOUS
    <3> HIDE DEF S
    <3> QED
      BY <2>1, <2>2, <2>3, <3>1
  <2>7. sent'[r] <= Cardinality(S \ {0})
    <3> HIDE DEF S
    <3> QED
      BY <2>5, <2>6
  <2>8. sent'[r] <= Cardinality(Seen(r)' \ {cur'[r]})
    BY <1>0, <2>7
  <2> QED
    BY <2>8 DEF SentOK
<1>3. RetryOK(r)'
  <2>1. ASSUME NEW b \in Batch PROVE Times(r, b)' <= RetryMax + 2
    <3>1. CASE b = cur[r]
      BY <3>1 DEF Times
    <3>2. CASE b # cur[r]
      BY <1>0, <3>2 DEF RouteInv, RetryOK
    <3> QED
      BY <3>1, <3>2
  <2> QED
    BY <2>1 DEF RetryOK
<1>4. SumOK(r)'
  <2>1. /\ sent'[r] \in Nat /\ failed'[r] \in Nat /\ dropped'[r] \in Nat /\ abandoned'[r] \in Nat
    BY DEF TypeOK
  <2>2. InHand(r) = 1 /\ InHand(r)' = 0
    BY DEF InHand
  <2>3. sent[r] + failed[r] + dropped[r] + Len(queue[r]) + abandoned[r] + 1 = offered[r]
    BY <2>2 DEF RouteInv, SumOK
  <2>4. sent'[r] + failed'[r] + dropped'[r] + Len(queue[r]) + abandoned'[r] + 0 = offered[r]
    <3> DEFINE total == sent[r] + failed[r] + dropped[r] + abandoned[r]
               total1 == sent'[r] + failed'[r] + dropped'[r] + abandoned'[r]
    <3>1. /\ sent[r] \in Nat /\ failed[r] \in Nat /\ dropped[r] \in Nat /\ abandoned[r] \in Nat
          /\ Len(queue[r]) \in Nat /\ offered[r] \in Nat
      BY RouteType
    <3>2. total1 = total + 1 /\ total \in Nat
      BY <3>1
    <3>3. total + Len(queue[r]) + 1 = offered[r]
      BY <2>3, <3>1
    <3>4. total1 + Len(queue[r]) = offered[r]
      <4> DEFINE l == Len(queue[r])
                 o == offered[r]
      <4>1. total1 = total + 1 /\ total \in Nat /\ l \in Nat /\ o \in Nat /\ total + l + 1 = o
        BY <3>1, <3>2, <3>3
      <4> HIDE DEF total, total1, l, o
      <4>2. total1 + l = o
        BY ONLY <4>1
      <4> QED
        BY <4>2 DEF l, o
    <3> QED
      <4> DEFINE a == sent'[r]
                 b == failed'[r]
                 c == dropped'[r]
                 d == abandoned'[r]
                 l == Len(queue[r])
                 o == offered[r]
      <4>1. a \in Nat /\ b \in Nat /\ c \in Nat /\ d \in Nat /\ l \in Nat /\ o \in Nat /\ a + b + c + d + l = o
        BY <2>1, <3>1, <3>4
      <4> HIDE DEF a, b, c, d, l, o
      <4>2. a + b + c + l + d + 0 = o
        BY ONLY <4>1, Regroup
      <4> QED
        BY <4>2 DEF a, b, c, d, l, o
  <2>5. SumOK(r)' <=> sent'[r] + failed'[r] + dropped'[r] + Len(queue[r]) + abandoned'[r] + InHand(r)' = offered[r]
    BY DEF SumOK
  <2> QED
    BY <2>2, <2>4, <2>5
<1> QED
  BY <1>1, <1>2, <1>3, <1>4 DEF RouteInv

\* The next batch of the queue comes into the worker's empty hands.
LEMMA TakesNext ==
    ASSUME NEW r \in Routes, TypeOK, RouteInv(r), cur[r] = 0, queue[r] # <<>>,
           cur'[r] = Head(queue[r]), queue'[r] = Tail(queue[r]), SameWire(r),
           SameCounts(r), HandOK(r)', Allowed(r)' \in Nat,
           ~ (w'[r] \in {"export", "drainExport"} /\ taken'[r])
    PROVE  RouteInv(r)'
<1> DEFINE S == Seen(r)
           b == Head(queue[r])
<1>0. /\ Seen(r)' = Seen(r) /\ Requested(r)' = Requested(r)
      /\ \A c \in Batch : Times(r, c)' = Times(r, c)
  BY SameRequests
<1>1. /\ queue[r] \in Batches /\ offered[r] \in Nat /\ Requested(r) \in SUBSET Nat
      /\ b \in Batch /\ b # 0 /\ Len(queue[r]) \in Nat /\ Len(queue'[r]) = Len(queue[r]) - 1
  <2>1. queue[r] \in Seq(Batch)
    BY DEF TypeOK
  <2>2. b \in Batch /\ Len(queue[r]) \in Nat /\ Len(queue'[r]) = Len(queue[r]) - 1
    BY <2>1
  <2> QED
    BY <2>2, BatchNat, RouteType
<1>2. Ordered(offered[r], 0, queue[r], Requested(r))
  BY DEF RouteInv, OrderOK
<1>3. OrderOK(r)' /\ b \notin Requested(r)
  BY <1>0, <1>1, <1>2, OrderTake DEF OrderOK, SameCounts
<1>4. Times(r, b) = 0 /\ b \notin S
  <2>1. Times(r, b) \in Nat /\ ~ (Times(r, b) > 0)
    BY <1>1, <1>3, RouteType DEF Requested
  <2>2. Times(r, b) = 0
    BY <2>1
  <2>3. took[r][b] \in Nat /\ late[r][b] \in Nat
    BY <1>1, RouteType
  <2>4. ~ (took[r][b] > 0)
    BY <2>2, <2>3 DEF Times
  <2> QED
    BY <2>2, <2>4 DEF Seen
<1>5. SentOK(r)'
  <2>1. 0 \notin S
    BY RouteType
  <2>2. S \ {b} = S \ {0}
    BY <1>4, <2>1
  <2>3. Cardinality(S \ {b}) = Cardinality(S \ {0})
    BY <2>2
  <2> QED
    BY <1>0, <2>3 DEF RouteInv, SentOK, SameCounts
<1>6. RetryOK(r)'
  <2>1. \A c \in Batch : Times(r, c)' <= RetryMax + 2
    BY <1>0 DEF RouteInv, RetryOK
  <2>2. took'[r][cur'[r]] + late'[r][cur'[r]] = 0
    BY <1>4 DEF SameWire, Times
  <2>3. 0 <= Allowed(r)'
    OBVIOUS
  <2> QED
    BY <2>1, <2>2, <2>3 DEF RetryOK, Times
<1>7. SumOK(r)'
  <2>1. InHand(r) = 0 /\ InHand(r)' = 1
    BY <1>1 DEF InHand
  <2> DEFINE n == Len(queue[r])
             m == sent[r] + failed[r] + dropped[r]
             k == abandoned[r]
             o == offered[r]
  <2>2. n \in Nat /\ m \in Nat /\ k \in Nat /\ o \in Nat /\ m + n + k + 0 = o
    BY <2>1, RouteType DEF RouteInv, SumOK
  <2>3. m + (n - 1) + k + 1 = o
    <3> HIDE DEF n, m, k, o
    <3> QED
      BY ONLY <2>2
  <2> QED
    BY <1>1, <2>1, <2>3 DEF SumOK, SameCounts
<1> QED
  BY <1>3, <1>5, <1>6, <1>7 DEF RouteInv

\* One more batch is offered: queued behind all others, or counted as dropped.
LEMMA NotifyStep ==
    ASSUME PInv, TypeOK', NEW r \in Routes, Notify(r)
    PROVE  RouteInv(r)'
<1>1. /\ TypeOK /\ RouteInv(r) /\ offered'[r] = offered[r] + 1
      /\ UNCHANGED <<cur, w, taken, closed, abandoned, attempt, sent, failed, took, late>>
  BY DEF PInv, TypeOK, Notify, Inc, worker, upstream
<1>2. \/ queue'[r] = queue[r] /\ dropped'[r] = dropped[r] + 1
      \/ queue'[r] = Append(queue[r], offered[r] + 1) /\ dropped'[r] = dropped[r] /\ ~ closed[r]
  BY <1>1 DEF TypeOK, Notify, Inc
<1>3. HandOK(r)'
  BY <1>1, <1>2 DEF RouteInv, HandOK
<1>0. SameWire(r) /\ Seen(r)' = Seen(r) /\ Requested(r)' = Requested(r)
  BY <1>1, SameRequests DEF SameWire
<1>4. OrderOK(r)'
  <2>1. offered[r] \in Nat /\ cur[r] \in Nat /\ queue[r] \in Batches /\ Requested(r) \in SUBSET Nat
    BY <1>1, RouteType
  <2>2. /\ Ordered(offered[r] + 1, cur[r], queue[r], Requested(r))
        /\ Ordered(offered[r] + 1, cur[r], Append(queue[r], offered[r] + 1), Requested(r))
    BY <1>1, <2>1, OrderOffer DEF RouteInv, OrderOK
  <2> QED
    BY <1>0, <1>1, <1>2, <2>2 DEF OrderOK
<1>5. SentOK(r)' /\ RetryOK(r)'
  <2>1. SentOK(r)'
    BY <1>0, <1>1 DEF RouteInv, SentOK
  <2>2. RetryOK(r)'
    BY <1>1 DEF RouteInv, RetryOK, Allowed, Times
  <2> QED
    BY <2>1, <2>2
<1>6. SumOK(r)'
  <2>1. InHand(r)' = InHand(r) /\ InHand(r) \in Nat
    BY <1>1 DEF InHand
  <2> DEFINE m == sent[r] + failed[r]
             d == dropped[r]
             n == Len(queue[r])
             d1 == dropped'[r]
             n1 == Len(queue'[r])
             k == abandoned[r]
             h == InHand(r)
             o == offered[r]
  <2>2. (d1 = d + 1 /\ n1 = n) \/ (d1 = d /\ n1 = n + 1)
    <3>1. CASE queue'[r] = queue[r] /\ dropped'[r] = dropped[r] + 1
      BY <3>1
    <3>2. CASE queue'[r] = Append(queue[r], offered[r] + 1) /\ dropped'[r] = dropped[r]
      <4>1. queue[r] \in Seq(Batch)
        BY <1>1, RouteType DEF Batches
      <4> QED
        BY <3>2, <4>1
    <3> QED
      BY <1>2, <3>1, <3>2
  <2>3. m \in Nat /\ d \in Nat /\ n \in Nat /\ k \in Nat /\ h \in Nat /\ o \in Nat
    BY <1>1, <2>1, RouteType
  <2>4. m + d + n + k + h = o
    BY <1>1 DEF RouteInv, SumOK
  <2>5. m + d1 + n1 + k + h = o + 1
    <3> HIDE DEF m, d, n, d1, n1, k, h, o
    <3> QED
      BY ONLY <2>2, <2>3, <2>4
  <2> QED
    BY <1>1, <2>1, <2>5 DEF SumOK
<1> QED
  BY <1>3, <1>4, <1>5, <1>6 DEF RouteInv

\* The upstream takes the batch in hand: the last in order, once more.
LEMMA TakesStep ==
    ASSUME PInv, NEW r \in Routes, UpstreamTakes(r)
    PROVE  RouteInv(r)'
<1> DEFINE b == cur[r]
<1>1. /\ TypeOK /\ RouteInv(r) /\ w[r] \in {"export", "drainExport"}
      /\ UNCHANGED <<offered, queue, closed, w, cur, attempt, abandoned, sent, failed, dropped>>
      /\ ~ taken[r] /\ taken'[r]
  BY DEF PInv, TypeOK, UpstreamTakes, metrics
<1>2. b \in Batch /\ b \in Nat \ {0}
  BY <1>1, InHandType, BatchNat
<1>3. /\ late' = late
      /\ took'[r][b] = took[r][b] + 1
      /\ \A c \in Batch : c # b => took'[r][c] = took[r][c]
      /\ took[r][b] \in Nat /\ late[r][b] \in Nat
  BY <1>1, <1>2, TakesEffect, RouteType
<1>4. HandOK(r)' /\ SumOK(r)'
  BY <1>1 DEF RouteInv, HandOK, SumOK, InHand
<1>5. \A c \in Batch : c # b => Times(r, c)' = Times(r, c)
  BY <1>3 DEF Times
<1>6. OrderOK(r)'
  <2>1. Requested(r)' \in SUBSET (Requested(r) \cup {b})
    BY <1>5 DEF Requested
  <2>2. Ordered(offered[r], cur[r], queue[r], Requested(r)')
    BY <1>1, <1>2, <2>1, RouteType, OrderSent DEF RouteInv, OrderOK
  <2> QED
    BY <1>1, <2>2 DEF OrderOK
<1>7. SentOK(r)'
  <2>1. Seen(r)' = Seen(r) \cup {b}
    <3>1. took'[r][b] > 0
      BY <1>3
    <3> QED
      BY <1>2, <1>3, <3>1 DEF Seen
  <2>2. Seen(r)' \ {b} = Seen(r) \ {b} /\ b \in Seen(r)'
    BY <2>1
  <2>3. Cardinality(Seen(r)' \ {b}) = Cardinality(Seen(r) \ {b})
    BY <2>2
  <2>4. sent[r] <= Cardinality(Seen(r)' \ {b})
    BY <1>1, <2>3 DEF RouteInv, SentOK
  <2> QED
    BY <1>1, <2>2, <2>4 DEF SentOK
<1>8. RetryOK(r)'
  <2>1. attempt[r] \in 0..RetryMax /\ RetryMax \in Nat
    BY <1>1, RouteType, ProxyAssumption
  <2>2. Times(r, b) <= Allowed(r)
    BY <1>1, <1>2 DEF RouteInv, RetryOK
  <2>3. Allowed(r)' = Allowed(r) + 1 /\ Allowed(r) \in Nat /\ Allowed(r) <= RetryMax + 1
    BY <1>1, <2>1 DEF Allowed
  <2>4. Times(r, b) \in Nat /\ took'[r][b] + late'[r][b] = Times(r, b) + 1
    <3> DEFINE x == took[r][b]
               y == late[r][b]
    <3>1. x \in Nat /\ y \in Nat /\ took'[r][b] = x + 1 /\ late'[r][b] = y
      BY <1>3
    <3>2. Times(r, b) = x + y
      BY DEF Times
    <3> HIDE DEF x, y
    <3> QED
      BY <3>1, <3>2
  <2>5. took'[r][b] + late'[r][b] <= Allowed(r)' /\ took'[r][b] + late'[r][b] <= RetryMax + 2
    <3> DEFINE n == Times(r, b)
               n1 == took'[r][b] + late'[r][b]
               l == Allowed(r)
               l1 == Allowed(r)'
    <3>1. n \in Nat /\ n1 = n + 1 /\ n <= l /\ l1 = l + 1 /\ l \in Nat /\ l <= RetryMax + 1 /\ RetryMax \in Nat
      BY <2>1, <2>2, <2>3, <2>4
    <3>2. n1 <= l1 /\ n1 <= RetryMax + 2
      <4> HIDE DEF n, n1, l, l1
      <4> QED
        BY ONLY <3>1
    <3> QED
      BY <3>2
  <2>6. ASSUME NEW c \in Batch PROVE Times(r, c)' <= RetryMax + 2
    <3>1. CASE c = b
      BY <2>5, <3>1 DEF Times
    <3>2. CASE c # b
      BY <1>1, <1>5, <3>2 DEF RouteInv, RetryOK
    <3> QED
      BY <3>1, <3>2
  <2>7. cur' = cur
    BY <1>1
  <2> QED
    BY <2>5, <2>6, <2>7 DEF RetryOK, Times
<1> QED
  BY <1>4, <1>6, <1>7, <1>8 DEF RouteInv

\* The upstream takes a request that was given up: it was counted on the wire.
LEMMA LateStep ==
    ASSUME PInv, NEW r \in Routes, NEW b \in Batch, UpstreamTakesLate(r, b)
    PROVE  RouteInv(r)'
<1>1. /\ TypeOK /\ RouteInv(r)
      /\ UNCHANGED <<offered, queue, closed, w, cur, attempt, taken, abandoned, sent, failed, dropped>>
  BY DEF PInv, UpstreamTakesLate, worker, metrics
<1>2. /\ took'[r][b] = took[r][b] + 1 /\ late'[r][b] = late[r][b] - 1
      /\ \A c \in Batch : c # b => took'[r][c] = took[r][c] /\ late'[r][c] = late[r][c]
      /\ \A c \in Batch : took[r][c] \in Nat /\ late[r][c] \in Nat
  BY <1>1, LateEffect, RouteType
<1>3. ASSUME NEW c \in Batch PROVE took'[r][c] + late'[r][c] = took[r][c] + late[r][c]
  <2>1. CASE c = b
    <3> DEFINE x == took[r][b]
               y == late[r][b]
    <3>1. x \in Nat /\ y \in Nat /\ took'[r][c] = x + 1 /\ late'[r][c] = y - 1
      BY <1>2, <2>1
    <3>2. took[r][c] + late[r][c] = x + y
      BY <2>1
    <3> HIDE DEF x, y
    <3> QED
      BY <3>1, <3>2
  <2>2. CASE c # b
    BY <1>2, <2>2
  <2> QED
    BY <2>1, <2>2
<1>4. HandOK(r)' /\ SumOK(r)'
  BY <1>1 DEF RouteInv, HandOK, SumOK, InHand
<1>5. OrderOK(r)'
  <2>1. Requested(r)' = Requested(r)
    BY <1>3 DEF Requested, Times
  <2> QED
    BY <1>1, <2>1 DEF RouteInv, OrderOK
<1>6. SentOK(r)'
  <2>1. Seen(r)' = Seen(r) \cup {b}
    <3>1. took'[r][b] > 0
      BY <1>2
    <3> QED
      BY <1>2, <3>1 DEF Seen
  <2>2. IsFiniteSet(Seen(r)) /\ IsFiniteSet(Seen(r) \cup {b}) /\ sent[r] \in Nat
    BY <1>1, RouteType, FS_AddElement
  <2> DEFINE S == Seen(r) \ {cur[r]}
             T == (Seen(r) \cup {b}) \ {cur[r]}
  <2>3. IsFiniteSet(T) /\ S \in SUBSET T
    BY <2>2, FS_Subset
  <2>4. Cardinality(S) <= Cardinality(T) /\ Cardinality(S) \in Nat /\ Cardinality(T) \in Nat
    BY <2>3, FS_Subset, FS_CardinalityType
  <2>5. sent[r] <= Cardinality(S)
    BY <1>1 DEF RouteInv, SentOK
  <2>6. sent[r] <= Cardinality(T)
    <3> HIDE DEF S, T
    <3> QED
      BY <2>2, <2>4, <2>5
  <2>7. sent'[r] <= Cardinality(Seen(r)' \ {cur'[r]})
    BY <1>1, <2>1, <2>6
  <2> QED
    BY <1>1, <2>1, <2>7 DEF RouteInv, SentOK
<1>7. RetryOK(r)'
  <2>1. \A c \in Batch : Times(r, c)' <= RetryMax + 2
    BY <1>1, <1>3 DEF RouteInv, RetryOK, Times
  <2>2. Allowed(r)' = Allowed(r)
    BY <1>1 DEF Allowed
  <2>3. ASSUME cur[r] # 0 PROVE took'[r][cur[r]] + late'[r][cur[r]] <= Allowed(r)
    <3>1. cur[r] \in Batch
      BY <1>1, <2>3, RouteType
    <3> QED
      BY <1>1, <1>3, <2>3, <3>1 DEF RouteInv, RetryOK, Times
  <2>4. cur' = cur
    BY <1>1
  <2> QED
    BY <2>1, <2>2, <2>3, <2>4 DEF RetryOK, Times
<1> QED
  BY <1>4, <1>5, <1>6, <1>7 DEF RouteInv

\* An end that puts nothing more on the wire.
LEMMA SameIsNear ==
    ASSUME NEW r \in Routes, TypeOK, RouteInv(r), cur[r] # 0, SameWire(r)
    PROVE  NearWire(r) /\ took'[r][cur[r]] + late'[r][cur[r]] <= RetryMax + 2
<1>1. cur[r] \in Batch
  BY RouteType
<1>2. Times(r, cur[r]) <= RetryMax + 2
  BY <1>1 DEF RouteInv, RetryOK
<1> QED
  BY <1>2 DEF SameWire, NearWire, Times

\* drain_remaining takes a batch off the queue, to abandon or to send it.
LEMMA DrainStep ==
    ASSUME PInv, TypeOK', NEW r \in Routes, DrainNext(r)
    PROVE  RouteInv(r)'
<1>1. /\ TypeOK /\ RouteInv(r) /\ w[r] = "drain"
      /\ UNCHANGED <<offered, closed, attempt, sent, failed, dropped, took, late>>
      /\ queue'[r] = QueueBehind(r) /\ SameWire(r)
  BY DEF PInv, TypeOK, DrainNext, metrics, upstream, SameWire
<1>2. /\ offered[r] \in Nat /\ cur[r] \in Nat /\ abandoned[r] \in Nat
      /\ queue[r] \in Batches /\ Len(queue[r]) \in Nat /\ Requested(r) \in SUBSET Nat
      /\ sent[r] \in Nat /\ failed[r] \in Nat /\ dropped[r] \in Nat
  BY <1>1, RouteType
<1>3. CASE deadline[r]
  <2>1. cur'[r] = 0 /\ abandoned'[r] = abandoned[r] + 1 /\ UNCHANGED <<w, taken>>
    BY <1>1, <1>3 DEF DrainNext, TypeOK, Inc
  <2>2. HandOK(r)'
    BY <1>1, <2>1 DEF RouteInv, HandOK
  <2>3. CASE cur[r] # 0
    <3>1. queue'[r] = queue[r]
      BY <1>1, <2>3 DEF QueueBehind
    <3>2. sent'[r] + failed'[r] + dropped'[r] + abandoned'[r]
             = sent[r] + failed[r] + dropped[r] + abandoned[r] + 1
      <4> DEFINE n == sent[r] + failed[r] + dropped[r]
      <4>1. sent' = sent /\ failed' = failed /\ dropped' = dropped
        BY <1>1
      <4>2. n \in Nat
        BY <1>2
      <4>3. sent'[r] + failed'[r] + dropped'[r] = n
        BY <4>1
      <4> HIDE DEF n
      <4>4. n + (abandoned[r] + 1) = n + abandoned[r] + 1
        BY <1>2, <4>2
      <4>5. sent'[r] + failed'[r] + dropped'[r] + abandoned'[r] = n + (abandoned[r] + 1)
        BY <2>1, <4>3
      <4> QED
        BY <4>4, <4>5 DEF n
    <3> QED
      BY <1>1, <2>1, <2>2, <2>3, <3>1, <3>2, SameIsNear, Settles
  <2>4. CASE cur[r] = 0
    <3>1. queue'[r] = Tail(queue[r]) /\ queue[r] # <<>>
      BY <1>1, <2>4 DEF QueueBehind, DrainNext
    <3>2. /\ Tail(queue[r]) \in Batches /\ Head(queue[r]) \in Nat
          /\ Len(queue'[r]) = Len(queue[r]) - 1
      <4>1. Head(queue[r]) \in Batch /\ Tail(queue[r]) \in Batches
            /\ Len(queue'[r]) = Len(queue[r]) - 1
        BY <1>2, <3>1 DEF Batches
      <4> QED
        BY <4>1, BatchNat
    <3>3. Ordered(offered[r], Head(queue[r]), Tail(queue[r]), Requested(r))
      BY <1>1, <1>2, <2>4, <3>1, OrderTake DEF RouteInv, OrderOK
    <3>0. /\ Seen(r)' = Seen(r) /\ Requested(r)' = Requested(r)
          /\ \A b \in Batch : Times(r, b)' = Times(r, b)
      BY <1>1, SameRequests
    <3>4. OrderOK(r)'
      BY <1>1, <1>2, <2>1, <3>0, <3>1, <3>2, <3>3, OrderSettle DEF OrderOK
    <3>5. SentOK(r)' /\ RetryOK(r)'
      BY <1>1, <2>1, <2>4, <3>0 DEF RouteInv, SentOK, RetryOK
    <3>6. SumOK(r)'
      <4>1. InHand(r) = 0 /\ InHand(r)' = 0
        BY <2>1, <2>4 DEF InHand
      <4> DEFINE n == Len(queue[r])
                 m == sent[r] + failed[r] + dropped[r]
                 k == abandoned[r]
                 o == offered[r]
      <4>2. n \in Nat /\ m \in Nat /\ k \in Nat /\ o \in Nat /\ m + n + k + 0 = o
        BY <1>1, <1>2, <4>1 DEF RouteInv, SumOK
      <4>3. m + (n - 1) + (k + 1) + 0 = o
        <5> HIDE DEF n, m, k, o
        <5> QED
          BY ONLY <4>2
      <4> QED
        BY <1>1, <2>1, <3>2, <4>1, <4>3 DEF SumOK
    <3> QED
      BY <2>2, <3>4, <3>5, <3>6 DEF RouteInv
  <2> QED
    BY <2>3, <2>4
<1>4. CASE ~ deadline[r]
  <2>1. /\ cur'[r] = NextToDrain(r) /\ w'[r] = "drainExport" /\ ~ taken'[r]
        /\ abandoned' = abandoned
    BY <1>1, <1>4 DEF DrainNext, TypeOK
  <2>2. SameCounts(r) /\ RetryMax \in Nat
    BY <1>1, <2>1, ProxyAssumption DEF SameCounts
  <2>3. Allowed(r)' = RetryMax + 1
    BY <2>1, <2>2 DEF Allowed
  <2>4. CASE cur[r] # 0
    <3>1. SameHand(r)
      BY <1>1, <2>1, <2>4 DEF SameHand, NextToDrain, QueueBehind
    <3>2. HandOK(r)'
      BY <1>1, <2>1, <2>4, <3>1 DEF RouteInv, HandOK, SameHand
    <3>3. Times(r, cur[r]) <= RetryMax + 1
      BY <1>1, <2>4 DEF RouteInv, RetryOK, Allowed
    <3> QED
      BY <1>1, <2>1, <2>2, <2>3, <3>1, <3>2, <3>3, MovesOn
  <2>5. CASE cur[r] = 0
    <3>1. /\ queue[r] # <<>> /\ cur'[r] = Head(queue[r]) /\ queue'[r] = Tail(queue[r])
          /\ Head(queue[r]) # 0
      <4>1. queue[r] # <<>> /\ cur'[r] = Head(queue[r]) /\ queue'[r] = Tail(queue[r])
        BY <1>1, <2>1, <2>5 DEF DrainNext, NextToDrain, QueueBehind
      <4>2. Head(queue[r]) \in Batch
        BY <1>2, <4>1 DEF Batches
      <4> QED
        BY <4>1, <4>2, BatchNat
    <3>2. HandOK(r)'
      BY <1>1, <2>1, <3>1 DEF RouteInv, HandOK
    <3> QED
      BY <1>1, <2>1, <2>2, <2>3, <2>5, <3>1, <3>2, TakesNext
  <2> QED
    BY <2>4, <2>5
<1> QED
  BY <1>3, <1>4

\* The steps of a route,
RouteStep(r) ==
    \/ Notify(r) \/ WorkerStep(r) \/ Answer(r) \/ UpstreamTakes(r) \/ DrainDeadline(r)
    \/ \E b \in Batch : UpstreamTakesLate(r, b)

\* one case per action.
LEMMA PRouteStep ==
    ASSUME PInv, TypeOK', NEW r \in Routes,
           RouteStep(r)
    PROVE  RouteInv(r)'
<1>a. TypeOK /\ RouteInv(r)
  BY DEF PInv
<1>b. /\ RetryMax \in Nat /\ attempt[r] \in 0..RetryMax /\ cur[r] \in Nat
      /\ sent[r] \in Nat /\ failed[r] \in Nat /\ dropped[r] \in Nat /\ abandoned[r] \in Nat
      /\ w[r] \in Worker
  BY <1>a, RouteType, ProxyAssumption DEF TypeOK
<1>c. cur[r] # 0 => Times(r, cur[r]) <= Allowed(r)
  BY <1>a, <1>b DEF RouteInv, RetryOK
<1>1. CASE Recv(r)
  <2>1. /\ w[r] = "recv" /\ w'[r] = "attempt" /\ cur'[r] = Head(queue[r]) /\ queue'[r] = Tail(queue[r])
        /\ queue[r] # <<>> /\ attempt'[r] = 0 /\ SameWire(r)
        /\ closed' = closed /\ abandoned' = abandoned
    BY <1>1, <1>a DEF Recv, TypeOK, upstream, SameWire
  <2>2. SameCounts(r)
    BY <1>1, <1>a DEF Recv, SameCounts, metrics
  <2>3. cur[r] = 0
    BY <1>a, <2>1 DEF RouteInv, HandOK
  <2>4. HandOK(r)'
    <3>1. Head(queue[r]) # 0
      <4>1. queue[r] \in Seq(Batch)
        BY <1>a, RouteType DEF Batches
      <4>2. Head(queue[r]) \in Batch
        BY <2>1, <4>1
      <4> QED
        BY <4>2, BatchNat
    <3> QED
      BY <1>a, <2>1, <3>1 DEF RouteInv, HandOK
  <2>5. Allowed(r)' = 0
    BY <2>1 DEF Allowed
  <2> QED
    BY <1>a, <2>1, <2>2, <2>3, <2>4, <2>5, TakesNext
<1>2. CASE RecvShutdown(r)
  <2>1. w[r] = "recv" /\ w'[r] = "close" /\ SameCounts(r) /\ SameHand(r) /\ closed' = closed
    BY <1>2, <1>a DEF RecvShutdown, TypeOK, SameCounts, SameHand, metrics, SameWire, upstream
  <2>2. cur[r] = 0 /\ HandOK(r)'
    BY <1>a, <2>1 DEF RouteInv, HandOK, SameHand, SameCounts
  <2> QED
    BY <1>a, <2>1, <2>2, MovesOn
<1>3. CASE Attempt(r)
  <2>1. /\ w[r] = "attempt" /\ w'[r] = "export" /\ ~ taken'[r] /\ attempt' = attempt /\ closed' = closed
        /\ SameCounts(r) /\ SameHand(r)
    BY <1>3, <1>a DEF Attempt, TypeOK, SameCounts, SameHand, metrics, SameWire, upstream
  <2>2. HandOK(r)'
    BY <1>a, <2>1 DEF RouteInv, HandOK, SameHand, SameCounts
  <2>3. Allowed(r)' = Allowed(r)
    BY <1>b, <2>1 DEF Allowed
  <2> QED
    BY <1>a, <1>c, <2>1, <2>2, <2>3, MovesOn
<1>4. CASE BackoffEnd(r)
  <2>1. /\ w[r] = "backoff" /\ w'[r] = "attempt" /\ attempt' = attempt /\ closed' = closed
        /\ SameCounts(r) /\ SameHand(r)
    BY <1>4, <1>a DEF BackoffEnd, TypeOK, SameCounts, SameHand, metrics, SameWire, upstream
  <2>2. HandOK(r)'
    BY <1>a, <2>1 DEF RouteInv, HandOK, SameHand, SameCounts
  <2>3. Allowed(r)' = Allowed(r)
    BY <1>b, <2>1 DEF Allowed
  <2> QED
    BY <1>a, <1>c, <2>1, <2>2, <2>3, MovesOn
<1>5. CASE Interrupt(r)
  <2>1. /\ w[r] \in {"attempt", "export", "backoff"} /\ w'[r] = "close" /\ closed' = closed
        /\ SameCounts(r) /\ queue' = queue /\ cur' = cur
    BY <1>5, <1>a DEF Interrupt, TypeOK, SameCounts, metrics
  <2>2. HandOK(r)' /\ cur[r] # 0
    BY <1>a, <2>1 DEF RouteInv, HandOK, SameCounts
  <2>3. Allowed(r)' = RetryMax + 1
    BY <2>1 DEF Allowed
  <2>4. CASE w[r] = "export"
    <3>1. NearWire(r) /\ took'[r][cur[r]] + late'[r][cur[r]] <= attempt[r] + 1
      BY <1>5, <2>4, GivesUp DEF Interrupt
    <3>2. took'[r][cur[r]] + late'[r][cur[r]] <= RetryMax + 1
      <4>1. cur[r] \in Batch
        BY <2>4, InHandType
      <4>2. took'[r][cur[r]] \in Nat /\ late'[r][cur[r]] \in Nat
        BY <4>1 DEF TypeOK
      <4> DEFINE x == took'[r][cur[r]]
                 y == late'[r][cur[r]]
                 a == attempt[r]
      <4>3. x \in Nat /\ y \in Nat /\ a \in 0..RetryMax /\ RetryMax \in Nat /\ x + y <= a + 1
        BY <1>b, <3>1, <4>2
      <4> HIDE DEF x, y, a
      <4>4. x + y <= RetryMax + 1
        BY ONLY <4>3
      <4> QED
        BY <4>4 DEF x, y
    <3> QED
      BY <1>a, <1>b, <2>1, <2>2, <2>3, <3>1, <3>2, TurnsAway
  <2>5. CASE w[r] # "export"
    <3>1. SameHand(r)
      BY <1>5, <2>1, <2>5 DEF Interrupt, upstream, SameHand, SameWire
    <3>2. Allowed(r) = attempt[r]
      BY <2>1, <2>5 DEF Allowed
    <3>3. Times(r, cur[r]) \in Nat
      <4>1. cur[r] \in Batch
        BY <2>1, InHandType
      <4> QED
        BY <1>a, <4>1, RouteType
    <3>4. Times(r, cur[r]) <= RetryMax + 1
      <4> DEFINE x == Times(r, cur[r])
                 a == attempt[r]
      <4>1. x \in Nat /\ a \in 0..RetryMax /\ RetryMax \in Nat /\ x <= a
        BY <1>b, <1>c, <2>2, <3>2, <3>3
      <4> HIDE DEF x, a
      <4>2. x <= RetryMax + 1
        BY ONLY <4>1
      <4> QED
        BY <4>2 DEF x
    <3> QED
      BY <1>a, <2>1, <2>2, <2>3, <3>1, <3>4, MovesOn
  <2> QED
    BY <2>4, <2>5
<1>6. CASE Close(r)
  <2>1. /\ w[r] = "close" /\ w'[r] = "drain" /\ closed'[r]
        /\ SameCounts(r) /\ SameHand(r)
    BY <1>6, <1>a DEF Close, TypeOK, SameCounts, SameHand, metrics, SameWire, upstream
  <2>2. HandOK(r)'
    BY <1>a, <2>1 DEF RouteInv, HandOK, SameHand, SameCounts
  <2>3. Allowed(r)' = Allowed(r)
    BY <1>b, <2>1 DEF Allowed
  <2> QED
    BY <1>a, <1>c, <2>1, <2>2, <2>3, MovesOn
<1>7. CASE DrainCancelled(r)
  <2>1. /\ w[r] = "drainExport" /\ w'[r] = "drain" /\ cur'[r] = 0 /\ abandoned'[r] = abandoned[r] + 1
        /\ UNCHANGED <<offered, queue, closed, sent, failed, dropped>>
    BY <1>7, <1>a DEF DrainCancelled, Settle, Inc, TypeOK, metrics
  <2>2. cur[r] # 0 /\ HandOK(r)'
    BY <1>a, <2>1 DEF RouteInv, HandOK
  <2>3. sent'[r] + failed'[r] + dropped'[r] + abandoned'[r] = sent[r] + failed[r] + dropped[r] + abandoned[r] + 1
    BY <1>b, <2>1
  <2>4. NearWire(r) /\ took'[r][cur[r]] + late'[r][cur[r]] <= RetryMax + 2
    BY <1>7, <2>1, GivesUp DEF DrainCancelled
  <2> QED
    BY <1>a, <2>1, <2>2, <2>3, <2>4, Settles
<1>8. CASE DrainEnd(r)
  <2>1. /\ w[r] = "drain" /\ w'[r] = "stopped" /\ cur[r] = 0 /\ queue[r] = <<>>
        /\ dropped'[r] = dropped[r] + abandoned[r] /\ abandoned'[r] = 0
        /\ UNCHANGED <<offered, queue, closed, cur, sent, failed>> /\ SameWire(r)
    BY <1>8, <1>a DEF DrainEnd, TypeOK, upstream, SameWire
  <2>0. /\ Seen(r)' = Seen(r) /\ Requested(r)' = Requested(r)
        /\ \A b \in Batch : Times(r, b)' = Times(r, b)
    BY <2>1, SameRequests
  <2>2. HandOK(r)' /\ OrderOK(r)' /\ SentOK(r)' /\ RetryOK(r)'
    <3>1. HandOK(r)'
      BY <1>a, <2>1 DEF RouteInv, HandOK
    <3>2. OrderOK(r)' /\ SentOK(r)'
      BY <1>a, <2>0, <2>1 DEF RouteInv, OrderOK, SentOK
    <3>3. RetryOK(r)'
      BY <1>a, <2>0, <2>1 DEF RouteInv, RetryOK
    <3> QED
      BY <3>1, <3>2, <3>3
  <2>3. SumOK(r)'
    <3>1. InHand(r) = 0 /\ InHand(r)' = 0 /\ Len(queue[r]) = 0 /\ offered[r] \in Nat
      BY <1>a, <2>1, RouteType DEF InHand
    <3>2. sent[r] + failed[r] + dropped[r] + 0 + abandoned[r] + 0 = offered[r]
      BY <1>a, <3>1 DEF RouteInv, SumOK
    <3>3. sent[r] + failed[r] + (dropped[r] + abandoned[r]) + 0 + 0 + 0 = offered[r]
      BY <1>b, <3>2
    <3> QED
      BY <2>1, <3>1, <3>3 DEF SumOK
  <2> QED
    BY <2>2, <2>3 DEF RouteInv
<1>9. CASE ExportOk(r)
  <2>1. /\ w[r] = "export" /\ w'[r] = "recv" /\ cur'[r] = 0 /\ sent'[r] = sent[r] + 1 /\ taken[r]
        /\ UNCHANGED <<offered, queue, closed, abandoned, failed, dropped>> /\ SameWire(r)
    BY <1>9, <1>a DEF ExportOk, Settle, Inc, TypeOK, upstream, SameWire
  <2>2. cur[r] # 0 /\ HandOK(r)' /\ cur[r] \in Seen(r)
    BY <1>a, <2>1 DEF RouteInv, HandOK, SentOK
  <2>3. sent'[r] + failed'[r] + dropped'[r] + abandoned'[r] = sent[r] + failed[r] + dropped[r] + abandoned[r] + 1
    BY <1>b, <2>1
  <2> QED
    BY <1>a, <2>1, <2>2, <2>3, SameIsNear, Settles
<1>10. CASE DrainOk(r)
  <2>1. /\ w[r] = "drainExport" /\ w'[r] = "drain" /\ cur'[r] = 0 /\ sent'[r] = sent[r] + 1 /\ taken[r]
        /\ UNCHANGED <<offered, queue, closed, abandoned, failed, dropped>> /\ SameWire(r)
    BY <1>10, <1>a DEF DrainOk, Settle, Inc, TypeOK, upstream, SameWire
  <2>2. cur[r] # 0 /\ HandOK(r)' /\ cur[r] \in Seen(r)
    BY <1>a, <2>1 DEF RouteInv, HandOK, SentOK
  <2>3. sent'[r] + failed'[r] + dropped'[r] + abandoned'[r] = sent[r] + failed[r] + dropped[r] + abandoned[r] + 1
    BY <1>b, <2>1
  <2> QED
    BY <1>a, <2>1, <2>2, <2>3, SameIsNear, Settles
<1>11. CASE DrainFail(r)
  <2>1. /\ w[r] = "drainExport" /\ w'[r] = "drain" /\ cur'[r] = 0 /\ failed'[r] = failed[r] + 1
        /\ UNCHANGED <<offered, queue, closed, abandoned, sent, dropped>>
    BY <1>11, <1>a DEF DrainFail, Settle, Inc, TypeOK
  <2>2. cur[r] # 0 /\ HandOK(r)'
    BY <1>a, <2>1 DEF RouteInv, HandOK
  <2>3. sent'[r] + failed'[r] + dropped'[r] + abandoned'[r] = sent[r] + failed[r] + dropped[r] + abandoned[r] + 1
    BY <1>b, <2>1
  <2>4. NearWire(r) /\ took'[r][cur[r]] + late'[r][cur[r]] <= RetryMax + 2
    BY <1>11, <2>1, GivesUp DEF DrainFail
  <2> QED
    BY <1>a, <2>1, <2>2, <2>3, <2>4, Settles
<1>12. ASSUME NEW f \in Failures, ExportRetry(r, f) PROVE RouteInv(r)'
  <2>1. /\ w[r] = "export" /\ w'[r] = "backoff" /\ attempt'[r] = attempt[r] + 1 /\ closed' = closed
        /\ SameCounts(r) /\ queue' = queue /\ cur' = cur /\ attempt[r] < RetryMax
    BY <1>12, <1>a DEF ExportRetry, Inc, TypeOK, SameCounts, metrics
  <2>2. HandOK(r)' /\ cur[r] # 0
    BY <1>a, <2>1 DEF RouteInv, HandOK, SameCounts
  <2>3. Allowed(r)' = attempt[r] + 1 /\ attempt[r] + 1 \in Nat /\ attempt[r] + 1 <= RetryMax + 2
    BY <1>b, <2>1 DEF Allowed
  <2>4. NearWire(r) /\ took'[r][cur[r]] + late'[r][cur[r]] <= attempt[r] + 1
    BY <1>12, <2>1, GivesUp DEF ExportRetry
  <2> QED
    BY <1>a, <2>1, <2>2, <2>3, <2>4, TurnsAway
<1>13. ASSUME NEW f \in Failures, ExportFail(r, f) PROVE RouteInv(r)'
  <2>1. /\ w[r] = "export" /\ w'[r] = "recv" /\ cur'[r] = 0 /\ failed'[r] = failed[r] + 1
        /\ UNCHANGED <<offered, queue, closed, abandoned, sent, dropped>>
    BY <1>13, <1>a DEF ExportFail, Settle, Inc, TypeOK
  <2>2. cur[r] # 0 /\ HandOK(r)'
    BY <1>a, <2>1 DEF RouteInv, HandOK
  <2>3. sent'[r] + failed'[r] + dropped'[r] + abandoned'[r] = sent[r] + failed[r] + dropped[r] + abandoned[r] + 1
    BY <1>b, <2>1
  <2>4. NearWire(r) /\ took'[r][cur[r]] + late'[r][cur[r]] <= attempt[r] + 1
    BY <1>13, <2>1, GivesUp DEF ExportFail
  <2>5. took'[r][cur[r]] + late'[r][cur[r]] <= RetryMax + 2
    <3>1. cur[r] \in Batch
      BY <2>1, InHandType
    <3>2. took'[r][cur[r]] \in Nat /\ late'[r][cur[r]] \in Nat
      BY <3>1 DEF TypeOK
    <3> DEFINE x == took'[r][cur[r]]
               y == late'[r][cur[r]]
               a == attempt[r]
    <3>3. x \in Nat /\ y \in Nat /\ a \in 0..RetryMax /\ RetryMax \in Nat /\ x + y <= a + 1
      BY <1>b, <2>4, <3>2
    <3> HIDE DEF x, y, a
    <3>4. x + y <= RetryMax + 2
      BY ONLY <3>3
    <3> QED
      BY <3>4 DEF x, y
  <2> QED
    BY <1>a, <2>1, <2>2, <2>3, <2>4, <2>5, Settles
<1>14. CASE DrainDeadline(r)
  BY <1>14, <1>a, Elsewhere DEF DrainDeadline, worker, metrics, upstream, SameCounts, SameHand, SameWire
<1> QED
  BY <1>1, <1>2, <1>3, <1>4, <1>5, <1>6, <1>7, <1>8, <1>9, <1>10, <1>11, <1>12, <1>13, <1>14,
     NotifyStep, TakesStep, LateStep, DrainStep
     DEF RouteStep, WorkerStep, Answer

Untouched(r) ==
    /\ SameCounts(r) /\ SameHand(r) /\ closed'[r] = closed[r]
    /\ w'[r] = w[r] /\ attempt'[r] = attempt[r] /\ taken'[r] = taken[r]

\* A route's step leaves every other route alone.
LEMMA OneRoute ==
    ASSUME PInv, NEW x \in Routes, NEW r \in Routes, r # x, RouteStep(x)
    PROVE  Untouched(r)
<1>0. TypeOK
  BY DEF PInv
<1> USE <1>0 DEF TypeOK, Untouched, SameCounts, SameHand, SameWire, upstream
<1>1. CASE Notify(x)
  BY <1>1 DEF Notify, Inc, worker
<1>2. CASE Recv(x)
  BY <1>2 DEF Recv, metrics
<1>3. CASE RecvShutdown(x)
  BY <1>3 DEF RecvShutdown, metrics
<1>4. CASE Attempt(x)
  BY <1>4 DEF Attempt, metrics
<1>5. CASE BackoffEnd(x)
  BY <1>5 DEF BackoffEnd, metrics
<1>6. CASE Interrupt(x)
  <2>1. took'[r] = took[r] /\ late'[r] = late[r]
    <3>1. CASE w[x] = "export"
      BY <1>6, <3>1, InHandType, GiveUpEffect DEF Interrupt
    <3>2. CASE w[x] # "export"
      BY <1>6, <3>2 DEF Interrupt
    <3> QED
      BY <3>1, <3>2
  <2> QED
    BY <1>6, <2>1 DEF Interrupt, metrics
<1>7. CASE Close(x)
  BY <1>7 DEF Close, metrics
<1>8. CASE DrainNext(x)
  <2>1. /\ queue' = [queue EXCEPT ![x] = QueueBehind(x)]
        /\ UNCHANGED <<offered, closed, attempt, sent, failed, dropped, took, late>>
    BY <1>8 DEF DrainNext, metrics
  <2>2. CASE deadline[x]
    <3>1. /\ abandoned' = [abandoned EXCEPT ![x] = @ + 1] /\ cur' = [cur EXCEPT ![x] = 0]
          /\ UNCHANGED <<w, taken>>
      BY <1>8, <2>2 DEF DrainNext, Inc
    <3> QED
      BY <2>1, <3>1
  <2>3. CASE ~ deadline[x]
    <3>1. /\ cur' = [cur EXCEPT ![x] = NextToDrain(x)] /\ w' = [w EXCEPT ![x] = "drainExport"]
          /\ taken' = [taken EXCEPT ![x] = FALSE] /\ abandoned' = abandoned
      BY <1>8, <2>3 DEF DrainNext
    <3> QED
      BY <2>1, <3>1
  <2> QED
    BY <2>2, <2>3
<1>9. CASE DrainCancelled(x)
  <2>1. took'[r] = took[r] /\ late'[r] = late[r]
    BY <1>9, InHandType, GiveUpEffect DEF DrainCancelled
  <2> QED
    BY <1>9, <2>1 DEF DrainCancelled, Settle, Inc, metrics
<1>10. CASE DrainEnd(x)
  BY <1>10 DEF DrainEnd
<1>11. CASE ExportOk(x)
  BY <1>11 DEF ExportOk, Settle, Inc
<1>12. CASE DrainOk(x)
  BY <1>12 DEF DrainOk, Settle, Inc
<1>13. CASE DrainFail(x)
  <2>1. took'[r] = took[r] /\ late'[r] = late[r]
    BY <1>13, InHandType, GiveUpEffect DEF DrainFail
  <2> QED
    BY <1>13, <2>1 DEF DrainFail, Settle, Inc
<1>14. CASE UpstreamTakes(x)
  <2>1. took'[r] = took[r] /\ late' = late
    BY <1>14, InHandType, TakesEffect DEF UpstreamTakes
  <2> QED
    BY <1>14, <2>1 DEF UpstreamTakes, metrics
<1>18. ASSUME NEW b \in Batch, UpstreamTakesLate(x, b) PROVE Untouched(r)
  <2>1. took'[r] = took[r] /\ late'[r] = late[r]
    BY <1>18, LateEffect
  <2> QED
    BY <1>18, <2>1 DEF UpstreamTakesLate, worker, metrics
<1>15. CASE DrainDeadline(x)
  BY <1>15 DEF DrainDeadline, worker, metrics
<1>16. ASSUME NEW f \in Failures, ExportRetry(x, f) PROVE Untouched(r)
  <2>1. took'[r] = took[r] /\ late'[r] = late[r]
    BY <1>16, InHandType, GiveUpEffect DEF ExportRetry
  <2> QED
    BY <1>16, <2>1 DEF ExportRetry, Inc, metrics
<1>17. ASSUME NEW f \in Failures, ExportFail(x, f) PROVE Untouched(r)
  <2>1. took'[r] = took[r] /\ late'[r] = late[r]
    BY <1>17, InHandType, GiveUpEffect DEF ExportFail
  <2> QED
    BY <1>17, <2>1 DEF ExportFail, Settle, Inc
<1> QED
  BY <1>1, <1>2, <1>3, <1>4, <1>5, <1>6, <1>7, <1>8, <1>9,
     <1>10, <1>11, <1>12, <1>13, <1>14, <1>15, <1>16, <1>17, <1>18
     DEF RouteStep, WorkerStep, Answer
-----------------------------------------------------------------------------
LEMMA PInitInv == Init => PInv
<1> SUFFICES ASSUME Init PROVE PInv
  OBVIOUS
<1>1. TypeOK
  <2>1. closed \in [Routes -> BOOLEAN] /\ taken \in [Routes -> BOOLEAN] /\ deadline \in [Routes -> BOOLEAN]
    BY DEF Init
  <2>2. shutdown \in BOOLEAN
    BY DEF Init
  <2>3. <<>> \in Seq(Batch) /\ Len(<<>>) = 0
    OBVIOUS
  <2>4. took \in [Routes -> [Batch -> Nat]] /\ late \in [Routes -> [Batch -> Nat]]
    BY DEF Init
  <2>5. 0 \in 0..RetryMax /\ 0 <= Capacity
    BY ProxyAssumption
  <2> QED
    BY <2>1, <2>2, <2>3, <2>4, <2>5 DEF Init, TypeOK, Worker
<1>2. ASSUME NEW r \in Routes PROVE RouteInv(r)
  <2>1. /\ offered[r] = 0 /\ queue[r] = <<>> /\ cur[r] = 0 /\ w[r] = "recv"
        /\ abandoned[r] = 0 /\ sent[r] = 0 /\ failed[r] = 0 /\ dropped[r] = 0
        /\ \A b \in Batch : took[r][b] = 0 /\ late[r][b] = 0
    BY DEF Init
  <2>2. Requested(r) = {} /\ Seen(r) = {} /\ \A b \in Batch : Times(r, b) = 0
    BY <2>1 DEF Requested, Seen, Times
  <2>3. HandOK(r) /\ OrderOK(r) /\ SumOK(r)
    BY <2>1, <2>2 DEF HandOK, OrderOK, Ordered, SumOK, InHand
  <2>4. SentOK(r)
    <3>1. Seen(r) \ {cur[r]} = {}
      BY <2>2
    <3>2. Cardinality(Seen(r) \ {cur[r]}) = 0
      BY <3>1, FS_EmptySet
    <3> QED
      BY <2>1, <3>2 DEF SentOK
  <2>5. RetryOK(r)
    BY <2>1, <2>2, ProxyAssumption DEF RetryOK
  <2> QED
    BY <2>3, <2>4, <2>5 DEF RouteInv
<1> QED
  BY <1>1, <1>2 DEF PInv

LEMMA PInductive == Spec => []PInv
<1>1. PInv /\ [Next]_vars => PInv'
  <2> SUFFICES ASSUME PInv, [Next]_vars PROVE PInv'
    OBVIOUS
  <2>1. TypeOK' /\ TypeOK
    BY PTypeStep DEF PInv
  <2>2. ASSUME NEW x \in Routes, RouteStep(x)
        PROVE  \A r \in Routes : RouteInv(r)'
    <3> TAKE r \in Routes
    <3>1. CASE r = x
      BY <2>1, <2>2, <3>1, PRouteStep
    <3>2. CASE r # x
      <4>1. Untouched(r)
        BY <2>1, <2>2, <3>2, OneRoute
      <4> QED
        BY <2>1, <4>1, Elsewhere DEF Untouched, PInv
    <3> QED
      BY <3>1, <3>2
  <2>3. CASE Shutdown \/ UNCHANGED vars
    <3> SUFFICES ASSUME NEW r \in Routes PROVE RouteInv(r)'
      BY <2>1 DEF PInv
    <3> QED
      BY <2>1, <2>3, Elsewhere DEF PInv, Shutdown, vars, worker, metrics, upstream, SameCounts, SameHand, SameWire
  <2> QED
    BY <2>1, <2>2, <2>3 DEF Next, RouteStep, PInv
<1> QED
  BY PInitInv, <1>1, PTL DEF Spec

\* What GET /stats shows for a route adds up to the batches it was offered, at
\* every moment and whatever the upstream does; the upstream has taken at least
\* what is counted as sent.
THEOREM AccountedTheorem == Spec => []Accounted
<1>1. PInv => Accounted
  <2> SUFFICES ASSUME PInv, NEW r \in Routes
               PROVE  /\ Snapshot(r).sent_total + Snapshot(r).failed_total + Snapshot(r).dropped_total
                            + Snapshot(r).queue_depth + abandoned[r] + InHand(r) = offered[r]
                      /\ w[r] = "stopped" => Snapshot(r).queue_depth = 0 /\ cur[r] = 0 /\ abandoned[r] = 0
                      /\ Snapshot(r).sent_total <= Cardinality(Seen(r))
    BY DEF Accounted
  <2>1. /\ RouteInv(r) /\ sent[r] \in Nat /\ Len(queue[r]) \in Nat /\ Capacity \in Nat
    BY RouteType, ProxyAssumption DEF PInv
  <2>2. /\ Snapshot(r).sent_total = sent[r] /\ Snapshot(r).failed_total = failed[r]
        /\ Snapshot(r).dropped_total = dropped[r] /\ Snapshot(r).queue_depth = Len(queue[r])
    BY <2>1 DEF Snapshot
  <2>3. sent[r] <= Cardinality(Seen(r))
    <3>1. IsFiniteSet(Seen(r)) /\ sent[r] <= Cardinality(Seen(r) \ {cur[r]})
      BY <2>1, RouteType DEF PInv, RouteInv, SentOK
    <3>2. /\ Cardinality(Seen(r) \ {cur[r]}) <= Cardinality(Seen(r))
          /\ IsFiniteSet(Seen(r) \ {cur[r]})
      BY <3>1, FS_Subset
    <3>3. Cardinality(Seen(r)) \in Nat /\ Cardinality(Seen(r) \ {cur[r]}) \in Nat
      BY <3>1, <3>2, FS_CardinalityType
    <3> QED
      BY <2>1, <3>1, <3>2, <3>3
  <2> QED
    BY <2>1, <2>2, <2>3 DEF RouteInv, HandOK, SumOK
<1> QED
  BY PInductive, <1>1, PTL

\* send_with_retry, the interruption and drain_remaining keep the order of a
\* route's batches up to the requests they have given up, and bound how often
\* the upstream can see one of them.
THEOREM OvertakenTheorem == Spec => []OnlyGivenUpOvertaken
<1>1. PInv => OnlyGivenUpOvertaken
  <2> SUFFICES ASSUME PInv, NEW r \in Routes, NEW b \in Batch
               PROVE  /\ \A c \in Seen(r) : b < c =>
                            b # cur[r] /\ \A i \in DOMAIN queue[r] : b # queue[r][i]
                      /\ took[r][b] + late[r][b] <= RetryMax + 2
    BY DEF OnlyGivenUpOvertaken
  <2>1. /\ OrderOK(r) /\ RetryOK(r) /\ queue[r] \in Batches /\ cur[r] \in Nat
        /\ \A c \in Batch : took[r][c] \in Nat /\ late[r][c] \in Nat
    BY RouteType DEF PInv, RouteInv
  <2>2. took[r][b] + late[r][b] <= RetryMax + 2
    BY <2>1 DEF RetryOK, Times
  <2>3. ASSUME NEW c \in Seen(r), b < c
        PROVE  b # cur[r] /\ \A i \in DOMAIN queue[r] : b # queue[r][i]
    <3>1. c \in Batch /\ c \in Requested(r) /\ c \in Nat /\ b \in Nat /\ b # 0
      <4>1. c \in Batch /\ took[r][c] > 0 /\ took[r][c] \in Nat /\ late[r][c] \in Nat
        BY <2>1 DEF Seen
      <4>2. took[r][c] + late[r][c] > 0
        BY <4>1
      <4> QED
        BY <4>1, <4>2, BatchNat DEF Requested, Times
    <3>2. cur[r] # 0 => c <= cur[r]
      BY <2>1, <3>1 DEF OrderOK, Ordered
    <3>3. /\ DOMAIN queue[r] = 1..Len(queue[r])
          /\ \A i \in 1..Len(queue[r]) : queue[r][i] \in Nat
      BY <2>1, BatchesNat
    <3>4. \A i \in 1..Len(queue[r]) : c < queue[r][i]
      BY <2>1, <3>1 DEF OrderOK, Ordered
    <3>5. b # cur[r]
      BY <2>1, <2>3, <3>1, <3>2
    <3>6. \A i \in 1..Len(queue[r]) : b # queue[r][i]
      BY <2>1, <2>3, <3>1, <3>3, <3>4
    <3> QED
      BY <3>3, <3>5, <3>6
  <2> QED
    BY <2>2, <2>3
<1> QED
  BY PInductive, <1>1, PTL
=============================================================================
