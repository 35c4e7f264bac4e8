--------------------------- MODULE ReceiverProofs ---------------------------
(***************************************************************************)
(* Slots are conserved, a sender that is told of a failure left no trace   *)
(* and a clean exit has synced what was acknowledged: for every finite set *)
(* of requests and every number of slots and waiting places. The invariant *)
(* has one part about each request, one about the slots and one about the  *)
(* stages of the shutdown.                                                 *)
(***************************************************************************)
EXTENDS Receiver, FiniteSetTheorems, TLAPS

Active == {"write", "publish", "end", "endErr"}
Lining == {"bounced", "joining", "queued"}

Queued == {x \in Requests : h[x] = "queued"}
InLine == {x \in Requests : h[x] \in Lining}
Holders == {x \in Requests : permit[x] # {}}

\* A request: who owns its permit, what its task has done, and what its sender
\* was told.
RequestOK(r) ==
    /\ h[r] \in {"idle", "enter", "bounced", "joining", "queued"} => permit[r] = {} /\ save[r] = "none"
    /\ h[r] \in {"reading", "locking"} => permit[r] = {"conn"} /\ save[r] = "none"
    /\ h[r] = "saving" => save[r] # "none"
    /\ "conn" \in permit[r] => h[r] \in {"reading", "locking", "saving"}
    /\ "task" \in permit[r] <=> save[r] \in Active
    /\ r \in guards <=> save[r] \in Active
    /\ r \in lines <=> save[r] \in {"publish", "end", "ok"}
    /\ r \in counted => r \in lines
    /\ resp[r] # "none" <=> h[r] = "answered"
    /\ resp[r] = "ok" => save[r] = "ok"
    /\ resp[r] \in {"retry", "reject"} => save[r] \in {"none", "err"}
    /\ fault[r] = "receiver" => resp[r] = "retry"

\* q holds every member of W once.
Line(q, W) ==
    /\ \A i \in 1..Len(q) : q[i] \in W
    /\ \A x \in W : \E i \in 1..Len(q) : q[i] = x
    /\ \A i, j \in 1..Len(q) : q[i] = q[j] => i = j

\* The semaphore: its queue is the waiters without a slot, and slots and
\* waiting places add up.
SlotsOK ==
    /\ granted \subseteq Queued
    /\ Line(queue, Queued \ granted)
    /\ queue # <<>> => avail = 0
    /\ avail + Cardinality(granted) + Cardinality(Holders) = MaxInflight
    /\ waiting = Cardinality(InLine)

\* The shutdown: no task is under way once the write lock was granted, and the
\* final sync covers the file from then on.
StageOK ==
    /\ stage \in {"locked", "flushed", "released", "stopped", "exit"} => guards = {}
    /\ stage \in {"flushed", "released", "stopped", "exit"} /\ result = "ok" => lines \subseteq synced

RInv ==
    /\ TypeOK
    /\ \A r \in Requests : RequestOK(r)
    /\ SlotsOK
    /\ StageOK
-----------------------------------------------------------------------------
(***************************************************************************)
(* Stages, counting and lines.                                             *)
(***************************************************************************)
\* The stage numbers, written out.
LEMMA SinceIs ==
    ASSUME TypeOK
    PROVE  /\ Since("closing") <=> stage \notin {"run", "drain"}
           /\ Since("released") <=> stage \in {"released", "stopped", "exit"}
           /\ Since("flushed") <=> stage \in {"flushed", "released", "stopped", "exit"}
           /\ stage \in {"run", "drain", "closing", "locked", "flushed", "released",
                         "stopped", "exit"}
<1>1. /\ StageNo("run") = 1 /\ StageNo("drain") = 2 /\ StageNo("closing") = 3
      /\ StageNo("locked") = 4 /\ StageNo("flushed") = 5 /\ StageNo("released") = 6
      /\ StageNo("stopped") = 7 /\ StageNo("exit") = 8
  BY DEF StageNo, Stages
<1>2. stage \in {"run", "drain", "closing", "locked", "flushed", "released", "stopped", "exit"}
  BY DEF TypeOK, Stages
<1> QED  BY <1>1, <1>2 DEF Since

\* Sets of requests are finite: one more, one fewer.
LEMMA Count ==
    ASSUME NEW S \in SUBSET Requests, NEW x \in Requests
    PROVE  /\ Cardinality(S) \in Nat
           /\ x \notin S => Cardinality(S \cup {x}) = Cardinality(S) + 1
           /\ x \in S => Cardinality(S \ {x}) = Cardinality(S) - 1
<1>1. IsFiniteSet(S)  BY ReceiverAssumption, FS_Subset
<1> QED  BY <1>1, FS_CardinalityType, FS_AddElement, FS_RemoveElement

\* A new waiter goes to the end of the line.
LEMMA LineAppend ==
    ASSUME NEW S, NEW q \in Seq(S), NEW W, NEW r \in S, r \notin W, Line(q, W)
    PROVE  Append(q, r) \in Seq(S) /\ Line(Append(q, r), W \cup {r})
<1>1. /\ Append(q, r) \in Seq(S)
      /\ Len(Append(q, r)) = Len(q) + 1
      /\ \A i \in 1..Len(q) : Append(q, r)[i] = q[i]
      /\ Append(q, r)[Len(q) + 1] = r
  OBVIOUS
<1>2. Len(q) \in Nat  OBVIOUS
<1> DEFINE t == Append(q, r)
<1> HIDE DEF t
<1>3. \A i \in 1..(Len(q) + 1) : i \in 1..Len(q) \/ i = Len(q) + 1  BY <1>2
<1>4. \A i \in 1..Len(t) : t[i] \in W \cup {r}  BY <1>1, <1>3 DEF t, Line
<1>5. \A x \in W \cup {r} : \E i \in 1..Len(t) : t[i] = x
  <2>1. ASSUME NEW x \in W  PROVE \E i \in 1..Len(t) : t[i] = x
    <3>1. PICK i \in 1..Len(q) : q[i] = x  BY DEF Line
    <3> QED  BY <1>1, <1>2, <3>1 DEF t
  <2>2. \E i \in 1..Len(t) : t[i] = r
    <3>1. Len(q) + 1 \in 1..Len(t)  BY <1>1, <1>2 DEF t
    <3> QED  BY <1>1, <3>1 DEF t
  <2> QED  BY <2>1, <2>2
<1>6. \A i, j \in 1..Len(t) : t[i] = t[j] => i = j
  BY <1>1, <1>3 DEF t, Line
<1> QED  BY <1>1, <1>4, <1>5, <1>6 DEF t, Line

\* The first of the line leaves it.
LEMMA LineTail ==
    ASSUME NEW S, NEW q \in Seq(S), NEW W, q # <<>>, Line(q, W)
    PROVE  /\ Head(q) \in S
           /\ Head(q) \in W
           /\ Tail(q) \in Seq(S)
           /\ Line(Tail(q), W \ {Head(q)})
<1>1. /\ Tail(q) \in Seq(S)
      /\ Len(Tail(q)) = Len(q) - 1
      /\ \A i \in 1..(Len(q) - 1) : Tail(q)[i] = q[i + 1]
      /\ Head(q) = q[1]
      /\ Len(q) \in Nat \ {0}
      /\ Head(q) \in S
  OBVIOUS
<1> DEFINE t == Tail(q)  e == Head(q)
<1> HIDE DEF t, e
<1>2. e \in W  BY <1>1 DEF Line, e
<1>3. \A i \in 1..Len(t) : t[i] \in W \ {e}
  <2> TAKE i \in 1..Len(t)
  <2>1. i + 1 \in 1..Len(q) /\ 1 \in 1..Len(q) /\ i + 1 # 1  BY <1>1 DEF t
  <2> QED  BY <1>1, <2>1 DEF Line, t, e
<1>4. \A x \in W \ {e} : \E i \in 1..Len(t) : t[i] = x
  <2> TAKE x \in W \ {e}
  <2>1. PICK k \in 1..Len(q) : q[k] = x  BY DEF Line
  <2>2. k # 1  BY <1>1, <2>1 DEF e
  <2>3. k - 1 \in 1..Len(t) /\ (k - 1) + 1 = k  BY <1>1, <2>2 DEF t
  <2> QED  BY <1>1, <2>1, <2>3 DEF t
<1>5. \A i, j \in 1..Len(t) : t[i] = t[j] => i = j
  <2> SUFFICES ASSUME NEW i \in 1..Len(t), NEW j \in 1..Len(t), t[i] = t[j]  PROVE i = j
    OBVIOUS
  <2>1. i + 1 \in 1..Len(q) /\ j + 1 \in 1..Len(q)  BY <1>1 DEF t
  <2>2. q[i + 1] = q[j + 1]  BY <1>1 DEF t
  <2>3. i + 1 = j + 1  BY <2>1, <2>2 DEF Line
  <2> QED  BY <2>3, <1>1 DEF t
<1> QED  BY <1>1, <1>2, <1>3, <1>4, <1>5 DEF Line, t, e

\* A waiter leaves the line from wherever it stands.
LEMMA LineWithout ==
    ASSUME NEW S, NEW q \in Seq(S), NEW W, NEW i \in 1..Len(q), Line(q, W)
    PROVE  LET t == [j \in 1..(Len(q) - 1) |-> q[IF j < i THEN j ELSE j + 1]]
           IN  t \in Seq(S) /\ Line(t, W \ {q[i]})
<1> DEFINE n == Len(q) - 1
           t == [j \in 1..n |-> q[IF j < i THEN j ELSE j + 1]]
<1>1. n \in Nat /\ Len(q) = n + 1 /\ i \in 1..(n + 1)  OBVIOUS
<1>2. \A j \in 1..(n + 1) : q[j] \in S  BY <1>1
<1> HIDE DEF n
<1>3. \A j \in 1..n : (IF j < i THEN j ELSE j + 1) \in 1..(n + 1)  BY <1>1
<1>4. t \in [1..n -> S]  BY <1>2, <1>3
<1>5. \A j \in 1..n : t[j] = q[IF j < i THEN j ELSE j + 1]  OBVIOUS
<1> HIDE DEF t
<1>6. t \in Seq(S) /\ Len(t) = n  BY <1>1, <1>4
<1>7. \A j \in 1..n : t[j] \in W \ {q[i]}
  <2> TAKE j \in 1..n
  <2>1. (IF j < i THEN j ELSE j + 1) # i  BY <1>1
  <2> QED  BY <1>1, <1>3, <1>5, <2>1 DEF Line
<1>8. \A x \in W \ {q[i]} : \E j \in 1..n : t[j] = x
  <2> TAKE x \in W \ {q[i]}
  <2>1. PICK k \in 1..(n + 1) : q[k] = x  BY <1>1 DEF Line
  <2>2. k # i  BY <2>1
  <2>3. CASE k < i
    <3>1. k \in 1..n  BY <1>1, <2>3
    <3> QED  BY <1>5, <2>1, <2>3, <3>1
  <2>4. CASE ~ (k < i)
    <3>1. k - 1 \in 1..n /\ ~ (k - 1 < i) /\ (k - 1) + 1 = k  BY <1>1, <2>2, <2>4
    <3>2. t[k - 1] = q[(k - 1) + 1]  BY <1>5, <3>1
    <3> QED  BY <2>1, <3>1, <3>2
  <2> QED  BY <2>3, <2>4
<1>9. \A j, k \in 1..n : t[j] = t[k] => j = k
  <2> SUFFICES ASSUME NEW j \in 1..n, NEW k \in 1..n, t[j] = t[k]  PROVE j = k
    OBVIOUS
  <2>1. (IF j < i THEN j ELSE j + 1) = (IF k < i THEN k ELSE k + 1)
    BY <1>1, <1>3, <1>5 DEF Line
  <2> QED  BY <1>1, <2>1
<1> QED  BY <1>1, <1>6, <1>7, <1>8, <1>9 DEF Line, t, n
-----------------------------------------------------------------------------
(***************************************************************************)
(* Slots.                                                                  *)
(***************************************************************************)
\* A slot that comes free: W are the waiters, g those of them who have one, n
\* the slots that are owned.
LEMMA ReleaseStep ==
    ASSUME NEW g, NEW W \in SUBSET Requests, NEW n \in Nat,
           queue \in Seq(Requests), avail \in Nat, g \subseteq W,
           Line(queue, W \ g), queue # <<>> => avail = 0,
           avail + Cardinality(g) + n + 1 = MaxInflight,
           ReleaseSlot(g)
    PROVE  /\ granted' \subseteq W
           /\ Line(queue', W \ granted')
           /\ queue' # <<>> => avail' = 0
           /\ avail' + Cardinality(granted') + n = MaxInflight
           /\ queue' \in Seq(Requests)
           /\ avail' \in Nat
<1>0. g \in SUBSET Requests /\ MaxInflight \in Nat  BY ReceiverAssumption
<1>1. CASE queue = <<>>
  <2>1. avail' = avail + 1 /\ granted' = g /\ queue' = queue  BY <1>1 DEF ReleaseSlot
  <2>2. Cardinality(granted') = Cardinality(g)  BY <2>1
  <2>3. Line(queue', W \ granted')  BY <2>1
  <2>4. Cardinality(g) \in Nat
    <3>1. CASE Requests = {}
      <4>1. g = {}  BY <1>0, <3>1
      <4> QED  BY <4>1, FS_EmptySet
    <3>2. CASE Requests # {}  BY <1>0, <3>2, Count
    <3> QED  BY <3>1, <3>2
  <2>5. avail' + Cardinality(granted') + n = MaxInflight  BY <2>1, <2>2, <2>4
  <2> QED  BY <1>1, <2>1, <2>3, <2>5
<1>2. CASE queue # <<>>
  <2>1. avail' = avail /\ granted' = g \cup {Head(queue)} /\ queue' = Tail(queue)
    BY <1>2 DEF ReleaseSlot
  <2>2. /\ Head(queue) \in Requests
        /\ Head(queue) \in W \ g
        /\ Tail(queue) \in Seq(Requests)
        /\ Line(Tail(queue), (W \ g) \ {Head(queue)})
    BY <1>2, LineTail
  <2> DEFINE e == Head(queue)
  <2> HIDE DEF e
  <2>3. W \ granted' = (W \ g) \ {e}  BY <2>1 DEF e
  <2>4. Line(queue', W \ granted')  BY <2>1, <2>2, <2>3 DEF e
  <2>5. Cardinality(g) \in Nat /\ Cardinality(g \cup {e}) = Cardinality(g) + 1
    BY <1>0, <2>2, Count DEF e
  <2>6. Cardinality(granted') = Cardinality(g) + 1  BY <2>1, <2>5 DEF e
  <2>7. avail' + Cardinality(granted') + n = MaxInflight  BY <2>1, <2>5, <2>6
  <2> QED  BY <1>2, <2>1, <2>2, <2>4, <2>7
<1> QED  BY <1>1, <1>2

\* What the sets of waiters and owners become when one request moves.
LEMMA OutOfLine ==
    ASSUME NEW r \in Requests, \A x \in Requests \ {r} : h'[x] = h[x],
           h[r] \notin Lining, h'[r] \notin Lining
    PROVE  Queued' = Queued /\ InLine' = InLine
<1>1. Queued' = Queued  BY DEF Queued, Lining
<1>2. InLine' = InLine  BY DEF InLine
<1> QED  BY <1>1, <1>2

LEMMA LeavesLine ==
    ASSUME NEW r \in Requests, \A x \in Requests \ {r} : h'[x] = h[x],
           h'[r] \notin Lining
    PROVE  Queued' = Queued \ {r} /\ InLine' = InLine \ {r}
<1>1. Queued' = Queued \ {r}  BY DEF Queued, Lining
<1>2. InLine' = InLine \ {r}  BY DEF InLine
<1> QED  BY <1>1, <1>2

LEMMA JoinsQueue ==
    ASSUME NEW r \in Requests, \A x \in Requests \ {r} : h'[x] = h[x],
           h[r] \in Lining, h'[r] = "queued"
    PROVE  Queued' = Queued \cup {r} /\ InLine' = InLine
<1>1. Queued' = Queued \cup {r}  BY DEF Queued
<1>2. InLine' = InLine  BY DEF InLine, Lining
<1> QED  BY <1>1, <1>2

LEMMA JoinsLine ==
    ASSUME NEW r \in Requests, \A x \in Requests \ {r} : h'[x] = h[x],
           h[r] \notin Lining, h'[r] \in {"bounced", "joining"}
    PROVE  Queued' = Queued /\ InLine' = InLine \cup {r}
<1>1. Queued' = Queued  BY DEF Queued, Lining
<1>2. InLine' = InLine \cup {r}  BY DEF InLine, Lining
<1> QED  BY <1>1, <1>2

LEMMA PSets ==
    ASSUME TypeOK, NEW r \in Requests, NEW v, permit' = [permit EXCEPT ![r] = v]
    PROVE  /\ v # {} => Holders' = Holders \cup {r}
           /\ v = {} => Holders' = Holders \ {r}
<1> USE DEF TypeOK, Holders
<1>1. v # {} => Holders' = Holders \cup {r}  OBVIOUS
<1>2. v = {} => Holders' = Holders \ {r}  OBVIOUS
<1> QED  BY <1>1, <1>2

\* The state's sets of requests.
LEMMA Sets ==
    ASSUME TypeOK
    PROVE  /\ Queued \in SUBSET Requests /\ InLine \in SUBSET Requests
           /\ Holders \in SUBSET Requests /\ granted \in SUBSET Requests
           /\ Queued \subseteq InLine
           /\ avail \in Nat /\ queue \in Seq(Requests) /\ MaxInflight \in Nat
           /\ waiting \in Nat
BY ReceiverAssumption DEF TypeOK, Queued, InLine, Holders, Lining

\* An owner drops its clone of a permit: the handler was not in line and does
\* not get in.
LEMMA DropStep ==
    ASSUME TypeOK, SlotsOK, NEW r \in Requests, NEW o \in {"conn", "task"},
           DropPermit(r, o), Queued' = Queued, InLine' = InLine, waiting' = waiting
    PROVE  SlotsOK' /\ avail' \in Nat /\ queue' \in Seq(Requests) /\ granted' \in SUBSET Requests
<1>0. /\ Queued \in SUBSET Requests /\ Holders \in SUBSET Requests /\ granted \in SUBSET Requests
      /\ avail \in Nat /\ queue \in Seq(Requests) /\ MaxInflight \in Nat
      /\ granted \subseteq Queued /\ Line(queue, Queued \ granted)
      /\ queue # <<>> => avail = 0
      /\ avail + Cardinality(granted) + Cardinality(Holders) = MaxInflight
  BY Sets DEF SlotsOK
<1>1. permit' = [permit EXCEPT ![r] = permit[r] \ {o}]  BY DEF DropPermit
<1>2. /\ permit[r] \ {o} # {} => Holders' = Holders \cup {r}
      /\ permit[r] \ {o} = {} => Holders' = Holders \ {r}
  BY <1>1, PSets
<1>3. waiting' = Cardinality(InLine')
  <2>1. Cardinality(InLine') = Cardinality(InLine)  OBVIOUS
  <2> QED  BY <2>1 DEF SlotsOK
<1>4. CASE permit[r] = {o}
  <2>1. r \in Holders  BY <1>4 DEF Holders
  <2>2. Holders' = Holders \ {r}  BY <1>2, <1>4
  <2>3. /\ Cardinality(Holders) \in Nat /\ Cardinality(granted) \in Nat
        /\ Cardinality(Holders \ {r}) \in Nat
        /\ Cardinality(Holders \ {r}) = Cardinality(Holders) - 1
    <3>1. Holders \ {r} \in SUBSET Requests  BY <1>0
    <3> QED  BY <1>0, <2>1, <3>1, Count
  <2>4. avail + Cardinality(granted) + Cardinality(Holders \ {r}) + 1 = MaxInflight
    BY <1>0, <2>3
  <2>5. ReleaseSlot(granted)  BY <1>4 DEF DropPermit
  <2>6. /\ granted' \subseteq Queued
        /\ Line(queue', Queued \ granted')
        /\ queue' # <<>> => avail' = 0
        /\ avail' + Cardinality(granted') + Cardinality(Holders \ {r}) = MaxInflight
        /\ queue' \in Seq(Requests)
        /\ avail' \in Nat
    BY <1>0, <2>3, <2>4, <2>5, ReleaseStep
  <2>7. avail' + Cardinality(granted') + Cardinality(Holders') = MaxInflight
    BY <2>2, <2>6
  <2> QED  BY <1>0, <1>3, <2>6, <2>7 DEF SlotsOK
<1>5. CASE permit[r] # {o}
  <2>1. avail' = avail /\ queue' = queue /\ granted' = granted  BY <1>5 DEF DropPermit
  <2>2. Holders' = Holders
    <3>1. permit[r] \ {o} = {} => permit[r] = {}  BY <1>5
    <3>2. CASE permit[r] = {}
      <4>1. r \notin Holders  BY <3>2 DEF Holders
      <4> QED  BY <1>2, <3>2, <4>1
    <3>3. CASE permit[r] # {}
      <4>1. r \in Holders  BY <3>3 DEF Holders
      <4> QED  BY <1>2, <3>1, <3>3, <4>1
    <3> QED  BY <3>2, <3>3
  <2>3. Line(queue', Queued' \ granted')  BY <1>0, <2>1
  <2>4. Cardinality(granted') = Cardinality(granted)  BY <2>1
  <2>5. Cardinality(Holders') = Cardinality(Holders)  BY <2>2
  <2> QED  BY <1>0, <1>3, <2>1, <2>3, <2>4, <2>5 DEF SlotsOK
<1> QED  BY <1>4, <1>5

\* No slot and no place in line moves.
LEMMA SlotsSame ==
    ASSUME SlotsOK, UNCHANGED slots,
           Queued' = Queued, InLine' = InLine, Holders' = Holders
    PROVE  SlotsOK'
<1>1. avail' = avail /\ queue' = queue /\ granted' = granted /\ waiting' = waiting  BY DEF slots
<1>2. /\ Cardinality(granted') = Cardinality(granted)
      /\ Cardinality(Holders') = Cardinality(Holders)
      /\ Cardinality(InLine') = Cardinality(InLine)
  BY <1>1
<1>3. granted' \subseteq Queued' /\ Line(queue', Queued' \ granted')  BY <1>1 DEF SlotsOK
<1> QED  BY <1>1, <1>2, <1>3 DEF SlotsOK
-----------------------------------------------------------------------------
(***************************************************************************)
(* Requests and stages.                                                    *)
(***************************************************************************)
\* TypeOK without the two counters, whose ranges follow from the sums.
OtherTypes ==
    /\ kind \in [Requests -> {"http", "grpc"}]
    /\ h \in [Requests -> Handler]
    /\ resp \in [Requests -> {"none", "ok", "retry", "reject"}]
    /\ fault \in [Requests -> {"nobody", "sender", "receiver"}]
    /\ permit \in [Requests -> SUBSET {"conn", "task"}]
    /\ save \in [Requests -> Saving]
    /\ queue \in Seq(Requests)
    /\ granted \in SUBSET Requests
    /\ guards \in SUBSET Requests
    /\ stage \in {Stages[i] : i \in DOMAIN Stages}
    /\ lines \in SUBSET Requests
    /\ counted \in SUBSET Requests
    /\ notified \in SUBSET Requests
    /\ synced \in SUBSET Requests
    /\ result \in {"ok", "listener", "sync"}

\* A step leaves request x alone.
Same(x) ==
    /\ h'[x] = h[x]
    /\ permit'[x] = permit[x]
    /\ save'[x] = save[x]
    /\ x \in guards' <=> x \in guards
    /\ x \in lines' <=> x \in lines
    /\ x \in counted' <=> x \in counted
    /\ resp'[x] = resp[x]
    /\ fault'[x] = fault[x]

LEMMA SameKeeps ==
    ASSUME NEW x \in Requests, RequestOK(x), Same(x)
    PROVE  RequestOK(x)'
BY DEF RequestOK, Same, Active

\* The two counters stay in range.
LEMMA Ranges ==
    ASSUME OtherTypes', SlotsOK', avail' \in Nat
    PROVE  TypeOK'
<1>1. Holders' \in SUBSET Requests /\ InLine' \in SUBSET Requests /\ granted' \in SUBSET Requests
  BY DEF Holders, InLine, OtherTypes
<1>2. \A S \in SUBSET Requests : Cardinality(S) \in Nat
  BY ReceiverAssumption, FS_Subset, FS_CardinalityType
<1>3. Cardinality(Holders') \in Nat /\ Cardinality(InLine') \in Nat /\ Cardinality(granted') \in Nat
  BY <1>1, <1>2
<1>4. /\ avail' + Cardinality(granted') + Cardinality(Holders') = MaxInflight
      /\ waiting' = Cardinality(InLine')
  BY DEF SlotsOK
<1>5. avail' \in 0..MaxInflight /\ waiting' \in Nat
  BY <1>3, <1>4, ReceiverAssumption
<1> QED  BY <1>5 DEF OtherTypes, TypeOK

\* A step of one request keeps the invariant when it keeps each part.
LEMMA RequestStep ==
    ASSUME RInv, NEW r \in Requests, OtherTypes', avail' \in Nat,
           \A x \in Requests \ {r} : Same(x), RequestOK(r)', SlotsOK', StageOK'
    PROVE  RInv'
<1>1. TypeOK'  BY Ranges
<1>2. \A x \in Requests : RequestOK(x)'
  <2> TAKE x \in Requests
  <2>1. CASE x = r  BY <2>1
  <2>2. CASE x # r  BY <2>2, SameKeeps DEF RInv
  <2> QED  BY <2>1, <2>2
<1> QED  BY <1>1, <1>2 DEF RInv

\* Requests do not move the shutdown, and no task starts or writes behind the
\* write lock.
LEMMA StageKept ==
    ASSUME StageOK, stage' = stage, result' = result, synced' = synced,
           \/ guards' \subseteq guards /\ lines' = lines
           \/ stage \in {"run", "drain", "closing"}
    PROVE  StageOK'
BY DEF StageOK

\* What a failure tells the sender.
LEMMA ErrorFacts ==
    ASSUME TypeOK, NEW r \in Requests,
           NEW error \in SenderErrors \cup {"Busy", "BodyTimeout", "Persistence"},
           AnswerError(r, error)
    PROVE  /\ h' = [h EXCEPT ![r] = "answered"]
           /\ h' \in [Requests -> Handler]
           /\ resp' \in [Requests -> {"none", "ok", "retry", "reject"}]
           /\ fault' \in [Requests -> {"nobody", "sender", "receiver"}]
           /\ resp'[r] \in {"retry", "reject"}
           /\ fault'[r] = "receiver" => resp'[r] = "retry"
           /\ \A x \in Requests \ {r} : h'[x] = h[x] /\ resp'[x] = resp[x] /\ fault'[x] = fault[x]
<1>1. PICK status \in IF kind[r] = "http" THEN {HttpStatus(error)} ELSE GrpcStatuses(error) :
          resp' = [resp EXCEPT ![r] = IF status \in Retryable THEN "retry" ELSE "reject"]
  BY DEF AnswerError
<1>2. h' = [h EXCEPT ![r] = "answered"] /\ h' \in [Requests -> Handler]
  BY DEF AnswerError, TypeOK, Handler
<1>3. /\ resp' \in [Requests -> {"none", "ok", "retry", "reject"}]
      /\ resp'[r] = IF status \in Retryable THEN "retry" ELSE "reject"
      /\ \A x \in Requests \ {r} : resp'[x] = resp[x]
  BY <1>1 DEF TypeOK
<1>4. /\ fault' \in [Requests -> {"nobody", "sender", "receiver"}]
      /\ fault'[r] = IF error \in SenderErrors THEN "sender" ELSE "receiver"
      /\ \A x \in Requests \ {r} : fault'[x] = fault[x]
  BY DEF AnswerError, TypeOK
<1>5. error \notin SenderErrors => status \in Retryable
  <2>1. SUFFICES ASSUME error \in {"Busy", "BodyTimeout", "Persistence"}  PROVE status \in Retryable
    OBVIOUS
  <2>2. HttpStatus(error) = "503"  BY <2>1 DEF HttpStatus
  <2>3. GrpcStatuses(error) = {"Unavailable"}  BY <2>1 DEF GrpcStatuses
  <2> QED  BY <1>1, <2>2, <2>3 DEF Retryable
<1>6. \A x \in Requests \ {r} : h'[x] = h[x]  BY <1>2 DEF TypeOK
<1> QED  BY <1>2, <1>3, <1>4, <1>5, <1>6
-----------------------------------------------------------------------------
(***************************************************************************)
(* The handler before it has a slot.                                       *)
(***************************************************************************)
\* A request in no line and with no permit moves to another such place.
LEMMA UnsupportedStep ==
    ASSUME RInv, NEW r \in Requests, Unsupported(r)
    PROVE  RInv'
<1>0. TypeOK /\ RequestOK(r) /\ SlotsOK /\ StageOK  BY DEF RInv
<1>1. h[r] = "idle" /\ AnswerError(r, "UnsupportedContentType")
      /\ UNCHANGED <<kind, permit, save, slots, guards, stage, data, result>>
  BY DEF Unsupported
<1>2. /\ h' = [h EXCEPT ![r] = "answered"]
      /\ h' \in [Requests -> Handler]
      /\ resp' \in [Requests -> {"none", "ok", "retry", "reject"}]
      /\ fault' \in [Requests -> {"nobody", "sender", "receiver"}]
      /\ resp'[r] \in {"retry", "reject"}
      /\ fault'[r] = "receiver" => resp'[r] = "retry"
      /\ \A x \in Requests \ {r} : h'[x] = h[x] /\ resp'[x] = resp[x] /\ fault'[x] = fault[x]
  BY <1>0, <1>1, ErrorFacts DEF SenderErrors
<1>3. OtherTypes'  BY <1>0, <1>1, <1>2 DEF TypeOK, OtherTypes, slots, data
<1>4. \A x \in Requests \ {r} : Same(x)  BY <1>1, <1>2 DEF Same, data
<1>5. RequestOK(r)'
  <2>1. h'[r] = "answered"  BY <1>0, <1>2 DEF TypeOK
  <2> QED  BY <1>0, <1>1, <1>2, <2>1 DEF RequestOK, Active, data
<1>6. Queued' = Queued /\ InLine' = InLine
  <2>1. h[r] \notin Lining /\ h'[r] \notin Lining  BY <1>0, <1>1, <1>2 DEF Lining, TypeOK
  <2> QED  BY <1>2, <2>1, OutOfLine
<1>7. Holders' = Holders  BY <1>1 DEF Holders
<1>8. SlotsOK'  BY <1>0, <1>1, <1>6, <1>7, SlotsSame
<1>9. StageOK'  BY <1>0, <1>1, StageKept DEF data
<1>10. avail' \in Nat  BY <1>0, <1>1, Sets DEF slots
<1> QED  BY <1>3, <1>4, <1>5, <1>8, <1>9, <1>10, RequestStep

\* A slot that is free is taken without queueing.
LEMMA TakeSlot ==
    ASSUME TypeOK, SlotsOK, NEW r \in Requests, permit[r] = {}, avail > 0,
           avail' = avail - 1, queue' = queue, granted' = granted,
           permit' = [permit EXCEPT ![r] = {"conn"}],
           Queued' = Queued, waiting' = Cardinality(InLine')
    PROVE  SlotsOK' /\ avail' \in Nat
<1>1. /\ Holders \in SUBSET Requests /\ granted \in SUBSET Requests
      /\ avail \in Nat /\ queue \in Seq(Requests) /\ MaxInflight \in Nat
  BY Sets
<1>2. r \notin Holders  BY DEF Holders
<1>3. Holders' = Holders \cup {r}  BY PSets
<1>4. /\ Cardinality(Holders) \in Nat /\ Cardinality(granted) \in Nat
      /\ Cardinality(Holders \cup {r}) = Cardinality(Holders) + 1
  BY <1>1, <1>2, Count
<1>5. Cardinality(Holders') = Cardinality(Holders) + 1  BY <1>3, <1>4
<1>6. Cardinality(granted') = Cardinality(granted)  OBVIOUS
<1>7. avail + Cardinality(granted) + Cardinality(Holders) = MaxInflight  BY DEF SlotsOK
<1>8. avail' + Cardinality(granted') + Cardinality(Holders') = MaxInflight
  BY <1>1, <1>4, <1>5, <1>6, <1>7
<1>9. queue' = <<>>  BY <1>1 DEF SlotsOK
<1>10. granted' \subseteq Queued' /\ Line(queue', Queued' \ granted')  BY DEF SlotsOK
<1> QED  BY <1>1, <1>8, <1>9, <1>10 DEF SlotsOK

LEMMA ArriveStep ==
    ASSUME RInv, NEW r \in Requests, Arrive(r)
    PROVE  RInv'
<1>0. TypeOK /\ RequestOK(r) /\ SlotsOK /\ StageOK  BY DEF RInv
<1>1. /\ h[r] = "idle"
      /\ UNCHANGED <<kind, reply, save, queue, granted, waiting, guards, stage, data, result>>
  BY DEF Arrive
<1>2. h[r] \notin Lining  BY <1>1 DEF Lining
<1>3. StageOK'  BY <1>0, <1>1, StageKept DEF data
<1>4. CASE avail > 0
  <2>1. avail' = avail - 1 /\ h' = [h EXCEPT ![r] = "reading"]
        /\ permit' = [permit EXCEPT ![r] = {"conn"}]
    BY <1>4 DEF Arrive
  <2>2. OtherTypes'  BY <1>0, <1>1, <2>1 DEF TypeOK, OtherTypes, data, reply, Handler
  <2>3. \A x \in Requests \ {r} : Same(x)  BY <1>0, <1>1, <2>1 DEF Same, data, reply, TypeOK
  <2>4. RequestOK(r)'
    <3>1. h'[r] = "reading" /\ permit'[r] = {"conn"}  BY <1>0, <2>1 DEF TypeOK
    <3> QED  BY <1>0, <1>1, <3>1 DEF RequestOK, Active, data, reply
  <2>5. Queued' = Queued /\ InLine' = InLine
    <3>1. h'[r] \notin Lining /\ \A x \in Requests \ {r} : h'[x] = h[x]
      BY <1>0, <2>1 DEF Lining, TypeOK
    <3> QED  BY <1>2, <3>1, OutOfLine
  <2>6. waiting' = Cardinality(InLine')
    <3>1. Cardinality(InLine') = Cardinality(InLine)  BY <2>5
    <3> QED  BY <1>0, <1>1, <3>1 DEF SlotsOK
  <2>7. permit[r] = {}  BY <1>0, <1>1 DEF RequestOK
  <2>8. SlotsOK' /\ avail' \in Nat  BY <1>0, <1>1, <1>4, <2>1, <2>5, <2>6, <2>7, TakeSlot
  <2> QED  BY <1>3, <2>2, <2>3, <2>4, <2>8, RequestStep
<1>5. CASE ~ (avail > 0)
  <2>1. avail' = avail /\ h' = [h EXCEPT ![r] = "enter"] /\ permit' = permit
    BY <1>5 DEF Arrive
  <2>2. OtherTypes'  BY <1>0, <1>1, <2>1 DEF TypeOK, OtherTypes, data, reply, Handler
  <2>3. \A x \in Requests \ {r} : Same(x)  BY <1>0, <1>1, <2>1 DEF Same, data, reply, TypeOK
  <2>4. RequestOK(r)'
    <3>1. h'[r] = "enter"  BY <1>0, <2>1 DEF TypeOK
    <3> QED  BY <1>0, <1>1, <2>1, <3>1 DEF RequestOK, Active, data, reply
  <2>5. Queued' = Queued /\ InLine' = InLine
    <3>1. h'[r] \notin Lining /\ \A x \in Requests \ {r} : h'[x] = h[x]
      BY <1>0, <2>1 DEF Lining, TypeOK
    <3> QED  BY <1>2, <3>1, OutOfLine
  <2>6. Holders' = Holders  BY <2>1 DEF Holders
  <2>7. SlotsOK'  BY <1>0, <1>1, <2>1, <2>5, <2>6, SlotsSame DEF slots
  <2>8. avail' \in Nat  BY <1>0, <2>1, Sets
  <2> QED  BY <1>3, <2>2, <2>3, <2>4, <2>7, <2>8, RequestStep
<1> QED  BY <1>4, <1>5

\* The waiting counter follows those in line.
LEMMA WaitingMoves ==
    ASSUME TypeOK, SlotsOK, NEW r \in Requests
    PROVE  /\ r \in InLine /\ waiting' = waiting - 1 /\ InLine' = InLine \ {r}
                 => waiting' = Cardinality(InLine')
           /\ r \notin InLine /\ waiting' = waiting + 1 /\ InLine' = InLine \cup {r}
                 => waiting' = Cardinality(InLine')
<1>1. InLine \in SUBSET Requests /\ waiting = Cardinality(InLine)  BY Sets DEF SlotsOK
<1>2. ASSUME r \in InLine, waiting' = waiting - 1, InLine' = InLine \ {r}
      PROVE  waiting' = Cardinality(InLine')
  <2>1. Cardinality(InLine \ {r}) = Cardinality(InLine) - 1  BY <1>1, <1>2, Count
  <2>2. Cardinality(InLine') = Cardinality(InLine \ {r})  BY <1>2
  <2> QED  BY <1>1, <1>2, <2>1, <2>2
<1>3. ASSUME r \notin InLine, waiting' = waiting + 1, InLine' = InLine \cup {r}
      PROVE  waiting' = Cardinality(InLine')
  <2>1. Cardinality(InLine \cup {r}) = Cardinality(InLine) + 1  BY <1>1, <1>3, Count
  <2>2. Cardinality(InLine') = Cardinality(InLine \cup {r})  BY <1>3
  <2> QED  BY <1>1, <1>3, <2>1, <2>2
<1> QED  BY <1>2, <1>3

\* Only the counter and the line before the queue move.
LEMMA CounterStep ==
    ASSUME SlotsOK, avail' = avail, queue' = queue, granted' = granted, permit' = permit,
           Queued' = Queued, waiting' = Cardinality(InLine')
    PROVE  SlotsOK'
<1>1. Holders' = Holders  BY DEF Holders
<1>2. Cardinality(granted') = Cardinality(granted) /\ Cardinality(Holders') = Cardinality(Holders)
  BY <1>1
<1>3. granted' \subseteq Queued' /\ Line(queue', Queued' \ granted')  BY DEF SlotsOK
<1> QED  BY <1>2, <1>3 DEF SlotsOK

LEMMA EnterWaitingStep ==
    ASSUME RInv, NEW r \in Requests, EnterWaiting(r)
    PROVE  RInv'
<1>0. TypeOK /\ RequestOK(r) /\ SlotsOK /\ StageOK  BY DEF RInv
<1>1. /\ h[r] = "enter" /\ waiting' = waiting + 1
      /\ UNCHANGED <<kind, reply, permit, save, avail, queue, granted, guards, stage, data, result>>
  BY DEF EnterWaiting
<1>2. PICK v \in {"bounced", "joining"} : h' = [h EXCEPT ![r] = v]
  BY DEF EnterWaiting
<1>3. h'[r] = v /\ (\A x \in Requests \ {r} : h'[x] = h[x]) /\ h' \in [Requests -> Handler]
  BY <1>0, <1>2 DEF TypeOK, Handler
<1>4. OtherTypes'  BY <1>0, <1>1, <1>3 DEF TypeOK, OtherTypes, data, reply
<1>5. \A x \in Requests \ {r} : Same(x)  BY <1>1, <1>3 DEF Same, data, reply
<1>6. RequestOK(r)'  BY <1>0, <1>1, <1>3 DEF RequestOK, Active, data, reply
<1>7. h[r] \notin Lining /\ r \notin InLine  BY <1>1 DEF InLine, Lining
<1>8. Queued' = Queued /\ InLine' = InLine \cup {r}  BY <1>3, <1>7, JoinsLine
<1>9. waiting' = Cardinality(InLine')  BY <1>0, <1>1, <1>7, <1>8, WaitingMoves
<1>10. SlotsOK'  BY <1>0, <1>1, <1>8, <1>9, CounterStep
<1>11. StageOK'  BY <1>0, <1>1, StageKept DEF data
<1>12. avail' \in Nat  BY <1>0, <1>1, Sets
<1> QED  BY <1>4, <1>5, <1>6, <1>10, <1>11, <1>12, RequestStep

LEMMA BounceStep ==
    ASSUME RInv, NEW r \in Requests, Bounce(r)
    PROVE  RInv'
<1>0. TypeOK /\ RequestOK(r) /\ SlotsOK /\ StageOK  BY DEF RInv
<1>1. /\ h[r] = "bounced" /\ waiting' = waiting - 1 /\ AnswerError(r, "Busy")
      /\ UNCHANGED <<kind, permit, save, avail, queue, granted, guards, stage, data, result>>
  BY DEF Bounce
<1>2. /\ h' = [h EXCEPT ![r] = "answered"]
      /\ h' \in [Requests -> Handler]
      /\ resp' \in [Requests -> {"none", "ok", "retry", "reject"}]
      /\ fault' \in [Requests -> {"nobody", "sender", "receiver"}]
      /\ resp'[r] \in {"retry", "reject"}
      /\ fault'[r] = "receiver" => resp'[r] = "retry"
      /\ \A x \in Requests \ {r} : h'[x] = h[x] /\ resp'[x] = resp[x] /\ fault'[x] = fault[x]
  BY <1>0, <1>1, ErrorFacts
<1>3. h'[r] = "answered"  BY <1>0, <1>2 DEF TypeOK
<1>4. OtherTypes'  BY <1>0, <1>1, <1>2 DEF TypeOK, OtherTypes, data
<1>5. \A x \in Requests \ {r} : Same(x)  BY <1>1, <1>2 DEF Same, data
<1>6. RequestOK(r)'  BY <1>0, <1>1, <1>2, <1>3 DEF RequestOK, Active, data
<1>7. h'[r] \notin Lining /\ r \in InLine /\ r \notin Queued
  BY <1>1, <1>3 DEF InLine, Lining, Queued
<1>8. Queued' = Queued /\ InLine' = InLine \ {r}
  <2>1. Queued' = Queued \ {r} /\ InLine' = InLine \ {r}  BY <1>2, <1>7, LeavesLine
  <2> QED  BY <1>7, <2>1
<1>9. waiting' = Cardinality(InLine')  BY <1>0, <1>1, <1>7, <1>8, WaitingMoves
<1>10. SlotsOK'  BY <1>0, <1>1, <1>8, <1>9, CounterStep
<1>11. StageOK'  BY <1>0, <1>1, StageKept DEF data
<1>12. avail' \in Nat  BY <1>0, <1>1, Sets
<1> QED  BY <1>4, <1>5, <1>6, <1>10, <1>11, <1>12, RequestStep

LEMMA JoinStep ==
    ASSUME RInv, NEW r \in Requests, Join(r)
    PROVE  RInv'
<1>0. TypeOK /\ RequestOK(r) /\ SlotsOK /\ StageOK  BY DEF RInv
<1>1. /\ h[r] = "joining"
      /\ UNCHANGED <<kind, reply, save, granted, guards, stage, data, result>>
  BY DEF Join
<1>2. h[r] \in Lining /\ r \in InLine /\ r \notin Queued  BY <1>1 DEF InLine, Lining, Queued
<1>3. StageOK'  BY <1>0, <1>1, StageKept DEF data
<1>4. CASE avail > 0
  <2>1. /\ avail' = avail - 1 /\ waiting' = waiting - 1 /\ queue' = queue
        /\ h' = [h EXCEPT ![r] = "reading"] /\ permit' = [permit EXCEPT ![r] = {"conn"}]
    BY <1>4 DEF Join
  <2>2. OtherTypes'  BY <1>0, <1>1, <2>1 DEF TypeOK, OtherTypes, data, reply, Handler
  <2>3. \A x \in Requests \ {r} : Same(x)  BY <1>0, <1>1, <2>1 DEF Same, data, reply, TypeOK
  <2>4. h'[r] = "reading" /\ permit'[r] = {"conn"} /\ \A x \in Requests \ {r} : h'[x] = h[x]
    BY <1>0, <2>1 DEF TypeOK
  <2>5. RequestOK(r)'  BY <1>0, <1>1, <2>4 DEF RequestOK, Active, data, reply
  <2>6. Queued' = Queued /\ InLine' = InLine \ {r}
    <3>1. h'[r] \notin Lining  BY <2>4 DEF Lining
    <3>2. Queued' = Queued \ {r} /\ InLine' = InLine \ {r}  BY <2>4, <3>1, LeavesLine
    <3> QED  BY <1>2, <3>2
  <2>7. waiting' = Cardinality(InLine')  BY <1>0, <1>2, <2>1, <2>6, WaitingMoves
  <2>8. permit[r] = {}  BY <1>0, <1>1 DEF RequestOK
  <2>9. SlotsOK' /\ avail' \in Nat  BY <1>0, <1>1, <1>4, <2>1, <2>6, <2>7, <2>8, TakeSlot
  <2> QED  BY <1>3, <2>2, <2>3, <2>5, <2>9, RequestStep
<1>5. CASE ~ (avail > 0)
  <2>1. /\ queue' = Append(queue, r) /\ h' = [h EXCEPT ![r] = "queued"]
        /\ avail' = avail /\ waiting' = waiting /\ permit' = permit
    BY <1>5 DEF Join
  <2>2. /\ queue \in Seq(Requests) /\ avail \in Nat /\ granted \subseteq Queued
        /\ Line(queue, Queued \ granted)
    BY <1>0, Sets DEF SlotsOK
  <2>3. queue' \in Seq(Requests) /\ Line(queue', (Queued \ granted) \cup {r})
    BY <1>2, <2>1, <2>2, LineAppend
  <2>4. OtherTypes'  BY <1>0, <1>1, <2>1, <2>3 DEF TypeOK, OtherTypes, data, reply, Handler
  <2>5. \A x \in Requests \ {r} : Same(x)  BY <1>0, <1>1, <2>1 DEF Same, data, reply, TypeOK
  <2>6. h'[r] = "queued" /\ \A x \in Requests \ {r} : h'[x] = h[x]
    BY <1>0, <2>1 DEF TypeOK
  <2>7. RequestOK(r)'  BY <1>0, <1>1, <2>1, <2>6 DEF RequestOK, Active, data, reply
  <2>8. Queued' = Queued \cup {r} /\ InLine' = InLine  BY <1>2, <2>6, JoinsQueue
  <2>9. Holders' = Holders  BY <2>1 DEF Holders
  <2>10. (Queued \ granted) \cup {r} = Queued' \ granted'  BY <1>1, <1>2, <2>2, <2>8
  <2>11. granted' \subseteq Queued' /\ Line(queue', Queued' \ granted')
    BY <1>1, <2>2, <2>3, <2>8, <2>10
  <2>12. avail' = 0  BY <1>5, <2>1, <2>2
  <2>13. /\ Cardinality(granted') = Cardinality(granted)
         /\ Cardinality(Holders') = Cardinality(Holders)
         /\ Cardinality(InLine') = Cardinality(InLine)
    BY <1>1, <2>8, <2>9
  <2>14. SlotsOK'  BY <1>0, <2>1, <2>11, <2>12, <2>13 DEF SlotsOK
  <2> QED  BY <1>3, <2>4, <2>5, <2>7, <2>12, <2>14, RequestStep
<1> QED  BY <1>4, <1>5

\* A waiter with its slot runs: the slot is owned through its permit from now on.
LEMMA GrantedStep ==
    ASSUME RInv, NEW r \in Requests, Granted(r)
    PROVE  RInv'
<1>0. TypeOK /\ RequestOK(r) /\ SlotsOK /\ StageOK  BY DEF RInv
<1>1. /\ r \in granted /\ granted' = granted \ {r} /\ waiting' = waiting - 1
      /\ h' = [h EXCEPT ![r] = "reading"] /\ permit' = [permit EXCEPT ![r] = {"conn"}]
      /\ UNCHANGED <<kind, reply, save, avail, queue, guards, stage, data, result>>
  BY DEF Granted
<1>2. /\ Holders \in SUBSET Requests /\ granted \in SUBSET Requests /\ avail \in Nat
      /\ MaxInflight \in Nat /\ granted \subseteq Queued /\ Line(queue, Queued \ granted)
      /\ avail + Cardinality(granted) + Cardinality(Holders) = MaxInflight
  BY <1>0, Sets DEF SlotsOK
<1>3. h[r] = "queued" /\ r \in InLine  BY <1>1, <1>2 DEF Queued, InLine, Lining
<1>4. h'[r] = "reading" /\ permit'[r] = {"conn"} /\ \A x \in Requests \ {r} : h'[x] = h[x]
  BY <1>0, <1>1 DEF TypeOK
<1>5. OtherTypes'  BY <1>0, <1>1 DEF TypeOK, OtherTypes, data, reply, Handler
<1>6. \A x \in Requests \ {r} : Same(x)  BY <1>0, <1>1 DEF Same, data, reply, TypeOK
<1>7. RequestOK(r)'  BY <1>0, <1>1, <1>3, <1>4 DEF RequestOK, Active, data, reply
<1>8. Queued' = Queued \ {r} /\ InLine' = InLine \ {r}
  <2>1. h'[r] \notin Lining  BY <1>4 DEF Lining
  <2> QED  BY <1>4, <2>1, LeavesLine
<1>9. waiting' = Cardinality(InLine')  BY <1>0, <1>1, <1>3, <1>8, WaitingMoves
<1>10. Queued' \ granted' = Queued \ granted  BY <1>1, <1>8
<1>11. granted' \subseteq Queued' /\ Line(queue', Queued' \ granted')
  BY <1>1, <1>2, <1>8, <1>10
<1>12. r \notin Holders
  <2>1. permit[r] = {}  BY <1>0, <1>3 DEF RequestOK
  <2> QED  BY <2>1 DEF Holders
<1>13. Holders' = Holders \cup {r}  BY <1>0, <1>1, PSets
<1>14. /\ Cardinality(granted) \in Nat /\ Cardinality(Holders) \in Nat
       /\ Cardinality(granted \ {r}) = Cardinality(granted) - 1
       /\ Cardinality(Holders \cup {r}) = Cardinality(Holders) + 1
  BY <1>1, <1>2, <1>12, Count
<1>15. Cardinality(granted') = Cardinality(granted) - 1  BY <1>1, <1>14
<1>16. Cardinality(Holders') = Cardinality(Holders) + 1  BY <1>13, <1>14
<1>17. avail' + Cardinality(granted') + Cardinality(Holders') = MaxInflight
  <2>1. avail' = avail  BY <1>1
  <2> QED  BY <2>1, <1>2, <1>14, <1>15, <1>16
<1>18. SlotsOK'  BY <1>0, <1>1, <1>9, <1>11, <1>17 DEF SlotsOK
<1>19. StageOK'  BY <1>0, <1>1, StageKept DEF data
<1>20. avail' \in Nat  BY <1>1, <1>2
<1> QED  BY <1>5, <1>6, <1>7, <1>18, <1>19, <1>20, RequestStep

\* A waiter without a slot leaves the queue and the counter together.
LEMMA LeavesQueue ==
    ASSUME TypeOK, SlotsOK, NEW r \in Requests, h[r] = "queued", r \notin granted,
           queue' = WithoutWaiter(r), waiting' = waiting - 1,
           avail' = avail, granted' = granted, permit' = permit,
           h'[r] \notin Lining, \A x \in Requests \ {r} : h'[x] = h[x]
    PROVE  SlotsOK' /\ queue' \in Seq(Requests)
<1>1. /\ queue \in Seq(Requests) /\ granted \subseteq Queued
      /\ Line(queue, Queued \ granted)
      /\ queue # <<>> => avail = 0
      /\ avail + Cardinality(granted) + Cardinality(Holders) = MaxInflight
  BY Sets DEF SlotsOK
<1>2. r \in Queued \ granted /\ r \in InLine  BY DEF Queued, InLine, Lining
<1> DEFINE i == CHOOSE i \in DOMAIN queue : queue[i] = r
<1>3. i \in 1..Len(queue) /\ queue[i] = r
  <2>1. \E k \in DOMAIN queue : queue[k] = r  BY <1>1, <1>2 DEF Line
  <2>2. DOMAIN queue = 1..Len(queue)  BY <1>1
  <2> QED  BY <2>1, <2>2
<1>4. queue' = [j \in 1..(Len(queue) - 1) |-> queue[IF j < i THEN j ELSE j + 1]]
  BY DEF WithoutWaiter
<1> HIDE DEF i
<1>5. queue' \in Seq(Requests) /\ Line(queue', (Queued \ granted) \ {r})
  BY <1>1, <1>3, <1>4, LineWithout
<1>6. Queued' = Queued \ {r} /\ InLine' = InLine \ {r}  BY LeavesLine
<1>7. Queued' \ granted' = (Queued \ granted) \ {r}  BY <1>2, <1>6
<1>8. Line(queue', Queued' \ granted')  BY <1>5, <1>7
<1>9. granted' \subseteq Queued'  BY <1>1, <1>2, <1>6
<1>10. waiting' = Cardinality(InLine')  BY <1>2, <1>6, WaitingMoves
<1>11. avail' = 0
  <2>1. queue # <<>>  BY <1>1, <1>3
  <2> QED  BY <1>1, <2>1
<1>12. Holders' = Holders  BY DEF Holders
<1>13. Cardinality(granted') = Cardinality(granted) /\ Cardinality(Holders') = Cardinality(Holders)
  BY <1>12
<1> QED  BY <1>1, <1>5, <1>8, <1>9, <1>10, <1>11, <1>13 DEF SlotsOK

LEMMA WaitTimeoutStep ==
    ASSUME RInv, NEW r \in Requests, WaitTimeout(r)
    PROVE  RInv'
<1>0. TypeOK /\ RequestOK(r) /\ SlotsOK /\ StageOK  BY DEF RInv
<1>1. /\ h[r] = "queued" /\ r \notin granted /\ queue' = WithoutWaiter(r)
      /\ waiting' = waiting - 1 /\ AnswerError(r, "Busy")
      /\ UNCHANGED <<kind, permit, save, avail, granted, guards, stage, data, result>>
  BY DEF WaitTimeout
<1>2. /\ h' = [h EXCEPT ![r] = "answered"]
      /\ h' \in [Requests -> Handler]
      /\ resp' \in [Requests -> {"none", "ok", "retry", "reject"}]
      /\ fault' \in [Requests -> {"nobody", "sender", "receiver"}]
      /\ resp'[r] \in {"retry", "reject"}
      /\ fault'[r] = "receiver" => resp'[r] = "retry"
      /\ \A x \in Requests \ {r} : h'[x] = h[x] /\ resp'[x] = resp[x] /\ fault'[x] = fault[x]
  BY <1>0, <1>1, ErrorFacts
<1>3. h'[r] = "answered" /\ h'[r] \notin Lining  BY <1>0, <1>2 DEF TypeOK, Lining
<1>4. SlotsOK' /\ queue' \in Seq(Requests)  BY <1>0, <1>1, <1>2, <1>3, LeavesQueue
<1>5. OtherTypes'  BY <1>0, <1>1, <1>2, <1>4 DEF TypeOK, OtherTypes, data
<1>6. \A x \in Requests \ {r} : Same(x)  BY <1>1, <1>2 DEF Same, data
<1>7. RequestOK(r)'  BY <1>0, <1>1, <1>2, <1>3 DEF RequestOK, Active, data
<1>8. StageOK'  BY <1>0, <1>1, StageKept DEF data
<1>9. avail' \in Nat  BY <1>0, <1>1, Sets
<1> QED  BY <1>4, <1>5, <1>6, <1>7, <1>8, <1>9, RequestStep

LEMMA CancelQueuedStep ==
    ASSUME RInv, NEW r \in Requests, CancelQueued(r)
    PROVE  RInv'
<1>0. TypeOK /\ RequestOK(r) /\ SlotsOK /\ StageOK  BY DEF RInv
<1>1. /\ h[r] = "queued" /\ r \notin granted /\ queue' = WithoutWaiter(r)
      /\ waiting' = waiting - 1 /\ h' = [h EXCEPT ![r] = "gone"]
      /\ UNCHANGED <<kind, reply, permit, save, avail, granted, guards, stage, data, result>>
  BY DEF CancelQueued
<1>2. /\ h'[r] = "gone" /\ h'[r] \notin Lining /\ h' \in [Requests -> Handler]
      /\ \A x \in Requests \ {r} : h'[x] = h[x]
  BY <1>0, <1>1 DEF TypeOK, Lining, Handler
<1>4. SlotsOK' /\ queue' \in Seq(Requests)  BY <1>0, <1>1, <1>2, LeavesQueue
<1>5. OtherTypes'  BY <1>0, <1>1, <1>2, <1>4 DEF TypeOK, OtherTypes, data, reply
<1>6. \A x \in Requests \ {r} : Same(x)  BY <1>1, <1>2 DEF Same, data, reply
<1>7. RequestOK(r)'  BY <1>0, <1>1, <1>2 DEF RequestOK, Active, data, reply
<1>8. StageOK'  BY <1>0, <1>1, StageKept DEF data
<1>9. avail' \in Nat  BY <1>0, <1>1, Sets
<1> QED  BY <1>4, <1>5, <1>6, <1>7, <1>8, <1>9, RequestStep

LEMMA CancelGrantedStep ==
    ASSUME RInv, NEW r \in Requests, CancelGranted(r)
    PROVE  RInv'
<1>0. TypeOK /\ RequestOK(r) /\ SlotsOK /\ StageOK  BY DEF RInv
<1>1. /\ r \in granted /\ waiting' = waiting - 1 /\ ReleaseSlot(granted \ {r})
      /\ h' = [h EXCEPT ![r] = "gone"]
      /\ UNCHANGED <<kind, reply, permit, save, guards, stage, data, result>>
  BY DEF CancelGranted
<1>2. /\ Holders \in SUBSET Requests /\ granted \in SUBSET Requests /\ avail \in Nat
      /\ Queued \in SUBSET Requests /\ queue \in Seq(Requests) /\ MaxInflight \in Nat
      /\ granted \subseteq Queued /\ Line(queue, Queued \ granted)
      /\ queue # <<>> => avail = 0
      /\ avail + Cardinality(granted) + Cardinality(Holders) = MaxInflight
  BY <1>0, Sets DEF SlotsOK
<1>3. h[r] = "queued" /\ r \in InLine  BY <1>1, <1>2 DEF Queued, InLine, Lining
<1>4. /\ h'[r] = "gone" /\ h'[r] \notin Lining /\ h' \in [Requests -> Handler]
      /\ \A x \in Requests \ {r} : h'[x] = h[x]
  BY <1>0, <1>1 DEF TypeOK, Lining, Handler
<1>5. Queued' = Queued \ {r} /\ InLine' = InLine \ {r}  BY <1>4, LeavesLine
<1>6. waiting' = Cardinality(InLine')  BY <1>0, <1>1, <1>3, <1>5, WaitingMoves
<1>7. /\ Cardinality(granted) \in Nat /\ Cardinality(Holders) \in Nat
      /\ Cardinality(granted \ {r}) = Cardinality(granted) - 1
  BY <1>1, <1>2, Count
<1>8. (Queued \ {r}) \ (granted \ {r}) = Queued \ granted  BY <1>1
<1>9. Line(queue, (Queued \ {r}) \ (granted \ {r}))  BY <1>2, <1>8
<1>10. avail + Cardinality(granted \ {r}) + Cardinality(Holders) + 1 = MaxInflight
  BY <1>2, <1>7
<1>11. Queued \ {r} \in SUBSET Requests /\ granted \ {r} \subseteq Queued \ {r}  BY <1>2
<1>12. /\ granted' \subseteq Queued \ {r}
       /\ Line(queue', (Queued \ {r}) \ granted')
       /\ queue' # <<>> => avail' = 0
       /\ avail' + Cardinality(granted') + Cardinality(Holders) = MaxInflight
       /\ queue' \in Seq(Requests)
       /\ avail' \in Nat
  BY <1>1, <1>2, <1>7, <1>9, <1>10, <1>11, ReleaseStep
<1>13. Holders' = Holders  BY <1>1 DEF Holders
<1>14. Cardinality(Holders') = Cardinality(Holders)  BY <1>13
<1>15. granted' \subseteq Queued' /\ Line(queue', Queued' \ granted')  BY <1>5, <1>12
<1>16. SlotsOK'  BY <1>6, <1>12, <1>14, <1>15 DEF SlotsOK
<1>17. granted' \in SUBSET Requests  BY <1>2, <1>12
<1>18. OtherTypes'  BY <1>0, <1>1, <1>4, <1>12, <1>17 DEF TypeOK, OtherTypes, data, reply
<1>19. \A x \in Requests \ {r} : Same(x)  BY <1>1, <1>4 DEF Same, data, reply
<1>20. RequestOK(r)'  BY <1>0, <1>1, <1>3, <1>4 DEF RequestOK, Active, data, reply
<1>21. StageOK'  BY <1>0, <1>1, StageKept DEF data
<1> QED  BY <1>12, <1>16, <1>18, <1>19, <1>20, <1>21, RequestStep
-----------------------------------------------------------------------------
(***************************************************************************)
(* The handler with its slot, and the recording task.                      *)
(***************************************************************************)
\* What dropping a clone does to the permits.
LEMMA DropFacts ==
    ASSUME TypeOK, NEW r \in Requests, NEW o, DropPermit(r, o)
    PROVE  /\ permit' \in [Requests -> SUBSET {"conn", "task"}]
           /\ permit'[r] = permit[r] \ {o}
           /\ \A x \in Requests \ {r} : permit'[x] = permit[x]
<1>1. permit' = [permit EXCEPT ![r] = permit[r] \ {o}]  BY DEF DropPermit
<1>2. permit[r] \ {o} \in SUBSET {"conn", "task"}  BY DEF TypeOK
<1> QED  BY <1>1, <1>2 DEF TypeOK

\* A failure is answered while the handler has its slot, and nothing of the
\* batch was kept.
LEMMA FailStep ==
    ASSUME RInv, NEW r \in Requests,
           NEW error \in SenderErrors \cup {"Busy", "BodyTimeout", "Persistence"},
           h[r] \in {"reading", "locking", "saving"}, save[r] \in {"none", "err"},
           AnswerError(r, error), DropPermit(r, "conn"),
           UNCHANGED <<kind, save, waiting, guards, stage, data, result>>
    PROVE  RInv'
<1>0. TypeOK /\ RequestOK(r) /\ SlotsOK /\ StageOK  BY DEF RInv
<1>1. /\ h' = [h EXCEPT ![r] = "answered"]
      /\ h' \in [Requests -> Handler]
      /\ resp' \in [Requests -> {"none", "ok", "retry", "reject"}]
      /\ fault' \in [Requests -> {"nobody", "sender", "receiver"}]
      /\ resp'[r] \in {"retry", "reject"}
      /\ fault'[r] = "receiver" => resp'[r] = "retry"
      /\ \A x \in Requests \ {r} : h'[x] = h[x] /\ resp'[x] = resp[x] /\ fault'[x] = fault[x]
  BY <1>0, ErrorFacts
<1>2. h'[r] = "answered" /\ h[r] \notin Lining /\ h'[r] \notin Lining
  BY <1>0, <1>1 DEF TypeOK, Lining
<1>3. /\ permit' \in [Requests -> SUBSET {"conn", "task"}]
      /\ permit'[r] = permit[r] \ {"conn"}
      /\ \A x \in Requests \ {r} : permit'[x] = permit[x]
  BY <1>0, DropFacts
<1>4. Queued' = Queued /\ InLine' = InLine  BY <1>1, <1>2, OutOfLine
<1>5. SlotsOK' /\ avail' \in Nat /\ queue' \in Seq(Requests) /\ granted' \in SUBSET Requests
  BY <1>0, <1>4, DropStep
<1>6. OtherTypes'  BY <1>0, <1>1, <1>3, <1>5 DEF TypeOK, OtherTypes, data
<1>7. \A x \in Requests \ {r} : Same(x)  BY <1>1, <1>3 DEF Same, data
<1>8. RequestOK(r)'  BY <1>0, <1>1, <1>2, <1>3 DEF RequestOK, Active, data
<1>9. StageOK'  BY <1>0, StageKept DEF data
<1> QED  BY <1>5, <1>6, <1>7, <1>8, <1>9, RequestStep

LEMMA BodyTimeoutStep ==
    ASSUME RInv, NEW r \in Requests, BodyTimeout(r)
    PROVE  RInv'
<1>1. h[r] = "reading" /\ AnswerError(r, "BodyTimeout") /\ DropPermit(r, "conn")
      /\ UNCHANGED <<kind, save, waiting, guards, stage, data, result>>
  BY DEF BodyTimeout
<1>2. save[r] = "none"  BY <1>1 DEF RInv, RequestOK
<1> QED  BY <1>1, <1>2, FailStep

LEMMA BodyFailStep ==
    ASSUME RInv, NEW r \in Requests, BodyFail(r)
    PROVE  RInv'
<1>1. h[r] = "reading" /\ DropPermit(r, "conn")
      /\ UNCHANGED <<kind, save, waiting, guards, stage, data, result>>
  BY DEF BodyFail
<1>2. PICK error \in SenderErrors : AnswerError(r, error)
  BY DEF BodyFail, SenderErrors, DecodeError
<1>3. save[r] = "none"  BY <1>1 DEF RInv, RequestOK
<1> QED  BY <1>1, <1>2, <1>3, FailStep

LEMMA RecordRefusedStep ==
    ASSUME RInv, NEW r \in Requests, RecordRefused(r)
    PROVE  RInv'
<1>1. h[r] = "locking" /\ AnswerError(r, "Persistence") /\ DropPermit(r, "conn")
      /\ UNCHANGED <<kind, save, waiting, guards, stage, data, result>>
  BY DEF RecordRefused
<1>2. save[r] = "none"  BY <1>1 DEF RInv, RequestOK
<1> QED  BY <1>1, <1>2, FailStep

\* The handler with a slot ends without a failure: answered or cancelled.
LEMMA LeaveStep ==
    ASSUME RInv, NEW r \in Requests, NEW v \in {"answered", "gone"},
           h[r] \in {"reading", "locking", "saving"}, h' = [h EXCEPT ![r] = v],
           resp' = [resp EXCEPT ![r] = IF v = "answered" THEN "ok" ELSE @], fault' = fault,
           v = "answered" => save[r] = "ok", DropPermit(r, "conn"),
           UNCHANGED <<kind, save, waiting, guards, stage, data, result>>
    PROVE  RInv'
<1>0. TypeOK /\ RequestOK(r) /\ SlotsOK /\ StageOK  BY DEF RInv
<1>1. /\ h'[r] = v /\ h' \in [Requests -> Handler] /\ h[r] \notin Lining /\ h'[r] \notin Lining
      /\ \A x \in Requests \ {r} : h'[x] = h[x]
  BY <1>0 DEF TypeOK, Lining, Handler
<1>2. /\ resp' \in [Requests -> {"none", "ok", "retry", "reject"}]
      /\ resp'[r] = IF v = "answered" THEN "ok" ELSE resp[r]
      /\ \A x \in Requests \ {r} : resp'[x] = resp[x]
  BY <1>0 DEF TypeOK
<1>3. /\ permit' \in [Requests -> SUBSET {"conn", "task"}]
      /\ permit'[r] = permit[r] \ {"conn"}
      /\ \A x \in Requests \ {r} : permit'[x] = permit[x]
  BY <1>0, DropFacts
<1>4. Queued' = Queued /\ InLine' = InLine  BY <1>1, OutOfLine
<1>5. SlotsOK' /\ avail' \in Nat /\ queue' \in Seq(Requests) /\ granted' \in SUBSET Requests
  BY <1>0, <1>4, DropStep
<1>6. OtherTypes'  BY <1>0, <1>1, <1>2, <1>3, <1>5 DEF TypeOK, OtherTypes, data
<1>7. \A x \in Requests \ {r} : Same(x)  BY <1>1, <1>2, <1>3 DEF Same, data
<1>8. RequestOK(r)'  BY <1>0, <1>1, <1>2, <1>3 DEF RequestOK, Active, data
<1>9. StageOK'  BY <1>0, StageKept DEF data
<1> QED  BY <1>5, <1>6, <1>7, <1>8, <1>9, RequestStep

LEMMA CancelRunningStep ==
    ASSUME RInv, NEW r \in Requests, CancelRunning(r)
    PROVE  RInv'
<1>1. /\ h[r] \in {"reading", "locking", "saving"} /\ h' = [h EXCEPT ![r] = "gone"]
      /\ DropPermit(r, "conn") /\ resp' = resp /\ fault' = fault
      /\ UNCHANGED <<kind, save, waiting, guards, stage, data, result>>
  BY DEF CancelRunning, reply
<1>2. resp' = [resp EXCEPT ![r] = IF "gone" = "answered" THEN "ok" ELSE @]
  BY <1>1 DEF RInv, TypeOK
<1> QED  BY <1>1, <1>2, LeaveStep

LEMMA RespondStep ==
    ASSUME RInv, NEW r \in Requests, Respond(r)
    PROVE  RInv'
<1>1. /\ h[r] = "saving" /\ save[r] \in {"ok", "err"} /\ DropPermit(r, "conn")
      /\ UNCHANGED <<kind, save, waiting, guards, stage, data, result>>
  BY DEF Respond
<1>2. CASE save[r] = "ok"
  <2>1. /\ h' = [h EXCEPT ![r] = "answered"] /\ fault' = fault
        /\ resp' = [resp EXCEPT ![r] = IF "answered" = "answered" THEN "ok" ELSE @]
    BY <1>2 DEF Respond, AnswerOk
  <2> QED  BY <1>1, <1>2, <2>1, LeaveStep
<1>3. CASE save[r] = "err"
  <2>1. AnswerError(r, "Persistence")  BY <1>3 DEF Respond
  <2> QED  BY <1>1, <1>3, <2>1, FailStep
<1> QED  BY <1>1, <1>2, <1>3

\* Steps that move no slot and no place in line.
LEMMA QuietStep ==
    ASSUME RInv, NEW r \in Requests, UNCHANGED <<kind, reply, slots, stage, result, synced>>,
           h[r] \notin Lining, h'[r] \notin Lining,
           \A x \in Requests \ {r} : Same(x),
           permit[r] # {} <=> permit'[r] # {},
           h' \in [Requests -> Handler], save' \in [Requests -> Saving],
           permit' \in [Requests -> SUBSET {"conn", "task"}],
           guards' \in SUBSET Requests, lines' \in SUBSET Requests,
           counted' \in SUBSET Requests, notified' \in SUBSET Requests,
           \/ guards' \subseteq guards /\ lines' = lines
           \/ stage \in {"run", "drain", "closing"},
           RequestOK(r)'
    PROVE  RInv'
<1>0. TypeOK /\ SlotsOK /\ StageOK  BY DEF RInv
<1>1. OtherTypes'  BY <1>0 DEF TypeOK, OtherTypes, reply, slots
<1>2. Queued' = Queued /\ InLine' = InLine  BY OutOfLine DEF Same
<1>3. Holders' = Holders  BY DEF Holders, Same
<1>4. SlotsOK'  BY <1>0, <1>2, <1>3, SlotsSame
<1>5. StageOK'  BY <1>0, StageKept
<1>6. avail' \in Nat  BY <1>0, Sets DEF slots
<1> QED  BY <1>1, <1>4, <1>5, <1>6, RequestStep

LEMMA BodyReadStep ==
    ASSUME RInv, NEW r \in Requests, BodyRead(r)
    PROVE  RInv'
<1>0. TypeOK /\ RequestOK(r)  BY DEF RInv
<1>1. /\ h[r] = "reading" /\ h' = [h EXCEPT ![r] = "locking"]
      /\ UNCHANGED <<kind, reply, permit, save, slots, guards, stage, data, result>>
  BY DEF BodyRead
<1>2. /\ h'[r] = "locking" /\ h' \in [Requests -> Handler] /\ h[r] \notin Lining /\ h'[r] \notin Lining
      /\ \A x \in Requests \ {r} : h'[x] = h[x]
  BY <1>0, <1>1 DEF TypeOK, Lining, Handler
<1>3. \A x \in Requests \ {r} : Same(x)  BY <1>1, <1>2 DEF Same, data, reply
<1>4. RequestOK(r)'  BY <1>0, <1>1, <1>2 DEF RequestOK, Active, data, reply
<1>5. /\ save' \in [Requests -> Saving] /\ permit' \in [Requests -> SUBSET {"conn", "task"}]
      /\ guards' \in SUBSET Requests /\ lines' \in SUBSET Requests
      /\ counted' \in SUBSET Requests /\ notified' \in SUBSET Requests
      /\ guards' \subseteq guards /\ lines' = lines /\ synced' = synced
      /\ permit'[r] = permit[r]
  BY <1>0, <1>1 DEF TypeOK, data
<1> QED  BY <1>1, <1>2, <1>3, <1>4, <1>5, QuietStep

LEMMA RecordStep ==
    ASSUME RInv, NEW r \in Requests, Record(r)
    PROVE  RInv'
<1>0. TypeOK /\ RequestOK(r)  BY DEF RInv
<1>1. /\ h[r] = "locking" /\ ~ Since("closing") /\ guards' = guards \cup {r}
      /\ save' = [save EXCEPT ![r] = "write"] /\ h' = [h EXCEPT ![r] = "saving"]
      /\ permit' = [permit EXCEPT ![r] = IF kind[r] = "grpc" THEN {"conn", "task"} ELSE {"task"}]
      /\ UNCHANGED <<kind, reply, slots, stage, data, result>>
  BY DEF Record
<1>2. /\ h'[r] = "saving" /\ h' \in [Requests -> Handler] /\ h[r] \notin Lining /\ h'[r] \notin Lining
      /\ \A x \in Requests \ {r} : h'[x] = h[x]
  BY <1>0, <1>1 DEF TypeOK, Lining, Handler
<1>3. /\ save'[r] = "write" /\ save' \in [Requests -> Saving]
      /\ \A x \in Requests \ {r} : save'[x] = save[x]
  BY <1>0, <1>1 DEF TypeOK, Saving
<1>4. /\ permit'[r] \in {{"conn", "task"}, {"task"}}
      /\ permit' \in [Requests -> SUBSET {"conn", "task"}]
      /\ \A x \in Requests \ {r} : permit'[x] = permit[x]
  <2> DEFINE p == IF kind[r] = "grpc" THEN {"conn", "task"} ELSE {"task"}
  <2>1. p \in {{"conn", "task"}, {"task"}} /\ p \in SUBSET {"conn", "task"}  OBVIOUS
  <2>2. permit' = [permit EXCEPT ![r] = p]  BY <1>1
  <2> HIDE DEF p
  <2> QED  BY <1>0, <2>1, <2>2 DEF TypeOK
<1>5. permit[r] # {} /\ permit'[r] # {} /\ "task" \in permit'[r]
  <2>1. permit[r] = {"conn"}  BY <1>0, <1>1 DEF RequestOK
  <2> QED  BY <1>4, <2>1
<1>6. \A x \in Requests \ {r} : Same(x)  BY <1>1, <1>2, <1>3, <1>4 DEF Same, data, reply
<1>7. RequestOK(r)'  BY <1>0, <1>1, <1>2, <1>3, <1>5 DEF RequestOK, Active, data, reply
<1>8. stage \in {"run", "drain", "closing"}  BY <1>0, <1>1, SinceIs
<1>9. /\ guards' \in SUBSET Requests /\ lines' \in SUBSET Requests
      /\ counted' \in SUBSET Requests /\ notified' \in SUBSET Requests /\ synced' = synced
  BY <1>0, <1>1 DEF TypeOK, data
<1> QED  BY <1>1, <1>2, <1>3, <1>4, <1>5, <1>6, <1>7, <1>8, <1>9, QuietStep

LEMMA PersistStep ==
    ASSUME RInv, NEW r \in Requests, Persist(r)
    PROVE  RInv'
<1>0. TypeOK /\ RequestOK(r) /\ StageOK  BY DEF RInv
<1>1. /\ save[r] = "write"
      /\ UNCHANGED <<kind, h, reply, permit, slots, guards, stage, counted, notified, synced, result>>
  BY DEF Persist
<1>2. \/ lines' = lines \cup {r} /\ save' = [save EXCEPT ![r] = "publish"]
      \/ lines' = lines /\ save' = [save EXCEPT ![r] = "endErr"]
  BY DEF Persist
<1>3. /\ \/ save'[r] = "publish" /\ lines' = lines \cup {r}
         \/ save'[r] = "endErr" /\ lines' = lines
      /\ save' \in [Requests -> Saving]
      /\ \A x \in Requests \ {r} : save'[x] = save[x]
  BY <1>0, <1>2 DEF TypeOK, Saving
<1>4. h[r] \notin Lining  BY <1>0, <1>1 DEF RequestOK, Lining
<1>5. \A x \in Requests \ {r} : Same(x)  BY <1>1, <1>3 DEF Same, reply
<1>6. RequestOK(r)'  BY <1>0, <1>1, <1>3 DEF RequestOK, Active, reply
<1>7. stage \in {"run", "drain", "closing"}
  <2>1. r \in guards  BY <1>0, <1>1 DEF RequestOK, Active
  <2> QED  BY <1>0, <2>1, SinceIs DEF StageOK
<1>8. /\ h' \in [Requests -> Handler] /\ permit' \in [Requests -> SUBSET {"conn", "task"}]
      /\ guards' \in SUBSET Requests /\ lines' \in SUBSET Requests
      /\ counted' \in SUBSET Requests /\ notified' \in SUBSET Requests
  BY <1>0, <1>1, <1>3 DEF TypeOK
<1> QED  BY <1>1, <1>3, <1>4, <1>5, <1>6, <1>7, <1>8, QuietStep

LEMMA PublishStep ==
    ASSUME RInv, NEW r \in Requests, Publish(r)
    PROVE  RInv'
<1>0. TypeOK /\ RequestOK(r)  BY DEF RInv
<1>1. /\ save[r] = "publish" /\ counted' = counted \cup {r} /\ notified' = notified \cup {r}
      /\ save' = [save EXCEPT ![r] = "end"]
      /\ UNCHANGED <<kind, h, reply, permit, slots, guards, stage, lines, synced, result>>
  BY DEF Publish
<1>2. /\ save'[r] = "end" /\ save' \in [Requests -> Saving]
      /\ \A x \in Requests \ {r} : save'[x] = save[x]
  BY <1>0, <1>1 DEF TypeOK, Saving
<1>3. h[r] \notin Lining  BY <1>0, <1>1 DEF RequestOK, Lining
<1>4. \A x \in Requests \ {r} : Same(x)  BY <1>1, <1>2 DEF Same, reply
<1>5. RequestOK(r)'  BY <1>0, <1>1, <1>2 DEF RequestOK, Active, reply
<1>6. /\ h' \in [Requests -> Handler] /\ permit' \in [Requests -> SUBSET {"conn", "task"}]
      /\ guards' \in SUBSET Requests /\ lines' \in SUBSET Requests
      /\ counted' \in SUBSET Requests /\ notified' \in SUBSET Requests
  BY <1>0, <1>1 DEF TypeOK
<1> QED  BY <1>1, <1>2, <1>3, <1>4, <1>5, <1>6, QuietStep

LEMMA EndTaskStep ==
    ASSUME RInv, NEW r \in Requests, EndTask(r)
    PROVE  RInv'
<1>0. TypeOK /\ RequestOK(r) /\ SlotsOK /\ StageOK  BY DEF RInv
<1>1. /\ save[r] \in {"end", "endErr"} /\ guards' = guards \ {r} /\ DropPermit(r, "task")
      /\ save' = [save EXCEPT ![r] = IF @ = "end" THEN "ok" ELSE "err"]
      /\ UNCHANGED <<kind, h, reply, waiting, stage, data, result>>
  BY DEF EndTask
<1>2. /\ save'[r] = IF save[r] = "end" THEN "ok" ELSE "err"
      /\ save' \in [Requests -> Saving]
      /\ \A x \in Requests \ {r} : save'[x] = save[x]
  BY <1>0, <1>1 DEF TypeOK, Saving
<1>3. /\ permit' \in [Requests -> SUBSET {"conn", "task"}]
      /\ permit'[r] = permit[r] \ {"task"}
      /\ \A x \in Requests \ {r} : permit'[x] = permit[x]
  BY <1>0, <1>1, DropFacts
<1>4. Queued' = Queued /\ InLine' = InLine  BY <1>1 DEF Queued, InLine
<1>5. SlotsOK' /\ avail' \in Nat /\ queue' \in Seq(Requests) /\ granted' \in SUBSET Requests
  BY <1>0, <1>1, <1>4, DropStep
<1>6. OtherTypes'  BY <1>0, <1>1, <1>2, <1>3, <1>5 DEF TypeOK, OtherTypes, data, reply
<1>7. \A x \in Requests \ {r} : Same(x)  BY <1>1, <1>2, <1>3 DEF Same, data, reply
<1>8. RequestOK(r)'  BY <1>0, <1>1, <1>2, <1>3 DEF RequestOK, Active, data, reply
<1>9. StageOK'  BY <1>0, <1>1, StageKept DEF data
<1> QED  BY <1>5, <1>6, <1>7, <1>8, <1>9, RequestStep
-----------------------------------------------------------------------------
(***************************************************************************)
(* The shutdown.                                                           *)
(***************************************************************************)
LEMMA StageStep ==
    ASSUME RInv, UNCHANGED <<kind, h, reply, permit, save, slots, guards, lines, counted, notified>>,
           stage' \in {Stages[i] : i \in DOMAIN Stages}, synced' \in SUBSET Requests,
           result' \in {"ok", "listener", "sync"}, StageOK'
    PROVE  RInv'
<1>0. TypeOK /\ SlotsOK  BY DEF RInv
<1>1. OtherTypes'  BY <1>0 DEF TypeOK, OtherTypes, reply, slots
<1>2. Queued' = Queued /\ InLine' = InLine /\ Holders' = Holders  BY DEF Queued, InLine, Holders
<1>3. SlotsOK'  BY <1>0, <1>2, SlotsSame
<1>4. avail' \in Nat  BY <1>0, Sets DEF slots
<1>5. TypeOK'  BY <1>1, <1>3, <1>4, Ranges
<1>6. \A x \in Requests : RequestOK(x)'
  <2> TAKE x \in Requests
  <2>1. Same(x)  BY DEF Same, reply
  <2> QED  BY <2>1, SameKeeps DEF RInv
<1> QED  BY <1>3, <1>5, <1>6 DEF RInv

LEMMA ShutdownKeeps ==
    ASSUME RInv, Signal \/ ListenerEnds \/ ShutdownStep
    PROVE  RInv'
<1>0. TypeOK /\ StageOK  BY DEF RInv
<1>1. /\ "drain" \in {Stages[i] : i \in DOMAIN Stages} /\ "closing" \in {Stages[i] : i \in DOMAIN Stages}
      /\ "locked" \in {Stages[i] : i \in DOMAIN Stages} /\ "flushed" \in {Stages[i] : i \in DOMAIN Stages}
      /\ "released" \in {Stages[i] : i \in DOMAIN Stages} /\ "stopped" \in {Stages[i] : i \in DOMAIN Stages}
      /\ "exit" \in {Stages[i] : i \in DOMAIN Stages}
  BY DEF Stages
<1>2. result \in {"ok", "listener", "sync"} /\ synced \in SUBSET Requests /\ lines \in SUBSET Requests
  BY <1>0 DEF TypeOK
<1>3. CASE Signal \/ ListenerEnds \/ DrainDone \/ Abandon
  <2>1. /\ UNCHANGED <<kind, h, reply, permit, save, slots, guards, lines, counted, notified>>
        /\ stage' \in {"drain", "closing"} /\ synced' = synced
        /\ result' \in {"ok", "listener", "sync"}
    BY <1>2, <1>3 DEF Signal, ListenerEnds, DrainDone, Abandon, MergeTaskResult, JoinResults, data
  <2>2. StageOK'  BY <2>1 DEF StageOK
  <2> QED  BY <1>1, <1>2, <2>1, <2>2, StageStep
<1>4. CASE CloseAdmission
  <2>1. /\ UNCHANGED <<kind, h, reply, permit, save, slots, guards, lines, counted, notified>>
        /\ stage' = "locked" /\ synced' = synced /\ result' = result /\ guards = {}
    BY <1>4 DEF CloseAdmission, data
  <2>2. StageOK'  BY <2>1 DEF StageOK
  <2> QED  BY <1>1, <1>2, <2>1, <2>2, StageStep
<1>5. CASE FinalSync
  <2>1. /\ UNCHANGED <<kind, h, reply, permit, save, slots, guards, lines, counted, notified>>
        /\ stage = "locked" /\ stage' = "flushed"
        /\ \/ synced' = lines /\ result' = result
           \/ synced' = synced /\ result' \in {"listener", "sync"}
    BY <1>2, <1>5 DEF FinalSync, MergeTaskResult
  <2>2. StageOK'  BY <1>0, <2>1 DEF StageOK
  <2>3. synced' \in SUBSET Requests /\ result' \in {"ok", "listener", "sync"}  BY <1>2, <2>1
  <2> QED  BY <1>1, <2>1, <2>2, <2>3, StageStep
<1>6. CASE ReleaseAdmission \/ StopProxy \/ Exit
  <2>1. /\ UNCHANGED <<kind, h, reply, permit, save, slots, guards, lines, counted, notified>>
        /\ stage \in {"flushed", "released", "stopped"} /\ stage' \in {"released", "stopped", "exit"}
        /\ synced' = synced /\ result' = result
    BY <1>6 DEF ReleaseAdmission, StopProxy, Exit, data
  <2>2. StageOK'  BY <1>0, <2>1 DEF StageOK
  <2> QED  BY <1>1, <1>2, <2>1, <2>2, StageStep
<1> QED  BY <1>3, <1>4, <1>5, <1>6 DEF ShutdownStep
-----------------------------------------------------------------------------
(***************************************************************************)
(* The invariant and what follows from it.                                 *)
(***************************************************************************)
LEMMA RInit == Init => RInv
<1> SUFFICES ASSUME Init  PROVE RInv
  OBVIOUS
<1>1. TypeOK
  <2>1. stage \in {Stages[i] : i \in DOMAIN Stages}  BY DEF Init, Stages
  <2>2. avail \in 0..MaxInflight /\ waiting \in Nat  BY ReceiverAssumption DEF Init
  <2>3. queue \in Seq(Requests)  BY DEF Init
  <2> QED  BY <2>1, <2>2, <2>3 DEF Init, TypeOK, Handler, Saving
<1>2. \A r \in Requests : RequestOK(r)  BY DEF Init, RequestOK, Active
<1>3. Queued = {} /\ InLine = {} /\ Holders = {} /\ granted = {}
  BY DEF Init, Queued, InLine, Holders, Lining
<1>4. Cardinality(InLine) = 0 /\ Cardinality(Holders) = 0 /\ Cardinality(granted) = 0
  BY <1>3, FS_EmptySet
<1>5. Line(queue, Queued \ granted)  BY <1>3 DEF Init, Line
<1>6. avail + Cardinality(granted) + Cardinality(Holders) = MaxInflight
  BY <1>4, ReceiverAssumption DEF Init
<1>7. SlotsOK  BY <1>3, <1>4, <1>5, <1>6 DEF Init, SlotsOK
<1>8. StageOK  BY DEF Init, StageOK
<1> QED  BY <1>1, <1>2, <1>7, <1>8 DEF RInv

LEMMA RInductive == RInv /\ [Next]_vars => RInv'
<1> SUFFICES ASSUME RInv, [Next]_vars  PROVE RInv'
  OBVIOUS
<1>1. ASSUME NEW r \in Requests, HandlerStep(r)  PROVE RInv'
  BY <1>1, EnterWaitingStep, BounceStep, JoinStep, GrantedStep, WaitTimeoutStep, BodyTimeoutStep,
     RecordStep, RecordRefusedStep, RespondStep
  DEF HandlerStep
<1>2. ASSUME NEW r \in Requests, TaskStep(r)  PROVE RInv'
  BY <1>2, PersistStep, PublishStep, EndTaskStep DEF TaskStep
<1>3. ASSUME NEW r \in Requests, ClientStep(r)  PROVE RInv'
  BY <1>3, UnsupportedStep, ArriveStep, BodyReadStep, BodyFailStep, CancelQueuedStep,
     CancelGrantedStep, CancelRunningStep
  DEF ClientStep
<1>4. CASE Signal \/ ListenerEnds \/ ShutdownStep  BY <1>4, ShutdownKeeps
<1>5. CASE UNCHANGED vars
  <2>1. /\ UNCHANGED <<kind, h, reply, permit, save, slots, guards, lines, counted, notified>>
        /\ stage' = stage /\ synced' = synced /\ result' = result
    BY <1>5 DEF vars, data
  <2>2. StageOK'  BY <2>1 DEF RInv, StageOK
  <2>3. /\ stage' \in {Stages[i] : i \in DOMAIN Stages} /\ synced' \in SUBSET Requests
        /\ result' \in {"ok", "listener", "sync"}
    BY <2>1 DEF RInv, TypeOK
  <2> QED  BY <2>1, <2>2, <2>3, StageStep
<1> QED  BY <1>1, <1>2, <1>3, <1>4, <1>5 DEF Next

\* In every reachable state of the receiver the invariant holds.
THEOREM ReceiverInvariant == Spec => []RInv
<1> QED  BY RInit, RInductive, PTL DEF Spec

LEMMA SlotsFollow == RInv => SlotsConserved
<1> SUFFICES ASSUME RInv  PROVE SlotsConserved
  OBVIOUS
<1>0. TypeOK /\ SlotsOK  BY DEF RInv
<1>1. /\ avail + Cardinality(granted) + Cardinality({r \in Requests : permit[r] # {}}) = MaxInflight
      /\ queue # <<>> => avail = 0
  BY <1>0 DEF SlotsOK, Holders
<1>2. waiting = Cardinality({r \in Requests : h[r] \in {"bounced", "joining", "queued"}})
  BY <1>0 DEF SlotsOK, InLine, Lining
<1>3. InMemory \subseteq Holders
  <2> SUFFICES ASSUME NEW r \in InMemory  PROVE r \in Holders
    OBVIOUS
  <2>1. r \in Requests  BY DEF InMemory
  <2>2. RequestOK(r)  BY <2>1 DEF RInv
  <2>3. permit[r] # {}  BY <2>1, <2>2 DEF InMemory, RequestOK, Active
  <2> QED  BY <2>1, <2>3 DEF Holders
<1>4. IsFiniteSet(Holders) /\ IsFiniteSet(granted)
  BY <1>0, Sets, ReceiverAssumption, FS_Subset
<1>5. /\ Cardinality(InMemory) <= Cardinality(Holders)
      /\ Cardinality(InMemory) \in Nat /\ Cardinality(Holders) \in Nat
      /\ Cardinality(granted) \in Nat
  BY <1>3, <1>4, FS_Subset, FS_CardinalityType
<1>6. Cardinality(InMemory) <= MaxInflight
  <2>1. avail + Cardinality(granted) + Cardinality(Holders) = MaxInflight  BY <1>0 DEF SlotsOK
  <2>2. avail \in Nat /\ MaxInflight \in Nat  BY <1>0, Sets
  <2> QED  BY <1>5, <2>1, <2>2
<1> QED  BY <1>1, <1>2, <1>6 DEF SlotsConserved

\* ReceiveLimits neither loses nor makes up a slot or a waiting place, whichever
\* of the handler and the recording task drops a permit last and wherever a
\* client leaves, and no more bodies are in memory than there are slots.
THEOREM SlotsTheorem == Spec => []SlotsConserved
<1> QED  BY ReceiverInvariant, SlotsFollow, PTL

LEMMA RetryFollows == RInv => RetryMeansUnsaved
<1> SUFFICES ASSUME RInv, NEW r \in Requests
             PROVE  /\ resp[r] \in {"retry", "reject"} => r \notin lines \cup counted
                    /\ fault[r] = "receiver" => resp[r] = "retry"
  BY DEF RetryMeansUnsaved
<1>1. RequestOK(r)  BY DEF RInv
<1> QED  BY <1>1 DEF RequestOK

\* A sender that Sink::record_with_permit, the deadline or the admission failed
\* has no line and nothing in the totals, and gives a batch up only where the
\* batch itself was at fault.
THEOREM RetryTheorem == Spec => []RetryMeansUnsaved
<1> QED  BY ReceiverInvariant, RetryFollows, PTL

LEMMA ExitFollows == RInv => CleanExitDurable
<1> SUFFICES ASSUME RInv, Since("flushed"), result = "ok", NEW r \in Requests, resp[r] = "ok"
             PROVE  r \in synced
  BY DEF CleanExitDurable
<1>1. stage \in {"flushed", "released", "stopped", "exit"}  BY SinceIs DEF RInv
<1>2. lines \subseteq synced  BY <1>1 DEF RInv, StageOK
<1>3. r \in lines
  <2>1. RequestOK(r)  BY DEF RInv
  <2> QED  BY <2>1 DEF RequestOK
<1> QED  BY <1>2, <1>3

\* Sink::shutdown's write lock waits for every recording task and no task starts
\* behind it, so a clean exit has synced all that was acknowledged.
THEOREM CleanExitTheorem == Spec => []CleanExitDurable
<1> QED  BY ReceiverInvariant, ExitFollows, PTL
=============================================================================
