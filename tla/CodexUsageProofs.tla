-------------------------- MODULE CodexUsageProofs --------------------------
(***************************************************************************)
(* The Codex half of the aggregator neither loses nor doubles usage, for   *)
(* every set of samples, conversations, services and models, in whatever   *)
(* order logs, metrics and turns arrive. UsageInv says where each sample   *)
(* is: in one bucket, the one its session calls for, pending as long as    *)
(* that session is incomplete. Every handler is a chain of updates of the  *)
(* state; each kind of update is shown to keep UsageInv, and the step      *)
(* lemmas put the chains together.                                         *)
(***************************************************************************)
EXTENDS CodexUsage, TLAPS

Agg == [total    : SUBSET Samples,
        bucket   : [Buckets -> SUBSET Samples],
        keys     : SUBSET Buckets,
        sessions : [Conversations -> Sessions \cup {NoSession}],
        last     : [Services -> Sessions \cup {NoSession}],
        source   : [ModelNames -> {"none", "logs", "metrics"}],
        pending  : SUBSET [cid : Conversations, b : Buckets, e : Samples]]

Arrived == [id : Samples, from : {"logs", "metrics", "turn"},
            cid : Conversations \cup {Empty}, key : ModelNames]

\* The buckets share the total among them.
Partition(i) ==
    /\ \A e \in Samples : e \in i.total <=> \E b \in Buckets : e \in i.bucket[b]
    /\ \A b, c \in Buckets : \A e \in Samples : e \in i.bucket[b] /\ e \in i.bucket[c] => b = c
    /\ \A b \in Buckets : b \in i.keys <=> i.bucket[b] # {}

Move == [from : Buckets, to : Buckets, e : Samples]

\* Each of moves takes a sample from where it is to another bucket.
Sound(i, moves) ==
    /\ moves \in SUBSET Move
    /\ \A v \in moves : v.e \in i.bucket[v.from] /\ v.from # v.to
    /\ \A u, v \in moves : u.e = v.e => u = v

\* Where a sample is after moves.
Lands(i, moves, e, b) ==
    \/ e \in i.bucket[b] /\ \A v \in moves : v.e # e
    \/ \E v \in moves : v.e = e /\ v.to = b

LEMMA MoveFields ==
    ASSUME NEW i \in Agg, NEW moves \in SUBSET Move
    PROVE  LET j == MoveBucketStats(i, moves)
               Left(b) == i.bucket[b] \ {v.e : v \in {u \in moves : u.from = b}}
           IN  /\ j \in Agg
               /\ j.total = i.total /\ j.sessions = i.sessions /\ j.last = i.last
               /\ j.source = i.source /\ j.pending = i.pending
               /\ \A b \in Buckets :
                     j.bucket[b] = Left(b) \cup {v.e : v \in {u \in moves : u.to = b}}
               /\ j.keys = (i.keys \ {b \in {v.from : v \in moves} : Left(b) = {}})
                           \cup {v.to : v \in moves}
<1> DEFINE Left(b) == i.bucket[b] \ {v.e : v \in {u \in moves : u.from = b}}
           left == [b \in Buckets |-> Left(b)]
           after == [b \in Buckets |-> left[b] \cup {v.e : v \in {u \in moves : u.to = b}}]
           keys == (i.keys \ {b \in {v.from : v \in moves} : left[b] = {}}) \cup {v.to : v \in moves}
<1>1. MoveBucketStats(i, moves) = [i EXCEPT !.bucket = after, !.keys = keys]
  BY DEF MoveBucketStats
<1>2. after \in [Buckets -> SUBSET Samples]
  BY DEF Agg, Move
<1>3. \A v \in moves : v.from \in Buckets /\ v.to \in Buckets
  BY DEF Move
<1>4. keys = (i.keys \ {b \in {v.from : v \in moves} : Left(b) = {}}) \cup {v.to : v \in moves}
  <2> DEFINE F == {v.from : v \in moves}
  <2>1. \A b \in F : left[b] = Left(b)
    BY <1>3
  <2> HIDE DEF F, left, Left
  <2>2. {b \in F : left[b] = {}} = {b \in F : Left(b) = {}}
    BY <2>1
  <2> QED  BY <2>2 DEF F
<1>5. keys \in SUBSET Buckets
  BY <1>3 DEF Agg
<1>6. \A b \in Buckets : after[b] = Left(b) \cup {v.e : v \in {u \in moves : u.to = b}}
  OBVIOUS
<1>7. LET j == [i EXCEPT !.bucket = after, !.keys = keys]
      IN  /\ j \in Agg
          /\ j.total = i.total /\ j.sessions = i.sessions /\ j.last = i.last
          /\ j.source = i.source /\ j.pending = i.pending
          /\ j.bucket = after /\ j.keys = keys
  <2> HIDE DEF after, keys
  <2> QED  BY <1>2, <1>5 DEF Agg
<1> QED
  <2> HIDE DEF after, keys
  <2> QED  BY <1>1, <1>4, <1>6, <1>7

LEMMA MoveStats ==
    ASSUME NEW i \in Agg, Partition(i), NEW moves, Sound(i, moves)
    PROVE  LET j == MoveBucketStats(i, moves)
           IN  /\ j \in Agg
               /\ j.total = i.total /\ j.sessions = i.sessions /\ j.last = i.last
               /\ j.source = i.source /\ j.pending = i.pending
               /\ \A b \in Buckets, e \in Samples : e \in j.bucket[b] <=> Lands(i, moves, e, b)
               /\ Partition(j)
               /\ (j.bucket # i.bucket) <=> (moves # {})
<1> DEFINE j == MoveBucketStats(i, moves)
           Left(b) == i.bucket[b] \ {v.e : v \in {u \in moves : u.from = b}}
           Gone == {b \in {v.from : v \in moves} : Left(b) = {}}
<1>0. moves \in SUBSET Move
  BY DEF Sound
<1>1. /\ j \in Agg
      /\ j.total = i.total /\ j.sessions = i.sessions /\ j.last = i.last
      /\ j.source = i.source /\ j.pending = i.pending
      /\ \A b \in Buckets : j.bucket[b] = Left(b) \cup {v.e : v \in {u \in moves : u.to = b}}
      /\ j.keys = (i.keys \ Gone) \cup {v.to : v \in moves}
  BY <1>0, MoveFields
<1> HIDE DEF j
<1>2. \A v \in moves : v.from \in Buckets /\ v.to \in Buckets /\ v.e \in Samples
  BY <1>0 DEF Move
<1>3. \A b \in Buckets, e \in Samples : e \in Left(b) <=> e \in i.bucket[b] /\ \A v \in moves : v.e # e
  <2> TAKE b \in Buckets, e \in Samples
  <2>1. \A v \in moves : v.e = e /\ e \in i.bucket[b] => v.from = b
    BY <1>2 DEF Sound, Partition
  <2> QED  BY <2>1
<1>4. \A b \in Buckets, e \in Samples : e \in j.bucket[b] <=> Lands(i, moves, e, b)
  BY <1>1, <1>3 DEF Lands
<1>5. \A b \in Buckets : i.bucket[b] \subseteq Samples /\ j.bucket[b] \subseteq Samples
  BY <1>1 DEF Agg
<1>6. \A e \in Samples : e \in j.total <=> \E b \in Buckets : e \in j.bucket[b]
  <2> TAKE e \in Samples
  <2>1. CASE \E v \in moves : v.e = e
    <3>1. PICK v \in moves : v.e = e  BY <2>1
    <3>2. e \in i.bucket[v.from] /\ v.from \in Buckets  BY <3>1, <1>2 DEF Sound
    <3>3. e \in j.total  BY <3>2, <1>1 DEF Partition
    <3>4. e \in j.bucket[v.to] /\ v.to \in Buckets  BY <3>1, <1>2, <1>4 DEF Lands
    <3> QED  BY <3>3, <3>4
  <2>2. CASE \A v \in moves : v.e # e
    BY <2>2, <1>1, <1>4 DEF Lands, Partition
  <2> QED  BY <2>1, <2>2
<1>7. \A b, c \in Buckets : \A e \in Samples : e \in j.bucket[b] /\ e \in j.bucket[c] => b = c
  BY <1>4 DEF Lands, Partition, Sound
<1>8. \A b \in Buckets : b \in j.keys <=> j.bucket[b] # {}
  <2> TAKE b \in Buckets
  <2>1. CASE \E v \in moves : v.to = b
    BY <2>1, <1>1, <1>2, <1>4 DEF Lands
  <2>2. CASE \A v \in moves : v.to # b
    <3>1. b \in j.keys <=> b \in i.keys /\ b \notin Gone
      BY <2>2, <1>1
    <3>2. j.bucket[b] = Left(b)
      BY <2>2, <1>1
    <3>3. b \in Gone <=> (\E v \in moves : v.from = b) /\ Left(b) = {}
      OBVIOUS
    <3>4. (\A v \in moves : v.from # b) => Left(b) = i.bucket[b]
      OBVIOUS
    <3>5. b \in i.keys <=> i.bucket[b] # {}
      BY DEF Partition
    <3>6. Left(b) # {} => i.bucket[b] # {}
      OBVIOUS
    <3> HIDE DEF Gone, Left
    <3> QED  BY <3>1, <3>2, <3>3, <3>4, <3>5, <3>6
  <2> QED  BY <2>1, <2>2
<1>9. (j.bucket # i.bucket) <=> (moves # {})
  <2>1. ASSUME moves # {} PROVE j.bucket # i.bucket
    <3>1. PICK v \in moves : TRUE  BY <2>1
    <3>2. v.e \in i.bucket[v.from] /\ v.from # v.to  BY DEF Sound
    <3>3. v.e \notin j.bucket[v.from]  BY <3>1, <3>2, <1>2, <1>4 DEF Lands, Sound
    <3> QED  BY <3>2, <3>3
  <2>2. ASSUME moves = {} PROVE j.bucket = i.bucket
    <3>1. \A b \in Buckets : j.bucket[b] = i.bucket[b]
      BY <2>2, <1>4, <1>5 DEF Lands
    <3>2. j.bucket \in [Buckets -> SUBSET Samples] /\ i.bucket \in [Buckets -> SUBSET Samples]
      BY <1>1 DEF Agg
    <3> QED  BY <3>1, <3>2
  <2> QED  BY <2>1, <2>2
<1>10. Partition(j)
  BY <1>6, <1>7, <1>8 DEF Partition
<1> QED  BY <1>1, <1>4, <1>9, <1>10 DEF j
-----------------------------------------------------------------------------
\* The provider or the effort is still to come.
Waits(s, b) == s = NoSession \/ ~ s.confirmed \/ b[3] = Unknown

\* A sample arrives once.
IdOnce(sn) == \A r, q \in sn : r.id = q.id => r = q

\* What is pending is in the bucket noted and came from that conversation.
Placed(i, sn) ==
    \A p \in i.pending : p.e \in i.bucket[p.b] /\ \E r \in sn : r.id = p.e /\ r.cid = p.cid

Once(i) == \A p, q \in i.pending : p.e = q.e => p = q

\* What is pending for a conversation of D waits, under the session's provider.
Waiting(i, D) ==
    \A p \in i.pending :
        p.cid \in D => Waits(i.sessions[p.cid], p.b) /\ p.b[1] = ProviderOf(i.sessions[p.cid])

\* What waits is pending.
Complete(i, sn) ==
    \A r \in sn, b \in Buckets :
        r.cid # Empty /\ r.id \in i.bucket[b] /\ Waits(i.sessions[r.cid], b) =>
            [cid |-> r.cid, b |-> b, e |-> r.id] \in i.pending

\* The parts of merge_codex_pending_sse.
To(s, b) == FromParts(s.provider, b[2], IF b[3] = Unknown THEN s.effort ELSE b[3])
Mine(i, s) == {p \in i.pending : p.cid = s.cid}
Kept(i, s) == {[p EXCEPT !.b = To(s, p.b)] :
                  p \in {q \in Mine(i, s) : ~ (s.confirmed /\ To(s, q.b)[3] # Unknown)}}
Moves(i, s) == {[from |-> p.b, to |-> To(s, p.b), e |-> p.e] :
                   p \in {q \in Mine(i, s) : To(s, q.b) # q.b}}

LEMMA MergePendingIs ==
    ASSUME NEW i, NEW s
    PROVE  MergePending(i, s) =
               [g     |-> [MoveBucketStats(i, Moves(i, s)) EXCEPT !.pending = (@ \ Mine(i, s)) \cup Kept(i, s)],
                moved |-> Moves(i, s) # {}]
BY DEF MergePending, Moves, Mine, Kept, To

LEMMA ToBucket ==
    ASSUME NEW s \in Sessions, NEW b \in Buckets
    PROVE  /\ To(s, b) \in Buckets
           /\ To(s, b)[1] = s.provider
           /\ To(s, b)[2] = b[2]
           /\ To(s, b)[3] = IF b[3] = Unknown THEN NonEmpty(s.effort) ELSE b[3]
BY NamesAssumption DEF To, FromParts, NonEmpty, Sessions, Buckets, ModelNames

LEMMA PendingMoves ==
    ASSUME NEW i \in Agg, NEW s \in Sessions, NEW sn, Placed(i, sn), Once(i)
    PROVE  Sound(i, Moves(i, s))
<1>1. \A p \in Mine(i, s) : p \in i.pending /\ p.b \in Buckets /\ p.e \in Samples /\ To(s, p.b) \in Buckets
  BY ToBucket DEF Mine, Agg
<1>2. Moves(i, s) \in SUBSET Move
  BY <1>1 DEF Moves, Move
<1>3. \A v \in Moves(i, s) : v.e \in i.bucket[v.from] /\ v.from # v.to
  BY <1>1 DEF Moves, Placed
<1>4. \A u, v \in Moves(i, s) : u.e = v.e => u = v
  <2> SUFFICES ASSUME NEW u \in Moves(i, s), NEW v \in Moves(i, s), u.e = v.e PROVE u = v
    OBVIOUS
  <2>1. PICK p \in Mine(i, s) : u = [from |-> p.b, to |-> To(s, p.b), e |-> p.e]
    BY DEF Moves
  <2>2. PICK q \in Mine(i, s) : v = [from |-> q.b, to |-> To(s, q.b), e |-> q.e]
    BY DEF Moves
  <2>3. p = q
    BY <1>1, <2>1, <2>2 DEF Once
  <2> QED  BY <2>1, <2>2, <2>3
<1> QED  BY <1>2, <1>3, <1>4 DEF Sound

\* Where each sample is once the pending usage of s has moved.
LEMMA MergePendingStats ==
    ASSUME NEW i \in Agg, NEW s \in Sessions, NEW sn, Partition(i), Placed(i, sn), Once(i)
    PROVE  LET j == MergePending(i, s).g
           IN  /\ j \in Agg
               /\ j.total = i.total /\ j.sessions = i.sessions /\ j.last = i.last /\ j.source = i.source
               /\ j.pending = (i.pending \ Mine(i, s)) \cup Kept(i, s)
               /\ Partition(j)
               /\ \A p \in Mine(i, s), b \in Buckets : p.e \in j.bucket[b] <=> b = To(s, p.b)
               /\ \A e \in Samples, b \in Buckets :
                     (\A p \in Mine(i, s) : p.e # e) => (e \in j.bucket[b] <=> e \in i.bucket[b])
               /\ (j.bucket # i.bucket) <=> MergePending(i, s).moved
<1> DEFINE m == MoveBucketStats(i, Moves(i, s))
           j == MergePending(i, s).g
<1>1. Sound(i, Moves(i, s))
  BY PendingMoves
<1>2. /\ m \in Agg
      /\ m.total = i.total /\ m.sessions = i.sessions /\ m.last = i.last
      /\ m.source = i.source /\ m.pending = i.pending
      /\ \A b \in Buckets, e \in Samples : e \in m.bucket[b] <=> Lands(i, Moves(i, s), e, b)
      /\ Partition(m)
      /\ (m.bucket # i.bucket) <=> (Moves(i, s) # {})
  BY <1>1, MoveStats
<1>3. /\ j = [m EXCEPT !.pending = (@ \ Mine(i, s)) \cup Kept(i, s)]
      /\ MergePending(i, s).moved = (Moves(i, s) # {})
  BY MergePendingIs
<1>4. \A p \in Mine(i, s) : p \in i.pending /\ p \in [cid : Conversations, b : Buckets, e : Samples] /\ To(s, p.b) \in Buckets
  BY ToBucket DEF Mine, Agg
<1>5. Kept(i, s) \in SUBSET [cid : Conversations, b : Buckets, e : Samples]
  BY <1>4 DEF Kept
<1> HIDE DEF m, j
<1>6. /\ j \in Agg
      /\ j.total = m.total /\ j.sessions = m.sessions /\ j.last = m.last
      /\ j.source = m.source /\ j.bucket = m.bucket /\ j.keys = m.keys
      /\ j.pending = (i.pending \ Mine(i, s)) \cup Kept(i, s)
  BY <1>2, <1>3, <1>5 DEF Agg
<1>7. Partition(j)
  BY <1>2, <1>6 DEF Partition
<1>8. \A p \in Mine(i, s), b \in Buckets : p.e \in j.bucket[b] <=> b = To(s, p.b)
  <2> TAKE p \in Mine(i, s), b \in Buckets
  <2>1. p.e \in j.bucket[b] <=> Lands(i, Moves(i, s), p.e, b)
    BY <1>2, <1>4, <1>6
  <2>2. \A q \in Mine(i, s) : q.e = p.e => q = p
    BY <1>4 DEF Once
  <2>3. p.e \in i.bucket[p.b] /\ p.b \in Buckets /\ p.e \in Samples
    BY <1>4 DEF Placed
  <2>4. CASE To(s, p.b) = p.b
    <3>1. \A v \in Moves(i, s) : v.e # p.e
      BY <2>2, <2>4 DEF Moves
    <3> QED  BY <2>1, <2>3, <2>4, <3>1 DEF Lands, Partition
  <2>5. CASE To(s, p.b) # p.b
    <3>1. [from |-> p.b, to |-> To(s, p.b), e |-> p.e] \in Moves(i, s)
      BY <2>5 DEF Moves
    <3>2. \A v \in Moves(i, s) : v.e = p.e => v.to = To(s, p.b)
      BY <2>2 DEF Moves
    <3> QED  BY <2>1, <3>1, <3>2 DEF Lands
  <2> QED  BY <2>4, <2>5
<1>9. \A e \in Samples, b \in Buckets :
         (\A p \in Mine(i, s) : p.e # e) => (e \in j.bucket[b] <=> e \in i.bucket[b])
  <2> SUFFICES ASSUME NEW e \in Samples, NEW b \in Buckets, \A p \in Mine(i, s) : p.e # e
               PROVE  e \in j.bucket[b] <=> e \in i.bucket[b]
    OBVIOUS
  <2>1. \A v \in Moves(i, s) : v.e # e
    BY DEF Moves
  <2> QED  BY <1>2, <1>6, <2>1 DEF Lands
<1> QED  BY <1>2, <1>3, <1>6, <1>7, <1>8, <1>9 DEF j

LEMMA MergePendingKeeps ==
    ASSUME NEW i \in Agg, NEW sn \in SUBSET Arrived, NEW s \in Sessions,
           s.cid \in Conversations, i.sessions[s.cid] = s,
           Partition(i), IdOnce(sn), Placed(i, sn), Once(i), Complete(i, sn),
           Waiting(i, Conversations \ {s.cid})
    PROVE  LET j == MergePending(i, s).g
           IN  Placed(j, sn) /\ Once(j) /\ Complete(j, sn) /\ Waiting(j, Conversations)
<1> DEFINE j == MergePending(i, s).g
           M == Mine(i, s)
           K == Kept(i, s)
<1>1. /\ j \in Agg
      /\ j.sessions = i.sessions
      /\ j.pending = (i.pending \ M) \cup K
      /\ \A p \in M, b \in Buckets : p.e \in j.bucket[b] <=> b = To(s, p.b)
      /\ \A e \in Samples, b \in Buckets :
            (\A p \in M : p.e # e) => (e \in j.bucket[b] <=> e \in i.bucket[b])
  BY MergePendingStats
<1>2. \A p \in i.pending : p \in [cid : Conversations, b : Buckets, e : Samples]
  BY DEF Agg
<1>3. \A p \in i.pending : p \in M <=> p.cid = s.cid
  BY DEF Mine
<1>4. \A p \in M : p \in i.pending /\ To(s, p.b) \in Buckets
  BY <1>2, ToBucket DEF Mine
<1>5. \A k \in K : \E p \in M : /\ k = [cid |-> p.cid, b |-> To(s, p.b), e |-> p.e]
                                /\ ~ (s.confirmed /\ To(s, p.b)[3] # Unknown)
  BY <1>2, <1>4 DEF Kept
<1>6. \A p \in M : ~ (s.confirmed /\ To(s, p.b)[3] # Unknown) => [cid |-> p.cid, b |-> To(s, p.b), e |-> p.e] \in K
  <2> SUFFICES ASSUME NEW p \in M, ~ (s.confirmed /\ To(s, p.b)[3] # Unknown)
               PROVE  [cid |-> p.cid, b |-> To(s, p.b), e |-> p.e] \in K
    OBVIOUS
  <2>1. [p EXCEPT !.b = To(s, p.b)] = [cid |-> p.cid, b |-> To(s, p.b), e |-> p.e]
    BY <1>2, <1>4
  <2>2. [p EXCEPT !.b = To(s, p.b)] \in K
    BY DEF Kept
  <2> QED  BY <2>1, <2>2
<1>7. s # NoSession /\ s.confirmed \in BOOLEAN
  BY NamesAssumption DEF Sessions
<1> HIDE DEF j, M, K
<1>8. Placed(j, sn)
  <2> SUFFICES ASSUME NEW p \in j.pending
               PROVE  p.e \in j.bucket[p.b] /\ \E r \in sn : r.id = p.e /\ r.cid = p.cid
    BY DEF Placed
  <2>1. CASE p \in i.pending /\ p \notin M
    <3>1. \A q \in M : q.e # p.e
      BY <2>1, <1>4 DEF Once
    <3> QED  BY <2>1, <3>1, <1>1, <1>2 DEF Placed
  <2>2. CASE p \in K
    <3>1. PICK q \in M : p = [cid |-> q.cid, b |-> To(s, q.b), e |-> q.e]
      BY <2>2, <1>5
    <3>2. q.e \in j.bucket[To(s, q.b)]
      BY <1>1, <1>4
    <3>3. \E r \in sn : r.id = q.e /\ r.cid = q.cid
      BY <1>4 DEF Placed
    <3> QED  BY <3>1, <3>2, <3>3
  <2> QED  BY <2>1, <2>2, <1>1
<1>9. Once(j)
  <2>1. \A k \in K : \E p \in M : k = [cid |-> p.cid, b |-> To(s, p.b), e |-> p.e]
    BY <1>5
  <2> QED  BY <2>1, <1>1, <1>4 DEF Once
<1>10. Waiting(j, Conversations)
  <2> SUFFICES ASSUME NEW p \in j.pending
               PROVE  Waits(j.sessions[p.cid], p.b) /\ p.b[1] = ProviderOf(j.sessions[p.cid])
    BY DEF Waiting
  <2>1. CASE p \in i.pending /\ p \notin M
    BY <2>1, <1>1, <1>2, <1>3 DEF Waiting
  <2>2. CASE p \in K
    <3>1. PICK q \in M : /\ p = [cid |-> q.cid, b |-> To(s, q.b), e |-> q.e]
                         /\ ~ (s.confirmed /\ To(s, q.b)[3] # Unknown)
      BY <2>2, <1>5
    <3>2. q.cid = s.cid /\ q.b \in Buckets
      BY <1>2, <1>3, <1>4
    <3>3. j.sessions[p.cid] = s
      BY <1>1, <3>1, <3>2
    <3>4. To(s, q.b)[1] = s.provider
      BY <3>2, ToBucket
    <3> QED  BY <1>7, <3>1, <3>3, <3>4 DEF Waits, ProviderOf
  <2> QED  BY <2>1, <2>2, <1>1
<1>11. Complete(j, sn)
  <2> SUFFICES ASSUME NEW r \in sn, NEW b \in Buckets,
                      r.cid # Empty, r.id \in j.bucket[b], Waits(j.sessions[r.cid], b)
               PROVE  [cid |-> r.cid, b |-> b, e |-> r.id] \in j.pending
    BY DEF Complete
  <2>0. r.id \in Samples /\ Waits(i.sessions[r.cid], b)
    BY <1>1 DEF Arrived
  <2>1. CASE \E p \in M : p.e = r.id
    <3>1. PICK p \in M : p.e = r.id
      BY <2>1
    <3>2. PICK q \in sn : q.id = p.e /\ q.cid = p.cid
      BY <1>4 DEF Placed
    <3>3. r.cid = p.cid /\ p.cid = s.cid
      BY <3>1, <3>2, <1>3, <1>4 DEF IdOnce
    <3>4. b = To(s, p.b)
      BY <3>1, <1>1
    <3>5. ~ (s.confirmed /\ To(s, p.b)[3] # Unknown)
      BY <2>0, <3>3, <3>4, <1>7 DEF Waits
    <3> QED  BY <3>1, <3>3, <3>4, <3>5, <1>1, <1>6
  <2>2. CASE \A p \in M : p.e # r.id
    <3>1. r.id \in i.bucket[b]
      BY <2>0, <2>2, <1>1
    <3>2. [cid |-> r.cid, b |-> b, e |-> r.id] \in i.pending
      BY <2>0, <3>1 DEF Complete
    <3> QED  BY <3>2, <2>2, <1>1
  <2> QED  BY <2>1, <2>2
<1> QED  BY <1>8, <1>9, <1>10, <1>11 DEF j
-----------------------------------------------------------------------------
\* A session is filed under its conversation.
Filed(i) == \A c \in Conversations : i.sessions[c] # NoSession => i.sessions[c].cid = c

\* Tokens make their source the one of the model.
SourceSet(i, sn) == \A r \in sn : r.from # "turn" => i.source[r.key] # "none"

\* The total holds what came from that source, and every turn.
FromSource(i, sn) ==
    \A e \in Samples :
        e \in i.total <=> \E r \in sn : r.id = e /\ (r.from = "turn" \/ r.from = i.source[r.key])

UsageInv(i, sn) ==
    /\ i \in Agg /\ sn \in SUBSET Arrived
    /\ Filed(i)
    /\ IdOnce(sn) /\ SourceSet(i, sn) /\ FromSource(i, sn)
    /\ Partition(i)
    /\ Placed(i, sn) /\ Once(i) /\ Waiting(i, Conversations) /\ Complete(i, sn)

\* Nothing of this depends on the last sessions of the services.
LEMMA LastIrrelevant ==
    ASSUME NEW i, NEW sn, UsageInv(i, sn), NEW l \in [Services -> Sessions \cup {NoSession}]
    PROVE  LET j == [i EXCEPT !.last = l]
           IN  /\ UsageInv(j, sn)
               /\ j.bucket = i.bucket /\ j.sessions = i.sessions /\ j.pending = i.pending
<1> DEFINE j == [i EXCEPT !.last = l]
<1>1. /\ j \in Agg
      /\ j.total = i.total /\ j.bucket = i.bucket /\ j.keys = i.keys /\ j.sessions = i.sessions
      /\ j.source = i.source /\ j.pending = i.pending
  BY DEF UsageInv, Agg
<1> HIDE DEF j
<1>2. Filed(j) /\ SourceSet(j, sn) /\ FromSource(j, sn)
  BY <1>1 DEF UsageInv, Filed, SourceSet, FromSource
<1>3. Partition(j)
  BY <1>1 DEF UsageInv, Partition
<1>4. Placed(j, sn) /\ Once(j) /\ Waiting(j, Conversations) /\ Complete(j, sn)
  BY <1>1 DEF UsageInv, Placed, Once, Waiting, Complete
<1> QED  BY <1>1, <1>2, <1>3, <1>4 DEF UsageInv, j

LEMMA FillFromKeeps ==
    ASSUME NEW s \in Sessions, NEW prev \in Sessions \cup {NoSession}
    PROVE  LET full == FillFrom(s, prev)
           IN  /\ full \in Sessions
               /\ full.cid = s.cid
               /\ s.effort # Empty => full.effort # Empty
               /\ prev # NoSession => /\ prev.confirmed => full.confirmed
                                      /\ prev.model # Empty => full.model # Empty
                                      /\ prev.effort # Empty => full.effort # Empty
<1>1. CASE prev = NoSession
  BY <1>1 DEF FillFrom
<1>2. CASE prev # NoSession
  <2> DEFINE m == FirstOf(s.model, prev.model)
             e == FirstOf(s.effort, prev.effort)
             p == IF ~ s.confirmed /\ prev.confirmed THEN prev.provider ELSE s.provider
             f == s.confirmed \/ prev.confirmed
  <2>1. prev \in Sessions
    BY <1>2
  <2>2. m \in Models \cup {Empty} /\ e \in Efforts \cup {Empty} /\ p \in Providers \cup {OpenAI} /\ f \in BOOLEAN
    BY <2>1 DEF Sessions, FirstOf
  <2>3. FillFrom(s, prev) = [s EXCEPT !.model = m, !.effort = e, !.provider = p, !.confirmed = f]
    BY <1>2 DEF FillFrom
  <2>4. (s.effort # Empty => e # Empty) /\ (prev.confirmed => f) /\ (prev.model # Empty => m # Empty) /\ (prev.effort # Empty => e # Empty)
    BY DEF FirstOf
  <2> HIDE DEF m, e, p, f
  <2>5. LET full == [s EXCEPT !.model = m, !.effort = e, !.provider = p, !.confirmed = f]
        IN  full \in Sessions /\ full.cid = s.cid /\ full.effort = e /\ full.model = m /\ full.confirmed = f
    BY <2>2 DEF Sessions
  <2> QED  BY <1>2, <2>3, <2>4, <2>5
<1> QED  BY <1>1, <1>2

\* update_codex_session_with_last for a conversation.
LEMMA UpdateWithId ==
    ASSUME NEW i, NEW sn, UsageInv(i, sn),
           NEW svc \in Services, NEW s \in Sessions, s.cid \in Conversations, NEW ul \in BOOLEAN
    PROVE  LET u == UpdateSession(i, svc, s, ul)
               full == FillFrom(s, i.sessions[s.cid])
           IN  /\ UsageInv(u.g, sn)
               /\ u.g.sessions = [i.sessions EXCEPT ![s.cid] = full]
               /\ u.moved \in BOOLEAN
               /\ (u.g.bucket # i.bucket) <=> u.moved
               /\ \A p \in i.pending, b \in Buckets : p.cid = s.cid =>
                     (p.e \in u.g.bucket[b] <=> b = To(full, p.b))
               /\ \A e \in Samples, b \in Buckets :
                     (\A p \in i.pending : p.cid = s.cid => p.e # e) =>
                         (e \in u.g.bucket[b] <=> e \in i.bucket[b])
<1> DEFINE full == FillFrom(s, i.sessions[s.cid])
           sessions == [i.sessions EXCEPT ![s.cid] = full]
           last == IF ul THEN [i.last EXCEPT ![svc] = full] ELSE i.last
           put == [i EXCEPT !.sessions = sessions, !.last = last]
           j == MergePending(put, full).g
<1>0. i \in Agg /\ sn \in SUBSET Arrived /\ s.cid # Empty
  BY NamesAssumption DEF UsageInv
<1>1. i.sessions[s.cid] \in Sessions \cup {NoSession}
  BY <1>0 DEF Agg
<1>2. /\ full \in Sessions
      /\ full.cid = s.cid
      /\ i.sessions[s.cid] # NoSession /\ i.sessions[s.cid].confirmed => full.confirmed
  BY <1>1, FillFromKeeps
<1>3. UpdateSession(i, svc, s, ul) = MergePending(put, full)
  BY <1>0, <1>2 DEF UpdateSession, MergeCodexPendingSse
<1> HIDE DEF full
<1>4. sessions \in [Conversations -> Sessions \cup {NoSession}] /\ last \in [Services -> Sessions \cup {NoSession}]
  BY <1>0, <1>2 DEF Agg
<1>5. /\ sessions[s.cid] = full
      /\ \A c \in Conversations : c # s.cid => sessions[c] = i.sessions[c]
  BY <1>0 DEF Agg
<1> HIDE DEF sessions, last
<1>6. /\ put \in Agg
      /\ put.total = i.total /\ put.bucket = i.bucket /\ put.keys = i.keys /\ put.source = i.source
      /\ put.pending = i.pending /\ put.sessions = sessions
  BY <1>0, <1>4 DEF Agg
<1> HIDE DEF put
<1>7. Partition(put) /\ Placed(put, sn) /\ Once(put)
  BY <1>6 DEF UsageInv, Partition, Placed, Once
<1>8. Waiting(put, Conversations \ {full.cid})
  BY <1>2, <1>5, <1>6 DEF UsageInv, Waiting, Agg
<1>9. Complete(put, sn)
  <2> SUFFICES ASSUME NEW r \in sn, NEW b \in Buckets,
                      r.cid # Empty, r.id \in put.bucket[b], Waits(put.sessions[r.cid], b)
               PROVE  [cid |-> r.cid, b |-> b, e |-> r.id] \in put.pending
    BY DEF Complete
  <2>1. r.cid \in Conversations
    BY <1>0 DEF Arrived
  <2>2. CASE r.cid # s.cid
    BY <2>1, <2>2, <1>5, <1>6 DEF UsageInv, Complete
  <2>3. CASE r.cid = s.cid
    <3>1. full # NoSession
      BY <1>2, NamesAssumption DEF Sessions
    <3>2. ~ full.confirmed \/ b[3] = Unknown
      BY <2>3, <3>1, <1>5, <1>6 DEF Waits
    <3>3. Waits(i.sessions[r.cid], b)
      BY <2>3, <3>2, <1>2 DEF Waits
    <3> QED  BY <3>3, <1>6 DEF UsageInv, Complete
  <2> QED  BY <2>2, <2>3
<1>10. IdOnce(sn) /\ put.sessions[full.cid] = full
  BY <1>2, <1>5, <1>6 DEF UsageInv
<1>11. Placed(j, sn) /\ Once(j) /\ Complete(j, sn) /\ Waiting(j, Conversations)
  BY <1>0, <1>2, <1>6, <1>7, <1>8, <1>9, <1>10, MergePendingKeeps
<1>12. /\ j \in Agg
       /\ j.total = put.total /\ j.sessions = put.sessions /\ j.source = put.source
       /\ Partition(j)
       /\ \A p \in Mine(put, full), b \in Buckets : p.e \in j.bucket[b] <=> b = To(full, p.b)
       /\ \A e \in Samples, b \in Buckets :
             (\A p \in Mine(put, full) : p.e # e) => (e \in j.bucket[b] <=> e \in put.bucket[b])
       /\ (j.bucket # put.bucket) <=> MergePending(put, full).moved
  BY <1>2, <1>6, <1>7, MergePendingStats
<1>13. Filed(j) /\ SourceSet(j, sn) /\ FromSource(j, sn)
  BY <1>2, <1>5, <1>6, <1>12 DEF UsageInv, Filed, SourceSet, FromSource
<1>14. UsageInv(j, sn)
  BY <1>0, <1>10, <1>11, <1>12, <1>13 DEF UsageInv
<1>15. \A p \in i.pending : p \in Mine(put, full) <=> p.cid = s.cid
  BY <1>2, <1>6 DEF Mine
<1>16. \A p \in Mine(put, full) : p \in i.pending
  BY <1>6 DEF Mine
<1>17. MergePending(put, full).moved \in BOOLEAN
  BY MergePendingIs
<1>18. j.sessions = sessions
  BY <1>6, <1>12
<1>19. \A p \in i.pending, b \in Buckets : p.cid = s.cid => (p.e \in j.bucket[b] <=> b = To(full, p.b))
  BY <1>12, <1>15
<1>20. \A e \in Samples, b \in Buckets :
          (\A p \in i.pending : p.cid = s.cid => p.e # e) => (e \in j.bucket[b] <=> e \in i.bucket[b])
  BY <1>6, <1>12, <1>15, <1>16
<1> QED
  BY <1>3, <1>6, <1>12, <1>14, <1>17, <1>18, <1>19, <1>20 DEF full, sessions

\* merge_codex_pending_sse without an id, the legacy bucket.
LEMMA LegacyKeeps ==
    ASSUME NEW i, NEW sn, UsageInv(i, sn), NEW s \in Sessions
    PROVE  LET u == MergeLegacy(i, s)
           IN  /\ UsageInv(u.g, sn)
               /\ u.g.sessions = i.sessions
               /\ u.moved \in BOOLEAN
               /\ (u.g.bucket # i.bucket) <=> u.moved
               /\ \A r \in sn, b \in Buckets :
                     r.cid # Empty => (r.id \in u.g.bucket[b] <=> r.id \in i.bucket[b])
               /\ \A p \in i.pending, b \in Buckets : p.e \in u.g.bucket[b] <=> p.e \in i.bucket[b]
<1> DEFINE from == FromParts(s.provider, s.model, Empty)
           to == FromParts(s.provider, s.model, s.effort)
           movable == i.bucket[from] \ {p.e : p \in {q \in i.pending : q.b = from}}
           able == s.model # Empty /\ s.effort \notin {Empty, Unknown} /\ movable # {}
           moves == {[from |-> from, to |-> to, e |-> e] : e \in movable}
           m == MoveBucketStats(i, moves)
           u == MergeLegacy(i, s)
<1>1. u = [g |-> IF able THEN m ELSE i, moved |-> able]
  BY DEF MergeLegacy
<1>2. CASE ~ able
  <2>1. u.g = i /\ u.moved = FALSE
    <3> HIDE DEF u, able, m
    <3> QED  BY <1>1, <1>2
  <2> QED  BY <2>1
<1>3. CASE able
  <2>1. u.g = m /\ u.moved = TRUE
    <3> HIDE DEF u, able, m
    <3> QED  BY <1>1, <1>3
  <2>2. from \in Buckets /\ to \in Buckets /\ from # to /\ from[3] = Unknown
    BY <1>3, NamesAssumption DEF FromParts, NonEmpty, Sessions, Buckets, ModelNames
  <2>3. i \in Agg /\ sn \in SUBSET Arrived /\ Partition(i) /\ Placed(i, sn) /\ IdOnce(sn)
    BY DEF UsageInv
  <2>4. \A e \in movable : e \in Samples /\ e \in i.bucket[from]
    BY <2>2, <2>3 DEF Agg
  <2> HIDE DEF from, to
  <2>5. Sound(i, moves)
    BY <2>2, <2>4 DEF Sound, Move
  <2>6. moves # {}
    BY <1>3
  <2>7. \A e \in Samples : e \in movable <=> \E v \in moves : v.e = e
    <3> HIDE DEF movable
    <3>1. \A e \in movable : [from |-> from, to |-> to, e |-> e] \in moves
      OBVIOUS
    <3>2. \A v \in moves : v.e \in movable
      OBVIOUS
    <3> HIDE DEF moves
    <3>3. ASSUME NEW e \in movable PROVE \E v \in moves : v.e = e
      <4>1. [from |-> from, to |-> to, e |-> e] \in moves
        BY <3>1, <3>3
      <4> QED  BY <4>1
    <3> QED  BY <3>2, <3>3
  <2>8. /\ m \in Agg
        /\ m.total = i.total /\ m.sessions = i.sessions /\ m.last = i.last
        /\ m.source = i.source /\ m.pending = i.pending
        /\ \A b \in Buckets, e \in Samples : e \in m.bucket[b] <=> Lands(i, moves, e, b)
        /\ Partition(m)
        /\ (m.bucket # i.bucket) <=> (moves # {})
    BY <2>3, <2>5, MoveStats
  <2>9. \A b \in Buckets, e \in Samples : e \notin movable => (e \in m.bucket[b] <=> e \in i.bucket[b])
    BY <2>7, <2>8 DEF Lands
  <2>10. \A p \in i.pending : p.e \in Samples /\ p.b \in Buckets /\ p.e \notin movable
    <3> SUFFICES ASSUME NEW p \in i.pending PROVE p.e \in Samples /\ p.b \in Buckets /\ p.e \notin movable
      OBVIOUS
    <3>1. p.e \in Samples /\ p.b \in Buckets /\ p.e \in i.bucket[p.b]
      BY <2>3 DEF Agg, Placed
    <3>2. p.e \in i.bucket[from] => p.b = from
      BY <2>2, <2>3, <3>1 DEF Partition
    <3> QED  BY <3>1, <3>2
  <2>11. \A r \in sn : r.cid # Empty => r.id \in Samples /\ r.id \notin movable
    <3> SUFFICES ASSUME NEW r \in sn, r.cid # Empty, r.id \in i.bucket[from]
                 PROVE  \E p \in i.pending : p.e = r.id
      BY <2>3, <2>10 DEF Arrived
    <3>1. Waits(i.sessions[r.cid], from)
      BY <2>2 DEF Waits
    <3>2. [cid |-> r.cid, b |-> from, e |-> r.id] \in i.pending
      BY <2>2, <3>1 DEF UsageInv, Complete
    <3> QED  BY <3>2
  <2> HIDE DEF moves, movable, m
  <2>12. \A r \in sn, b \in Buckets : r.cid # Empty => (r.id \in m.bucket[b] <=> r.id \in i.bucket[b])
    BY <2>9, <2>11
  <2>13. \A p \in i.pending, b \in Buckets : p.e \in m.bucket[b] <=> p.e \in i.bucket[b]
    BY <2>9, <2>10
  <2>14. Filed(m) /\ SourceSet(m, sn) /\ FromSource(m, sn)
    BY <2>8 DEF UsageInv, Filed, SourceSet, FromSource
  <2>15. Placed(m, sn) /\ Once(m) /\ Waiting(m, Conversations)
    BY <2>8, <2>10, <2>13 DEF UsageInv, Placed, Once, Waiting
  <2>16. Complete(m, sn)
    BY <2>8, <2>12 DEF UsageInv, Complete
  <2>17. UsageInv(m, sn)
    BY <2>3, <2>8, <2>14, <2>15, <2>16 DEF UsageInv
  <2> HIDE DEF u
  <2> QED  BY <2>1, <2>6, <2>8, <2>12, <2>13, <2>17 DEF u
<1> QED  BY <1>2, <1>3

\* Nothing holds a sample that has not arrived.
LEMMA FreshNowhere ==
    ASSUME NEW i, NEW sn, UsageInv(i, sn), NEW s \in Samples, \A r \in sn : r.id # s
    PROVE  s \notin i.total /\ \A b \in Buckets : s \notin i.bucket[b]
BY DEF UsageInv, FromSource, Partition

\* A sample is added to a bucket.
LEMMA RecordKeeps ==
    ASSUME NEW i, NEW sn, UsageInv(i, sn), NEW r \in Arrived, NEW b \in Buckets, NEW j \in Agg,
           \A q \in sn : q.id # r.id,
           r.key = b[2],
           j.total = i.total \cup {r.id},
           j.bucket = [i.bucket EXCEPT ![b] = @ \cup {r.id}],
           j.keys = i.keys \cup {b},
           j.sessions = i.sessions,
           \/ r.from = "turn" /\ j.source = i.source
           \/ i.source[b[2]] \in {"none", r.from} /\ j.source = [i.source EXCEPT ![b[2]] = r.from],
           r.cid # Empty => b[1] = ProviderOf(i.sessions[r.cid]),
           j.pending = i.pending \cup
               (IF r.cid # Empty /\ Waits(i.sessions[r.cid], b) THEN {[cid |-> r.cid, b |-> b, e |-> r.id]} ELSE {})
    PROVE  UsageInv(j, sn \cup {r}) /\ j.bucket # i.bucket
<1> DEFINE new == [cid |-> r.cid, b |-> b, e |-> r.id]
           sn1 == sn \cup {r}
<1>1. i \in Agg /\ sn \in SUBSET Arrived /\ r.id \in Samples /\ r.key \in ModelNames
  BY DEF UsageInv, Arrived
<1>2. r.id \notin i.total /\ \A c \in Buckets : r.id \notin i.bucket[c]
  BY <1>1, FreshNowhere
<1>3. /\ r.id \in j.bucket[b]
      /\ \A c \in Buckets : c # b => j.bucket[c] = i.bucket[c]
      /\ \A c \in Buckets, e \in Samples : e # r.id => (e \in j.bucket[c] <=> e \in i.bucket[c])
      /\ \A c \in Buckets : r.id \in j.bucket[c] <=> c = b
  BY <1>1, <1>2 DEF Agg
<1>4. /\ \A q \in sn : q.from # "turn" =>
            /\ i.source[q.key] # "none"
            /\ j.source[q.key] = i.source[q.key]
      /\ r.from # "turn" => r.from = j.source[r.key]
  <2>1. b[2] \in ModelNames /\ \A q \in sn : q.key \in ModelNames /\ q.from \in {"logs", "metrics", "turn"}
    BY <1>1 DEF Arrived
  <2>2. \A q \in sn : q.from # "turn" => i.source[q.key] # "none"
    BY DEF UsageInv, SourceSet
  <2>3. CASE r.from = "turn" /\ j.source = i.source
    BY <2>2, <2>3
  <2>4. CASE i.source[b[2]] \in {"none", r.from} /\ j.source = [i.source EXCEPT ![b[2]] = r.from]
    BY <2>1, <2>2, <2>4, <1>1 DEF Agg
  <2> QED  BY <2>3, <2>4
<1>5. SourceSet(j, sn1)
  BY <1>4 DEF SourceSet, Arrived
<1>6. FromSource(j, sn1)
  <2> SUFFICES ASSUME NEW e \in Samples
               PROVE  e \in j.total <=> \E q \in sn1 : q.id = e /\ (q.from = "turn" \/ q.from = j.source[q.key])
    BY DEF FromSource
  <2>1. CASE e = r.id
    BY <2>1, <1>4
  <2>2. CASE e # r.id
    <3>1. e \in i.total <=> \E q \in sn : q.id = e /\ (q.from = "turn" \/ q.from = i.source[q.key])
      BY DEF UsageInv, FromSource
    <3>2. \A q \in sn : (q.from = "turn" \/ q.from = i.source[q.key]) <=> (q.from = "turn" \/ q.from = j.source[q.key])
      BY <1>4
    <3> QED  BY <2>2, <3>1, <3>2
  <2> QED  BY <2>1, <2>2
<1>7. IdOnce(sn1) /\ Filed(j)
  BY DEF UsageInv, IdOnce, Filed
<1>8. Partition(j)
  <2>1. \A e \in Samples : e \in j.total <=> \E c \in Buckets : e \in j.bucket[c]
    BY <1>1, <1>3 DEF UsageInv, Partition
  <2>2. \A c, d \in Buckets : \A e \in Samples : e \in j.bucket[c] /\ e \in j.bucket[d] => c = d
    BY <1>3 DEF UsageInv, Partition
  <2>3. \A c \in Buckets : c \in j.keys <=> j.bucket[c] # {}
    BY <1>3 DEF UsageInv, Partition
  <2> QED  BY <2>1, <2>2, <2>3 DEF Partition
<1>9. \A p \in i.pending : /\ p.e # r.id /\ p.e \in Samples /\ p.b \in Buckets
                           /\ p.e \in j.bucket[p.b]
                           /\ \E q \in sn1 : q.id = p.e /\ q.cid = p.cid
  BY <1>1, <1>2, <1>3 DEF UsageInv, Placed, Agg
<1>10. \A p \in j.pending : p \in i.pending \/ (p = new /\ r.cid # Empty /\ Waits(i.sessions[r.cid], b))
  <2>1. CASE r.cid # Empty /\ Waits(i.sessions[r.cid], b)
    BY <2>1
  <2>2. CASE ~ (r.cid # Empty /\ Waits(i.sessions[r.cid], b))
    BY <2>2
  <2> QED  BY <2>1, <2>2
<1>11. \A p \in i.pending : p \in j.pending
  OBVIOUS
<1>12. Placed(j, sn1)
  BY <1>3, <1>9, <1>10 DEF Placed
<1>13. Once(j)
  BY <1>9, <1>10 DEF UsageInv, Once
<1>14. Waiting(j, Conversations)
  BY <1>10 DEF UsageInv, Waiting
<1>15. Complete(j, sn1)
  <2> SUFFICES ASSUME NEW q \in sn1, NEW c \in Buckets,
                      q.cid # Empty, q.id \in j.bucket[c], Waits(j.sessions[q.cid], c)
               PROVE  [cid |-> q.cid, b |-> c, e |-> q.id] \in j.pending
    BY DEF Complete
  <2>1. CASE q = r
    BY <2>1, <1>3
  <2>2. CASE q # r
    <3>1. q \in sn /\ q.id # r.id /\ q.id \in Samples
      BY <2>2, <1>1 DEF Arrived
    <3> QED  BY <3>1, <1>3, <1>11 DEF UsageInv, Complete
  <2> QED  BY <2>1, <2>2
<1>16. j.bucket # i.bucket
  BY <1>2, <1>3
<1> QED  BY <1>1, <1>5, <1>6, <1>7, <1>8, <1>12, <1>13, <1>14, <1>15, <1>16 DEF UsageInv

\* Tokens of the other source are left out.
LEMMA IgnoreKeeps ==
    ASSUME NEW i, NEW sn, UsageInv(i, sn), NEW r \in Arrived, \A q \in sn : q.id # r.id,
           r.from # "turn", i.source[r.key] \notin {"none", r.from}
    PROVE  UsageInv(i, sn \cup {r})
<1>1. r.id \in Samples /\ r.id \notin i.total /\ \A c \in Buckets : r.id \notin i.bucket[c]
  BY FreshNowhere DEF Arrived
<1>2. SourceSet(i, sn \cup {r}) /\ IdOnce(sn \cup {r})
  BY DEF UsageInv, SourceSet, IdOnce
<1>3. FromSource(i, sn \cup {r})
  BY DEF UsageInv, FromSource
<1>4. Placed(i, sn \cup {r})
  BY DEF UsageInv, Placed
<1>5. Complete(i, sn \cup {r})
  BY <1>1 DEF UsageInv, Complete
<1> QED  BY <1>2, <1>3, <1>4, <1>5 DEF UsageInv
-----------------------------------------------------------------------------
\* Only usage of the conversations in C moves, and where its session says.
Follows(i, j, sn, C) ==
    /\ \A r \in sn, b \in Buckets :
          r.cid # Empty /\ r.id \in i.bucket[b] => r.id \in j.bucket[b] \/ r.cid \in C
    /\ \A p \in i.pending, b \in Buckets :
          p.e \in j.bucket[b] =>
              /\ b[2] = p.b[2]
              /\ p.b[3] # Unknown => b[3] = p.b[3]
              /\ b # p.b => /\ b[1] = j.sessions[p.cid].provider
                            /\ b[3] \in {p.b[3], j.sessions[p.cid].effort}

\* No session forgets, and only the ones in C change.
Known(i, j, C) ==
    \A c \in Conversations : i.sessions[c] # NoSession =>
        /\ c \notin C => j.sessions[c] = i.sessions[c]
        /\ i.sessions[c].confirmed => j.sessions[c].confirmed
        /\ i.sessions[c].model # Empty => j.sessions[c].model # Empty
        /\ i.sessions[c].effort # Empty => j.sessions[c].effort # Empty

\* What a step that is about the conversations of C does to the totals.
StepOf(C) ==
    /\ UsageInv(g', seen')
    /\ hits' \in BOOLEAN
    /\ (g'.bucket # g.bucket) <=> hits'
    /\ Follows(g, g', seen, C)
    /\ Known(g, g', C)

LEMMA FollowsStaying ==
    ASSUME NEW i, NEW sn, UsageInv(i, sn), NEW j,
           \A r \in sn, b \in Buckets : r.cid # Empty /\ r.id \in i.bucket[b] => r.id \in j.bucket[b],
           \A p \in i.pending, b \in Buckets : p.e \in j.bucket[b] => p.e \in i.bucket[b]
    PROVE  Follows(i, j, sn, {})
<1>1. \A p \in i.pending, b \in Buckets : p.e \in j.bucket[b] => b = p.b
  <2> SUFFICES ASSUME NEW p \in i.pending, NEW b \in Buckets, p.e \in j.bucket[b] PROVE b = p.b
    OBVIOUS
  <2>1. p.e \in Samples /\ p.b \in Buckets
    BY DEF UsageInv, Agg
  <2>2. p.e \in i.bucket[p.b]
    BY DEF UsageInv, Placed
  <2> QED  BY <2>1, <2>2 DEF UsageInv, Partition
<1> QED  BY <1>1 DEF Follows

\* A step that updates the session of a conversation.
LEMMA UpdateStep ==
    ASSUME UsageInv(g, seen), NEW v \in Services, NEW s \in Sessions, NEW ul \in BOOLEAN,
           s.cid \in Conversations, Return(UpdateSession(g, v, s, ul)), UNCHANGED seen
    PROVE  StepOf({s.cid})
<1> DEFINE u == UpdateSession(g, v, s, ul)
           full == FillFrom(s, g.sessions[s.cid])
<1>1. g' = u.g /\ hits' = u.moved /\ seen' = seen
  BY DEF Return
<1>2. /\ UsageInv(u.g, seen)
      /\ u.g.sessions = [g.sessions EXCEPT ![s.cid] = full]
      /\ u.moved \in BOOLEAN
      /\ (u.g.bucket # g.bucket) <=> u.moved
      /\ \A p \in g.pending, b \in Buckets : p.cid = s.cid => (p.e \in u.g.bucket[b] <=> b = To(full, p.b))
      /\ \A e \in Samples, b \in Buckets :
            (\A p \in g.pending : p.cid = s.cid => p.e # e) => (e \in u.g.bucket[b] <=> e \in g.bucket[b])
  BY UpdateWithId
<1> HIDE DEF u
<1>3. g.sessions \in [Conversations -> Sessions \cup {NoSession}]
      /\ g.pending \in SUBSET [cid : Conversations, b : Buckets, e : Samples]
      /\ seen \in SUBSET Arrived
  BY DEF UsageInv, Agg
<1>4. /\ full \in Sessions
      /\ g.sessions[s.cid] # NoSession =>
            /\ g.sessions[s.cid].confirmed => full.confirmed
            /\ g.sessions[s.cid].model # Empty => full.model # Empty
            /\ g.sessions[s.cid].effort # Empty => full.effort # Empty
  BY <1>3, FillFromKeeps
<1> HIDE DEF full
<1>5. /\ u.g.sessions[s.cid] = full
      /\ \A c \in Conversations : c # s.cid => u.g.sessions[c] = g.sessions[c]
  BY <1>2, <1>3
<1>6. Known(g, u.g, {s.cid})
  BY <1>4, <1>5 DEF Known
<1>7. \A r \in seen, b \in Buckets :
         r.cid # Empty /\ r.id \in g.bucket[b] => r.id \in u.g.bucket[b] \/ r.cid \in {s.cid}
  <2> SUFFICES ASSUME NEW r \in seen, NEW b \in Buckets, r.id \in g.bucket[b], r.cid # s.cid
               PROVE  r.id \in u.g.bucket[b]
    OBVIOUS
  <2>1. \A p \in g.pending : p.cid = s.cid => p.e # r.id
    BY DEF UsageInv, Placed, IdOnce
  <2>2. r.id \in Samples
    BY <1>3 DEF Arrived
  <2> QED  BY <2>1, <2>2, <1>2
<1>8. \A p \in g.pending, b \in Buckets :
         p.e \in u.g.bucket[b] =>
             /\ b[2] = p.b[2]
             /\ p.b[3] # Unknown => b[3] = p.b[3]
             /\ b # p.b => /\ b[1] = u.g.sessions[p.cid].provider
                           /\ b[3] \in {p.b[3], u.g.sessions[p.cid].effort}
  <2> SUFFICES ASSUME NEW p \in g.pending, NEW b \in Buckets, p.e \in u.g.bucket[b]
               PROVE  /\ b[2] = p.b[2]
                      /\ p.b[3] # Unknown => b[3] = p.b[3]
                      /\ b # p.b => /\ b[1] = u.g.sessions[p.cid].provider
                                    /\ b[3] \in {p.b[3], u.g.sessions[p.cid].effort}
    OBVIOUS
  <2>1. p.cid \in Conversations /\ p.b \in Buckets /\ p.e \in Samples
    BY <1>3
  <2>2. CASE p.cid = s.cid
    <3>1. b = To(full, p.b)
      BY <2>2, <1>2
    <3>2. /\ b[1] = full.provider /\ b[2] = p.b[2]
          /\ b[3] = IF p.b[3] = Unknown THEN NonEmpty(full.effort) ELSE p.b[3]
      BY <2>1, <3>1, <1>4, ToBucket
    <3> QED  BY <2>2, <3>2, <1>5 DEF NonEmpty
  <2>3. CASE p.cid # s.cid
    <3>1. \A q \in g.pending : q.cid = s.cid => q.e # p.e
      BY <2>3 DEF UsageInv, Once
    <3>2. p.e \in g.bucket[b]
      BY <2>1, <3>1, <1>2
    <3>3. b = p.b
      BY <2>1, <3>2 DEF UsageInv, Placed, Partition
    <3> QED  BY <3>3
  <2> QED  BY <2>2, <2>3
<1>9. Follows(g, u.g, seen, {s.cid})
  BY <1>7, <1>8 DEF Follows
<1> QED  BY <1>1, <1>2, <1>6, <1>9 DEF StepOf

\* A step that moves at most the usage nobody asks for.
LEMMA LegacyStep ==
    ASSUME UsageInv(g, seen), NEW s \in Sessions, NEW l \in [Services -> Sessions \cup {NoSession}],
           \/ Return(MergeLegacy([g EXCEPT !.last = l], s))
           \/ Return([g |-> [g EXCEPT !.last = l], moved |-> FALSE]),
           UNCHANGED seen
    PROVE  StepOf({})
<1> DEFINE put == [g EXCEPT !.last = l]
           u == MergeLegacy(put, s)
<1>1. /\ UsageInv(put, seen)
      /\ put.bucket = g.bucket /\ put.sessions = g.sessions /\ put.pending = g.pending
  BY LastIrrelevant
<1> HIDE DEF put
<1>2. /\ UsageInv(u.g, seen)
      /\ u.g.sessions = put.sessions
      /\ u.moved \in BOOLEAN
      /\ (u.g.bucket # put.bucket) <=> u.moved
      /\ \A r \in seen, b \in Buckets : r.cid # Empty => (r.id \in u.g.bucket[b] <=> r.id \in put.bucket[b])
      /\ \A p \in put.pending, b \in Buckets : p.e \in u.g.bucket[b] <=> p.e \in put.bucket[b]
  BY <1>1, LegacyKeeps
<1> HIDE DEF u
<1>3. CASE Return(u)
  <2>1. g' = u.g /\ hits' = u.moved /\ seen' = seen
    BY <1>3 DEF Return
  <2>2. Follows(g, u.g, seen, {})
    BY <1>1, <1>2, FollowsStaying
  <2>3. Known(g, u.g, {})
    BY <1>1, <1>2 DEF Known
  <2> QED  BY <1>1, <1>2, <2>1, <2>2, <2>3 DEF StepOf
<1>4. CASE Return([g |-> put, moved |-> FALSE])
  <2>1. g' = put /\ hits' = FALSE /\ seen' = seen
    BY <1>4 DEF Return
  <2>2. Follows(g, put, seen, {})
    BY <1>1, FollowsStaying
  <2>3. Known(g, put, {})
    BY <1>1 DEF Known
  <2> QED  BY <1>1, <2>1, <2>2, <2>3 DEF StepOf
<1> QED  BY <1>3, <1>4 DEF put, u

\* A step that records a sample.
LEMMA RecordStep ==
    ASSUME UsageInv(g, seen), NEW r \in Arrived, NEW b \in Buckets,
           \A q \in seen : q.id # r.id,
           g' \in Agg, r.key = b[2],
           g'.total = g.total \cup {r.id},
           g'.bucket = [g.bucket EXCEPT ![b] = @ \cup {r.id}],
           g'.keys = g.keys \cup {b},
           g'.sessions = g.sessions,
           \/ r.from = "turn" /\ g'.source = g.source
           \/ g.source[b[2]] \in {"none", r.from} /\ g'.source = [g.source EXCEPT ![b[2]] = r.from],
           r.cid # Empty => b[1] = ProviderOf(g.sessions[r.cid]),
           g'.pending = g.pending \cup
               (IF r.cid # Empty /\ Waits(g.sessions[r.cid], b) THEN {[cid |-> r.cid, b |-> b, e |-> r.id]} ELSE {}),
           hits' = TRUE, seen' = seen \cup {r}
    PROVE  StepOf({})
<1>1. UsageInv(g', seen') /\ g'.bucket # g.bucket
  BY RecordKeeps
<1>2. g.bucket \in [Buckets -> SUBSET Samples] /\ seen \in SUBSET Arrived /\ r.id \in Samples
  BY DEF UsageInv, Agg, Arrived
<1>3. \A q \in seen, c \in Buckets : q.id \in g.bucket[c] => q.id \in g'.bucket[c]
  BY <1>2
<1>4. \A p \in g.pending, c \in Buckets : p.e \in g'.bucket[c] => p.e \in g.bucket[c]
  <2>1. \A p \in g.pending : p.e # r.id
    BY DEF UsageInv, Placed
  <2> QED  BY <1>2, <2>1
<1>5. Follows(g, g', seen, {})
  BY <1>3, <1>4, FollowsStaying
<1>6. Known(g, g', {})
  BY DEF Known
<1> QED  BY <1>1, <1>5, <1>6 DEF StepOf

\* A step that leaves a sample out.
LEMMA IgnoreStep ==
    ASSUME UsageInv(g, seen), NEW r \in Arrived, \A q \in seen : q.id # r.id,
           r.from # "turn", g.source[r.key] \notin {"none", r.from},
           g' = g, hits' = FALSE, seen' = seen \cup {r}
    PROVE  StepOf({})
<1>1. UsageInv(g, seen \cup {r})
  BY IgnoreKeeps
<1>2. Follows(g, g, seen, {})
  BY FollowsStaying
<1>3. Known(g, g, {})
  BY DEF Known
<1> QED  BY <1>1, <1>2, <1>3 DEF StepOf
-----------------------------------------------------------------------------
CodexInv == UsageInv(g, seen) /\ hits \in BOOLEAN

LEMMA InitInv == Init => CodexInv
<1> SUFFICES ASSUME Init PROVE CodexInv
  OBVIOUS
<1>1. g \in Agg
  BY DEF Init, Agg
<1>2. /\ seen = {} /\ hits = FALSE /\ g.total = {} /\ g.keys = {} /\ g.pending = {}
      /\ \A b \in Buckets : g.bucket[b] = {}
      /\ \A c \in Conversations : g.sessions[c] = NoSession
  BY DEF Init
<1>3. Partition(g)
  BY <1>2 DEF Partition
<1> QED
  BY <1>1, <1>2, <1>3
     DEF CodexInv, UsageInv, Filed, IdOnce, SourceSet, FromSource, Placed, Once, Waiting, Complete

LEMMA StartsStep ==
    ASSUME UsageInv(g, seen), NEW v \in Services, NEW c \in Conversations \cup {Empty},
           NEW p \in Providers \cup {Empty}, NEW m \in Models \cup {Empty}, NEW e \in Efforts \cup {Empty},
           ConversationStarts(v, c, p, m, e)
    PROVE  StepOf(IF c = Empty THEN {} ELSE {c})
<1> DEFINE s == [cid |-> c, provider |-> FirstOf(p, OpenAI), model |-> m, effort |-> e,
                 confirmed |-> p # Empty]
<1>1. s \in Sessions /\ s.cid = c
  BY DEF Sessions, FirstOf
<1>2. Return(UpdateSession(g, v, s, TRUE)) /\ UNCHANGED seen
  BY DEF ConversationStarts
<1> HIDE DEF s
<1>3. CASE c # Empty
  <2>1. StepOf({s.cid})
    BY <1>1, <1>2, <1>3, UpdateStep
  <2> QED  BY <1>1, <1>3, <2>1
<1>4. CASE c = Empty
  <2> DEFINE l == [g.last EXCEPT ![v] = s]
  <2>1. g \in Agg
    BY DEF UsageInv
  <2>2. l \in [Services -> Sessions \cup {NoSession}]
    BY <2>1, <1>1 DEF Agg
  <2>3. [g EXCEPT !.sessions = g.sessions, !.last = l] = [g EXCEPT !.last = l]
    BY <2>1 DEF Agg
  <2>4. UpdateSession(g, v, s, TRUE) = MergeLegacy([g EXCEPT !.sessions = g.sessions, !.last = l], s)
    BY <1>1, <1>4 DEF UpdateSession, MergeCodexPendingSse
  <2> HIDE DEF l
  <2>5. Return(MergeLegacy([g EXCEPT !.last = l], s))
    BY <1>2, <2>3, <2>4
  <2>6. StepOf({})
    BY <1>1, <1>2, <2>2, <2>5, LegacyStep
  <2> QED  BY <1>4, <2>6
<1> QED  BY <1>3, <1>4

LEMMA SpanStep ==
    ASSUME UsageInv(g, seen), NEW v \in Services, NEW c \in Conversations,
           NEW m \in Models \cup {Empty}, NEW e \in Efforts \cup {Empty}, ResponsesSpan(v, c, m, e)
    PROVE  StepOf({c})
<1> DEFINE known == g.sessions[c]
           s == IF known # NoSession THEN [known EXCEPT !.effort = e]
                ELSE [cid |-> c, provider |-> OpenAI, model |-> m, effort |-> e, confirmed |-> FALSE]
           ul == g.last[v] = NoSession \/ g.last[v].cid = c
<1>1. known \in Sessions \cup {NoSession} /\ (known # NoSession => known.cid = c)
  BY DEF UsageInv, Agg, Filed
<1>2. Return(UpdateSession(g, v, s, ul)) /\ UNCHANGED seen
  BY DEF ResponsesSpan
<1>3. s \in Sessions /\ s.cid = c
  <2> HIDE DEF known
  <2>1. CASE known # NoSession
    BY <1>1, <2>1 DEF Sessions
  <2>2. CASE known = NoSession
    BY <2>2 DEF Sessions
  <2> QED  BY <2>1, <2>2
<1>4. ul \in BOOLEAN
  OBVIOUS
<1> HIDE DEF s, ul
<1>5. StepOf({s.cid})
  BY <1>2, <1>3, <1>4, UpdateStep
<1> QED  BY <1>3, <1>5

LEMMA SpanNoIdStep ==
    ASSUME UsageInv(g, seen), NEW v \in Services, NEW e \in Efforts \cup {Empty}, ResponsesSpanNoId(v, e)
    PROVE  StepOf({})
<1> DEFINE known == g.last[v]
           s == IF known # NoSession THEN [known EXCEPT !.effort = e]
                ELSE [cid |-> Empty, provider |-> OpenAI, model |-> Empty, effort |-> e, confirmed |-> FALSE]
           l == [g.last EXCEPT ![v] = s]
<1>1. known \in Sessions \cup {NoSession} /\ g \in Agg
  BY DEF UsageInv, Agg
<1>2. s \in Sessions
  <2> HIDE DEF known
  <2>1. CASE known # NoSession
    BY <1>1, <2>1 DEF Sessions
  <2>2. CASE known = NoSession
    BY <2>2 DEF Sessions
  <2> QED  BY <2>1, <2>2
<1>3. /\ Return(IF s.cid = Empty THEN MergeLegacy([g EXCEPT !.last[v] = s], s)
                ELSE [g |-> [g EXCEPT !.last[v] = s], moved |-> FALSE])
      /\ UNCHANGED seen
  BY DEF ResponsesSpanNoId
<1> HIDE DEF s
<1>4. l \in [Services -> Sessions \cup {NoSession}]
  BY <1>1, <1>2 DEF Agg
<1>5. [g EXCEPT !.last[v] = s] = [g EXCEPT !.last = l]
  BY <1>1 DEF Agg
<1> HIDE DEF l
<1>6. \/ Return(MergeLegacy([g EXCEPT !.last = l], s))
      \/ Return([g |-> [g EXCEPT !.last = l], moved |-> FALSE])
  BY <1>3, <1>5
<1> QED  BY <1>2, <1>3, <1>4, <1>6, LegacyStep

LEMMA RecordIntoIs ==
    ASSUME NEW i \in Agg, NEW b \in Buckets, NEW s \in Samples
    PROVE  LET j == RecordInto(i, b, s)
           IN  /\ j \in Agg
               /\ j.total = i.total \cup {s}
               /\ j.bucket = [i.bucket EXCEPT ![b] = @ \cup {s}]
               /\ j.keys = i.keys \cup {b}
               /\ j.sessions = i.sessions /\ j.last = i.last /\ j.source = i.source /\ j.pending = i.pending
<1> DEFINE bucket == [i.bucket EXCEPT ![b] = @ \cup {s}]
           total == i.total \cup {s}
           keys == i.keys \cup {b}
<1>1. bucket \in [Buckets -> SUBSET Samples] /\ total \in SUBSET Samples /\ keys \in SUBSET Buckets
  BY DEF Agg
<1>2. RecordInto(i, b, s) = [i EXCEPT !.total = total, !.bucket = bucket, !.keys = keys]
  BY DEF RecordInto, Agg
<1> HIDE DEF bucket, total, keys
<1>3. LET j == [i EXCEPT !.total = total, !.bucket = bucket, !.keys = keys]
      IN  /\ j \in Agg
          /\ j.total = total /\ j.bucket = bucket /\ j.keys = keys
          /\ j.sessions = i.sessions /\ j.last = i.last /\ j.source = i.source /\ j.pending = i.pending
  BY <1>1 DEF Agg
<1> QED  BY <1>2, <1>3 DEF bucket, total, keys

LEMMA SseStep ==
    ASSUME UsageInv(g, seen), NEW s \in Samples, NEW v \in Services, NEW c \in Conversations \cup {Empty},
           NEW m \in Models \cup {Empty}, NEW e \in Efforts \cup {Empty}, SseCompleted(s, v, c, m, e)
    PROVE  StepOf({})
<1> DEFINE session == SseSession(v, c)
           b == FromParts(ProviderOf(session), FirstOf(m, ModelOf(session)), FirstOf(e, EffortOf(session)))
           r == [id |-> s, from |-> "logs", cid |-> c, key |-> b[2]]
           put == RecordInto(g, b, s)
           pend == IF SsePending(c, session, b) THEN put.pending \cup {[cid |-> c, b |-> b, e |-> s]} ELSE put.pending
           src == [put.source EXCEPT ![b[2]] = "logs"]
<1>1. g \in Agg /\ seen \in SUBSET Arrived
  BY DEF UsageInv
<1>2. session \in Sessions \cup {NoSession} /\ (c # Empty => session = g.sessions[c])
  BY <1>1 DEF SseSession, Agg
<1>3. /\ \A q \in seen : q.id # s
      /\ g' = IF g.source[b[2]] = "metrics" THEN g
              ELSE [put EXCEPT !.source[b[2]] = "logs",
                               !.pending = IF SsePending(c, session, b)
                                           THEN @ \cup {[cid |-> c, b |-> b, e |-> s]} ELSE @]
      /\ hits' = (g.source[b[2]] # "metrics")
      /\ seen' = seen \cup {r}
  BY DEF SseCompleted, Fresh
<1> HIDE DEF session
<1>4. b \in Buckets /\ b[1] = ProviderOf(session) /\ b[2] \in ModelNames
  BY <1>2, NamesAssumption
     DEF FromParts, ProviderOf, ModelOf, EffortOf, FirstOf, NonEmpty, Sessions, Buckets, ModelNames
<1> HIDE DEF b
<1>5. r \in Arrived /\ r.id = s /\ r.cid = c /\ r.key = b[2] /\ r.from = "logs"
  BY <1>4 DEF Arrived
<1>6. CASE g.source[b[2]] = "metrics"
  <2>1. g' = g /\ hits' = FALSE
    BY <1>3, <1>6
  <2> HIDE DEF r
  <2> QED  BY <1>3, <1>5, <1>6, <2>1, IgnoreStep
<1>7. CASE g.source[b[2]] # "metrics"
  <2>1. /\ put \in Agg
        /\ put.total = g.total \cup {s}
        /\ put.bucket = [g.bucket EXCEPT ![b] = @ \cup {s}]
        /\ put.keys = g.keys \cup {b}
        /\ put.sessions = g.sessions /\ put.source = g.source /\ put.pending = g.pending
    BY <1>1, <1>4, RecordIntoIs
  <2> HIDE DEF put
  <2>2. SsePending(c, session, b) <=> c # Empty /\ Waits(g.sessions[c], b)
    BY <1>2 DEF SsePending, Waits
  <2>3. SsePending(c, session, b) \in BOOLEAN
    BY DEF SsePending
  <2>4. pend \in SUBSET [cid : Conversations, b : Buckets, e : Samples]
    <3>1. put.pending \in SUBSET [cid : Conversations, b : Buckets, e : Samples]
      BY <2>1 DEF Agg
    <3>2. SsePending(c, session, b) => c \in Conversations
      BY DEF SsePending
    <3> QED  BY <3>1, <3>2, <1>4
  <2>5. src \in [ModelNames -> {"none", "logs", "metrics"}]
    BY <2>1, <1>4 DEF Agg
  <2>6. g' = [put EXCEPT !.source = src, !.pending = pend]
    BY <1>3, <1>7, <2>1 DEF Agg
  <2> HIDE DEF pend, src
  <2>7. /\ g' \in Agg
        /\ g'.total = put.total /\ g'.bucket = put.bucket /\ g'.keys = put.keys
        /\ g'.sessions = put.sessions /\ g'.source = src /\ g'.pending = pend
    BY <2>1, <2>4, <2>5, <2>6 DEF Agg
  <2>8. g.source[b[2]] \in {"none", "logs"}
    BY <1>1, <1>4, <1>7 DEF Agg
  <2>9. pend = g.pending \cup
            (IF r.cid # Empty /\ Waits(g.sessions[r.cid], b) THEN {[cid |-> r.cid, b |-> b, e |-> r.id]} ELSE {})
    <3> HIDE DEF r
    <3>1. CASE SsePending(c, session, b)
      BY <2>1, <2>2, <3>1, <1>5 DEF pend
    <3>2. CASE ~ SsePending(c, session, b)
      BY <2>1, <2>2, <3>2, <1>5 DEF pend
    <3> QED  BY <3>1, <3>2
  <2>10. g'.total = g.total \cup {r.id} /\ g'.bucket = [g.bucket EXCEPT ![b] = @ \cup {r.id}]
    BY <1>5, <2>1, <2>7
  <2>11. g'.keys = g.keys \cup {b} /\ g'.sessions = g.sessions
    BY <2>1, <2>7
  <2>12. g.source[b[2]] \in {"none", r.from} /\ g'.source = [g.source EXCEPT ![b[2]] = r.from]
    BY <1>5, <2>1, <2>7, <2>8 DEF src
  <2>13. hits' = TRUE
    BY <1>3, <1>7
  <2>14. r.cid # Empty => b[1] = ProviderOf(g.sessions[r.cid])
    BY <1>2, <1>4, <1>5
  <2>15. g'.pending = g.pending \cup
            (IF r.cid # Empty /\ Waits(g.sessions[r.cid], b) THEN {[cid |-> r.cid, b |-> b, e |-> r.id]} ELSE {})
    BY <2>7, <2>9
  <2>16. g' \in Agg /\ seen' = seen \cup {r} /\ \A q \in seen : q.id # r.id
    BY <1>3, <1>5, <2>7
  <2> HIDE DEF r
  <2> QED  BY <1>4, <1>5, <2>10, <2>11, <2>12, <2>13, <2>14, <2>15, <2>16, RecordStep
<1> QED  BY <1>6, <1>7

LEMMA MetricBucketIs ==
    ASSUME UsageInv(g, seen), NEW v \in Services, NEW m \in Models \cup {Empty}
    PROVE  MetricBucket(v, m) \in Buckets /\ MetricBucket(v, m)[2] = NonEmpty(m) /\ NonEmpty(m) \in ModelNames
<1>1. g.last[v] \in Sessions \cup {NoSession}
  BY DEF UsageInv, Agg
<1> QED
  BY <1>1, NamesAssumption
     DEF MetricBucket, FromParts, ProviderOf, EffortOf, NonEmpty, Sessions, Buckets, ModelNames

LEMMA TokenStep ==
    ASSUME UsageInv(g, seen), NEW s \in Samples, NEW v \in Services, NEW m \in Models \cup {Empty},
           TokenMetric(s, v, m)
    PROVE  StepOf({})
<1> DEFINE b == MetricBucket(v, m)
           r == [id |-> s, from |-> "metrics", cid |-> Empty, key |-> b[2]]
           put == RecordInto(g, b, s)
           src == [put.source EXCEPT ![b[2]] = "metrics"]
<1>1. g \in Agg /\ b \in Buckets /\ b[2] \in ModelNames
  BY MetricBucketIs DEF UsageInv
<1>2. /\ \A q \in seen : q.id # s
      /\ g' = IF g.source[b[2]] = "logs" THEN g ELSE [put EXCEPT !.source[b[2]] = "metrics"]
      /\ hits' = (g.source[b[2]] # "logs")
      /\ seen' = seen \cup {r}
  BY DEF TokenMetric, Fresh
<1> HIDE DEF b
<1>3. r \in Arrived /\ r.id = s /\ r.cid = Empty /\ r.key = b[2] /\ r.from = "metrics"
  BY <1>1 DEF Arrived
<1> HIDE DEF r
<1>4. CASE g.source[b[2]] = "logs"
  <2>1. g' = g /\ hits' = FALSE
    BY <1>2, <1>4
  <2> QED  BY <1>2, <1>3, <1>4, <2>1, IgnoreStep
<1>5. CASE g.source[b[2]] # "logs"
  <2>1. /\ put \in Agg
        /\ put.total = g.total \cup {s}
        /\ put.bucket = [g.bucket EXCEPT ![b] = @ \cup {s}]
        /\ put.keys = g.keys \cup {b}
        /\ put.sessions = g.sessions /\ put.source = g.source /\ put.pending = g.pending
    BY <1>1, RecordIntoIs
  <2> HIDE DEF put
  <2>2. src \in [ModelNames -> {"none", "logs", "metrics"}]
    BY <2>1, <1>1 DEF Agg
  <2>3. g' = [put EXCEPT !.source = src]
    BY <1>2, <1>5, <2>1 DEF Agg
  <2> HIDE DEF src
  <2>4. /\ g' \in Agg
        /\ g'.total = put.total /\ g'.bucket = put.bucket /\ g'.keys = put.keys
        /\ g'.sessions = put.sessions /\ g'.source = src /\ g'.pending = put.pending
    BY <2>1, <2>2, <2>3 DEF Agg
  <2>5. g.source[b[2]] \in {"none", r.from} /\ g'.source = [g.source EXCEPT ![b[2]] = r.from]
    BY <1>1, <1>3, <1>5, <2>1, <2>4 DEF Agg, src
  <2>6. g'.total = g.total \cup {r.id} /\ g'.bucket = [g.bucket EXCEPT ![b] = @ \cup {r.id}]
    BY <1>3, <2>1, <2>4
  <2>7. g'.keys = g.keys \cup {b} /\ g'.sessions = g.sessions
    BY <2>1, <2>4
  <2>8. g'.pending = g.pending \cup
            (IF r.cid # Empty /\ Waits(g.sessions[r.cid], b) THEN {[cid |-> r.cid, b |-> b, e |-> r.id]} ELSE {})
    BY <1>3, <2>1, <2>4
  <2>9. hits' = TRUE
    BY <1>2, <1>5
  <2>10. g' \in Agg /\ seen' = seen \cup {r} /\ \A q \in seen : q.id # r.id
    BY <1>2, <1>3, <2>4
  <2> QED  BY <1>1, <1>3, <2>5, <2>6, <2>7, <2>8, <2>9, <2>10, RecordStep
<1> QED  BY <1>4, <1>5

LEMMA TurnStep ==
    ASSUME UsageInv(g, seen), NEW s \in Samples, NEW v \in Services, NEW m \in Models \cup {Empty},
           TurnMetric(s, v, m)
    PROVE  StepOf({})
<1> DEFINE b == MetricBucket(v, m)
           r == [id |-> s, from |-> "turn", cid |-> Empty, key |-> NonEmpty(m)]
<1>1. g \in Agg /\ b \in Buckets /\ b[2] = NonEmpty(m) /\ NonEmpty(m) \in ModelNames
  BY MetricBucketIs DEF UsageInv
<1>2. /\ \A q \in seen : q.id # s
      /\ g' = RecordInto(g, b, s)
      /\ hits' = TRUE
      /\ seen' = seen \cup {r}
  BY DEF TurnMetric, Fresh
<1> HIDE DEF b
<1>3. r \in Arrived /\ r.id = s /\ r.cid = Empty /\ r.key = b[2] /\ r.from = "turn"
  BY <1>1 DEF Arrived
<1> HIDE DEF r
<1>4. /\ g' \in Agg
      /\ g'.total = g.total \cup {r.id}
      /\ g'.bucket = [g.bucket EXCEPT ![b] = @ \cup {r.id}]
      /\ g'.keys = g.keys \cup {b}
      /\ g'.sessions = g.sessions /\ g'.source = g.source /\ g'.pending = g.pending
  BY <1>1, <1>2, <1>3, RecordIntoIs
<1>5. g'.pending = g.pending \cup
          (IF r.cid # Empty /\ Waits(g.sessions[r.cid], b) THEN {[cid |-> r.cid, b |-> b, e |-> r.id]} ELSE {})
  BY <1>3, <1>4
<1> QED  BY <1>1, <1>2, <1>3, <1>4, <1>5, RecordStep

\* Every step is about one conversation or about none.
LEMMA NextStep ==
    ASSUME UsageInv(g, seen), Next
    PROVE  StepOf({}) \/ \E c \in Conversations : About(c) /\ StepOf({c})
<1>1. CASE \E c \in Conversations : About(c)
  <2>1. PICK c \in Conversations : About(c)
    BY <1>1
  <2>2. PICK v \in Services, m \in Models \cup {Empty}, e \in Efforts \cup {Empty} :
            \/ \E p \in Providers \cup {Empty} : ConversationStarts(v, c, p, m, e)
            \/ e # Empty /\ ResponsesSpan(v, c, m, e)
    BY <2>1 DEF About
  <2>3. c # Empty
    BY NamesAssumption
  <2>4. StepOf({c})
    BY <2>2, <2>3, StartsStep, SpanStep
  <2> QED  BY <2>1, <2>4
<1>2. CASE \E v \in Services, m \in Models \cup {Empty}, e \in Efforts \cup {Empty} :
              \/ \E p \in Providers \cup {Empty} : ConversationStarts(v, Empty, p, m, e)
              \/ e # Empty /\ ResponsesSpanNoId(v, e)
              \/ \E s \in Samples, c \in Conversations \cup {Empty} : SseCompleted(s, v, c, m, e)
  BY <1>2, StartsStep, SpanNoIdStep, SseStep
<1>3. CASE \E s \in Samples, v \in Services, m \in Models \cup {Empty} :
              TokenMetric(s, v, m) \/ TurnMetric(s, v, m)
  BY <1>3, TokenStep, TurnStep
<1> QED  BY <1>1, <1>2, <1>3 DEF Next

LEMMA StepInv == CodexInv /\ [Next]_vars => CodexInv'
<1>1. CodexInv /\ Next => CodexInv'
  BY NextStep DEF CodexInv, StepOf
<1>2. CodexInv /\ UNCHANGED vars => CodexInv'
  BY DEF CodexInv, vars
<1> QED  BY <1>1, <1>2

\* CodexInv is an invariant of the Codex half of the aggregator.
THEOREM CodexInvariant == Spec => []CodexInv
<1>1. Init => CodexInv  BY InitInv
<1>2. CodexInv /\ [Next]_vars => CodexInv'  BY StepInv
<1> QED  BY <1>1, <1>2, PTL DEF Spec

\* The state of the Codex half has its type after every handler; a sample is
\* pending only under a conversation and a bucket that exist.
THEOREM CodexTypeOK == Spec => []TypeOK
<1>1. CodexInv => TypeOK
  BY DEF CodexInv, UsageInv, Agg, Arrived, Filed, TypeOK
<1> QED  BY <1>1, CodexInvariant, PTL

\* For any samples, conversations and sessions /stats adds up: the total is
\* what the first source of each model brought, and the buckets share it.
THEOREM FirstSourceTheorem == Spec => []FirstSourceCounts
<1>1. CodexInv => FirstSourceCounts
  <2> SUFFICES ASSUME CodexInv PROVE FirstSourceCounts
    OBVIOUS
  <2>1. /\ g.total \subseteq Samples /\ g.keys \subseteq Buckets
        /\ \A b \in Buckets : g.bucket[b] \subseteq Samples
        /\ \A r \in seen : r.id \in Samples
    BY DEF CodexInv, UsageInv, Agg, Arrived
  <2>2. g.total = {r.id : r \in {q \in seen : q.from = "turn" \/ q.from = g.source[q.key]}}
    <3>1. \A e \in Samples :
             e \in g.total <=> \E r \in seen : r.id = e /\ (r.from = "turn" \/ r.from = g.source[r.key])
      BY DEF CodexInv, UsageInv, FromSource
    <3> QED  BY <2>1, <3>1
  <2>3. g.total = UNION {g.bucket[b] : b \in Buckets}
    <3>1. \A e \in Samples : e \in g.total <=> \E b \in Buckets : e \in g.bucket[b]
      BY DEF CodexInv, UsageInv, Partition
    <3> QED  BY <2>1, <3>1
  <2>4. \A b, c \in Buckets : b # c => g.bucket[b] \cap g.bucket[c] = {}
    BY <2>1 DEF CodexInv, UsageInv, Partition
  <2>5. g.keys = {b \in Buckets : g.bucket[b] # {}}
    BY <2>1 DEF CodexInv, UsageInv, Partition
  <2> QED  BY <2>2, <2>3, <2>4, <2>5 DEF FirstSourceCounts
<1> QED  BY <1>1, CodexInvariant, PTL

\* Usage is pending exactly while its provider or effort is to come, in the
\* bucket it is in and under the provider its session has.
THEOREM PendingTheorem == Spec => []PendingUntilKnown
<1>1. CodexInv => PendingUntilKnown
  <2> SUFFICES ASSUME CodexInv, NEW r \in seen, NEW b \in Buckets, r.cid # Empty, r.id \in g.bucket[b]
               PROVE  LET s == g.sessions[r.cid]
                          waiting == {p \in g.pending : p.e = r.id}
                      IN  /\ waiting = IF s = NoSession \/ ~ s.confirmed \/ b[3] = Unknown
                                       THEN {[cid |-> r.cid, b |-> b, e |-> r.id]} ELSE {}
                          /\ waiting # {} => b[1] = ProviderOf(s)
    BY DEF PendingUntilKnown
  <2> DEFINE s == g.sessions[r.cid]
             waiting == {p \in g.pending : p.e = r.id}
             it == [cid |-> r.cid, b |-> b, e |-> r.id]
  <2>1. \A p \in g.pending : p \in [cid : Conversations, b : Buckets, e : Samples]
    BY DEF CodexInv, UsageInv, Agg
  <2>2. \A p \in waiting : /\ p = it /\ Waits(s, b) /\ b[1] = ProviderOf(s)
    <3> SUFFICES ASSUME NEW p \in g.pending, p.e = r.id
                 PROVE  p = it /\ Waits(s, b) /\ b[1] = ProviderOf(s)
      OBVIOUS
    <3>1. p.b = b
      BY <2>1 DEF CodexInv, UsageInv, Placed, Partition
    <3>2. p.cid = r.cid
      BY DEF CodexInv, UsageInv, Placed, IdOnce
    <3>3. p = it
      BY <2>1, <3>1, <3>2
    <3> QED  BY <2>1, <3>1, <3>2, <3>3 DEF CodexInv, UsageInv, Waiting
  <2>3. Waits(s, b) => it \in waiting
    BY DEF CodexInv, UsageInv, Complete
  <2>4. Waits(s, b) <=> s = NoSession \/ ~ s.confirmed \/ b[3] = Unknown
    BY DEF Waits
  <2> HIDE DEF s, waiting, it
  <2>5. waiting = IF s = NoSession \/ ~ s.confirmed \/ b[3] = Unknown THEN {it} ELSE {}
    BY <2>2, <2>3, <2>4
  <2>6. waiting # {} => b[1] = ProviderOf(s)
    BY <2>2
  <2> QED  BY <2>5, <2>6 DEF s, waiting, it
<1> QED  BY <1>1, CodexInvariant, PTL

\* Usage moves only with its own conversation, to where its session says.
THEOREM SettlesTheorem == Spec => SettlesUnderSession
<1> DEFINE A == /\ \A r \in seen, b \in Buckets :
                      r.cid # Empty /\ r.id \in g.bucket[b] =>
                          r.id \in g.bucket'[b] \/ About(r.cid)
                /\ \A p \in g.pending : \A b \in Buckets :
                      p.e \in g.bucket'[b] =>
                          /\ b[2] = p.b[2]
                          /\ p.b[3] # Unknown => b[3] = p.b[3]
                          /\ b # p.b => /\ b[1] = g'.sessions[p.cid].provider
                                        /\ b[3] \in {p.b[3], g'.sessions[p.cid].effort}
<1>1. CodexInv /\ [Next]_vars => [A]_vars
  <2> SUFFICES ASSUME CodexInv, Next PROVE A
    OBVIOUS
  <2>1. StepOf({}) \/ \E c \in Conversations : About(c) /\ StepOf({c})
    BY NextStep DEF CodexInv
  <2>2. CASE StepOf({})
    BY <2>2 DEF StepOf, Follows
  <2>3. CASE \E c \in Conversations : About(c) /\ StepOf({c})
    <3>1. PICK c \in Conversations : About(c) /\ StepOf({c})
      BY <2>3
    <3>2. Follows(g, g', seen, {c}) /\ About(c)
      BY <3>1 DEF StepOf
    <3> QED  BY <3>2 DEF Follows
  <2> QED  BY <2>1, <2>2, <2>3
<1> QED  BY <1>1, CodexInvariant, PTL DEF Spec, SettlesUnderSession

\* A record of conversation c that names no provider leaves a confirmed one.
LEMMA ProviderStays ==
    ASSUME UsageInv(g, seen), NEW c \in Conversations, g.sessions[c] # NoSession,
           g.sessions[c].confirmed, NamesNoProvider(c)
    PROVE  g'.sessions[c].provider = g.sessions[c].provider
<1>1. g \in Agg /\ g.sessions[c] \in Sessions /\ g.sessions[c].cid = c /\ c # Empty
  BY NamesAssumption DEF UsageInv, Agg, Filed
<1>2. ASSUME NEW v \in Services, NEW s \in Sessions, NEW ul \in BOOLEAN, s.cid = c,
             ~ s.confirmed \/ s.provider = g.sessions[c].provider, Return(UpdateSession(g, v, s, ul))
      PROVE  g'.sessions[c].provider = g.sessions[c].provider
  <2> DEFINE full == FillFrom(s, g.sessions[c])
  <2>1. g'.sessions = [g.sessions EXCEPT ![c] = full]
    BY <1>1, <1>2, UpdateWithId DEF Return
  <2>2. g'.sessions[c] = full
    BY <1>1, <2>1 DEF Agg
  <2>3. full.provider = IF ~ s.confirmed THEN g.sessions[c].provider ELSE s.provider
    BY <1>1, <1>2 DEF FillFrom, Sessions
  <2> QED  BY <1>2, <2>2, <2>3
<1>3. PICK v \in Services, m \in Models \cup {Empty}, e \in Efforts \cup {Empty} :
          ConversationStarts(v, c, Empty, m, e) \/ (e # Empty /\ ResponsesSpan(v, c, m, e))
  BY DEF NamesNoProvider
<1>4. CASE ConversationStarts(v, c, Empty, m, e)
  <2> DEFINE s == [cid |-> c, provider |-> OpenAI, model |-> m, effort |-> e, confirmed |-> FALSE]
  <2>1. s \in Sessions /\ s.cid = c /\ ~ s.confirmed
    BY DEF Sessions
  <2>2. Return(UpdateSession(g, v, s, TRUE))
    BY <1>4 DEF ConversationStarts, FirstOf
  <2> HIDE DEF s
  <2> QED  BY <1>2, <2>1, <2>2
<1>5. CASE ResponsesSpan(v, c, m, e)
  <2> DEFINE s == [g.sessions[c] EXCEPT !.effort = e]
             ul == g.last[v] = NoSession \/ g.last[v].cid = c
  <2>1. s \in Sessions /\ s.cid = c /\ s.provider = g.sessions[c].provider
    BY <1>1 DEF Sessions
  <2>2. Return(UpdateSession(g, v, s, ul)) /\ ul \in BOOLEAN
    BY <1>5 DEF ResponsesSpan
  <2> HIDE DEF s, ul
  <2> QED  BY <1>2, <2>1, <2>2
<1> QED  BY <1>3, <1>4, <1>5

\* No record makes a session forget a provider, a model or an effort, and only
\* one that names a provider replaces a confirmed one.
THEOREM KnownTheorem == Spec => KnownStaysKnown
<1> DEFINE B(c) == LET s == g.sessions[c]
                       t == g'.sessions[c]
                   IN  /\ s.confirmed => t.confirmed
                       /\ s.confirmed /\ t.provider # s.provider => About(c) /\ ~ NamesNoProvider(c)
                       /\ s.model # Empty => t.model # Empty
                       /\ s.effort # Empty => t.effort # Empty
           A == \A c \in Conversations : g.sessions[c] # NoSession => B(c)
<1>1. CodexInv /\ [Next]_vars => [A]_vars
  <2> SUFFICES ASSUME UsageInv(g, seen), Next, NEW c \in Conversations, g.sessions[c] # NoSession
               PROVE  B(c)
    BY DEF CodexInv
  <2>1. Known(g, g', {}) \/ \E d \in Conversations : About(d) /\ Known(g, g', {d})
    BY NextStep DEF StepOf
  <2>2. g.sessions[c].confirmed /\ NamesNoProvider(c) => g'.sessions[c].provider = g.sessions[c].provider
    BY ProviderStays
  <2> QED  BY <2>1, <2>2 DEF Known
<1> QED  BY <1>1, CodexInvariant, PTL DEF Spec, KnownStaysKnown

\* A handler reports a change exactly when the buckets changed.
THEOREM SummaryTheorem == Spec => SummaryOnChange
<1>1. CodexInv /\ [Next]_vars => [(g.bucket' # g.bucket) = hits']_vars
  BY NextStep DEF CodexInv, StepOf
<1> QED  BY <1>1, CodexInvariant, PTL DEF Spec, SummaryOnChange
=============================================================================
