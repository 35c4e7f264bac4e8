------------------------- MODULE ClaudeUsageProofs -------------------------
(***************************************************************************)
(* The usage totals of Claude Code count one source and resolve names, for *)
(* any number of records and data points, in every order, and for all      *)
(* names, variants and efforts.                                            *)
(*                                                                         *)
(* The parts of the invariant are about an AggregatorInner i and the       *)
(* records S that arrived, so that they can be stated of every value the   *)
(* handlers pass on.                                                       *)
(***************************************************************************)
EXTENDS ClaudeUsage, TLAPS

Inners == [total   : SUBSET Entries,
           bucket  : [Buckets -> SUBSET Entries],
           keys    : SUBSET Buckets,
           canon   : [Models -> Models],
           metric  : SUBSET (Models \ {Nameless}),
           source  : [Buckets -> {"none", "logs", "metrics"}],
           metered : SUBSET (Buckets \X Entries)]

Records == [id : Samples, from : {"log", "metric"}, model : Models, key : Buckets, used : BOOLEAN]

\* What a record may have added.
Usage(r) == <<r.id, "usage">>
Request(r) == <<r.id, "request">>

\* The bucket a metric was counted in.
Home(r) == <<r.model, r.key[2]>>

HasLog(S, k) == \E r \in S : r.from = "log" /\ r.key = k /\ r.used
HasMetric(S, k) == \E r \in S : r.from = "metric" /\ r.key = k /\ r.used
Counting(S) == {r \in S : r.used /\ (r.from = "log" \/ ~ HasLog(S, r.key))}

\* A record arrives once, and the key of a metric is that of its bucket.
HistoryOK(S) ==
    /\ \A r, q \in S : r.id = q.id => r = q
    /\ \A r \in S : r.from = "metric" => Home(r) \in Buckets /\ SourceKey(Home(r)) = r.key

\* The total counts one source for each key and is what the buckets hold.
TotalOK(i, S) ==
    /\ i.total = {Usage(r) : r \in Counting(S)} \cup {Request(r) : r \in {q \in S : q.from = "log"}}
    /\ i.total = UNION {i.bucket[b] : b \in Buckets}

\* An entry is in one bucket, and the buckets listed are those that have one.
BucketsOK(i) ==
    /\ \A b, c \in Buckets : b # c => i.bucket[b] \cap i.bucket[c] = {}
    /\ i.keys = {b \in Buckets : i.bucket[b] # {}}

\* The source of a key is decided by what arrived for it.
SourceOK(i, S) ==
    \A k \in Buckets :
        /\ i.source[k] = "logs" <=> HasLog(S, k)
        /\ i.source[k] = "metrics" <=> ~ HasLog(S, k) /\ HasMetric(S, k)

\* The metrics that count are noted in the bucket they are in, which is that of
\* their own name: such a name is never merged into another.
MeteredOK(i, S) ==
    /\ i.metered = {<<Home(r), Usage(r)>> : r \in {q \in Counting(S) : q.from = "metric"}}
    /\ \A r \in S : r.from = "metric" => r.model \in i.metric
    /\ \A r \in S, b \in Buckets : r.from = "metric" /\ Usage(r) \in i.bucket[b] => b = Home(r)

\* Only a bare name is resolved, to one with a suffix, and then it is not listed
\* any more unless metrics use it or it stands for a missing name.
CanonOK(i) ==
    /\ \A m \in Models : i.canon[m] # m =>
          m[1] # Empty /\ m[2] = Plain /\ i.canon[m][1] = m[1] /\ i.canon[m][2] # Plain
    /\ \A m \in Models \ {<<Unknown, Plain>>} :
          i.canon[m] # m /\ m \notin i.metric => \A b \in i.keys : b[1] # m

\* What a record added is under a name with the same bare name.
BareOK(i, S) ==
    \A r \in S, b \in Buckets :
        Usage(r) \in i.bucket[b] \/ Request(r) \in i.bucket[b] => b[1][1] = NonEmptyModel(r.model)[1]

UsageOK(i, S) ==
    /\ HistoryOK(S) /\ TotalOK(i, S) /\ BucketsOK(i) /\ SourceOK(i, S)
    /\ MeteredOK(i, S) /\ CanonOK(i) /\ BareOK(i, S)

UsageInv == TypeOK /\ UsageOK(g, seen)
-----------------------------------------------------------------------------
(***************************************************************************)
(* Names.                                                                  *)
(***************************************************************************)
LEMMA NamesAre ==
    /\ Unknown # Empty /\ Unknown \in Bares /\ Plain \notin Variants
    /\ \A m \in Models : m = <<m[1], m[2]>> /\ m[1] \in Bares \cup {Empty} /\ m[2] \in Variants \cup {Plain}
    /\ \A x \in Bares \cup {Empty}, v \in Variants \cup {Plain} : <<x, v>> \in Models
    /\ Nameless \in Models
BY NamesAssumption DEF Models, Nameless

LEMMA BucketsAre ==
    /\ \A b \in Buckets : /\ b = <<b[1], b[2]>> /\ b[1] \in Models /\ b[1] # Nameless
                          /\ b[2] \in Efforts \cup {Unknown}
    /\ \A m \in Models, e \in Efforts \cup {Unknown} : m # Nameless => <<m, e>> \in Buckets
BY DEF Buckets

LEMMA NonEmptyIs ==
    ASSUME NEW m \in Models
    PROVE  /\ NonEmptyModel(m) \in Models /\ NonEmptyModel(m) # Nameless
           /\ NonEmptyModel(m)[1] = IF m = Nameless THEN Unknown ELSE m[1]
           /\ m # Nameless => NonEmptyModel(m) = m
           /\ NonEmptyModel(m)[1] = Empty => m[1] = Empty
BY NamesAre DEF NonEmptyModel, Nameless

LEMMA PartsAre ==
    ASSUME NEW m \in Models, NEW e \in Efforts \cup {Empty}
    PROVE  /\ FromParts(m, e) \in Buckets
           /\ FromParts(m, e)[1] = NonEmptyModel(m)
           /\ FromParts(m, e)[2] = NonEmptyEffort(e)
BY NonEmptyIs, BucketsAre DEF FromParts, NonEmptyEffort

LEMMA KeyIs ==
    ASSUME NEW b \in Buckets
    PROVE  SourceKey(b) \in Buckets
<1>1. b[1][1] \in Bares \cup {Empty} /\ b[2] \in Efforts \cup {Unknown}  BY BucketsAre, NamesAre
<1>2. PICK x \in Bares : SourceKey(b) = <<<<x, Plain>>, b[2]>>  BY <1>1, NamesAre DEF SourceKey
<1>3. <<x, Plain>> \in Models /\ <<x, Plain>> # Nameless  BY NamesAre, NamesAssumption DEF Nameless
<1> QED  BY <1>1, <1>2, <1>3, BucketsAre

LEMMA KeySame ==
    ASSUME NEW b \in Buckets, NEW c \in Buckets, b[1][1] = c[1][1], b[2] = c[2]
    PROVE  SourceKey(b) = SourceKey(c)
BY DEF SourceKey
-----------------------------------------------------------------------------
(***************************************************************************)
(* The operations on the buckets.                                          *)
(***************************************************************************)
LEMMA Fields ==
    ASSUME NEW i \in Inners
    PROVE  /\ i.total \in SUBSET Entries
           /\ i.bucket \in [Buckets -> SUBSET Entries]
           /\ i.keys \in SUBSET Buckets
           /\ i.canon \in [Models -> Models]
           /\ i.metric \in SUBSET (Models \ {Nameless})
           /\ i.source \in [Buckets -> {"none", "logs", "metrics"}]
           /\ i.metered \in SUBSET (Buckets \X Entries)
BY DEF Inners

\* An AggregatorInner from its fields.
Inner(total, bucket, keys, canon, metric, source, metered) ==
    [total |-> total, bucket |-> bucket, keys |-> keys, canon |-> canon, metric |-> metric,
     source |-> source, metered |-> metered]

LEMMA InnerIs ==
    ASSUME NEW t \in SUBSET Entries, NEW bs \in [Buckets -> SUBSET Entries], NEW ks \in SUBSET Buckets,
           NEW ca \in [Models -> Models], NEW ms \in SUBSET (Models \ {Nameless}),
           NEW so \in [Buckets -> {"none", "logs", "metrics"}], NEW md \in SUBSET (Buckets \X Entries)
    PROVE  Inner(t, bs, ks, ca, ms, so, md) \in Inners
BY DEF Inner, Inners

LEMMA RecordIntoIs ==
    ASSUME NEW i \in Inners, NEW b \in Buckets, NEW e \in Entries, NEW j, j = RecordInto(i, b, e)
    PROVE  /\ j \in Inners
           /\ j.total = i.total \cup {e}
           /\ j.bucket[b] = i.bucket[b] \cup {e}
           /\ \A c \in Buckets \ {b} : j.bucket[c] = i.bucket[c]
           /\ j.keys = i.keys \cup {b}
           /\ j.canon = i.canon /\ j.metric = i.metric /\ j.source = i.source /\ j.metered = i.metered
<1>1. /\ i.total \in SUBSET Entries /\ i.bucket \in [Buckets -> SUBSET Entries]
      /\ i.keys \in SUBSET Buckets
  BY Fields
<1>2. j = Inner(i.total \cup {e}, [i.bucket EXCEPT ![b] = i.bucket[b] \cup {e}], i.keys \cup {b},
                i.canon, i.metric, i.source, i.metered)
  BY DEF RecordInto, Inner, Inners
<1>3. /\ j.total = i.total \cup {e} /\ j.keys = i.keys \cup {b}
      /\ j.bucket = [i.bucket EXCEPT ![b] = i.bucket[b] \cup {e}]
      /\ j.canon = i.canon /\ j.metric = i.metric /\ j.source = i.source /\ j.metered = i.metered
  BY <1>2 DEF Inner
<1>4. [i.bucket EXCEPT ![b] = i.bucket[b] \cup {e}] \in [Buckets -> SUBSET Entries]  BY <1>1
<1>5. j \in Inners  BY <1>1, <1>2, <1>4, Fields, InnerIs
<1> QED  BY <1>1, <1>3, <1>5

\* The buckets listed are those that have something.
Listed(i) == i.keys = {b \in Buckets : i.bucket[b] # {}}

LEMMA SubtractFromIs ==
    ASSUME NEW i \in Inners, NEW P \in SUBSET (Buckets \X Entries), NEW j, j = SubtractFrom(i, P)
    PROVE  /\ j \in Inners
           /\ j.total = i.total \ {p[2] : p \in P}
           /\ \A c \in Buckets : \A x : x \in j.bucket[c] <=> x \in i.bucket[c] /\ <<c, x>> \notin P
           /\ Listed(i) => Listed(j)
           /\ j.canon = i.canon /\ j.metric = i.metric /\ j.source = i.source /\ j.metered = i.metered
<1> DEFINE gone(b) == {p[2] : p \in {q \in P : q[1] = b}}
           rest == [b \in Buckets |-> i.bucket[b] \ gone(b)]
           ks == i.keys \ {b \in {p[1] : p \in P} : rest[b] = {}}
           t == i.total \ {p[2] : p \in P}
<1>1. j = Inner(t, rest, ks, i.canon, i.metric, i.source, i.metered)
  BY DEF SubtractFrom, Inner, Inners
<1>2. /\ j.total = t /\ j.bucket = rest /\ j.keys = ks
      /\ j.canon = i.canon /\ j.metric = i.metric /\ j.source = i.source /\ j.metered = i.metered
  BY <1>1 DEF Inner
<1>3. ASSUME NEW c \in Buckets, NEW x  PROVE x \in gone(c) <=> <<c, x>> \in P
  <2>1. \A p \in P : p = <<p[1], p[2]>>  OBVIOUS
  <2> QED  BY <2>1
<1> HIDE DEF gone
<1>4. rest \in [Buckets -> SUBSET Entries] /\ \A c \in Buckets : rest[c] = i.bucket[c] \ gone(c)
  BY Fields
<1>5. t \in SUBSET Entries /\ ks \in SUBSET Buckets  BY Fields
<1>6. ASSUME Listed(i)  PROVE Listed(j)
  <2>1. ASSUME NEW b \in Buckets, b \in i.keys, rest[b] # {}  PROVE b \in ks
    BY <2>1
  <2>2. ASSUME NEW b \in Buckets, b \in ks  PROVE rest[b] # {}
    <3>1. i.bucket[b] # {}  BY <1>6, <2>2 DEF Listed
    <3>2. CASE b \in {p[1] : p \in P}  BY <2>2, <3>2
    <3>3. CASE b \notin {p[1] : p \in P}
      <4>1. \A x : <<b, x>> \notin P
        <5>1. \A x : <<b, x>>[1] = b  OBVIOUS
        <5> QED  BY <3>3, <5>1
      <4>2. gone(b) = {}  BY <1>3, <4>1
      <4> QED  BY <1>4, <3>1, <4>2
    <3> QED  BY <3>2, <3>3
  <2>3. ASSUME NEW b \in Buckets, rest[b] # {}  PROVE b \in i.keys
    BY <1>4, <1>6, <2>3 DEF Listed
  <2>4. ks = {b \in Buckets : rest[b] # {}}  BY <1>5, <2>1, <2>2, <2>3
  <2> QED  BY <1>2, <2>4 DEF Listed
<1> HIDE DEF rest, ks
<1>7. j \in Inners  BY <1>1, <1>4, <1>5, Fields, InnerIs
<1> QED  BY <1>2, <1>3, <1>4, <1>6, <1>7

\* What a log takes back.
TakenBack(i, b) == IF i.source[SourceKey(b)] = "metrics" THEN MeteredOf(i, SourceKey(b)) ELSE {}

LEMMA LogUsageIs ==
    ASSUME NEW i \in Inners, NEW b \in Buckets, NEW e \in Entries, NEW j, j = RecordClaudeLogUsage(i, b, e)
    PROVE  /\ j \in Inners
           /\ j.total = (i.total \ {p[2] : p \in TakenBack(i, b)}) \cup {e}
           /\ \A c \in Buckets : \A x : x \in j.bucket[c] <=>
                 \/ x \in i.bucket[c] /\ <<c, x>> \notin TakenBack(i, b)
                 \/ x = e /\ c = b
           /\ Listed(i) => Listed(j)
           /\ j.canon = i.canon /\ j.metric = i.metric
           /\ j.metered = i.metered \ TakenBack(i, b)
           /\ j.source = [i.source EXCEPT ![SourceKey(b)] = "logs"]
<1> DEFINE k == SourceKey(b)
           T == TakenBack(i, b)
           s == SubtractFrom(i, T)
           u == [s EXCEPT !.metered = @ \ T]
           v == IF i.source[k] = "metrics" THEN u ELSE i
           r == RecordInto(v, b, e)
<1>1. k \in Buckets  BY KeyIs
<1>2. T \in SUBSET (Buckets \X Entries)  BY Fields DEF TakenBack, MeteredOf
<1>3. /\ s \in Inners
      /\ s.total = i.total \ {p[2] : p \in T}
      /\ \A c \in Buckets : \A x : x \in s.bucket[c] <=> x \in i.bucket[c] /\ <<c, x>> \notin T
      /\ Listed(i) => Listed(s)
      /\ s.canon = i.canon /\ s.metric = i.metric /\ s.source = i.source /\ s.metered = i.metered
  BY <1>2, SubtractFromIs
<1> HIDE DEF s
<1>4. u = Inner(s.total, s.bucket, s.keys, s.canon, s.metric, s.source, s.metered \ T)
  <2>1. s \in Inners  BY <1>3
  <2>2. u = [s EXCEPT !.metered = s.metered \ T]  OBVIOUS
  <2> HIDE DEF u, T
  <2> QED  BY <2>1, <2>2 DEF Inner, Inners
<1>5. /\ u.total = s.total /\ u.bucket = s.bucket /\ u.keys = s.keys /\ u.canon = s.canon
      /\ u.metric = s.metric /\ u.source = s.source /\ u.metered = s.metered \ T
  BY <1>4 DEF Inner
<1>6. u \in Inners  BY <1>3, <1>4, Fields, InnerIs
<1> HIDE DEF u
<1>7. /\ v \in Inners
      /\ v.total = i.total \ {p[2] : p \in T}
      /\ \A c \in Buckets : \A x : x \in v.bucket[c] <=> x \in i.bucket[c] /\ <<c, x>> \notin T
      /\ Listed(i) => Listed(v)
      /\ v.canon = i.canon /\ v.metric = i.metric /\ v.source = i.source /\ v.metered = i.metered \ T
  <2>1. CASE i.source[k] = "metrics"
    <3>1. v = u  BY <2>1
    <3>2. Listed(s) => Listed(u)  BY <1>5 DEF Listed
    <3> HIDE DEF v, T
    <3> QED  BY <1>3, <1>5, <1>6, <3>1, <3>2
  <2>2. CASE i.source[k] # "metrics"
    <3>1. v = i /\ T = {}  BY <2>2 DEF TakenBack
    <3> HIDE DEF v, T
    <3> QED  BY <3>1
  <2> QED  BY <2>1, <2>2
<1>8. j = [r EXCEPT !.source[k] = "logs"]
  <2>1. i.source[k] = "metrics" => T = MeteredOf(i, k)  BY DEF TakenBack
  <2> QED  BY <2>1 DEF RecordClaudeLogUsage, s, u
<1> HIDE DEF v, T, k
<1>9. /\ r \in Inners
      /\ r.total = v.total \cup {e}
      /\ r.bucket[b] = v.bucket[b] \cup {e}
      /\ \A c \in Buckets \ {b} : r.bucket[c] = v.bucket[c]
      /\ r.keys = v.keys \cup {b}
      /\ r.canon = v.canon /\ r.metric = v.metric /\ r.source = v.source /\ r.metered = v.metered
  BY <1>7, RecordIntoIs
<1> HIDE DEF r
<1>10. j = Inner(r.total, r.bucket, r.keys, r.canon, r.metric, [r.source EXCEPT ![k] = "logs"], r.metered)
  BY <1>8, <1>9 DEF Inner, Inners
<1>11. /\ j.total = r.total /\ j.bucket = r.bucket /\ j.keys = r.keys /\ j.canon = r.canon
       /\ j.metric = r.metric /\ j.source = [r.source EXCEPT ![k] = "logs"] /\ j.metered = r.metered
  BY <1>10 DEF Inner
<1>12. j \in Inners
  <2>1. [r.source EXCEPT ![k] = "logs"] \in [Buckets -> {"none", "logs", "metrics"}]
    BY <1>1, <1>9, Fields
  <2> QED  BY <1>9, <1>10, <2>1, Fields, InnerIs
<1>13. Listed(v) => Listed(r)  BY <1>9 DEF Listed
<1>14. Listed(i) => Listed(j)  BY <1>7, <1>11, <1>13 DEF Listed
<1>15. \A c \in Buckets : \A x : x \in j.bucket[c] <=>
           \/ x \in i.bucket[c] /\ <<c, x>> \notin T
           \/ x = e /\ c = b
  <2>1. ASSUME NEW c \in Buckets \ {b}, NEW x
        PROVE  x \in j.bucket[c] <=> x \in i.bucket[c] /\ <<c, x>> \notin T
    <3>1. j.bucket[c] = v.bucket[c]  BY <1>9, <1>11
    <3> QED  BY <1>7, <3>1
  <2>2. ASSUME NEW x
        PROVE  x \in j.bucket[b] <=> (x \in i.bucket[b] /\ <<b, x>> \notin T) \/ x = e
    <3>1. j.bucket[b] = v.bucket[b] \cup {e}  BY <1>9, <1>11
    <3> QED  BY <1>7, <3>1
  <2> QED  BY <2>1, <2>2
<1>16. j.total = (i.total \ {p[2] : p \in T}) \cup {e}  BY <1>7, <1>9, <1>11
<1> QED  BY <1>7, <1>9, <1>11, <1>12, <1>14, <1>15, <1>16 DEF T, k

LEMMA MetricUsageIs ==
    ASSUME NEW i \in Inners, NEW b \in Buckets, NEW e \in Entries, NEW j, MetricWanted(i, b),
           j = RecordClaudeMetricUsage(i, b, e)
    PROVE  /\ j \in Inners
           /\ j.total = i.total \cup {e}
           /\ \A c \in Buckets : \A x : x \in j.bucket[c] <=> x \in i.bucket[c] \/ (x = e /\ c = b)
           /\ Listed(i) => Listed(j)
           /\ j.canon = i.canon /\ j.metric = i.metric
           /\ j.metered = i.metered \cup {<<b, e>>}
           /\ j.source = [i.source EXCEPT ![SourceKey(b)] = "metrics"]
<1> DEFINE r == RecordInto(i, b, e)
           k == SourceKey(b)
<1>1. k \in Buckets  BY KeyIs
<1>2. /\ r \in Inners
      /\ r.total = i.total \cup {e}
      /\ r.bucket[b] = i.bucket[b] \cup {e}
      /\ \A c \in Buckets \ {b} : r.bucket[c] = i.bucket[c]
      /\ r.keys = i.keys \cup {b}
      /\ r.canon = i.canon /\ r.metric = i.metric /\ r.source = i.source /\ r.metered = i.metered
  BY RecordIntoIs
<1>3. j = [r EXCEPT !.source[k] = "metrics", !.metered = r.metered \cup {<<b, e>>}]
  BY DEF RecordClaudeMetricUsage
<1> HIDE DEF r, k
<1>4. j = Inner(r.total, r.bucket, r.keys, r.canon, r.metric, [r.source EXCEPT ![k] = "metrics"],
                r.metered \cup {<<b, e>>})
  <2>1. r \in Inners  BY <1>2
  <2> QED  BY <1>3, <2>1 DEF Inner, Inners
<1>5. /\ j.total = r.total /\ j.bucket = r.bucket /\ j.keys = r.keys /\ j.canon = r.canon
      /\ j.metric = r.metric /\ j.source = [r.source EXCEPT ![k] = "metrics"]
      /\ j.metered = r.metered \cup {<<b, e>>}
  BY <1>4 DEF Inner
<1>6. j \in Inners
  <2>1. [r.source EXCEPT ![k] = "metrics"] \in [Buckets -> {"none", "logs", "metrics"}]
    BY <1>1, <1>2, Fields
  <2>2. r.metered \cup {<<b, e>>} \in SUBSET (Buckets \X Entries)  BY <1>2, Fields
  <2> QED  BY <1>2, <1>4, <2>1, <2>2, Fields, InnerIs
<1>7. Listed(i) => Listed(j)  BY <1>2, <1>5 DEF Listed
<1>8. \A c \in Buckets : \A x : x \in j.bucket[c] <=> x \in i.bucket[c] \/ (x = e /\ c = b)
  BY <1>2, <1>5
<1> QED  BY <1>2, <1>5, <1>6, <1>7, <1>8 DEF k

\* What was in the bare name's buckets is in those of the full name.
Merged(i, j, bare, full) ==
    \A c \in Buckets : \A x : x \in j.bucket[c] <=>
        /\ c[1] # bare
        /\ x \in i.bucket[c] \/ (c[1] = full /\ x \in i.bucket[<<bare, c[2]>>])

LEMMA MergeIs ==
    ASSUME NEW i \in Inners, NEW bare \in Models \ {Nameless}, NEW full \in Models \ {Nameless},
           bare # full, Listed(i), NEW j, j = MergeBareIntoFull(i, bare, full)
    PROVE  /\ j \in Inners /\ Listed(j) /\ Merged(i, j, bare, full)
           /\ j.total = i.total /\ j.canon = i.canon /\ j.metric = i.metric
           /\ j.source = i.source /\ j.metered = i.metered
<1> DEFINE moved == {b \in i.keys : b[1] = bare}
           to(b) == <<full, b[2]>>
           into(b) == UNION {i.bucket[c] : c \in {d \in moved : to(d) = b}}
           bs == [b \in Buckets |-> IF b \in moved THEN {} ELSE i.bucket[b] \cup into(b)]
           ks == (i.keys \ moved) \cup {to(b) : b \in moved}
<1>1. j = Inner(i.total, bs, ks, i.canon, i.metric, i.source, i.metered)
  BY DEF MergeBareIntoFull, Inner, Inners
<1>2. /\ j.total = i.total /\ j.bucket = bs /\ j.keys = ks
      /\ j.canon = i.canon /\ j.metric = i.metric /\ j.source = i.source /\ j.metered = i.metered
  BY <1>1 DEF Inner
<1>3. \A b \in Buckets : b \in moved <=> b[1] = bare /\ i.bucket[b] # {}  BY DEF Listed
<1>4. moved \in SUBSET Buckets /\ \A b \in moved : to(b) \in Buckets /\ to(b)[1] = full /\ to(b)[2] = b[2]
  BY Fields, BucketsAre
<1>5. ASSUME NEW c \in Buckets, NEW x
      PROVE  x \in into(c) <=> c[1] = full /\ x \in i.bucket[<<bare, c[2]>>]
  <2>1. c = <<c[1], c[2]>> /\ <<bare, c[2]>> \in Buckets  BY BucketsAre
  <2>2. ASSUME x \in into(c)  PROVE c[1] = full /\ x \in i.bucket[<<bare, c[2]>>]
    <3>1. PICK d \in moved : to(d) = c /\ x \in i.bucket[d]  BY <2>2
    <3>2. d \in Buckets /\ d[1] = bare /\ d[2] = c[2]  BY <1>3, <1>4, <3>1
    <3>3. d = <<bare, c[2]>>  BY <3>2, BucketsAre
    <3> QED  BY <1>4, <3>1, <3>3
  <2>3. ASSUME c[1] = full, x \in i.bucket[<<bare, c[2]>>]  PROVE x \in into(c)
    <3>1. <<bare, c[2]>> \in moved  BY <1>3, <2>1, <2>3
    <3>2. to(<<bare, c[2]>>) = c  BY <2>1, <2>3
    <3> QED  BY <2>3, <3>1, <3>2
  <2> QED  BY <2>2, <2>3
<1>6. \A c \in Buckets : into(c) \in SUBSET Entries
  <2> TAKE c \in Buckets
  <2>1. \A x \in into(c) : x \in i.bucket[<<bare, c[2]>>] /\ <<bare, c[2]>> \in Buckets
    BY <1>5, BucketsAre
  <2> QED  BY <2>1, Fields
<1> HIDE DEF into
<1>7. bs \in [Buckets -> SUBSET Entries]  BY <1>6, Fields
<1>8. Merged(i, j, bare, full)
  <2> SUFFICES ASSUME NEW c \in Buckets, NEW x
               PROVE  x \in bs[c] <=>
                         /\ c[1] # bare
                         /\ x \in i.bucket[c] \/ (c[1] = full /\ x \in i.bucket[<<bare, c[2]>>])
    BY <1>2 DEF Merged
  <2>1. CASE c \in moved  BY <1>3, <2>1
  <2>2. CASE c \notin moved /\ c[1] = bare
    <3>1. i.bucket[c] = {}  BY <1>3, <2>2
    <3> QED  BY <1>5, <2>2, <3>1
  <2>3. CASE c[1] # bare
    <3>1. bs[c] = i.bucket[c] \cup into(c)  BY <1>3, <2>3
    <3> QED  BY <1>5, <2>3, <3>1
  <2> QED  BY <2>1, <2>2, <2>3
<1>9. ks \in SUBSET Buckets  BY <1>4, Fields
<1>10. Listed(j)
  <2>1. ASSUME NEW c \in Buckets  PROVE c \in ks <=> bs[c] # {}
    <3>1. c = <<c[1], c[2]>> /\ <<bare, c[2]>> \in Buckets  BY BucketsAre
    <3>2. ASSUME c \in ks  PROVE bs[c] # {}
      <4>1. CASE c \in i.keys \ moved
        <5>1. i.bucket[c] # {} /\ c[1] # bare  BY <1>3, <4>1 DEF Listed
        <5> QED  BY <1>2, <1>8, <5>1 DEF Merged
      <4>2. CASE \E b \in moved : c = to(b)
        <5>1. PICK b \in moved : c = to(b)  BY <4>2
        <5>2. b \in Buckets /\ b[1] = bare /\ b[2] = c[2] /\ i.bucket[b] # {} /\ c[1] = full
          BY <1>3, <1>4, <5>1
        <5>3. b = <<bare, c[2]>>  BY <5>2, BucketsAre
        <5> QED  BY <1>2, <1>8, <5>2, <5>3 DEF Merged
      <4> QED  BY <3>2, <4>1, <4>2
    <3>3. ASSUME bs[c] # {}  PROVE c \in ks
      <4>1. PICK x : x \in bs[c]  BY <3>3
      <4>2. /\ c[1] # bare
            /\ x \in i.bucket[c] \/ (c[1] = full /\ x \in i.bucket[<<bare, c[2]>>])
        BY <1>2, <1>8, <4>1 DEF Merged
      <4>3. CASE x \in i.bucket[c]  BY <4>2, <4>3 DEF Listed
      <4>4. CASE c[1] = full /\ x \in i.bucket[<<bare, c[2]>>]
        <5>1. <<bare, c[2]>> \in moved  BY <1>3, <3>1, <4>4
        <5>2. to(<<bare, c[2]>>) = c  BY <3>1, <4>4
        <5> QED  BY <5>1, <5>2
      <4> QED  BY <4>2, <4>3, <4>4
    <3> QED  BY <3>2, <3>3
  <2>2. ks = {c \in Buckets : bs[c] # {}}  BY <1>9, <2>1
  <2> QED  BY <1>2, <2>2 DEF Listed
<1> HIDE DEF bs, ks
<1>11. j \in Inners  BY <1>1, <1>7, <1>9, Fields, InnerIs
<1> QED  BY <1>2, <1>8, <1>10, <1>11

LEMMA WithMetric ==
    ASSUME NEW i \in Inners, NEW ms
    PROVE  [i EXCEPT !.metric = ms]
             = Inner(i.total, i.bucket, i.keys, i.canon, ms, i.source, i.metered)
BY DEF Inner, Inners

LEMMA RegisterIs ==
    ASSUME NEW i \in Inners, NEW full \in Models \ {Nameless}, Listed(i), NEW j,
           j = RegisterCanonical(i, full), NEW bare, bare = <<full[1], Plain>>
    PROVE  /\ j \in Inners /\ Listed(j)
           /\ j.total = i.total /\ j.source = i.source /\ j.metered = i.metered
           /\ j.metric = i.metric \cup {full}
           /\ \/ j.canon = i.canon /\ j.bucket = i.bucket /\ j.keys = i.keys
              \/ /\ bare \in Models \ {Nameless} /\ bare # full /\ full[1] # Empty
                 /\ bare \notin i.metric
                 /\ j.canon = [i.canon EXCEPT ![bare] = full]
                 /\ Merged(i, j, bare, full)
<1> DEFINE known == [i EXCEPT !.metric = i.metric \cup {full}]
           named == [known EXCEPT !.canon[bare] = full]
<1>1. known = Inner(i.total, i.bucket, i.keys, i.canon, i.metric \cup {full}, i.source, i.metered)
  BY WithMetric
<1>2. /\ known.total = i.total /\ known.bucket = i.bucket /\ known.keys = i.keys /\ known.canon = i.canon
      /\ known.metric = i.metric \cup {full} /\ known.source = i.source /\ known.metered = i.metered
  BY <1>1 DEF Inner
<1>3. known \in Inners  BY <1>1, Fields, InnerIs
<1> HIDE DEF known
<1>4. bare \in Models /\ (full[1] # Empty => bare # Nameless)  BY NamesAre DEF Nameless
<1>5. CASE bare = full \/ full[1] = Empty \/ bare \in known.metric \/ i.canon[bare] = full
  <2>1. j = known  BY <1>5 DEF RegisterCanonical, known
  <2>2. Listed(known)  BY <1>2 DEF Listed
  <2> QED  BY <1>2, <1>3, <2>1, <2>2
<1>6. CASE ~ (bare = full \/ full[1] = Empty \/ bare \in known.metric \/ i.canon[bare] = full)
  <2>1. j = MergeBareIntoFull(named, bare, full)  BY <1>6 DEF RegisterCanonical, known
  <2>2. named = Inner(known.total, known.bucket, known.keys, [known.canon EXCEPT ![bare] = full],
                      known.metric, known.source, known.metered)
    BY <1>3 DEF Inner, Inners
  <2>3. /\ named.total = known.total /\ named.bucket = known.bucket /\ named.keys = known.keys
        /\ named.canon = [known.canon EXCEPT ![bare] = full] /\ named.metric = known.metric
        /\ named.source = known.source /\ named.metered = known.metered
    BY <2>2 DEF Inner
  <2>4. named \in Inners
    <3>1. [known.canon EXCEPT ![bare] = full] \in [Models -> Models]  BY <1>3, <1>4, Fields
    <3> QED  BY <1>3, <2>2, <3>1, Fields, InnerIs
  <2>5. Listed(named)  BY <1>2, <2>3 DEF Listed
  <2> HIDE DEF named
  <2>6. /\ j \in Inners /\ Listed(j) /\ Merged(named, j, bare, full)
        /\ j.total = named.total /\ j.canon = named.canon /\ j.metric = named.metric
        /\ j.source = named.source /\ j.metered = named.metered
    BY <1>4, <1>6, <2>1, <2>4, <2>5, MergeIs
  <2>7. Merged(i, j, bare, full)  BY <1>2, <2>3, <2>6 DEF Merged
  <2> QED  BY <1>2, <1>4, <1>6, <2>3, <2>6, <2>7
<1> QED  BY <1>5, <1>6
-----------------------------------------------------------------------------
(***************************************************************************)
(* What arrived.                                                           *)
(***************************************************************************)
LEMMA EntriesDiffer ==
    \A r, q : /\ Usage(r) # Request(q)
              /\ Usage(r) = Usage(q) => r.id = q.id
              /\ Request(r) = Request(q) => r.id = q.id
BY DEF Usage, Request

\* Every entry of a bucket came with a record, and none with one still to come.
LEMMA EntriesKnown ==
    ASSUME NEW i \in Inners, NEW S \in SUBSET Records, TotalOK(i, S)
    PROVE  /\ \A x \in i.total : \E q \in S : x = Usage(q) \/ x = Request(q)
           /\ \A c \in Buckets : i.bucket[c] \subseteq i.total
           /\ \A r : (\A q \in S : q.id # r.id) =>
                 \A c \in Buckets : Usage(r) \notin i.bucket[c] /\ Request(r) \notin i.bucket[c]
<1>1. \A x \in i.total : \E q \in S : x = Usage(q) \/ x = Request(q)  BY DEF TotalOK, Counting
<1>2. \A c \in Buckets : i.bucket[c] \subseteq i.total  BY DEF TotalOK
<1>3. ASSUME NEW r, \A q \in S : q.id # r.id, NEW c \in Buckets
      PROVE  Usage(r) \notin i.bucket[c] /\ Request(r) \notin i.bucket[c]
  BY <1>1, <1>2, <1>3, EntriesDiffer
<1> QED  BY <1>1, <1>2, <1>3

LEMMA SomewhereHeld ==
    ASSUME NEW i \in Inners, NEW S, TotalOK(i, S), NEW x \in i.total
    PROVE  \E c \in Buckets : x \in i.bucket[c]
BY DEF TotalOK

LEMMA TotalFrom ==
    ASSUME NEW i, NEW S,
           \A x : x \in i.total <=>
                    \/ \E r \in Counting(S) : x = Usage(r)
                    \/ \E r \in S : r.from = "log" /\ x = Request(r),
           \A x : x \in i.total <=> \E c \in Buckets : x \in i.bucket[c]
    PROVE  TotalOK(i, S)
<1>1. i.total = {Usage(r) : r \in Counting(S)} \cup {Request(r) : r \in {q \in S : q.from = "log"}}
  OBVIOUS
<1>2. i.total = UNION {i.bucket[b] : b \in Buckets}  OBVIOUS
<1> QED  BY <1>1, <1>2 DEF TotalOK

LEMMA TotalGives ==
    ASSUME NEW i, NEW S, TotalOK(i, S)
    PROVE  /\ \A x : x \in i.total <=>
                    \/ \E r \in Counting(S) : x = Usage(r)
                    \/ \E r \in S : r.from = "log" /\ x = Request(r)
           /\ \A x : x \in i.total <=> \E c \in Buckets : x \in i.bucket[c]
<1>1. i.total = {Usage(r) : r \in Counting(S)} \cup {Request(r) : r \in {q \in S : q.from = "log"}}
  BY DEF TotalOK
<1>2. i.total = UNION {i.bucket[b] : b \in Buckets}  BY DEF TotalOK
<1>3. \A x : x \in i.total <=>
                    \/ \E r \in Counting(S) : x = Usage(r)
                    \/ \E r \in S : r.from = "log" /\ x = Request(r)
  BY <1>1
<1>4. \A x : x \in i.total <=> \E c \in Buckets : x \in i.bucket[c]  BY <1>2
<1> QED  BY <1>3, <1>4
-----------------------------------------------------------------------------
(***************************************************************************)
(* A name is registered.                                                   *)
(***************************************************************************)
LEMMA RegisterKeeps ==
    ASSUME NEW i \in Inners, NEW S \in SUBSET Records, UsageOK(i, S),
           NEW full \in Models \ {Nameless}, NEW j, j = RegisterCanonical(i, full)
    PROVE  j \in Inners /\ UsageOK(j, S) /\ full \in j.metric
<1> DEFINE bare == <<full[1], Plain>>
<1>0. /\ HistoryOK(S) /\ TotalOK(i, S) /\ BucketsOK(i) /\ SourceOK(i, S)
      /\ MeteredOK(i, S) /\ CanonOK(i) /\ BareOK(i, S)
  BY DEF UsageOK
<1>1. Listed(i)  BY <1>0 DEF BucketsOK, Listed
<1>2. /\ j \in Inners /\ Listed(j)
      /\ j.total = i.total /\ j.source = i.source /\ j.metered = i.metered
      /\ j.metric = i.metric \cup {full}
      /\ \/ j.canon = i.canon /\ j.bucket = i.bucket /\ j.keys = i.keys
         \/ /\ bare \in Models \ {Nameless} /\ bare # full /\ full[1] # Empty
            /\ bare \notin i.metric
            /\ j.canon = [i.canon EXCEPT ![bare] = full]
            /\ Merged(i, j, bare, full)
  BY <1>1, RegisterIs
<1>3. SourceOK(j, S)  BY <1>0, <1>2 DEF SourceOK
<1>4. CASE j.canon = i.canon /\ j.bucket = i.bucket /\ j.keys = i.keys
  <2>1. TotalOK(j, S) /\ BucketsOK(j) /\ BareOK(j, S)
    <3>1. /\ \A x : x \in j.total <=>
                    \/ \E r \in Counting(S) : x = Usage(r)
                    \/ \E r \in S : r.from = "log" /\ x = Request(r)
          /\ \A x : x \in j.total <=> \E c \in Buckets : x \in j.bucket[c]
      BY <1>0, <1>2, <1>4, TotalGives
    <3>2. TotalOK(j, S)  BY <3>1, TotalFrom
    <3>3. BucketsOK(j)  BY <1>0, <1>4 DEF BucketsOK
    <3>4. BareOK(j, S)  BY <1>0, <1>4 DEF BareOK
    <3> QED  BY <3>2, <3>3, <3>4
  <2>2. MeteredOK(j, S)  BY <1>0, <1>2, <1>4 DEF MeteredOK
  <2>3. CanonOK(j)  BY <1>0, <1>2, <1>4 DEF CanonOK
  <2> QED  BY <1>0, <1>2, <1>3, <2>1, <2>2, <2>3 DEF UsageOK
<1>5. CASE /\ bare \in Models \ {Nameless} /\ bare # full /\ full[1] # Empty
           /\ bare \notin i.metric
           /\ j.canon = [i.canon EXCEPT ![bare] = full]
           /\ Merged(i, j, bare, full)
  <2>1. bare[1] = full[1] /\ bare[2] = Plain /\ full[2] # Plain  BY <1>5, NamesAre
  <2> HIDE DEF bare
  <2>2. ASSUME NEW c \in Buckets, NEW x, x \in j.bucket[c]
        PROVE  /\ c[1] # bare
               /\ x \in i.bucket[c] \/ (c[1] = full /\ x \in i.bucket[<<bare, c[2]>>])
    BY <1>5, <2>2 DEF Merged
  <2>3. \A c \in Buckets : <<bare, c[2]>> \in Buckets /\ <<full, c[2]>> \in Buckets /\ c = <<c[1], c[2]>>
    BY <1>5, BucketsAre
  <2>4. TotalOK(j, S)
    <3>1. \A x : x \in i.total <=> \E c \in Buckets : x \in i.bucket[c]  BY <1>0, TotalGives
    <3>2. ASSUME NEW c \in Buckets, NEW x, x \in i.bucket[c]  PROVE \E d \in Buckets : x \in j.bucket[d]
      <4>1. CASE c[1] # bare  BY <1>5, <3>2, <4>1 DEF Merged
      <4>2. CASE c[1] = bare
        <5> DEFINE d == <<full, c[2]>>
        <5>1. d \in Buckets /\ d[1] = full /\ d[2] = c[2] /\ c = <<bare, c[2]>>  BY <2>3, <4>2
        <5>2. x \in i.bucket[<<bare, d[2]>>]  BY <3>2, <5>1
        <5> HIDE DEF d
        <5> QED  BY <1>5, <5>1, <5>2 DEF Merged
      <4> QED  BY <4>1, <4>2
    <3>3. \A x : x \in j.total <=> \E c \in Buckets : x \in j.bucket[c]
      BY <1>2, <2>2, <2>3, <3>1, <3>2
    <3>4. \A x : x \in j.total <=>
                    \/ \E r \in Counting(S) : x = Usage(r)
                    \/ \E r \in S : r.from = "log" /\ x = Request(r)
      BY <1>0, <1>2, TotalGives
    <3> QED  BY <3>3, <3>4, TotalFrom
  <2>5. BucketsOK(j)
    <3>1. ASSUME NEW c \in Buckets, NEW d \in Buckets, NEW x, x \in j.bucket[c], x \in j.bucket[d]
          PROVE  c = d
      <4>1. /\ c[1] # bare /\ (x \in i.bucket[c] \/ (c[1] = full /\ x \in i.bucket[<<bare, c[2]>>]))
            /\ d[1] # bare /\ (x \in i.bucket[d] \/ (d[1] = full /\ x \in i.bucket[<<bare, d[2]>>]))
        BY <2>2, <3>1
      <4>2. \A u, v \in Buckets : x \in i.bucket[u] /\ x \in i.bucket[v] => u = v
        BY <1>0 DEF BucketsOK
      <4>3. \A u \in Buckets : <<bare, u[2]>> \in Buckets /\ <<bare, u[2]>>[1] = bare /\ <<bare, u[2]>>[2] = u[2]
        BY <2>3
      <4>4. CASE x \in i.bucket[c] /\ x \in i.bucket[d]  BY <4>2, <4>4
      <4>5. CASE x \in i.bucket[c] /\ x \in i.bucket[<<bare, d[2]>>]  BY <4>1, <4>2, <4>3, <4>5
      <4>6. CASE x \in i.bucket[d] /\ x \in i.bucket[<<bare, c[2]>>]  BY <4>1, <4>2, <4>3, <4>6
      <4>7. CASE /\ c[1] = full /\ x \in i.bucket[<<bare, c[2]>>]
                 /\ d[1] = full /\ x \in i.bucket[<<bare, d[2]>>]
        <5>1. <<bare, c[2]>> = <<bare, d[2]>>  BY <4>2, <4>3, <4>7
        <5>2. c[2] = d[2]  BY <4>3, <5>1
        <5> QED  BY <2>3, <4>7, <5>2
      <4> QED  BY <4>1, <4>4, <4>5, <4>6, <4>7
    <3> QED  BY <1>2, <3>1 DEF BucketsOK, Listed
  <2>6. MeteredOK(j, S)
    <3>1. ASSUME NEW r \in S, NEW c \in Buckets, r.from = "metric", Usage(r) \in j.bucket[c]
          PROVE  c = Home(r)
      <4>1. CASE Usage(r) \in i.bucket[c]  BY <1>0, <3>1, <4>1 DEF MeteredOK
      <4>2. CASE Usage(r) \in i.bucket[<<bare, c[2]>>]
        <5>1. <<bare, c[2]>> = Home(r)  BY <1>0, <2>3, <3>1, <4>2 DEF MeteredOK
        <5>2. bare = r.model  BY <5>1 DEF Home
        <5> QED  BY <1>0, <1>5, <3>1, <5>2 DEF MeteredOK
      <4> QED  BY <2>2, <3>1, <4>1, <4>2
    <3> QED  BY <1>0, <1>2, <3>1 DEF MeteredOK
  <2>7. CanonOK(j)
    <3>0. i.canon \in [Models -> Models]  BY Fields
    <3>1. j.canon[bare] = full /\ \A m \in Models \ {bare} : j.canon[m] = i.canon[m]
      BY <1>5, <3>0
    <3>2. \A m \in Models : j.canon[m] # m =>
             m[1] # Empty /\ m[2] = Plain /\ j.canon[m][1] = m[1] /\ j.canon[m][2] # Plain
      BY <1>0, <1>5, <2>1, <3>1 DEF CanonOK
    <3>3. ASSUME NEW m \in Models \ {<<Unknown, Plain>>}, j.canon[m] # m, m \notin j.metric,
                 NEW c \in j.keys, c[1] = m
          PROVE  FALSE
      <4>1. c \in Buckets /\ j.bucket[c] # {}  BY <1>2, Fields DEF Listed
      <4>2. PICK x : x \in j.bucket[c]  BY <4>1
      <4>3. m # bare /\ m # full  BY <2>1, <2>2, <3>2, <3>3, <4>1, <4>2
      <4>4. x \in i.bucket[c]  BY <2>2, <3>3, <4>1, <4>2, <4>3
      <4>5. c \in i.keys  BY <1>1, <4>1, <4>4 DEF Listed
      <4> QED  BY <1>0, <1>2, <3>1, <3>3, <4>3, <4>5 DEF CanonOK
    <3> QED  BY <3>2, <3>3 DEF CanonOK
  <2>8. BareOK(j, S)
    <3> SUFFICES ASSUME NEW r \in S, NEW c \in Buckets, NEW x, x \in j.bucket[c],
                        x = Usage(r) \/ x = Request(r)
                 PROVE  c[1][1] = NonEmptyModel(r.model)[1]
      BY DEF BareOK
    <3>1. CASE x \in i.bucket[c]  BY <1>0, <3>1 DEF BareOK
    <3>2. CASE c[1] = full /\ x \in i.bucket[<<bare, c[2]>>]
      <4>1. <<bare, c[2]>>[1][1] = NonEmptyModel(r.model)[1]  BY <1>0, <2>3, <3>2 DEF BareOK
      <4> QED  BY <2>1, <3>2, <4>1
    <3> QED  BY <2>2, <3>1, <3>2
  <2> QED  BY <1>0, <1>2, <1>3, <2>4, <2>5, <2>6, <2>7, <2>8 DEF UsageOK
<1> QED  BY <1>2, <1>4, <1>5
-----------------------------------------------------------------------------
(***************************************************************************)
(* A data point is counted.                                                *)
(***************************************************************************)
LEMMA MetricCounts ==
    ASSUME NEW S \in SUBSET Records, NEW r \in Records, r.from = "metric", NEW R, R = S \cup {r}
    PROVE  /\ \A k : HasLog(R, k) <=> HasLog(S, k)
           /\ \A k : HasMetric(R, k) <=> HasMetric(S, k) \/ (r.used /\ r.key = k)
           /\ \A q \in S : q \in Counting(R) <=> q \in Counting(S)
           /\ r \in Counting(R) <=> r.used /\ ~ HasLog(S, r.key)
<1>1. \A k : HasLog(R, k) <=> HasLog(S, k)  BY DEF HasLog
<1>2. \A k : HasMetric(R, k) <=> HasMetric(S, k) \/ (r.used /\ r.key = k)  BY DEF HasMetric
<1>3. \A q \in S : q \in Counting(R) <=> q \in Counting(S)  BY <1>1 DEF Counting
<1>4. r \in Counting(R) <=> r.used /\ ~ HasLog(S, r.key)  BY <1>1 DEF Counting
<1> QED  BY <1>1, <1>2, <1>3, <1>4

LEMMA MetricStep ==
    ASSUME NEW i \in Inners, NEW S \in SUBSET Records, UsageOK(i, S),
           NEW b \in Buckets, NEW r \in Records, b[1] \in i.metric,
           r.from = "metric", r.model = b[1], r.key = SourceKey(b), \A q \in S : q.id # r.id,
           NEW j, j = IF r.used THEN RecordClaudeMetricUsage(i, b, Usage(r)) ELSE i
    PROVE  j \in Inners /\ UsageOK(j, S \cup {r})
<1> DEFINE R == S \cup {r}
           k == SourceKey(b)
           Wanted == r.used /\ MetricWanted(i, b)
<1>0. /\ HistoryOK(S) /\ TotalOK(i, S) /\ BucketsOK(i) /\ SourceOK(i, S)
      /\ MeteredOK(i, S) /\ CanonOK(i) /\ BareOK(i, S) /\ Listed(i)
  BY DEF UsageOK, BucketsOK, Listed
<1>1. k \in Buckets /\ Usage(r) \in Entries  BY KeyIs DEF Usage, Entries, Records
<1>2. Home(r) = b /\ r.key = k
  <2>1. k[2] = b[2]  BY DEF SourceKey
  <2> QED  BY <2>1, BucketsAre DEF Home
<1>3. /\ \A x : HasLog(R, x) <=> HasLog(S, x)
      /\ \A x : HasMetric(R, x) <=> HasMetric(S, x) \/ (r.used /\ r.key = x)
      /\ \A q \in S : q \in Counting(R) <=> q \in Counting(S)
      /\ r \in Counting(R) <=> r.used /\ ~ HasLog(S, r.key)
  BY MetricCounts
<1>4. Wanted <=> r \in Counting(R)
  BY <1>0, <1>1, <1>2, <1>3 DEF SourceOK, MetricWanted
<1>5. /\ j \in Inners /\ Listed(j)
      /\ \A x : x \in j.total <=> x \in i.total \/ (Wanted /\ x = Usage(r))
      /\ \A c \in Buckets : \A x : x \in j.bucket[c] <=>
            x \in i.bucket[c] \/ (Wanted /\ x = Usage(r) /\ c = b)
      /\ j.canon = i.canon /\ j.metric = i.metric
      /\ \A p : p \in j.metered <=> p \in i.metered \/ (Wanted /\ p = <<b, Usage(r)>>)
      /\ \A x \in Buckets : j.source[x] = IF Wanted /\ x = k THEN "metrics" ELSE i.source[x]
  <2>1. CASE Wanted
    <3>1. /\ j \in Inners
          /\ j.total = i.total \cup {Usage(r)}
          /\ \A c \in Buckets : \A x : x \in j.bucket[c] <=> x \in i.bucket[c] \/ (x = Usage(r) /\ c = b)
          /\ Listed(j)
          /\ j.canon = i.canon /\ j.metric = i.metric
          /\ j.metered = i.metered \cup {<<b, Usage(r)>>}
          /\ j.source = [i.source EXCEPT ![k] = "metrics"]
      BY <1>0, <1>1, <2>1, MetricUsageIs
    <3>2. i.source \in [Buckets -> {"none", "logs", "metrics"}]  BY Fields
    <3> HIDE DEF Wanted, k
    <3> QED  BY <1>1, <2>1, <3>1, <3>2
  <2>2. CASE ~ Wanted
    <3>1. j = i  BY <2>2 DEF RecordClaudeMetricUsage
    <3> HIDE DEF Wanted
    <3> QED  BY <1>0, <2>2, <3>1
  <2> QED  BY <2>1, <2>2
<1> HIDE DEF Wanted, k, R
<1>6. S \subseteq R /\ r \in R /\ \A q \in R : q \in S \/ q = r  BY DEF R
<1>7. \A c \in Buckets : Usage(r) \notin i.bucket[c] /\ Request(r) \notin i.bucket[c]
  BY <1>0, EntriesKnown
<1>8. \A q \in S : Usage(q) # Usage(r) /\ Request(q) # Request(r)  BY EntriesDiffer
<1>9. HistoryOK(R)
  <2>1. \A q, p \in R : q.id = p.id => q = p  BY <1>0, <1>6 DEF HistoryOK
  <2> QED  BY <1>0, <1>2, <1>6, <2>1 DEF HistoryOK, k
<1>10. TotalOK(j, R)
  <2>1. /\ \A x : x \in i.total <=>
                    \/ \E q \in Counting(S) : x = Usage(q)
                    \/ \E q \in S : q.from = "log" /\ x = Request(q)
        /\ \A x : x \in i.total <=> \E c \in Buckets : x \in i.bucket[c]
    BY <1>0, TotalGives
  <2>2. \A x : x \in j.total <=>
                    \/ \E q \in Counting(R) : x = Usage(q)
                    \/ \E q \in R : q.from = "log" /\ x = Request(q)
    <3>1. Counting(R) \subseteq R /\ Counting(S) \subseteq S  BY DEF Counting
    <3>2. \A x : (\E q \in Counting(R) : x = Usage(q))
                   <=> (\E q \in Counting(S) : x = Usage(q)) \/ (Wanted /\ x = Usage(r))
      BY <1>3, <1>4, <1>6, <3>1
    <3>3. \A x : (\E q \in R : q.from = "log" /\ x = Request(q))
                   <=> (\E q \in S : q.from = "log" /\ x = Request(q))
      BY <1>6
    <3> QED  BY <1>5, <2>1, <3>2, <3>3
  <2>3. \A x : x \in j.total <=> \E c \in Buckets : x \in j.bucket[c]  BY <1>5, <2>1
  <2> QED  BY <2>2, <2>3, TotalFrom
<1>11. BucketsOK(j)
  <2>1. ASSUME NEW c \in Buckets, NEW d \in Buckets, c # d, NEW x, x \in j.bucket[c], x \in j.bucket[d]
        PROVE  FALSE
    BY <1>0, <1>5, <1>7, <2>1 DEF BucketsOK
  <2> QED  BY <1>5, <2>1 DEF BucketsOK, Listed
<1>12. SourceOK(j, R)
  <2> SUFFICES ASSUME NEW x \in Buckets
               PROVE  /\ j.source[x] = "logs" <=> HasLog(R, x)
                      /\ j.source[x] = "metrics" <=> ~ HasLog(R, x) /\ HasMetric(R, x)
    BY DEF SourceOK
  <2>1. /\ i.source[x] = "logs" <=> HasLog(S, x)
        /\ i.source[x] = "metrics" <=> ~ HasLog(S, x) /\ HasMetric(S, x)
    BY <1>0 DEF SourceOK
  <2>2. CASE x = k
    <3>1. Wanted <=> r.used /\ ~ HasLog(S, k)  BY <1>2, <1>3, <1>4
    <3>2. CASE Wanted  BY <1>2, <1>3, <1>5, <2>2, <3>1, <3>2
    <3>3. CASE ~ Wanted  BY <1>2, <1>3, <1>5, <2>1, <2>2, <3>1, <3>3
    <3> QED  BY <3>2, <3>3
  <2>3. CASE x # k  BY <1>2, <1>3, <1>5, <2>1, <2>3
  <2> QED  BY <2>2, <2>3
<1>13. MeteredOK(j, R)
  <2>1. i.metered = {<<Home(q), Usage(q)>> : q \in {p \in Counting(S) : p.from = "metric"}}
    BY <1>0 DEF MeteredOK
  <2>2. j.metered = {<<Home(q), Usage(q)>> : q \in {p \in Counting(R) : p.from = "metric"}}
    <3>1. Counting(R) \subseteq R /\ Counting(S) \subseteq S  BY DEF Counting
    <3>2. \A p : p \in i.metered <=> \E q \in Counting(S) : q.from = "metric" /\ p = <<Home(q), Usage(q)>>
      BY <2>1
    <3>3. \A p : p \in j.metered <=> \E q \in Counting(R) : q.from = "metric" /\ p = <<Home(q), Usage(q)>>
      BY <1>2, <1>3, <1>4, <1>5, <1>6, <3>1, <3>2
    <3> QED  BY <3>3
  <2>3. \A q \in R : q.from = "metric" => q.model \in j.metric  BY <1>0, <1>5, <1>6 DEF MeteredOK
  <2>4. \A q \in R, c \in Buckets : q.from = "metric" /\ Usage(q) \in j.bucket[c] => c = Home(q)
    BY <1>0, <1>2, <1>5, <1>6, <1>7, <1>8 DEF MeteredOK
  <2> QED  BY <2>2, <2>3, <2>4 DEF MeteredOK
<1>14. CanonOK(j)
  <2>1. ASSUME NEW m \in Models \ {<<Unknown, Plain>>}, j.canon[m] # m, m \notin j.metric,
               NEW c \in j.keys, c[1] = m
        PROVE  FALSE
    <3>1. c # b  BY <1>5, <2>1
    <3>2. c \in Buckets /\ j.bucket[c] # {}  BY <1>5, Fields DEF Listed
    <3>3. i.bucket[c] # {}  BY <1>5, <3>1, <3>2
    <3>4. c \in i.keys  BY <1>0, <3>2, <3>3 DEF Listed
    <3> QED  BY <1>0, <1>5, <2>1, <3>4 DEF CanonOK
  <2> QED  BY <1>0, <1>5, <2>1 DEF CanonOK
<1>15. BareOK(j, R)
  <2>1. b[1] \in Models /\ b[1] # Nameless  BY BucketsAre
  <2>2. b[1][1] = NonEmptyModel(r.model)[1]  BY <2>1, NonEmptyIs
  <2>3. \A q \in R, c \in Buckets :
           Usage(q) \in j.bucket[c] \/ Request(q) \in j.bucket[c] => c[1][1] = NonEmptyModel(q.model)[1]
    <3> SUFFICES ASSUME NEW q \in R, NEW c \in Buckets, Usage(q) \in j.bucket[c] \/ Request(q) \in j.bucket[c]
                 PROVE  c[1][1] = NonEmptyModel(q.model)[1]
      OBVIOUS
    <3>1. CASE q \in S
      <4>1. Usage(q) \in i.bucket[c] \/ Request(q) \in i.bucket[c]
        BY <1>5, <1>8, <3>1, EntriesDiffer
      <4> QED  BY <1>0, <3>1, <4>1 DEF BareOK
    <3>2. CASE q = r
      <4>1. c = b  BY <1>5, <1>7, <3>2, EntriesDiffer
      <4> QED  BY <2>2, <3>2, <4>1
    <3> QED  BY <1>6, <3>1, <3>2
  <2> QED  BY <2>3 DEF BareOK
<1> QED  BY <1>5, <1>9, <1>10, <1>11, <1>12, <1>13, <1>14, <1>15 DEF UsageOK, R
-----------------------------------------------------------------------------
(***************************************************************************)
(* A log is counted, and takes back the metrics of its key.                *)
(***************************************************************************)
LEMMA CanonicalIs ==
    ASSUME NEW i \in Inners, CanonOK(i), NEW raw \in Models, NEW m, m = CanonicalModel(i, raw)
    PROVE  /\ m \in Models
           /\ NonEmptyModel(m)[1] = NonEmptyModel(raw)[1]
           /\ i.canon[NonEmptyModel(m)] # NonEmptyModel(m) =>
                 NonEmptyModel(m) \in i.metric \/ NonEmptyModel(m) = <<Unknown, Plain>>
<1>0. i.canon \in [Models -> Models]  BY Fields
<1>1. CASE raw \in i.metric \/ i.canon[raw] = raw
  <2>1. m = raw  BY <1>1 DEF CanonicalModel
  <2>2. CASE raw = Nameless  BY <2>1, <2>2 DEF NonEmptyModel
  <2>3. CASE raw # Nameless
    <3>1. NonEmptyModel(m) = raw  BY <2>1, <2>3 DEF NonEmptyModel
    <3> QED  BY <1>1, <2>1, <3>1
  <2> QED  BY <2>1, <2>2, <2>3
<1>2. CASE ~ (raw \in i.metric \/ i.canon[raw] = raw)
  <2>1. m = i.canon[raw] /\ m \in Models  BY <1>0, <1>2 DEF CanonicalModel
  <2>2. raw[1] # Empty /\ m[1] = raw[1] /\ m[2] # Plain  BY <1>2, <2>1 DEF CanonOK
  <2>3. raw # Nameless /\ m # Nameless  BY <2>2 DEF Nameless
  <2>4. NonEmptyModel(m) = m /\ NonEmptyModel(raw) = raw  BY <2>3 DEF NonEmptyModel
  <2>5. i.canon[m] = m  BY <2>1, <2>2 DEF CanonOK
  <2> QED  BY <2>1, <2>2, <2>4, <2>5
<1> QED  BY <1>1, <1>2

LEMMA LogCounts ==
    ASSUME NEW S \in SUBSET Records, NEW r \in Records, r.from = "log", NEW R, R = S \cup {r}
    PROVE  /\ \A k : HasLog(R, k) <=> HasLog(S, k) \/ (r.used /\ r.key = k)
           /\ \A k : HasMetric(R, k) <=> HasMetric(S, k)
           /\ \A q \in S : q \in Counting(R) <=>
                 q \in Counting(S) /\ ~ (q.from = "metric" /\ r.used /\ q.key = r.key)
           /\ r \in Counting(R) <=> r.used
<1>1. \A k : HasLog(R, k) <=> HasLog(S, k) \/ (r.used /\ r.key = k)  BY DEF HasLog
<1>2. \A k : HasMetric(R, k) <=> HasMetric(S, k)  BY DEF HasMetric
<1>3. \A q \in S : q \in Counting(R) <=>
          q \in Counting(S) /\ ~ (q.from = "metric" /\ r.used /\ q.key = r.key)
  <2> TAKE q \in S
  <2>1. q \in R /\ q.from \in {"log", "metric"}  BY DEF Records
  <2> QED  BY <1>1, <2>1 DEF Counting
<1>4. r \in Counting(R) <=> r.used  BY DEF Counting
<1> QED  BY <1>1, <1>2, <1>3, <1>4

\* The metrics taken back are the ones of the key that counted until now.
LEMMA TakenBackIs ==
    ASSUME NEW i \in Inners, NEW S \in SUBSET Records, HistoryOK(S), SourceOK(i, S), MeteredOK(i, S),
           NEW b \in Buckets
    PROVE  \A p : p \in TakenBack(i, b) <=>
               \E q \in Counting(S) : q.from = "metric" /\ q.key = SourceKey(b) /\ p = <<Home(q), Usage(q)>>
<1> DEFINE k == SourceKey(b)
<1>1. k \in Buckets  BY KeyIs
<1>2. \A p : p \in i.metered <=> \E q \in Counting(S) : q.from = "metric" /\ p = <<Home(q), Usage(q)>>
  <2>1. i.metered = {<<Home(q), Usage(q)>> : q \in {p \in Counting(S) : p.from = "metric"}}
    BY DEF MeteredOK
  <2> QED  BY <2>1
<1>3. \A q \in Counting(S) : q \in S /\ q.used /\ (q.from = "metric" => SourceKey(Home(q)) = q.key)
  BY DEF Counting, HistoryOK
<1>4. \A p : p \in MeteredOf(i, k) <=>
          \E q \in Counting(S) : q.from = "metric" /\ q.key = k /\ p = <<Home(q), Usage(q)>>
  <2> TAKE p
  <2>1. \A x, y : <<x, y>>[1] = x  OBVIOUS
  <2>2. p \in MeteredOf(i, k) <=> p \in i.metered /\ SourceKey(p[1]) = k  BY DEF MeteredOf
  <2>3. ASSUME p \in MeteredOf(i, k)
        PROVE  \E q \in Counting(S) : q.from = "metric" /\ q.key = k /\ p = <<Home(q), Usage(q)>>
    <3>1. PICK q \in Counting(S) : q.from = "metric" /\ p = <<Home(q), Usage(q)>>  BY <1>2, <2>2, <2>3
    <3>2. p[1] = Home(q)  BY <2>1, <3>1
    <3>3. q.key = k  BY <1>3, <2>2, <2>3, <3>1, <3>2
    <3> QED  BY <3>1, <3>3
  <2>4. ASSUME NEW q \in Counting(S), q.from = "metric", q.key = k, p = <<Home(q), Usage(q)>>
        PROVE  p \in MeteredOf(i, k)
    <3>1. p[1] = Home(q)  BY <2>1, <2>4
    <3>2. p \in i.metered /\ SourceKey(p[1]) = k  BY <1>2, <1>3, <2>4, <3>1
    <3> QED  BY <2>2, <3>2
  <2> QED  BY <2>3, <2>4
<1>5. CASE i.source[k] = "metrics"
  <2>1. TakenBack(i, b) = MeteredOf(i, k)  BY <1>5 DEF TakenBack
  <2> QED  BY <1>4, <2>1
<1>6. CASE i.source[k] # "metrics"
  <2>1. TakenBack(i, b) = {}  BY <1>6 DEF TakenBack
  <2>2. ASSUME NEW q \in Counting(S), q.from = "metric", q.key = k  PROVE FALSE
    <3>1. HasMetric(S, k) /\ ~ HasLog(S, k)  BY <1>3, <2>2 DEF HasMetric, Counting
    <3> QED  BY <1>1, <1>6, <3>1 DEF SourceOK
  <2> QED  BY <2>1, <2>2
<1> QED  BY <1>5, <1>6

LEMMA LogStep ==
    ASSUME NEW i \in Inners, NEW S \in SUBSET Records, UsageOK(i, S),
           NEW b \in Buckets, NEW r \in Records,
           i.canon[b[1]] # b[1] => b[1] \in i.metric \/ b[1] = <<Unknown, Plain>>,
           b[1][1] = NonEmptyModel(r.model)[1],
           r.from = "log", r.key = SourceKey(b), \A q \in S : q.id # r.id,
           NEW j, j = LET n == RecordInto(i, b, Request(r))
                      IN  IF r.used THEN RecordClaudeLogUsage(n, b, Usage(r)) ELSE n
    PROVE  j \in Inners /\ UsageOK(j, S \cup {r})
<1> DEFINE n == RecordInto(i, b, Request(r))
           R == S \cup {r}
           k == SourceKey(b)
           Back(q) == q \in Counting(S) /\ q.from = "metric" /\ r.used /\ q.key = k
           New(x) == x = Request(r) \/ (r.used /\ x = Usage(r))
<1>0. /\ HistoryOK(S) /\ TotalOK(i, S) /\ BucketsOK(i) /\ SourceOK(i, S)
      /\ MeteredOK(i, S) /\ CanonOK(i) /\ BareOK(i, S) /\ Listed(i)
  BY DEF UsageOK, BucketsOK, Listed
<1>1. k \in Buckets /\ Usage(r) \in Entries /\ Request(r) \in Entries
  BY KeyIs DEF Usage, Request, Entries, Records
<1>2. /\ \A x : HasLog(R, x) <=> HasLog(S, x) \/ (r.used /\ r.key = x)
      /\ \A x : HasMetric(R, x) <=> HasMetric(S, x)
      /\ \A q \in S : q \in Counting(R) <=> q \in Counting(S) /\ ~ Back(q)
      /\ r \in Counting(R) <=> r.used
  <2>0. S \in SUBSET Records /\ r \in Records /\ r.from = "log"  OBVIOUS
  <2>1. /\ \A x : HasLog(R, x) <=> HasLog(S, x) \/ (r.used /\ r.key = x)
        /\ \A x : HasMetric(R, x) <=> HasMetric(S, x)
        /\ \A q \in S : q \in Counting(R) <=>
              q \in Counting(S) /\ ~ (q.from = "metric" /\ r.used /\ q.key = r.key)
        /\ r \in Counting(R) <=> r.used
    BY ONLY <2>0, LogCounts
  <2>2. r.key = k  OBVIOUS
  <2> HIDE DEF R, k
  <2>3. \A q \in S : q \in Counting(R) <=> q \in Counting(S) /\ ~ Back(q)
    BY ONLY <2>1, <2>2 DEF Back
  <2> QED  BY ONLY <2>1, <2>3
<1>3. /\ n \in Inners /\ Listed(n)
      /\ n.total = i.total \cup {Request(r)}
      /\ n.bucket[b] = i.bucket[b] \cup {Request(r)}
      /\ \A c \in Buckets \ {b} : n.bucket[c] = i.bucket[c]
      /\ n.canon = i.canon /\ n.metric = i.metric /\ n.source = i.source /\ n.metered = i.metered
  <2>1. /\ n \in Inners
        /\ n.total = i.total \cup {Request(r)}
        /\ n.bucket[b] = i.bucket[b] \cup {Request(r)}
        /\ \A c \in Buckets \ {b} : n.bucket[c] = i.bucket[c]
        /\ n.keys = i.keys \cup {b}
        /\ n.canon = i.canon /\ n.metric = i.metric /\ n.source = i.source /\ n.metered = i.metered
    BY <1>1, RecordIntoIs
  <2>2. Listed(n)  BY <1>0, <2>1 DEF Listed
  <2> QED  BY <2>1, <2>2
<1>3a. j = IF r.used THEN RecordClaudeLogUsage(n, b, Usage(r)) ELSE n  OBVIOUS
<1> HIDE DEF n
<1>4. \A p : p \in TakenBack(n, b) <=>
          \E q \in Counting(S) : q.from = "metric" /\ q.key = k /\ p = <<Home(q), Usage(q)>>
  <2>1. TakenBack(n, b) = TakenBack(i, b)  BY <1>3 DEF TakenBack, MeteredOf
  <2> QED  BY <1>0, <2>1, TakenBackIs
<1>5. Counting(S) \subseteq S /\ Counting(R) \subseteq R  BY DEF Counting
<1>6. S \subseteq R /\ r \in R /\ \A q \in R : q \in S \/ q = r  OBVIOUS
<1>7. \A c \in Buckets : Usage(r) \notin i.bucket[c] /\ Request(r) \notin i.bucket[c]
  BY <1>0, EntriesKnown
<1>8. \A q \in S : Usage(q) # Usage(r) /\ Request(q) # Request(r)  BY EntriesDiffer
<1>9. \A q \in S, c \in Buckets : Back(q) /\ Usage(q) \in i.bucket[c] => c = Home(q)
  BY <1>0 DEF MeteredOK
<1>10. /\ j \in Inners /\ Listed(j)
       /\ \A x : x \in j.total <=>
             \/ x \in i.total /\ \A q \in S : Back(q) => x # Usage(q)
             \/ New(x)
       /\ \A c \in Buckets : \A x : x \in j.bucket[c] <=>
             \/ x \in i.bucket[c] /\ \A q \in S : Back(q) => x # Usage(q)
             \/ New(x) /\ c = b
       /\ j.canon = i.canon /\ j.metric = i.metric
       /\ \A p : p \in j.metered <=>
             p \in i.metered /\ \A q \in S : Back(q) => p # <<Home(q), Usage(q)>>
       /\ \A x \in Buckets : j.source[x] = IF r.used /\ x = k THEN "logs" ELSE i.source[x]
  <2>1. CASE r.used
    <3> DEFINE T == TakenBack(n, b)
    <3>1. /\ j \in Inners /\ Listed(j)
          /\ j.total = (n.total \ {p[2] : p \in T}) \cup {Usage(r)}
          /\ \A c \in Buckets : \A x : x \in j.bucket[c] <=>
                \/ x \in n.bucket[c] /\ <<c, x>> \notin T
                \/ x = Usage(r) /\ c = b
          /\ j.canon = n.canon /\ j.metric = n.metric
          /\ j.metered = n.metered \ T
          /\ j.source = [n.source EXCEPT ![k] = "logs"]
      <4>1. j = RecordClaudeLogUsage(n, b, Usage(r))  BY <1>3a, <2>1
      <4>2. n \in Inners /\ Listed(n)  BY <1>3
      <4> QED  BY <1>1, <4>1, <4>2, LogUsageIs
    <3>2. \A p : p \in T <=> \E q \in S : Back(q) /\ p = <<Home(q), Usage(q)>>  BY <1>4, <1>5, <2>1
    <3> HIDE DEF T
    <3>3. \A x : x \in {p[2] : p \in T} <=> \E q \in S : Back(q) /\ x = Usage(q)
      <4>1. \A q : <<Home(q), Usage(q)>>[2] = Usage(q)  OBVIOUS
      <4> HIDE DEF Back
      <4>2. ASSUME NEW x, NEW p \in T, x = p[2]  PROVE \E q \in S : Back(q) /\ x = Usage(q)
        <5>1. PICK q \in S : Back(q) /\ p = <<Home(q), Usage(q)>>  BY <3>2, <4>2
        <5> QED  BY <4>1, <4>2, <5>1
      <4>3. ASSUME NEW x, NEW q \in S, Back(q), x = Usage(q)  PROVE \E p \in T : x = p[2]
        <5>1. <<Home(q), Usage(q)>> \in T  BY <3>2, <4>3
        <5> QED  BY <4>1, <4>3, <5>1
      <4> QED  BY <4>2, <4>3
    <3>4. \A x : x \in j.total <=>
             \/ x \in i.total /\ \A q \in S : Back(q) => x # Usage(q)
             \/ New(x)
      <4>1. \A q : Usage(q) # Request(r)  BY EntriesDiffer
      <4> HIDE DEF Back
      <4> QED  BY <1>3, <2>1, <3>1, <3>3, <4>1
    <3>5. ASSUME NEW c \in Buckets, NEW x
          PROVE  x \in j.bucket[c] <=>
                    \/ x \in i.bucket[c] /\ \A q \in S : Back(q) => x # Usage(q)
                    \/ New(x) /\ c = b
      <4>1. x \in n.bucket[c] <=> x \in i.bucket[c] \/ (x = Request(r) /\ c = b)  BY <1>3
      <4>2. <<c, x>> \in T <=> \E q \in S : Back(q) /\ c = Home(q) /\ x = Usage(q)
        <5>1. \A u, v : <<c, x>> = <<u, v>> <=> c = u /\ x = v  OBVIOUS
        <5> HIDE DEF Back
        <5> QED  BY <3>2, <5>1
      <4>3. \A q : Usage(q) # Request(r)  BY EntriesDiffer
      <4>4. x \in i.bucket[c] => (<<c, x>> \in T <=> \E q \in S : Back(q) /\ x = Usage(q))
        <5> HIDE DEF Back
        <5> QED  BY <1>9, <4>2
      <4> HIDE DEF Back
      <4> QED  BY <2>1, <3>1, <4>1, <4>2, <4>3, <4>4
    <3>6. \A p : p \in j.metered <=>
             p \in i.metered /\ \A q \in S : Back(q) => p # <<Home(q), Usage(q)>>
      <4> HIDE DEF Back
      <4> QED  BY <1>3, <3>1, <3>2
    <3>7. \A x \in Buckets : j.source[x] = IF r.used /\ x = k THEN "logs" ELSE i.source[x]
      <4>1. i.source \in [Buckets -> {"none", "logs", "metrics"}]  BY Fields
      <4> HIDE DEF k
      <4> QED  BY <1>1, <1>3, <2>1, <3>1, <4>1
    <3> QED  BY <1>3, <3>1, <3>4, <3>5, <3>6, <3>7
  <2>2. CASE ~ r.used
    <3>1. j = n  BY <1>3a, <2>2
    <3>2. \A q : ~ Back(q)  BY <2>2
    <3>3. \A c \in Buckets : \A x : x \in n.bucket[c] <=> x \in i.bucket[c] \/ (x = Request(r) /\ c = b)
      BY <1>3
    <3> HIDE DEF Back
    <3> QED  BY <1>3, <2>2, <3>1, <3>2, <3>3
  <2> QED  BY <2>1, <2>2
<1>11. \A x : New(x) => \A q \in S : Back(q) => x # Usage(q)
  <2>1. \A q : Usage(q) # Request(r)  BY EntriesDiffer
  <2> QED  BY <1>8, <2>1
<1>12. \A x : New(x) => \A c \in Buckets : x \notin i.bucket[c]  BY <1>7
<1>13. \A q \in S : ~ New(Usage(q)) /\ ~ New(Request(q))  BY <1>8, EntriesDiffer
<1> HIDE DEF R, k, New
<1>14. HistoryOK(R)
  <2>1. \A q, p \in R : q.id = p.id => q = p  BY <1>0, <1>6 DEF HistoryOK
  <2> QED  BY <1>0, <1>6, <2>1 DEF HistoryOK
<1>15. TotalOK(j, R)
  <2>1. /\ \A x : x \in i.total <=>
                    \/ \E q \in Counting(S) : x = Usage(q)
                    \/ \E q \in S : q.from = "log" /\ x = Request(q)
        /\ \A x : x \in i.total <=> \E c \in Buckets : x \in i.bucket[c]
    BY <1>0, TotalGives
  <2>2. ASSUME NEW x
        PROVE  (\E q \in Counting(R) : x = Usage(q))
                 <=> \/ (\E q \in Counting(S) : x = Usage(q)) /\ \A q \in S : Back(q) => x # Usage(q)
                     \/ r.used /\ x = Usage(r)
    <3>1. ASSUME NEW q \in Counting(R), x = Usage(q), q # r
          PROVE  q \in Counting(S) /\ \A p \in S : Back(p) => x # Usage(p)
      <4>1. q \in S /\ q \in Counting(S) /\ ~ Back(q)  BY <1>2, <1>5, <1>6, <3>1
      <4>2. \A p \in S : Usage(p) = Usage(q) => p = q  BY <1>0, <4>1, EntriesDiffer DEF HistoryOK
      <4> HIDE DEF Back
      <4> QED  BY <3>1, <4>1, <4>2
    <3>2. ASSUME NEW q \in Counting(S), x = Usage(q), \A p \in S : Back(p) => x # Usage(p)
          PROVE  q \in Counting(R)
      BY <1>2, <1>5, <3>2
    <3> HIDE DEF Back
    <3> QED  BY <1>2, <1>5, <1>6, <3>1, <3>2
  <2>3. \A x : (\E q \in R : q.from = "log" /\ x = Request(q))
                 <=> (\E q \in S : q.from = "log" /\ x = Request(q)) \/ x = Request(r)
    BY <1>6
  <2>4. \A x : (\E q \in S : q.from = "log" /\ x = Request(q)) => \A q \in S : Back(q) => x # Usage(q)
    BY EntriesDiffer
  <2> HIDE DEF Back
  <2>5. \A x : x \in j.total <=>
                    \/ \E q \in Counting(R) : x = Usage(q)
                    \/ \E q \in R : q.from = "log" /\ x = Request(q)
    <3> TAKE x
    <3>1. x \in j.total <=>
             \/ x \in i.total /\ \A q \in S : Back(q) => x # Usage(q)
             \/ x = Request(r) \/ (r.used /\ x = Usage(r))
      BY <1>10 DEF New
    <3>2. x \in i.total <=>
             \/ \E q \in Counting(S) : x = Usage(q)
             \/ \E q \in S : q.from = "log" /\ x = Request(q)
      BY <2>1
    <3> QED  BY <2>2, <2>3, <2>4, <3>1, <3>2
  <2>6. \A x : x \in j.total <=> \E c \in Buckets : x \in j.bucket[c]  BY <1>10, <2>1
  <2> QED  BY <2>5, <2>6, TotalFrom
<1>16. BucketsOK(j)
  <2> HIDE DEF Back
  <2>1. ASSUME NEW c \in Buckets, NEW d \in Buckets, c # d, NEW x, x \in j.bucket[c], x \in j.bucket[d]
        PROVE  FALSE
    BY <1>0, <1>10, <1>12, <2>1 DEF BucketsOK
  <2> QED  BY <1>10, <2>1 DEF BucketsOK, Listed
<1>17. SourceOK(j, R)
  <2> SUFFICES ASSUME NEW x \in Buckets
               PROVE  /\ j.source[x] = "logs" <=> HasLog(R, x)
                      /\ j.source[x] = "metrics" <=> ~ HasLog(R, x) /\ HasMetric(R, x)
    BY DEF SourceOK
  <2>1. /\ i.source[x] = "logs" <=> HasLog(S, x)
        /\ i.source[x] = "metrics" <=> ~ HasLog(S, x) /\ HasMetric(S, x)
    BY <1>0 DEF SourceOK
  <2>2. r.key = k  BY DEF k
  <2>3. CASE r.used /\ x = k  BY <1>2, <1>10, <2>2, <2>3
  <2>4. CASE ~ (r.used /\ x = k)  BY <1>2, <1>10, <2>1, <2>2, <2>4
  <2> QED  BY <2>3, <2>4
<1>18. MeteredOK(j, R)
  <2>1. \A p : p \in i.metered <=> \E q \in Counting(S) : q.from = "metric" /\ p = <<Home(q), Usage(q)>>
    <3>1. i.metered = {<<Home(q), Usage(q)>> : q \in {p \in Counting(S) : p.from = "metric"}}
      BY <1>0 DEF MeteredOK
    <3> QED  BY <3>1
  <2>2. ASSUME NEW p
        PROVE  p \in j.metered <=> \E q \in Counting(R) : q.from = "metric" /\ p = <<Home(q), Usage(q)>>
    <3>1. ASSUME NEW q \in Counting(R), q.from = "metric", p = <<Home(q), Usage(q)>>
          PROVE  p \in j.metered
      <4>1. q \in S /\ q \in Counting(S) /\ ~ Back(q)  BY <1>2, <1>5, <1>6, <3>1
      <4>2. \A u \in S : <<Home(u), Usage(u)>> = <<Home(q), Usage(q)>> => u = q
        BY <1>0, <4>1, EntriesDiffer DEF HistoryOK
      <4> HIDE DEF Back
      <4> QED  BY <1>10, <2>1, <3>1, <4>1, <4>2
    <3>2. ASSUME p \in j.metered
          PROVE  \E q \in Counting(R) : q.from = "metric" /\ p = <<Home(q), Usage(q)>>
      <4>1. PICK q \in Counting(S) : q.from = "metric" /\ p = <<Home(q), Usage(q)>>
        BY <1>10, <2>1, <3>2
      <4>2. q \in S /\ ~ Back(q)  BY <1>5, <1>10, <3>2, <4>1
      <4> QED  BY <1>2, <4>1, <4>2
    <3> QED  BY <3>1, <3>2
  <2>3. j.metered = {<<Home(q), Usage(q)>> : q \in {p \in Counting(R) : p.from = "metric"}}
    BY <2>2
  <2>4. \A q \in R : q.from = "metric" => q.model \in j.metric  BY <1>0, <1>6, <1>10 DEF MeteredOK
  <2>5. \A q \in R, c \in Buckets : q.from = "metric" /\ Usage(q) \in j.bucket[c] => c = Home(q)
    <3> HIDE DEF Back
    <3> QED  BY <1>0, <1>6, <1>10, <1>13 DEF MeteredOK
  <2> QED  BY <2>3, <2>4, <2>5 DEF MeteredOK
<1>19. CanonOK(j)
  <2>1. ASSUME NEW m \in Models \ {<<Unknown, Plain>>}, j.canon[m] # m, m \notin j.metric,
               NEW c \in j.keys, c[1] = m
        PROVE  FALSE
    <3>1. c # b  BY <1>10, <2>1
    <3>2. c \in Buckets /\ j.bucket[c] # {}  BY <1>10, Fields DEF Listed
    <3>3. i.bucket[c] # {}  BY <1>10, <3>1, <3>2
    <3>4. c \in i.keys  BY <1>0, <3>2, <3>3 DEF Listed
    <3> QED  BY <1>0, <1>10, <2>1, <3>4 DEF CanonOK
  <2> QED  BY <1>0, <1>10, <2>1 DEF CanonOK
<1>20. BareOK(j, R)
  <2> SUFFICES ASSUME NEW q \in R, NEW c \in Buckets, Usage(q) \in j.bucket[c] \/ Request(q) \in j.bucket[c]
               PROVE  c[1][1] = NonEmptyModel(q.model)[1]
    BY DEF BareOK
  <2> HIDE DEF Back
  <2>1. CASE q \in S
    <3>1. Usage(q) \in i.bucket[c] \/ Request(q) \in i.bucket[c]  BY <1>10, <1>13, <2>1
    <3> QED  BY <1>0, <2>1, <3>1 DEF BareOK
  <2>2. CASE q = r
    <3>1. c = b  BY <1>7, <1>10, <2>2
    <3> QED  BY <2>2, <3>1
  <2> QED  BY <1>6, <2>1, <2>2
<1> QED  BY <1>10, <1>14, <1>15, <1>16, <1>17, <1>18, <1>19, <1>20 DEF UsageOK, R
-----------------------------------------------------------------------------
(***************************************************************************)
(* The invariant and what follows from it.                                 *)
(***************************************************************************)
LEMMA StartUsage == Init => UsageInv
<1> SUFFICES ASSUME Init  PROVE UsageInv
  OBVIOUS
<1>1. /\ g.total = {} /\ g.bucket = [b \in Buckets |-> {}] /\ g.keys = {}
      /\ g.canon = [m \in Models |-> m] /\ g.metric = {}
      /\ g.source = [b \in Buckets |-> "none"] /\ g.metered = {}
  BY DEF Init
<1>2. seen = {} /\ hits = FALSE  BY DEF Init
<1>3. g \in Inners  BY DEF Init, Inners
<1>4. TypeOK
  <2>1. hits \in BOOLEAN  BY <1>2
  <2> QED  BY <1>2, <1>3, <2>1 DEF TypeOK, Inners
<1>5. HistoryOK(seen)  BY <1>2 DEF HistoryOK
<1>6. TotalOK(g, seen)
  <2>1. Counting(seen) = {}  BY <1>2 DEF Counting
  <2> QED  BY <1>1, <1>2, <2>1, TotalFrom
<1>7. BucketsOK(g)  BY <1>1 DEF BucketsOK
<1>8. SourceOK(g, seen)  BY <1>1, <1>2 DEF SourceOK, HasLog, HasMetric
<1>9. MeteredOK(g, seen)  BY <1>1, <1>2 DEF MeteredOK, Counting
<1>10. CanonOK(g)  BY <1>1 DEF CanonOK
<1>11. BareOK(g, seen)  BY <1>2 DEF BareOK
<1> QED  BY <1>4, <1>5, <1>6, <1>7, <1>8, <1>9, <1>10, <1>11 DEF UsageInv, UsageOK

LEMMA TypeIs == TypeOK <=> g \in Inners /\ hits \in BOOLEAN /\ seen \in SUBSET Records
BY DEF TypeOK, Inners, Records

LEMMA TypeNext ==
    ASSUME g' \in Inners, hits' \in BOOLEAN, seen' \in SUBSET Records
    PROVE  TypeOK'
BY DEF TypeOK, Inners, Records

LEMMA UsageNext ==
    ASSUME NEW S, seen' = S, UsageOK(g', S)
    PROVE  UsageOK(g, seen)'
<1>0. /\ HistoryOK(S) /\ TotalOK(g', S) /\ BucketsOK(g') /\ SourceOK(g', S)
      /\ MeteredOK(g', S) /\ CanonOK(g') /\ BareOK(g', S)
  BY DEF UsageOK
<1>1. HistoryOK(seen)'  BY <1>0 DEF HistoryOK
<1>2. TotalOK(g, seen)'  BY <1>0 DEF TotalOK, Counting, HasLog
<1>3. BucketsOK(g)'  BY <1>0 DEF BucketsOK
<1>4. SourceOK(g, seen)'  BY <1>0 DEF SourceOK, HasLog, HasMetric
<1>5. MeteredOK(g, seen)'  BY <1>0 DEF MeteredOK, Counting, HasLog
<1>6. CanonOK(g)'  BY <1>0 DEF CanonOK
<1>7. BareOK(g, seen)'  BY <1>0 DEF BareOK
<1> QED  BY <1>1, <1>2, <1>3, <1>4, <1>5, <1>6, <1>7 DEF UsageOK

LEMMA LogKeeps ==
    ASSUME UsageInv, NEW s \in Samples, NEW raw \in Models, NEW e \in Efforts \cup {Empty},
           NEW used \in BOOLEAN, ApiRequestLog(s, raw, e, used)
    PROVE  UsageInv'
<1> DEFINE m == CanonicalModel(g, raw)
           b == FromParts(m, e)
           r == [id |-> s, from |-> "log", model |-> raw,
                 key |-> SourceKey(FromParts(raw, e)), used |-> used]
           n == RecordInto(g, b, <<s, "request">>)
<1>0. g \in Inners /\ seen \in SUBSET Records /\ UsageOK(g, seen)  BY TypeIs DEF UsageInv
<1>1. CanonOK(g)  BY <1>0 DEF UsageOK
<1>2. /\ m \in Models
      /\ NonEmptyModel(m)[1] = NonEmptyModel(raw)[1]
      /\ g.canon[NonEmptyModel(m)] # NonEmptyModel(m) =>
            NonEmptyModel(m) \in g.metric \/ NonEmptyModel(m) = <<Unknown, Plain>>
  BY <1>0, <1>1, CanonicalIs
<1> HIDE DEF m
<1>3. /\ b \in Buckets /\ b[1] = NonEmptyModel(m) /\ b[2] = NonEmptyEffort(e)
      /\ FromParts(raw, e) \in Buckets /\ FromParts(raw, e)[1] = NonEmptyModel(raw)
      /\ FromParts(raw, e)[2] = NonEmptyEffort(e)
  BY <1>2, PartsAre
<1>4. SourceKey(FromParts(raw, e)) = SourceKey(b) /\ SourceKey(b) \in Buckets
  BY <1>2, <1>3, KeySame, KeyIs
<1>5. /\ r \in Records /\ r.id = s /\ r.from = "log" /\ r.model = raw /\ r.key = SourceKey(b)
      /\ r.used = used
  BY <1>4 DEF Records
<1>6. Usage(r) = <<s, "usage">> /\ Request(r) = <<s, "request">>  BY <1>5 DEF Usage, Request
<1>7. /\ \A q \in seen : q.id # s
      /\ g' = IF used THEN RecordClaudeLogUsage(n, b, <<s, "usage">>) ELSE n
      /\ hits' = TRUE /\ seen' = seen \cup {r}
  BY DEF ApiRequestLog, Fresh, m
<1> HIDE DEF b, r
<1>8. g' \in Inners /\ UsageOK(g', seen \cup {r})
  <2>1. g' = LET o == RecordInto(g, b, Request(r))
             IN  IF r.used THEN RecordClaudeLogUsage(o, b, Usage(r)) ELSE o
    BY <1>5, <1>6, <1>7
  <2> HIDE DEF n
  <2>2. /\ g.canon[b[1]] # b[1] => b[1] \in g.metric \/ b[1] = <<Unknown, Plain>>
        /\ b[1][1] = NonEmptyModel(r.model)[1] /\ \A q \in seen : q.id # r.id
    BY <1>2, <1>3, <1>5, <1>7
  <2> QED  BY <1>0, <1>3, <1>5, <2>1, <2>2, LogStep
<1> HIDE DEF n
<1>9. TypeOK'
  <2>1. hits' \in BOOLEAN  BY <1>7
  <2>2. seen' \in SUBSET Records  BY <1>0, <1>5, <1>7
  <2>3. g' \in Inners  BY <1>8
  <2> QED  BY ONLY <2>1, <2>2, <2>3, TypeNext
<1>10. UsageOK(g, seen)'  BY ONLY <1>7, <1>8, UsageNext
<1> QED  BY <1>9, <1>10 DEF UsageInv

LEMMA MetricKeeps ==
    ASSUME UsageInv, NEW s \in Samples, NEW attr \in Models, NEW e \in Efforts \cup {Empty},
           NEW used \in BOOLEAN, MetricPoint(s, attr, e, used)
    PROVE  UsageInv'
<1> DEFINE m == NonEmptyModel(attr)
           b == FromParts(m, e)
           n == RegisterCanonical(g, m)
           r == [id |-> s, from |-> "metric", model |-> m, key |-> SourceKey(b), used |-> used]
<1>0. g \in Inners /\ seen \in SUBSET Records /\ UsageOK(g, seen)  BY TypeIs DEF UsageInv
<1>1. m \in Models /\ m # Nameless  BY NonEmptyIs
<1>2. NonEmptyModel(m) = m  BY <1>1 DEF NonEmptyModel
<1>3. /\ \A q \in seen : q.id # s
      /\ g' = IF used THEN RecordClaudeMetricUsage(n, b, <<s, "usage">>) ELSE n
      /\ hits' = (used /\ MetricWanted(n, b)) /\ seen' = seen \cup {r}
  BY DEF MetricPoint, Fresh
<1> HIDE DEF m
<1>4. b \in Buckets /\ b[1] = m /\ SourceKey(b) \in Buckets  BY <1>1, <1>2, PartsAre, KeyIs
<1>5. n \in Inners /\ UsageOK(n, seen) /\ m \in n.metric  BY <1>0, <1>1, RegisterKeeps
<1>6. /\ r \in Records /\ r.id = s /\ r.from = "metric" /\ r.model = m /\ r.key = SourceKey(b)
      /\ r.used = used
  BY <1>1, <1>4 DEF Records
<1>7. Usage(r) = <<s, "usage">>  BY <1>6 DEF Usage
<1> HIDE DEF b, r, n
<1>8. g' \in Inners /\ UsageOK(g', seen \cup {r})
  <2>1. g' = IF r.used THEN RecordClaudeMetricUsage(n, b, Usage(r)) ELSE n  BY <1>3, <1>6, <1>7
  <2>2. b[1] \in n.metric /\ r.model = b[1] /\ \A q \in seen : q.id # r.id  BY <1>3, <1>4, <1>5, <1>6
  <2> QED  BY <1>0, <1>4, <1>5, <1>6, <2>1, <2>2, MetricStep
<1>9. TypeOK'
  <2>1. hits' \in BOOLEAN  BY <1>3
  <2>2. seen' \in SUBSET Records  BY <1>0, <1>3, <1>6
  <2>3. g' \in Inners  BY <1>8
  <2> QED  BY ONLY <2>1, <2>2, <2>3, TypeNext
<1>10. UsageOK(g, seen)'  BY ONLY <1>3, <1>8, UsageNext
<1> QED  BY <1>9, <1>10 DEF UsageInv

\* The inductive invariant of the Claude totals holds in every behaviour.
THEOREM UsageInvariant == Spec => []UsageInv
<1>1. UsageInv /\ [Next]_vars => UsageInv'
  <2> SUFFICES ASSUME UsageInv, [Next]_vars  PROVE UsageInv'
    OBVIOUS
  <2>1. CASE Next  BY <2>1, LogKeeps, MetricKeeps DEF Next
  <2>2. CASE UNCHANGED vars
    BY <2>2 DEF vars, UsageInv, TypeOK, UsageOK, HistoryOK, TotalOK, BucketsOK, SourceOK, MeteredOK,
                CanonOK, BareOK, HasLog, HasMetric, Counting
  <2> QED  BY <2>1, <2>2
<1> QED  BY <1>1, StartUsage, PTL DEF Spec

\* For each source key exactly one source counts, whatever number of records and
\* data points arrive in whatever order: all logs once a log with usage has come,
\* and until then all metrics; the total is the sum of the buckets, nothing is in
\* two of them and none is listed empty.
THEOREM OneSourceTheorem == Spec => []OneSourceCounts
<1>1. UsageInv => OneSourceCounts
  <2> SUFFICES ASSUME UsageInv  PROVE OneSourceCounts
    OBVIOUS
  <2>1. TotalOK(g, seen) /\ BucketsOK(g)  BY DEF UsageInv, UsageOK
  <2> QED  BY <2>1 DEF OneSourceCounts, TotalOK, BucketsOK, Counting, HasLog, Usage, Request
<1> QED  BY <1>1, UsageInvariant, PTL

\* What metrics report for a model stays under its very name and what logs report
\* under its bare name, and a short name that was resolved is not listed beside
\* the full one, in whatever order the two spellings arrive.
THEOREM NamesTheorem == Spec => []NamesResolved
<1>1. UsageInv => NamesResolved
  <2> SUFFICES ASSUME UsageInv  PROVE NamesResolved
    OBVIOUS
  <2>0. /\ TotalOK(g, seen) /\ MeteredOK(g, seen) /\ CanonOK(g) /\ BareOK(g, seen) /\ HistoryOK(seen)
        /\ g \in Inners /\ seen \in SUBSET Records
    BY TypeIs DEF UsageInv, UsageOK
  <2>1. ASSUME NEW r \in seen, NEW b \in Buckets, NEW x, x \in g.bucket[b],
               x = Usage(r) \/ x = Request(r)
        PROVE  (r.from = "metric" => b[1] = r.model) /\ b[1][1] = NonEmptyModel(r.model)[1]
    <3>1. b[1][1] = NonEmptyModel(r.model)[1]  BY <2>0, <2>1 DEF BareOK
    <3>2. ASSUME r.from = "metric", x = Usage(r)  PROVE b[1] = r.model
      <4>1. b = Home(r)  BY <2>0, <2>1, <3>2 DEF MeteredOK
      <4> QED  BY <4>1 DEF Home
    <3>3. ASSUME r.from = "metric", x = Request(r)  PROVE FALSE
      <4>1. x \in g.total  BY <2>0, <2>1, EntriesKnown
      <4>2. PICK q \in seen : q.from = "log" /\ x = Request(q)
        BY <2>0, <3>3, <4>1, TotalGives, EntriesDiffer
      <4>3. q = r  BY <2>0, <3>3, <4>2, EntriesDiffer DEF HistoryOK
      <4> QED  BY <3>3, <4>2, <4>3
    <3> QED  BY <2>1, <3>1, <3>2, <3>3
  <2>2. \A r \in seen, b \in Buckets :
           g.bucket[b] \cap {<<r.id, "usage">>, <<r.id, "request">>} # {} =>
               /\ r.from = "metric" => b[1] = r.model
               /\ b[1][1] = NonEmptyModel(r.model)[1]
    <3> TAKE r \in seen, b \in Buckets
    <3> HAVE g.bucket[b] \cap {<<r.id, "usage">>, <<r.id, "request">>} # {}
    <3>1. PICK x \in g.bucket[b] : x = Usage(r) \/ x = Request(r)  BY DEF Usage, Request
    <3> QED  BY <2>1, <3>1
  <2>3. \A m \in Models \ {<<Unknown, Plain>>} :
           g.canon[m] # m /\ m \notin g.metric => \A b \in g.keys : b[1] # m
    BY <2>0 DEF CanonOK
  <2> QED  BY <2>2, <2>3 DEF NamesResolved
<1> QED  BY <1>1, UsageInvariant, PTL
=============================================================================
