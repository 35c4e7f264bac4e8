---------------------------- MODULE ClaudeUsage ----------------------------
(***************************************************************************)
(* The Claude Code half of Aggregator (src/src/aggregator.rs): API request *)
(* logs and token/cost metrics report the same usage under two spellings   *)
(* of the model name, and one of the two sources must win.                 *)
(*                                                                         *)
(* g is the part of AggregatorInner these handlers touch; every handler    *)
(* runs under the write lock, so one record or data point is one step. A   *)
(* counter is modelled by the set of the samples added up in it: add is    *)
(* union, saturating subtract is set difference. The two agree as long as  *)
(* whatever is subtracted from a bucket is in it, which TotalIsSum checks. *)
(* A model name is <<bare, variant>>: claude-opus-4-7[1m] has the variant  *)
(* [1m], a name without a bracket the variant Plain.                       *)
(***************************************************************************)
EXTENDS Naturals, FiniteSets

CONSTANTS Samples,    \* the log records and data points that may arrive
          Bares,      \* what stands in front of the bracket of a model name
          Variants,   \* the suffixes from the bracket on
          Efforts,    \* the values of the effort attribute
          Plain,      \* no suffix
          Empty,      \* the empty string, an attribute that is missing
          Unknown     \* the name given to a missing model or effort

ASSUME NamesAssumption ==
    /\ Plain \notin Variants
    /\ Empty \notin Bares \cup Efforts
    /\ Unknown \in Bares

VARIABLES g,      \* AggregatorInner
          hits,   \* did the last ingest_* return more than 0
          seen    \* history: what arrived, one record for each sample

vars == <<g, hits, seen>>

\* Every name an attribute may hold, the missing one and "[1m]" included.
Models == (Bares \cup {Empty}) \X (Variants \cup {Plain})
Nameless == <<Empty, Plain>>

\* non_empty
NonEmptyModel(m) == IF m = Nameless THEN <<Unknown, Plain>> ELSE m
NonEmptyEffort(e) == IF e = Empty THEN Unknown ELSE e

\* Bucket, without the provider, which is always anthropic.
Buckets == (Models \ {Nameless}) \X (Efforts \cup {Unknown})
FromParts(m, e) == <<NonEmptyModel(m), NonEmptyEffort(e)>>

\* claude_usage_source_key
SourceKey(b) ==
    <<<<IF b[1][1] = Empty THEN Unknown ELSE b[1][1], Plain>>, b[2]>>

\* What one sample adds: a request with its duration, or tokens and cost.
Entries == Samples \X {"request", "usage"}
-----------------------------------------------------------------------------
\* A bucket exists in the map once its key does; total is kept on the side.
Init ==
    /\ g = [total   |-> {},
            bucket  |-> [b \in Buckets |-> {}],
            keys    |-> {},
            canon   |-> [m \in Models |-> m],
            metric  |-> {},
            source  |-> [b \in Buckets |-> "none"],
            metered |-> {}]
    /\ hits = FALSE
    /\ seen = {}

\* record_into
RecordInto(i, b, e) ==
    [i EXCEPT !.total = @ \cup {e},
              !.bucket[b] = @ \cup {e},
              !.keys = @ \cup {b}]

\* subtract_from for each bucket of per_bucket: pairs of a bucket and an entry.
SubtractFrom(i, pairs) ==
    LET rest == [b \in Buckets |-> i.bucket[b] \ {p[2] : p \in {q \in pairs : q[1] = b}}]
    IN  [i EXCEPT !.total = @ \ {p[2] : p \in pairs},
                  !.bucket = rest,
                  !.keys = @ \ {b \in {p[1] : p \in pairs} : rest[b] = {}}]

\* The metered pairs of one source key.
MeteredOf(i, k) == {p \in i.metered : SourceKey(p[1]) = k}

\* The metrics counted so far are left in.
RecordClaudeLogUsage_KeepsMetrics(i, b, e) ==
    [RecordInto(i, b, e) EXCEPT !.source[SourceKey(b)] = "logs"]

\* record_claude_log_usage, for a log that has usage: metrics counted for
\* the same key are taken back, from the buckets they were counted in.
RecordClaudeLogUsage(i, b, e) ==
    LET k == SourceKey(b)
        undone == IF i.source[k] = "metrics"
                  THEN [SubtractFrom(i, MeteredOf(i, k)) EXCEPT !.metered = @ \ MeteredOf(i, k)]
                  ELSE i
    IN  [RecordInto(undone, b, e) EXCEPT !.source[k] = "logs"]

\* record_claude_metric_usage, for a point that has usage: once a log has
\* been counted for the key the point is ignored.
MetricWanted(i, b) == i.source[SourceKey(b)] # "logs"

RecordClaudeMetricUsage(i, b, e) ==
    IF MetricWanted(i, b)
    THEN [RecordInto(i, b, e) EXCEPT !.source[SourceKey(b)] = "metrics",
                                     !.metered = @ \cup {<<b, e>>}]
    ELSE i

\* merge_bare_into_full: the bare name's buckets, one for each effort, are
\* added to the full name's. total does not change.
MergeBareIntoFull(i, bare, full) ==
    LET moved == {b \in i.keys : b[1] = bare}
        to(b) == <<full, b[2]>>
    IN  [i EXCEPT !.bucket = [b \in Buckets |->
                                 IF b \in moved THEN {}
                                 ELSE i.bucket[b] \cup UNION {i.bucket[c] : c \in {d \in moved : to(d) = b}}],
                  !.keys = (@ \ moved) \cup {to(b) : b \in moved}]

\* That metrics use the bare name too is not looked at.
RegisterCanonical_FoldsVariants(i, full) ==
    LET bare  == <<full[1], Plain>>
        known == [i EXCEPT !.metric = @ \cup {full}]
    IN  IF bare = full \/ full[1] = Empty \/ i.canon[bare] = full
        THEN known
        ELSE MergeBareIntoFull([known EXCEPT !.canon[bare] = full], bare, full)

\* register_canonical_claude_model. canon is the identity where the map has
\* no entry, which is also what an entry for a name without suffix says.
RegisterCanonical(i, full) ==
    LET bare  == <<full[1], Plain>>
        known == [i EXCEPT !.metric = @ \cup {full}]
    IN  IF \/ bare = full
           \/ full[1] = Empty
           \/ bare \in known.metric
           \/ i.canon[bare] = full
        THEN known
        ELSE MergeBareIntoFull([known EXCEPT !.canon[bare] = full], bare, full)

\* canonical_claude_model
CanonicalModel(i, raw) == IF raw \in i.metric THEN raw ELSE i.canon[raw]
-----------------------------------------------------------------------------
Fresh(s) == \A r \in seen : r.id # s

\* ingest_logs on a claude_code.api_request: the request counts always, the
\* usage if the record has any.
ApiRequestLog(s, raw, effort, used) ==
    /\ Fresh(s)
    /\ LET b == FromParts(CanonicalModel(g, raw), effort)
           i == RecordInto(g, b, <<s, "request">>)
       IN  g' = IF used THEN RecordClaudeLogUsage(i, b, <<s, "usage">>) ELSE i
    /\ hits' = TRUE
    /\ seen' = seen \cup {[id |-> s, from |-> "log", model |-> raw,
                           key |-> SourceKey(FromParts(raw, effort)), used |-> used]}

\* ingest_claude_token and ingest_claude_cost on one data point of a DELTA
\* sum. The name is registered even if the point has no usage.
MetricPoint(s, attr, effort, used) ==
    /\ Fresh(s)
    /\ LET m == NonEmptyModel(attr)
           i == RegisterCanonical(g, m)
           b == FromParts(m, effort)
       IN  /\ g' = IF used THEN RecordClaudeMetricUsage(i, b, <<s, "usage">>) ELSE i
           /\ hits' = (used /\ MetricWanted(i, b))
           /\ seen' = seen \cup {[id |-> s, from |-> "metric", model |-> m,
                                  key |-> SourceKey(b), used |-> used]}

Next ==
    \E s \in Samples, m \in Models, e \in Efforts \cup {Empty}, used \in BOOLEAN :
        ApiRequestLog(s, m, e, used) \/ MetricPoint(s, m, e, used)

Spec == Init /\ [][Next]_vars
-----------------------------------------------------------------------------
TypeOK ==
    /\ g \in [total   : SUBSET Entries,
              bucket  : [Buckets -> SUBSET Entries],
              keys    : SUBSET Buckets,
              canon   : [Models -> Models],
              metric  : SUBSET (Models \ {Nameless}),
              source  : [Buckets -> {"none", "logs", "metrics"}],
              metered : SUBSET (Buckets \X Entries)]
    /\ hits \in BOOLEAN
    /\ seen \in SUBSET [id : Samples, from : {"log", "metric"}, model : Models,
                        key : Buckets, used : BOOLEAN]

\* /stats adds up, and nothing is counted twice or lost: for each source key
\* exactly the usage of one source is in the total - that of every log once a
\* log with usage has come, and until then that of every metric - and every
\* request is. Metrics counted first are taken back when a log arrives. The total
\* is the sum of the buckets, no sample sits in two of them, and only buckets
\* that hold something are listed, which cancelling metrics in one place and
\* merging names in another must not upset (subtract_from, merge_bare_into_full).
OneSourceCounts ==
    LET LogSeen(k) == \E r \in seen : r.from = "log" /\ r.key = k /\ r.used
        Counts(r)  == r.used /\ (r.from = "log" \/ ~ LogSeen(r.key))
    IN  /\ g.total = {<<r.id, "usage">> : r \in {q \in seen : Counts(q)}}
                     \cup {<<r.id, "request">> : r \in {q \in seen : q.from = "log"}}
        /\ g.total = UNION {g.bucket[b] : b \in Buckets}
        /\ \A b, c \in Buckets : b # c => g.bucket[b] \cap g.bucket[c] = {}
        /\ g.keys = {b \in Buckets : g.bucket[b] # {}}

\* Names are resolved neither too far nor too little, whatever order they arrive
\* in. Variants are priced differently: what metrics report for a model stays in
\* a bucket of that very name, and what logs report never leaves the names that
\* share its bare name. And a name that logs have cut short is not listed beside
\* the full name it was resolved to, unless metrics use the short name themselves.
\* (A log without a model is put under Unknown, whatever Unknown is resolved to.)
NamesResolved ==
    /\ \A r \in seen, b \in Buckets :
          g.bucket[b] \cap {<<r.id, "usage">>, <<r.id, "request">>} # {} =>
              /\ r.from = "metric" => b[1] = r.model
              /\ b[1][1] = NonEmptyModel(r.model)[1]
    /\ \A m \in Models \ {<<Unknown, Plain>>} :
          g.canon[m] # m /\ m \notin g.metric => \A b \in g.keys : b[1] # m

\* --summary "appends the same totals ... whenever a batch changes them"
\* (README.md:167): a step that changes the per-model totals reports a hit.
SummaryOnChange == [][g.bucket' # g.bucket => hits']_vars
=============================================================================
