------------------------------ MODULE Counters ------------------------------
(***************************************************************************)
(* The numbers behind the usage totals (src/src/aggregator.rs): how a      *)
(* value of a data point or an attribute becomes an amount, the saturating *)
(* arithmetic of ModelStats, and the operations of AgentStats, a total and *)
(* one row for each bucket under the text of its key. ClaudeUsage and      *)
(* CodexUsage decide which operation is called when; here they come in any *)
(* order that their callers can produce: a holder (a source key or a       *)
(* conversation) takes off or moves what it noted when it was recorded.    *)
(*                                                                         *)
(* Counters have Width bits in place of 64. A double is a whole number, so *)
(* the rounding of cost_usd is left out; 2^Width stands for 2^64, the      *)
(* double that u64::MAX is converted to. Names are sequences of            *)
(* characters.                                                             *)
(***************************************************************************)
EXTENDS Integers, Sequences, FiniteSets, SequencesExt

CONSTANTS Width,           \* the bits of a counter
          LargestDouble,   \* f64::MAX
          UsageBuckets,    \* the buckets: [provider, model, effort]
          Points,          \* what may be reported
          Holders,         \* who notes what was recorded
          MaxReports       \* bound on the reports of a behaviour

ASSUME CountersAssumption ==
    /\ Width \in Nat \ {0}
    /\ LargestDouble > 2^Width
    /\ MaxReports \in Nat

VARIABLES total,      \* AgentStats.total
          rows,       \* AgentStats.buckets: by key, the bucket and its stats
          noted,      \* what each holder noted, by bucket
          reports,    \* the number of reports
          exact,      \* history: what each bucket should show
          saturated   \* history: the exact total was beyond a counter

countersVars == <<total, rows, noted, reports, exact, saturated>>
-----------------------------------------------------------------------------
(***************************************************************************)
(* Values. A point has a kind ("int", "double", "string", "nonfinite" or   *)
(* "none"), a value, and the marks of a metric: no recorded value, delta.  *)
(***************************************************************************)
AsU64(n) == Max({n, 0})

\* finite_u64_from_f64
FiniteU64FromF64(d) == IF 0 <= d /\ d < 2^Width THEN d ELSE 0

NumberValueAsU64(p) ==
    IF p.missing THEN 0
    ELSE CASE p.kind = "int" -> AsU64(p.value)
           [] p.kind = "double" -> FiniteU64FromF64(p.value)
           [] OTHER -> 0

NumberValueAsF64(p) ==
    IF ~ p.missing /\ p.kind \in {"int", "double"} THEN Max({p.value, 0}) ELSE 0

\* The sum of a histogram is a double.
HistogramSumAsU64(p) ==
    IF ~ p.missing /\ p.kind = "double" THEN FiniteU64FromF64(p.value) ELSE 0

\* int_attr, 0 for None; a string is parsed.
IntAttr(p) ==
    IF p.kind \in {"int", "double", "string"} /\ p.value >= -(2^(Width - 1)) /\ p.value < 2^(Width - 1)
    THEN p.value ELSE 0

U64Attr(p) == AsU64(IntAttr(p))

F64Attr(p) == IF p.kind \in {"int", "double", "string"} THEN p.value ELSE 0

IsDeltaTemporality(p) == p.delta
-----------------------------------------------------------------------------
(***************************************************************************)
(* ModelStats: a request count (duration_ms is like it), tokens (for the   *)
(* five counters of tokens) and a cost.                                    *)
(***************************************************************************)
Fields == {"requests", "tokens", "cost"}
NoStats == [f \in Fields |-> 0]
Limit(f) == IF f = "cost" THEN LargestDouble ELSE 2^Width - 1

AddStats(s, t) == [f \in Fields |-> Min({s[f] + t[f], Limit(f)})]
SubtractStats(s, t) == [f \in Fields |-> Max({s[f] - t[f], 0})]
HasUsage(s) == s.tokens # 0 \/ s.cost # 0
HasAnyValue(s) == HasUsage(s) \/ s.requests # 0

\* What a report adds: the log of a Claude request or of a Codex response, and
\* the metrics of the two agents.
StatsOf(report, p) ==
    CASE report = "api_request" -> [requests |-> 1, tokens |-> U64Attr(p), cost |-> AsU64(F64Attr(p))]
      [] report = "sse" -> [NoStats EXCEPT !.tokens = U64Attr(p)]
      [] ~ IsDeltaTemporality(p) -> NoStats
      [] report = "token" -> [NoStats EXCEPT !.tokens = NumberValueAsU64(p)]
      [] report = "cost" -> [NoStats EXCEPT !.cost = NumberValueAsF64(p)]
      [] report = "codex_token" -> [NoStats EXCEPT !.tokens = HistogramSumAsU64(p)]
      [] report = "codex_turn" -> [NoStats EXCEPT !.requests = NumberValueAsU64(p)]

ReportKinds == {"api_request", "sse", "token", "cost", "codex_token", "codex_turn"}

\* Whose usage may be taken off or moved later.
NotedKinds == {"sse", "token", "cost"}
-----------------------------------------------------------------------------
(***************************************************************************)
(* Bucket keys.                                                            *)
(***************************************************************************)
\* A percent sign in a name is left alone.
EscapeBucketComponent_SlashOnly(name) ==
    FoldLeft(LAMBDA out, c : out \o IF c = "/" THEN <<"%", "2", "F">> ELSE <<c>>, <<>>, name)

EscapeBucketComponent(name) ==
    FoldLeft(LAMBDA out, c : out \o CASE c = "%" -> <<"%", "2", "5">>
                                      [] c = "/" -> <<"%", "2", "F">>
                                      [] OTHER -> <<c>>,
             <<>>, name)

\* The prefix of the keys of one provider and model, and the key of a bucket.
KeyPrefix(provider, model) ==
    EscapeBucketComponent(provider) \o <<"/">> \o EscapeBucketComponent(model) \o <<"/">>
Key(b) == KeyPrefix(b.provider, b.model) \o EscapeBucketComponent(b.effort)
-----------------------------------------------------------------------------
(***************************************************************************)
(* AgentStats.                                                             *)
(***************************************************************************)
CountersInit ==
    /\ total = NoStats
    /\ rows = << >>
    /\ noted = [h \in Holders |-> << >>]
    /\ reports = 0
    /\ exact = [b \in UsageBuckets |-> NoStats]
    /\ saturated = FALSE

\* entry(key).or_insert_with(from_bucket).stats.add(s)
AddRow(rs, b, s) ==
    LET row == IF Key(b) \in DOMAIN rs THEN rs[Key(b)] ELSE [bucket |-> b, stats |-> NoStats]
    IN  (Key(b) :> [row EXCEPT !.stats = AddStats(@, s)]) @@ rs

\* A row that is left without any value goes.
SubtractRow(rs, b, s) ==
    LET k == Key(b)
        rest == SubtractStats(rs[k].stats, s)
    IN  IF k \notin DOMAIN rs THEN rs
        ELSE IF HasAnyValue(rest) THEN [rs EXCEPT ![k].stats = rest]
        ELSE [l \in DOMAIN rs \ {k} |-> rs[l]]

Note(h, b, s) ==
    LET old == IF b \in DOMAIN noted[h] THEN noted[h][b] ELSE NoStats
    IN  (b :> AddStats(old, s)) @@ noted[h]

Plus(s, t) == [f \in Fields |-> s[f] + t[f]]
Minus(s, t) == [f \in Fields |-> s[f] - t[f]]
ExactTotal(f) == MapThenSumSet(LAMBDA b : exact[b][f], UsageBuckets)

\* What the report says, as its reader would put it: an amount that its counter
\* can hold, and nothing otherwise.
Claim(report, p) ==
    LET signed == report \in {"api_request", "sse"}
        known == /\ p.kind \in (IF report = "codex_token" THEN {"double"}
                                ELSE {"int", "double"} \cup (IF signed THEN {"string"} ELSE {}))
                 /\ signed \/ (p.delta /\ ~ p.missing)
        Amount(top) == IF known /\ 0 < p.value /\ p.value <= top THEN p.value ELSE 0
        tokens == Amount(IF signed THEN 2^(Width - 1) - 1 ELSE 2^Width - 1)
    IN  [requests |-> IF report = "api_request" THEN 1 ELSE IF report = "codex_turn" THEN tokens ELSE 0,
         tokens |-> IF report \in {"cost", "codex_turn"} THEN 0 ELSE tokens,
         cost |-> IF report \in {"api_request", "cost"} THEN Amount(LargestDouble) ELSE 0]

\* record_into for a report with something to count, and the note kept of it.
RecordInto(report, h, b, p) ==
    LET s == StatsOf(report, p)
    IN  /\ reports < MaxReports
        /\ reports' = reports + 1
        /\ IF HasAnyValue(s)
           THEN /\ total' = AddStats(total, s)
                /\ rows' = AddRow(rows, b, s)
                /\ noted' = IF report \in NotedKinds THEN [noted EXCEPT ![h] = Note(h, b, s)] ELSE noted
           ELSE UNCHANGED <<total, rows, noted>>
        /\ exact' = [exact EXCEPT ![b] = Plus(@, Claim(report, p))]
        /\ saturated' = (saturated \/ \E f \in Fields : ExactTotal(f)' > Limit(f))

Forget(h, b) == [noted EXCEPT ![h] = [c \in DOMAIN @ \ {b} |-> @[c]]]

\* subtract_from, with what the holder noted for the bucket.
SubtractFrom(h, b) ==
    /\ b \in DOMAIN noted[h]
    /\ total' = SubtractStats(total, noted[h][b])
    /\ rows' = SubtractRow(rows, b, noted[h][b])
    /\ noted' = Forget(h, b)
    /\ exact' = [exact EXCEPT ![b] = Minus(@, noted[h][b])]
    /\ UNCHANGED <<reports, saturated>>

\* move_codex_bucket_stats; the provider or the effort has become known.
MoveCodexBucketStats(h, b, c) ==
    /\ b \in DOMAIN noted[h]
    /\ c # b /\ c.model = b.model
    /\ rows' = AddRow(SubtractRow(rows, b, noted[h][b]), c, noted[h][b])
    /\ noted' = Forget(h, b)
    /\ exact' = [exact EXCEPT ![b] = Minus(@, noted[h][b]), ![c] = Plus(@, noted[h][b])]
    /\ UNCHANGED <<total, reports, saturated>>

\* merge_bare_into_full: the rows whose key begins like those of the bare name.
\* No metric has used that name, so nobody noted anything for it.
MergeBareIntoFull(provider, bare, full) ==
    LET keys == {k \in DOMAIN rows : IsPrefix(KeyPrefix(provider, bare), k)}
        To(b) == [b EXCEPT !.model = full]
        Of(m) == {b \in UsageBuckets : b.provider = provider /\ b.model = m}
    IN  /\ keys # {}
        /\ \A h \in Holders : \A b \in Of(bare) : b \notin DOMAIN noted[h]
        /\ rows' = FoldFunctionOnSet(LAMBDA row, rs : AddRow(rs, To(row.bucket), row.stats),
                                     [k \in DOMAIN rows \ keys |-> rows[k]], rows, keys)
        /\ exact' = [b \in UsageBuckets |->
                        IF b \in Of(bare) THEN NoStats
                        ELSE IF b \in Of(full) THEN Plus(exact[b], exact[[b EXCEPT !.model = bare]])
                        ELSE exact[b]]
        /\ UNCHANGED <<total, noted, reports, saturated>>

\* A Claude name with the suffix that the logs drop.
Suffix == <<"[">>

CountersNext ==
    \/ \E report \in ReportKinds, h \in Holders, b \in UsageBuckets, p \in Points :
          RecordInto(report, h, b, p)
    \/ \E h \in Holders, b \in UsageBuckets : SubtractFrom(h, b)
    \/ \E h \in Holders, b, c \in UsageBuckets : MoveCodexBucketStats(h, b, c)
    \/ \E b \in UsageBuckets :
          /\ \E c \in UsageBuckets : c.provider = b.provider /\ c.model = b.model \o Suffix
          /\ MergeBareIntoFull(b.provider, b.model, b.model \o Suffix)
-----------------------------------------------------------------------------
\* What the snapshot shows for a bucket.
Shown(b) == IF Key(b) \in DOMAIN rows THEN rows[Key(b)].stats ELSE NoStats

\* GET /stats adds up. As long as no exact total has gone beyond its counter,
\* every bucket shows exactly what was reported for it and not taken off, an
\* amount that does not fit counts as nothing, no row is empty and the total is
\* the sum of the rows, whatever characters names have. Once a counter has
\* saturated, the total may fall behind the rows but is never more than they are.
CountersAgree ==
    LET Sum(f) == MapThenSumSet(LAMBDA k : rows[k].stats[f], DOMAIN rows)
    IN  /\ \A f \in Fields : total[f] <= Sum(f)
        /\ ~ saturated => /\ \A f \in Fields : total[f] = Sum(f)
                          /\ \A b \in UsageBuckets : Shown(b) = exact[b]
                          /\ \A k \in DOMAIN rows : HasAnyValue(rows[k].stats)
=============================================================================
