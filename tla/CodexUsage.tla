----------------------------- MODULE CodexUsage -----------------------------
(***************************************************************************)
(* The Codex half of Aggregator (src/src/aggregator.rs). Token usage comes *)
(* twice, in SSE completion logs and in turn metrics, and the provider and *)
(* the effort it belongs to come on their own, possibly later: in          *)
(* conversation_starts events and on handle_responses spans.               *)
(*                                                                         *)
(* g is the part of AggregatorInner these handlers touch; every handler    *)
(* runs under the write lock, so one record, data point or span is one     *)
(* step. As in ClaudeUsage a counter is the set of the samples added up in *)
(* it: add is union and saturating subtract is set difference, which is    *)
(* exact as long as what is subtracted from a bucket is in it.             *)
(***************************************************************************)
EXTENDS Naturals, FiniteSets

CONSTANTS Samples,        \* the SSE logs and data points that may arrive
          Services,       \* service.name of the Codex processes
          Conversations,  \* conversation.id
          Providers,      \* the values of provider_name
          Models, Efforts,
          OpenAI,         \* the provider assumed until one is named
          Empty,          \* the empty string, an attribute that is missing
          Unknown,        \* the name given to a missing model or effort
          NoSession       \* no entry in a map of sessions

ASSUME NamesAssumption ==
    /\ Empty \notin Conversations \cup Providers \cup Models \cup Efforts \cup {OpenAI, Unknown}
    /\ NoSession \notin [cid : Conversations \cup {Empty}, provider : Providers \cup {OpenAI},
                         model : Models \cup {Empty}, effort : Efforts \cup {Empty},
                         confirmed : BOOLEAN]

VARIABLES g,      \* AggregatorInner
          hits,   \* did the last ingest_* return more than 0
          seen    \* history: what arrived, one record for each sample

vars == <<g, hits, seen>>

\* CodexSession. An empty provider never gets in: extract_session_from_attrs
\* puts OpenAI in its place and leaves confirmed FALSE.
Sessions == [cid : Conversations \cup {Empty}, provider : Providers \cup {OpenAI},
             model : Models \cup {Empty}, effort : Efforts \cup {Empty}, confirmed : BOOLEAN]

\* non_empty
NonEmpty(v) == IF v = Empty THEN Unknown ELSE v

\* Bucket and Bucket::from_parts
ModelNames == Models \cup {Unknown}
Buckets == (Providers \cup {OpenAI}) \X ModelNames \X (Efforts \cup {Unknown})
FromParts(p, m, e) == <<p, NonEmpty(m), NonEmpty(e)>>

\* codex_provider_from_session, codex_effort_from_session
ProviderOf(s) == IF s = NoSession THEN OpenAI ELSE s.provider
EffortOf(s) == IF s = NoSession THEN Empty ELSE s.effort
ModelOf(s) == IF s = NoSession THEN Empty ELSE s.model

\* The first value that is not empty.
FirstOf(a, b) == IF a # Empty THEN a ELSE b
-----------------------------------------------------------------------------
Init ==
    /\ g = [total    |-> {},
            bucket   |-> [b \in Buckets |-> {}],
            keys     |-> {},
            sessions |-> [c \in Conversations |-> NoSession],
            last     |-> [v \in Services |-> NoSession],
            source   |-> [m \in ModelNames |-> "none"],
            pending  |-> {}]
    /\ hits = FALSE
    /\ seen = {}

\* record_into
RecordInto(i, b, e) ==
    [i EXCEPT !.total = @ \cup {e}, !.bucket[b] = @ \cup {e}, !.keys = @ \cup {b}]

\* move_codex_bucket_stats for each of moves, a set of [from, to, e]: what
\* leaves a bucket that is empty then takes its key along.
MoveBucketStats(i, moves) ==
    LET left == [b \in Buckets |->
                    i.bucket[b] \ {v.e : v \in {u \in moves : u.from = b}}]
    IN  [i EXCEPT !.bucket = [b \in Buckets |->
                                 left[b] \cup {v.e : v \in {u \in moves : u.to = b}}],
                  !.keys = (@ \ {b \in {v.from : v \in moves} : left[b] = {}})
                           \cup {v.to : v \in moves}]

\* The session's effort, known or not, replaces the one of the SSE log.
MergePending_SessionEffort(i, s) ==
    LET mine   == {p \in i.pending : p.cid = s.cid}
        to(b)  == FromParts(s.provider, b[2], s.effort)
        Settled(b) == s.confirmed /\ b[3] # Unknown
        kept   == {[p EXCEPT !.b = to(p.b)] : p \in {q \in mine : ~ Settled(to(q.b))}}
        moves  == {[from |-> p.b, to |-> to(p.b), e |-> p.e] : p \in {q \in mine : to(q.b) # q.b}}
    IN  [g     |-> [MoveBucketStats(i, moves) EXCEPT !.pending = (@ \ mine) \cup kept],
         moved |-> moves # {}]

\* merge_codex_pending_sse with a conversation id: the pending usage of this
\* conversation moves to the session's provider and, where the SSE log had
\* no effort, to its effort; it stays pending until both are known.
MergePending(i, s) ==
    LET mine   == {p \in i.pending : p.cid = s.cid}
        to(b)  == FromParts(s.provider, b[2], IF b[3] = Unknown THEN s.effort ELSE b[3])
        Settled(b) == s.confirmed /\ b[3] # Unknown
        kept   == {[p EXCEPT !.b = to(p.b)] : p \in {q \in mine : ~ Settled(to(q.b))}}
        moves  == {[from |-> p.b, to |-> to(p.b), e |-> p.e] : p \in {q \in mine : to(q.b) # q.b}}
    IN  [g     |-> [MoveBucketStats(i, moves) EXCEPT !.pending = (@ \ mine) \cup kept],
         moved |-> moves # {}]

\* merge_codex_pending_sse without an id: what is in the unknown-effort
\* bucket and is not pending for some conversation moves to the effort.
MergeLegacy(i, s) ==
    LET from    == FromParts(s.provider, s.model, Empty)
        to      == FromParts(s.provider, s.model, s.effort)
        movable == i.bucket[from] \ {p.e : p \in {q \in i.pending : q.b = from}}
        able    == s.model # Empty /\ s.effort \notin {Empty, Unknown} /\ movable # {}
    IN  [g     |-> IF able THEN MoveBucketStats(i, {[from |-> from, to |-> to, e |-> e] : e \in movable})
                   ELSE i,
         moved |-> able]

MergeCodexPendingSse(i, s) == IF s.cid # Empty THEN MergePending(i, s) ELSE MergeLegacy(i, s)

\* That a provider was confirmed is kept, but not which.
FillFrom_FlagOnly(s, prev) ==
    IF prev = NoSession THEN s
    ELSE [s EXCEPT !.model = FirstOf(@, prev.model),
                   !.effort = FirstOf(@, prev.effort),
                   !.confirmed = @ \/ prev.confirmed]

\* What a new session does not say is taken from the conversation's last one.
FillFrom(s, prev) ==
    IF prev = NoSession THEN s
    ELSE [s EXCEPT !.model = FirstOf(@, prev.model),
                   !.effort = FirstOf(@, prev.effort),
                   !.provider = IF ~ s.confirmed /\ prev.confirmed THEN prev.provider ELSE @,
                   !.confirmed = @ \/ prev.confirmed]

\* update_codex_session_with_last
UpdateSession(i, svc, s, updateLast) ==
    LET full == IF s.cid # Empty THEN FillFrom(s, i.sessions[s.cid]) ELSE s
        put  == [i EXCEPT !.sessions = IF s.cid # Empty THEN [@ EXCEPT ![s.cid] = full] ELSE @,
                          !.last = IF updateLast THEN [@ EXCEPT ![svc] = full] ELSE @]
    IN  MergeCodexPendingSse(put, full)
-----------------------------------------------------------------------------
Fresh(s) == \A r \in seen : r.id # s

Return(r) == g' = r.g /\ hits' = r.moved

\* A conversation_starts event, as a log or as an event of a span:
\* extract_session_from_attrs, update_codex_session.
ConversationStarts(svc, cid, provider, model, effort) ==
    /\ ~ (cid = Empty /\ model = Empty /\ effort = Empty)
    /\ Return(UpdateSession(g, svc,
                  [cid |-> cid, provider |-> FirstOf(provider, OpenAI), model |-> model,
                   effort |-> effort, confirmed |-> provider # Empty], TRUE))
    /\ UNCHANGED seen

\* With an id only the session of that conversation counts.
SseSession(svc, cid) == IF cid # Empty THEN g.sessions[cid] ELSE g.last[svc]

\* Only a missing session makes usage pending.
SsePending_NoSessionOnly(cid, session, b) == cid # Empty /\ session = NoSession

\* pending_conversation_id
SsePending(cid, session, b) ==
    /\ cid # Empty
    /\ session = NoSession \/ ~ session.confirmed \/ b[3] = Unknown

\* ingest_logs on a response.completed that has usage, with
\* extract_codex_sse_response_completed. Ignored once metrics are the source.
SseCompleted(s, svc, cid, model, effort) ==
    LET session == SseSession(svc, cid)
        b == FromParts(ProviderOf(session), FirstOf(model, ModelOf(session)),
                       FirstOf(effort, EffortOf(session)))
        put == RecordInto(g, b, s)
    IN  /\ Fresh(s)
        /\ g' = IF g.source[b[2]] = "metrics" THEN g
                ELSE [put EXCEPT !.source[b[2]] = "logs",
                                 !.pending = IF SsePending(cid, session, b)
                                             THEN @ \cup {[cid |-> cid, b |-> b, e |-> s]} ELSE @]
        /\ hits' = (g.source[b[2]] # "metrics")
        /\ seen' = seen \cup {[id |-> s, from |-> "logs", cid |-> cid, key |-> b[2]]}

\* The bucket a metric without conversation id is put into.
MetricBucket(svc, model) ==
    FromParts(ProviderOf(g.last[svc]), model, EffortOf(g.last[svc]))

\* The first source is not remembered by metrics.
TokenMetric_NoSource(s, svc, model) ==
    LET b == MetricBucket(svc, model)
    IN  /\ Fresh(s)
        /\ g' = IF g.source[b[2]] = "logs" THEN g ELSE RecordInto(g, b, s)
        /\ hits' = (g.source[b[2]] # "logs")
        /\ seen' = seen \cup {[id |-> s, from |-> "metrics", cid |-> Empty, key |-> b[2]]}

\* ingest_codex_token on a point with a value: ignored once logs are the source.
TokenMetric(s, svc, model) ==
    LET b == MetricBucket(svc, model)
    IN  /\ Fresh(s)
        /\ g' = IF g.source[b[2]] = "logs" THEN g
                ELSE [RecordInto(g, b, s) EXCEPT !.source[b[2]] = "metrics"]
        /\ hits' = (g.source[b[2]] # "logs")
        /\ seen' = seen \cup {[id |-> s, from |-> "metrics", cid |-> Empty, key |-> b[2]]}

\* ingest_codex_turn_count and ingest_codex_duration on a point with a value.
TurnMetric(s, svc, model) ==
    /\ Fresh(s)
    /\ g' = RecordInto(g, MetricBucket(svc, model), s)
    /\ hits' = TRUE
    /\ seen' = seen \cup {[id |-> s, from |-> "turn", cid |-> Empty, key |-> NonEmpty(model)]}

\* A handle_responses span with an id: update_codex_effort_from_request_attrs.
\* The service's last session follows only if it is of this conversation.
ResponsesSpan(svc, cid, model, effort) ==
    LET known == g.sessions[cid]
        s == IF known # NoSession THEN [known EXCEPT !.effort = effort]
             ELSE [cid |-> cid, provider |-> OpenAI, model |-> model,
                   effort |-> effort, confirmed |-> FALSE]
        last == g.last[svc]
    IN  /\ Return(UpdateSession(g, svc, s, last = NoSession \/ last.cid = cid))
        /\ UNCHANGED seen

\* Every last-session update counts as a change of the totals.
ResponsesSpanNoId_Counts(svc, effort) ==
    LET known == g.last[svc]
        last  == IF known # NoSession THEN [known EXCEPT !.effort = effort]
                 ELSE [cid |-> Empty, provider |-> OpenAI, model |-> Empty,
                       effort |-> effort, confirmed |-> FALSE]
    IN  /\ EffortOf(known) # effort
        /\ g' = [g EXCEPT !.last[svc] = last]
        /\ hits' = TRUE
        /\ UNCHANGED seen

\* One without an id: update_codex_last_effort. Only a last session that has
\* no id itself makes the unknown bucket move.
ResponsesSpanNoId(svc, effort) ==
    LET known == g.last[svc]
        last  == IF known # NoSession THEN [known EXCEPT !.effort = effort]
                 ELSE [cid |-> Empty, provider |-> OpenAI, model |-> Empty,
                       effort |-> effort, confirmed |-> FALSE]
        put   == [g EXCEPT !.last[svc] = last]
    IN  /\ EffortOf(known) # effort
        /\ Return(IF last.cid = Empty THEN MergeLegacy(put, last) ELSE [g |-> put, moved |-> FALSE])
        /\ UNCHANGED seen

\* The steps that are about conversation c.
About(c) ==
    \E v \in Services, m \in Models \cup {Empty}, e \in Efforts \cup {Empty} :
        \/ \E p \in Providers \cup {Empty} : ConversationStarts(v, c, p, m, e)
        \/ e # Empty /\ ResponsesSpan(v, c, m, e)

Next ==
    \/ \E c \in Conversations : About(c)
    \/ \E v \in Services, m \in Models \cup {Empty}, e \in Efforts \cup {Empty} :
          \/ \E p \in Providers \cup {Empty} : ConversationStarts(v, Empty, p, m, e)
          \/ e # Empty /\ ResponsesSpanNoId(v, e)
          \/ \E s \in Samples, c \in Conversations \cup {Empty} : SseCompleted(s, v, c, m, e)
    \/ \E s \in Samples, v \in Services, m \in Models \cup {Empty} :
          TokenMetric(s, v, m) \/ TurnMetric(s, v, m)

Spec == Init /\ [][Next]_vars
-----------------------------------------------------------------------------
TypeOK ==
    /\ g \in [total    : SUBSET Samples,
              bucket   : [Buckets -> SUBSET Samples],
              keys     : SUBSET Buckets,
              sessions : [Conversations -> Sessions \cup {NoSession}],
              last     : [Services -> Sessions \cup {NoSession}],
              source   : [ModelNames -> {"none", "logs", "metrics"}],
              pending  : SUBSET [cid : Conversations, b : Buckets, e : Samples]]
    /\ hits \in BOOLEAN
    /\ seen \in SUBSET [id : Samples, from : {"logs", "metrics", "turn"},
                        cid : Conversations \cup {Empty}, key : ModelNames]
    /\ \A c \in Conversations : g.sessions[c] # NoSession => g.sessions[c].cid = c

\* /stats adds up: the tokens of a model come from one source, the first one
\* seen, and all of that source's samples count; turns and durations count
\* always. The total is the sum of the buckets, no sample sits in two of them,
\* and only buckets that hold something are listed, whatever was moved between
\* buckets while its provider and effort became known.
FirstSourceCounts ==
    /\ g.total = {r.id : r \in {q \in seen : q.from = "turn" \/ q.from = g.source[q.key]}}
    /\ g.total = UNION {g.bucket[b] : b \in Buckets}
    /\ \A b, c \in Buckets : b # c => g.bucket[b] \cap g.bucket[c] = {}
    /\ g.keys = {b \in Buckets : g.bucket[b] # {}}

\* What a conversation has used stays pending exactly as long as its provider
\* is not confirmed or its effort is unknown, it is pending in the bucket it
\* is really in, and that bucket has the provider its session has by now.
PendingUntilKnown ==
    \A r \in seen, b \in Buckets :
        r.cid # Empty /\ r.id \in g.bucket[b] =>
            LET s == g.sessions[r.cid]
                waiting == {p \in g.pending : p.e = r.id}
            IN  /\ waiting = IF s = NoSession \/ ~ s.confirmed \/ b[3] = Unknown
                             THEN {[cid |-> r.cid, b |-> b, e |-> r.id]} ELSE {}
                /\ waiting # {} => b[1] = ProviderOf(s)

\* A session or a span of one conversation, or one of no conversation at all,
\* moves no usage of another one (docs/usage-stats.md, Codex). Usage settles where
\* the session says, under the effort the SSE log brought or, if it brought none,
\* the session's; its model never changes.
SettlesUnderSession ==
    [][/\ \A r \in seen, b \in Buckets :
             r.cid # Empty /\ r.id \in g.bucket[b] =>
                 r.id \in g.bucket'[b] \/ About(r.cid)
       /\ \A p \in g.pending : \A b \in Buckets :
             p.e \in g.bucket'[b] =>
                 /\ b[2] = p.b[2]
                 /\ p.b[3] # Unknown => b[3] = p.b[3]
                 /\ b # p.b => /\ b[1] = g'.sessions[p.cid].provider
                               /\ b[3] \in {p.b[3], g'.sessions[p.cid].effort}]_vars

\* The steps about conversation c that name no provider.
NamesNoProvider(c) ==
    \E v \in Services, m \in Models \cup {Empty}, e \in Efforts \cup {Empty} :
        ConversationStarts(v, c, Empty, m, e) \/ (e # Empty /\ ResponsesSpan(v, c, m, e))

\* A model and an effort once known are not lost to a later record that does not
\* bring them. A provider once confirmed stays so, and is replaced only by a record
\* of the same conversation that names another one.
KnownStaysKnown ==
    [][\A c \in Conversations : g.sessions[c] # NoSession =>
          LET s == g.sessions[c]
              t == g'.sessions[c]
          IN  /\ s.confirmed => t.confirmed
              /\ s.confirmed /\ t.provider # s.provider => About(c) /\ ~ NamesNoProvider(c)
              /\ s.model # Empty => t.model # Empty
              /\ s.effort # Empty => t.effort # Empty]_vars

\* --summary follows a batch exactly when it changed the totals or how they
\* break down: re-recording an effort is no change, moving pending usage is.
SummaryOnChange == [][(g.bucket' # g.bucket) = hits']_vars
=============================================================================
