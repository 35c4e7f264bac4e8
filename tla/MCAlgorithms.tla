---------------------------- MODULE MCAlgorithms ----------------------------
(***************************************************************************)
(* One instance for the five algorithms that share no state: a behaviour   *)
(* runs one of them, chosen at the start, and the others do nothing.       *)
(***************************************************************************)
EXTENDS TailScan, WriteHealth, Counters, Format, ProtoJson

VARIABLE part

allVars == <<part, scanVars, healthVars, countersVars, formatVars, protoJsonVars>>
-----------------------------------------------------------------------------
\* Names that a key without escapes would confuse, and a suffixed model.
Bucket(p, m, e) == [provider |-> p, model |-> m, effort |-> e]
MCBuckets ==
    {Bucket(<<"p">>, <<"a">>, <<"b", "/", "c">>),
     Bucket(<<"p">>, <<"a", "/", "b">>, <<"c">>),
     Bucket(<<"p">>, <<"a", "%", "2", "F", "b">>, <<"c">>),
     Bucket(<<"p">>, <<"a", "[">>, <<"b", "/", "c">>),
     Bucket(<<"q">>, <<"a">>, <<"b", "/", "c">>)}

\* On both sides of 0, of the signed and of the unsigned bound.
Point(k, v) == [kind |-> k, value |-> v, missing |-> FALSE, delta |-> TRUE]
MCPoints ==
    {Point("int", -1), Point("int", 3), Point("string", 4),
     Point("double", 4), Point("double", 7), Point("double", 8),
     Point("nonfinite", 0), Point("none", 0),
     [Point("int", 2) EXCEPT !.missing = TRUE], [Point("int", 2) EXCEPT !.delta = FALSE]}
-----------------------------------------------------------------------------
\* Every kind of parent around every leaf, two levels deep.
Leaf == {<<"f64", d>> : d \in NotFinite \cup {"1"}} \cup {<<"scalar">>, <<"unit">>}
Nested == Leaf \cup {<<k, <<v>>>> : k \in Compound, v \in Leaf}
MCJsonValues ==
    Nested \cup {<<k, <<v>>>> : k \in Single, v \in Nested}
           \cup {<<k, <<v, <<"scalar">>>>>> : k \in Compound \ Single, v \in Nested}
-----------------------------------------------------------------------------
\* Texts of one character of every kind, and of two; values of every kind.
Chars == {"x", "space", "quote", "eq", "backslash", "nl", "cr", "tab", "control"}
Texts == {<<>>} \cup {<<c>> : c \in Chars} \cup {<<"x", c>> : c \in Chars}
Str(s) == <<"string", s>>
KV(k, v) == <<"kvlist", << <<k, v>> >> >>
Deep == KV(<<"x">>, KV(<<"x">>, KV(<<"x">>, KV(<<"x">>, KV(<<"x">>, KV(<<"x">>, Str(<<"quote">>)))))))
Values ==
    {Str(s) : s \in Texts}
    \cup {<<"bytes", 2>>, <<"number">>, <<"none">>, <<"array", <<>> >>, <<"kvlist", <<>> >>, Deep}
    \cup {<<"array", <<Str(<<c>>), <<"none">> >> >> : c \in Chars}
    \cup {KV(<<c>>, Str(<<d>>)) : c, d \in Chars}
Attributes == {<<>>} \cup {<< <<s, Str(<<"x">>)>> >> : s \in Texts} \cup {<< <<(<<"x">>), v>>, <<(<<"nl">>), v>> >> : v \in Values}
Services == {<<>>} \cup Values
Durations == {0, 999, 1000, 999994, 999995, 999999, 1000000, 999994999, 999995000, 999999999, 1000000000}

Group(service, scope, item) == <<[service |-> service, scope |-> scope, items |-> <<item, item>>]>>
Record(kind, groups) == [kind |-> kind, groups |-> groups]
BaseLog == [time |-> 0, severity_number |-> 9, severity_text |-> <<>>, body |-> Str(<<"x">>), attributes |-> <<>>]
BaseSpan == [name |-> <<"x">>, start |-> 1, end |-> 1, status |-> "ok", id |-> 2, attributes |-> <<>>, events |-> <<>>]
BaseMetric == [name |-> <<"x">>, unit |-> <<>>, description |-> <<>>, data |-> [kind |-> "sum", points |-> <<>>]]
MCRecords ==
    {Record("logs", Group(s, <<"x">>, BaseLog)) : s \in Services}
    \cup {Record("logs", Group(<<>>, t, [BaseLog EXCEPT !.severity_text = t])) : t \in Texts}
    \cup {Record("logs", Group(<<>>, <<>>, [BaseLog EXCEPT !.severity_number = n, !.time = n])) : n \in 0..25}
    \cup {Record("logs", Group(<<>>, <<>>, [BaseLog EXCEPT !.body = v])) : v \in Values}
    \cup {Record("logs", Group(<<>>, <<>>, [BaseLog EXCEPT !.attributes = a])) : a \in Attributes}
    \cup {Record("traces", Group(<<>>, t, [BaseSpan EXCEPT !.name = t, !.events = <<[name |-> t, attributes |-> <<>>]>>])) : t \in Texts}
    \cup {Record("traces", Group(<<>>, <<>>, [BaseSpan EXCEPT !.attributes = a, !.events = <<[name |-> <<>>, attributes |-> a]>>])) : a \in Attributes}
    \cup {Record("traces", Group(<<>>, <<>>, [BaseSpan EXCEPT !.start = 0, !.end = d, !.id = 0])) : d \in Durations}
    \cup {Record("traces", Group(<<>>, <<>>, [BaseSpan EXCEPT !.start = 5]))}
    \cup {Record("metrics", Group(<<>>, t, [BaseMetric EXCEPT !.name = t, !.unit = t, !.description = t])) : t \in Texts}
    \cup {Record("metrics", Group(<<>>, <<>>, [BaseMetric EXCEPT !.data = [kind |-> k, points |-> <<[attributes |-> a], [attributes |-> a]>>]])) :
             a \in Attributes, k \in {"sum", "gauge", "hist"}}
    \cup {Record("metrics", Group(<<>>, <<>>, [BaseMetric EXCEPT !.data.kind = k])) : k \in {"exp_hist", "summary", "empty"}}
    \cup {Record("summary", Group(<<>>, <<>>, [name |-> t, duration |-> 0, buckets |-> <<Bucket(t, t, t)>>])) : t \in Texts}
    \cup {Record("summary", Group(<<>>, <<>>, [name |-> <<"x">>, duration |-> d, buckets |-> <<>>])) : d \in Durations}
-----------------------------------------------------------------------------
TailIdle == originalLen = 0 /\ newlines = {} /\ end = 0 /\ validLen = 0 /\ len = 0 /\ phase = "done"
HealthIdle ==
    /\ target = "jsonl" /\ now = 0 /\ failing = {} /\ pipe = "open"
    /\ report = [kind |-> "none", failures |-> 0] /\ reportAt = 0 /\ lastFail = 0 /\ lastOk = 0 /\ failures = 0
FormatIdle == record = Record("logs", <<>>) /\ color = FALSE /\ shown = <<>>
JsonIdle == value = <<"unit">> /\ json = <<>>

MCInit ==
    \/ part = "tail" /\ ScanInit /\ HealthIdle /\ CountersInit /\ FormatIdle /\ JsonIdle
    \/ part = "health" /\ TailIdle /\ HealthInit /\ CountersInit /\ FormatIdle /\ JsonIdle
    \/ part = "counters" /\ TailIdle /\ HealthIdle /\ CountersInit /\ FormatIdle /\ JsonIdle
    \/ part = "format" /\ TailIdle /\ HealthIdle /\ CountersInit /\ FormatInit /\ JsonIdle
    \/ part = "json" /\ TailIdle /\ HealthIdle /\ CountersInit /\ FormatIdle /\ ProtoJsonInit

MCNext ==
    \/ part = "tail" /\ ScanNext /\ UNCHANGED <<part, healthVars, countersVars, formatVars, protoJsonVars>>
    \/ part = "health" /\ HealthNext /\ UNCHANGED <<part, scanVars, countersVars, formatVars, protoJsonVars>>
    \/ part = "counters" /\ CountersNext /\ UNCHANGED <<part, scanVars, healthVars, formatVars, protoJsonVars>>
    \/ part = "format" /\ RenderText /\ UNCHANGED <<part, scanVars, healthVars, countersVars, protoJsonVars>>
    \/ part = "json" /\ WriteJson /\ UNCHANGED <<part, scanVars, healthVars, countersVars, formatVars>>

MCSpec == MCInit /\ [][MCNext]_allVars
=============================================================================
