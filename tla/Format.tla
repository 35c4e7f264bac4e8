------------------------------- MODULE Format -------------------------------
(***************************************************************************)
(* The human-readable text of src/src/format.rs: records and summaries as  *)
(* lines, with every text that comes from telemetry escaped.               *)
(*                                                                         *)
(* A text is a sequence of characters: "x" for any that needs nothing, and *)
(* space, quote, eq, backslash, nl, cr, tab, control (the other C0 and C1  *)
(* characters, DEL and the bidirectional marks) for those the code tells   *)
(* apart. A fixed part of a line is one item of the text, and so is a      *)
(* number, however many digits it has: none of them needs an escape. "sgr" *)
(* is a color code of the painter. An AnyValue is <<"string", text>>,      *)
(* <<"bytes", n>>, <<"array", values>>, <<"kvlist", attributes>>,          *)
(* <<"number">> (also booleans) or <<"none">> (also an index into a string *)
(* table); an attribute is <<key, value>>, a resource <<>> or the value of *)
(* its service.name.                                                       *)
(***************************************************************************)
EXTENDS Integers, Sequences, SequencesExt

CONSTANTS Records   \* what is rendered

VARIABLES record, color, shown

formatVars == <<record, color, shown>>
-----------------------------------------------------------------------------
\* Only what breaks the line, not escape sequences and bidirectional marks.
NeedsEscape_LineBreaks == {"nl", "cr", "tab"}

\* needs_escape
NeedsEscape == {"nl", "cr", "tab", "control"}

EscapeChar(c) ==
    CASE c \in {"backslash", "quote"} -> <<"backslash", c>>
      [] c \in {"nl", "cr", "tab"} -> <<"backslash", "x">>
      [] c = "control" -> <<"backslash", "x", "x", "x", "x", "x", "x", "x">>
      [] OTHER -> <<c>>

QuoteForPretty(s) ==
    IF s # <<>> /\ \A i \in DOMAIN s : s[i] \notin NeedsEscape \cup {"space", "quote", "eq"} THEN s
    ELSE <<"quote">> \o FlattenSeq([i \in DOMAIN s |-> EscapeChar(s[i])]) \o <<"quote">>

Join(parts) ==
    FlattenSeq([i \in DOMAIN parts |-> IF i = 1 THEN parts[i] ELSE <<", ">> \o parts[i]])

RECURSIVE PrettyAnyValue(_)

\* format_attrs
FormatAttrs(attrs) ==
    <<"{">> \o Join([i \in DOMAIN attrs |->
                        QuoteForPretty(attrs[i][1]) \o <<"eq">> \o PrettyAnyValue(attrs[i][2])])
            \o <<"}">>

\* Lists of attributes are quoted again.
PrettyKvlist_Quoted(attrs) == QuoteForPretty(FormatAttrs(attrs))

PrettyKvlist(attrs) == FormatAttrs(attrs)

Hex(n) == [i \in 1..(2 * n) |-> "x"]

PrettyAnyValue(v) ==
    CASE v[1] = "string" -> QuoteForPretty(v[2])
      [] v[1] = "array" -> <<"[">> \o Join([i \in DOMAIN v[2] |-> PrettyAnyValue(v[2][i])]) \o <<"]">>
      [] v[1] = "kvlist" -> PrettyKvlist(v[2])
      [] v[1] = "bytes" -> <<"0x">> \o Hex(v[2])
      [] v[1] = "number" -> <<"number">>
      [] v[1] = "none" -> QuoteForPretty(<<>>)

\* any_value_to_string: strings as they are.
RECURSIVE AnyValueToString(_)
AnyValueToString(v) ==
    CASE v[1] = "string" -> v[2]
      [] v[1] = "array" -> <<"[">> \o Join([i \in DOMAIN v[2] |-> AnyValueToString(v[2][i])]) \o <<"]">>
      [] v[1] = "kvlist" -> FormatAttrs(v[2])
      [] v[1] = "bytes" -> <<"0x">> \o Hex(v[2])
      [] v[1] = "number" -> <<"number">>
      [] v[1] = "none" -> <<>>

ServiceName(resource) == IF resource = <<>> THEN <<"unknown">> ELSE AnyValueToString(resource)
-----------------------------------------------------------------------------
Paint(s) == IF color THEN <<"sgr">> \o s \o <<"sgr">> ELSE s

FormatUnixNanos(nanos) == IF nanos = 0 THEN <<"-">> ELSE <<"time">>

HexId(n) == IF n = 0 THEN <<"-">> ELSE Hex(n)

\* format_duration_ns. The bounds are those at which two decimals would carry
\* to 1000.
FormatDurationNs(ns) ==
    IF ns < 1000 THEN <<"number", "ns">>
    ELSE IF ns < 999995 THEN <<"number", "us">>
    ELSE IF ns < 999995000 THEN <<"number", "ms">>
    ELSE <<"number", "s">>

SaturatingSub(a, b) == IF a > b THEN a - b ELSE 0

Labels == {"TRACE", "DEBUG", "INFO", "WARN", "ERROR", "FATAL"}

\* severity_label: four numbers for each label, 1 to 24.
SeverityLabel(number, text) ==
    IF text # <<>> THEN text
    ELSE IF number \notin 1..24 THEN <<"UNSPECIFIED">>
    ELSE << <<"TRACE", "DEBUG", "INFO", "WARN", "ERROR", "FATAL">>[((number - 1) \div 4) + 1] >>

PaintSeverity(label) ==
    IF label \in {<<l>> : l \in Labels} THEN Paint(QuoteForPretty(label)) ELSE QuoteForPretty(label)

\* writeln!
Line(parts) == FlattenSeq(parts) \o <<"nl">>

AttrsLine(attrs) ==
    IF attrs = <<>> THEN <<>> ELSE Line(<< <<"indent">>, Paint(<<"attrs:">>), FormatAttrs(attrs)>>)

Head3(tag, service, scope) == <<Paint(tag), Paint(QuoteForPretty(ServiceName(service))), QuoteForPretty(scope)>>

RenderSpan(g, span) ==
    Line(Head3(<<"[trace]">>, g.service, g.scope)
         \o <<Paint(FormatUnixNanos(span.start)), Paint(QuoteForPretty(span.name)),
              FormatDurationNs(SaturatingSub(span.end, span.start)),
              Paint(<<span.status>>), HexId(span.id)>>)
    \o AttrsLine(span.attributes)
    \o FlattenSeq([i \in DOMAIN span.events |->
          Line(<< <<"indent">>, Paint(<<"event">>), Paint(QuoteForPretty(span.events[i].name)),
                  FormatAttrs(span.events[i].attributes)>>)])

FormatNumberPoint(p) ==
    <<"number">> \o (IF p.attributes = <<>> THEN <<>> ELSE <<"space">> \o FormatAttrs(p.attributes))

MetricSummary(data) ==
    CASE data.kind \in {"sum", "gauge"} ->
            <<data.kind>> \o Join([i \in DOMAIN data.points |-> FormatNumberPoint(data.points[i])]) \o <<"]">>
      [] data.kind = "hist" ->
            <<"hist">> \o Join([i \in DOMAIN data.points |-> <<"count", "sum">>]) \o <<"]">>
      [] OTHER -> <<data.kind>>

RenderMetric(g, metric) ==
    Line(Head3(<<"[metric]">>, g.service, g.scope)
         \o <<Paint(QuoteForPretty(metric.name)),
              IF metric.unit = <<>> THEN <<>> ELSE QuoteForPretty(metric.unit),
              MetricSummary(metric.data),
              IF metric.description = <<>> THEN <<>>
              ELSE Paint(<<"(">> \o QuoteForPretty(metric.description) \o <<")">>)>>)

RenderLog(g, log) ==
    Line(Head3(<<"[log]">>, g.service, g.scope)
         \o <<Paint(FormatUnixNanos(log.time)),
              PaintSeverity(SeverityLabel(log.severity_number, log.severity_text)),
              PrettyAnyValue(log.body)>>)
    \o AttrsLine(log.attributes)

\* render_summary: a line for the agent and one for each of its buckets.
RenderAgent(agent) ==
    Line(<<Paint(<<"[stats:">> \o QuoteForPretty(agent.name) \o <<"]">>), Paint(<<"requests">>),
           FormatDurationNs(agent.duration), Paint(<<"since">>)>>)
    \o FlattenSeq([i \in DOMAIN agent.buckets |->
          LET b == agent.buckets[i]
          IN  Line(<< <<"indent">>, Paint(<<"breakdown">>), Paint(QuoteForPretty(b.provider)),
                      Paint(QuoteForPretty(b.model)), Paint(QuoteForPretty(b.effort)),
                      FormatDurationNs(agent.duration)>>)])

\* render, one group of a resource and a scope after the other.
Render(rec) ==
    FlattenSeq([i \in DOMAIN rec.groups |->
        LET g == rec.groups[i]
        IN  FlattenSeq([j \in DOMAIN g.items |->
                CASE rec.kind = "traces" -> RenderSpan(g, g.items[j])
                  [] rec.kind = "metrics" -> RenderMetric(g, g.items[j])
                  [] rec.kind = "logs" -> RenderLog(g, g.items[j])
                  [] rec.kind = "summary" -> RenderAgent(g.items[j])])])

FormatInit ==
    /\ record \in Records
    /\ color \in BOOLEAN
    /\ shown = <<>>

\* queue_pretty renders a batch; the writer renders the summary.
RenderText ==
    /\ shown = <<>>
    /\ shown' = Render(record)
    /\ UNCHANGED <<record, color>>
-----------------------------------------------------------------------------
Count(s, c) == Len(SelectSeq(s, LAMBDA d : d = c))

\* The lines an item has by its structure alone.
LinesOf(rec, item) ==
    CASE rec.kind = "traces" -> 1 + (IF item.attributes = <<>> THEN 0 ELSE 1) + Len(item.events)
      [] rec.kind = "metrics" -> 1
      [] rec.kind = "logs" -> 1 + (IF item.attributes = <<>> THEN 0 ELSE 1)
      [] rec.kind = "summary" -> 1 + Len(item.buckets)

SumOver(s, Op(_)) == FoldLeft(LAMBDA n, x : n + Op(x), 0, s)

LineCount(rec) == SumOver(rec.groups, LAMBDA g : SumOver(g.items, LAMBDA item : LinesOf(rec, item)))

\* Telemetry cannot write to the terminal: whatever characters names, values
\* and severities have, a record takes exactly the lines its structure gives
\* it, no control character gets through, and color codes come from the painter
\* alone, in pairs, and only where color is on.
TextStaysInLine ==
    shown # <<>> =>
        /\ Count(shown, "nl") = LineCount(record)
        /\ \A c \in {"cr", "tab", "control"} : Count(shown, c) = 0
        /\ IF color THEN Count(shown, "sgr") % 2 = 0 ELSE Count(shown, "sgr") = 0

\* The backslashes a text takes when it is escaped once.
EscapesIn(c) == CASE c = "backslash" -> 2 [] c \in NeedsEscape \cup {"quote"} -> 1 [] OTHER -> 0
EscapesOf(s) == SumOver(s, EscapesIn)

RECURSIVE EscapesOfValue(_)
EscapesOfAttrs(attrs) == SumOver(attrs, LAMBDA a : EscapesOf(a[1]) + EscapesOfValue(a[2]))
EscapesOfValue(v) ==
    CASE v[1] = "string" -> EscapesOf(v[2])
      [] v[1] = "array" -> SumOver(v[2], EscapesOfValue)
      [] v[1] = "kvlist" -> EscapesOfAttrs(v[2])
      [] OTHER -> 0

\* The texts printed in quotes, or without where they need none.
RECURSIVE TextsOfValue(_)
TextsOfValue(v) ==
    CASE v[1] \in {"string", "none"} -> 1
      [] v[1] = "array" -> SumOver(v[2], TextsOfValue)
      [] v[1] = "kvlist" -> SumOver(v[2], LAMBDA a : 1 + TextsOfValue(a[2]))
      [] OTHER -> 0

\* A service name is made a text before it is quoted, so a list of attributes
\* in it is escaped a second time: three backslashes for one, and one for each
\* quote around a text.
EscapesOfService(service) ==
    IF service = <<>> THEN 0 ELSE 3 * EscapesOfValue(service) + 2 * TextsOfValue(service)

\* The texts of an item, each counted as often as it is printed.
EscapesOfItem(rec, g, item) ==
    CASE rec.kind = "summary" ->
            EscapesOf(item.name)
            + SumOver(item.buckets, LAMBDA b : EscapesOf(b.provider) + EscapesOf(b.model) + EscapesOf(b.effort))
      [] OTHER ->
            EscapesOfService(g.service) + EscapesOf(g.scope)
            + CASE rec.kind = "traces" ->
                      EscapesOf(item.name) + EscapesOfAttrs(item.attributes)
                      + SumOver(item.events, LAMBDA e : EscapesOf(e.name) + EscapesOfAttrs(e.attributes))
                [] rec.kind = "metrics" ->
                      EscapesOf(item.name) + EscapesOf(item.unit) + EscapesOf(item.description)
                      + (IF item.data.kind \in {"sum", "gauge"}
                         THEN SumOver(item.data.points, LAMBDA p : EscapesOfAttrs(p.attributes)) ELSE 0)
                [] rec.kind = "logs" ->
                      EscapesOf(item.severity_text) + EscapesOfValue(item.body) + EscapesOfAttrs(item.attributes)

\* However deep values are nested, escaping adds to the output once for each
\* text printed, never once for each level around it: there are no more
\* backslashes than the texts take one by one, service names aside, which may
\* be escaped twice. The service and the scope count for every item, since
\* each line names them again.
EscapedOnce ==
    Count(shown, "backslash")
        <= SumOver(record.groups, LAMBDA g : SumOver(g.items, LAMBDA item : EscapesOfItem(record, g, item)))
=============================================================================
