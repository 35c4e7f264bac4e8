----------------------------- MODULE MCStartup -----------------------------
(* The worlds of Startup: four families, each varying what one group of the *)
(* properties depends on and keeping the rest plain.                        *)
EXTENDS Startup, TLC

HOME == <<"home", "u">>
Dir == <<"~", "logs">>
File == <<"data", "log.jsonl">>
Good == Endpoint("https", TRUE, {})

Optional(k, vs) == {<< >>} \cup {k :> v : v \in vs}

NoInit == [path |-> <<>>, force |-> FALSE, daemon |-> FALSE, dry_run |-> TRUE]

Plain ==
    [flags |-> << >>, env |-> ("HOME" :> HOME), conf |-> << >>,
     inits |-> [i \in Inits |-> NoInit], faults |-> {},
     tail |-> << >>, expired |-> FALSE, busy |-> {}, terminal |-> FALSE, procs |-> {"serve"}]

At(config) == (HOME \o <<".config">> \o ConfigFile) :> config

\* The sinks and switches, each on every layer.
LayerWorlds ==
    {[Plain EXCEPT !.flags = f1 @@ f2, !.env = e @@ @, !.conf = At(c1 @@ c2 @@ ("no_stdout" :> TRUE))] :
        f1 \in {<< >>, "log_file" :> File, "log_dir" :> Dir, [log_file |-> File, log_dir |-> Dir]},
        f2 \in Optional("max_inflight_requests", {4}) \cup Optional("pretty_log", {TRUE}),
        e \in Optional("no_stdout", {EmptyText, FALSE}) \cup Optional("log_dir", {EmptyText, Dir}),
        c1 \in {<< >>, "log_file" :> File, "log_dir" :> EmptyText, [log_file |-> File, log_dir |-> Dir],
                [log_dir |-> Dir, log_keep_days |-> 3]},
        c2 \in {<< >>, "max_inflight_requests" :> 0, "max_inflight_requests" :> MaxPermits + 1,
                "pretty_log" :> TRUE, "receive_timeout_ms" :> 0}}

Auth(spelling) == <<"authorization", spelling>>
Vendor(headers) ==
    [name |-> "anthropic", service_names |-> <<>>, signal_types |-> {"logs"}, transport |-> "http-protobuf",
     endpoint |-> Good, headers |-> headers]
Custom(name, services) ==
    [name |-> name, service_names |-> services, signal_types |-> {}, endpoint |-> Good, headers |-> << >>]

VendorRoutes ==
    {Vendor(h) : h \in {<< >>, Auth("lower") :> <<"env", "TOKEN">>, Auth("Upper") :> <<"env", "NONE">>,
                        (Auth("lower") :> <<"text", "a">>) @@ (Auth("Upper") :> <<"text", "b">>),
                        <<"host", "lower">> :> <<"text", "a">>,
                        <<"x-bin", "lower">> :> <<"text", "a">>,
                        <<"x", "lower">> :> <<"text", "control">>}}
CustomLists ==
    {<<>>, <<Custom("a", <<"x", "y">>)>>, <<Custom("a", <<"x", "y">>), Custom("b", <<"z", "y">>)>>,
     <<Custom("a", <<"x">>), Custom("a", <<"z">>)>>, <<Custom("a", <<"claude-code">>)>>,
     <<Custom("a", <<"x", "claude-code">>)>>, <<Custom("a", <<EmptyText>>)>>, <<Custom("a", <<>>)>>}

\* The routes of the proxy from the flags and from the file.
ProxyWorlds ==
    {[Plain EXCEPT !.flags = f @@ t @@ h @@ s, !.env = ("TOKEN" :> "secret") @@ @,
                   !.conf = At(("log_dir" :> Dir) @@ ("proxy" :> (q @@ [routes |-> v \o c])))] :
        f \in Optional("anthropic_endpoint", {Good}),
        t \in Optional("anthropic_transport", {"grpc"}),
        h \in Optional("anthropic_headers", {<<<<Auth("Upper"), <<"text", "cli">>>>>>, <<<<>>>>}),
        s \in {<< >>}, q \in {<< >>},
        v \in {<<>>} \cup {<<r>> : r \in VendorRoutes}, c \in CustomLists}
    \cup
    {[Plain EXCEPT !.flags = s @@ ("openai_endpoint" :> e), !.conf = At("proxy" :> q),
                   !.procs = {"serve", "dry"}] :
        s \in {<< >>, "log_file" :> File, [log_file |-> File, checkpoint_dir |-> Dir]},
        e \in {Good, EmptyText, Endpoint("none", FALSE, {}), Endpoint("http", TRUE, {"credentials"})},
        q \in {<< >>, "queue_capacity" :> 0, "queue_capacity" :> MaxPermits + 1,
               "timeout_ms" :> GrpcTimeoutMax + 1, "checkpoint_dir" :> EmptyText}}

\* The outputs and the ports, with a dry run beside the receiver.
Today == <<"home", "u", "logs", "otel-logger.today">>

OutputWorlds ==
    {[Plain EXCEPT !.flags = s @@ a, !.faults = f, !.busy = b, !.expired = x, !.tail = t,
                   !.procs = {"serve", "dry"}] :
        s \in {<< >>, "log_file" :> File, "log_dir" :> Dir, [log_dir |-> Dir, pretty_log |-> TRUE]},
        a \in {<< >>, "grpc_addr" :> "4318", [grpc_addr |-> "0", http_addr |-> "0"]},
        f \in {{}, {"mkdir"}, {"jsonl"}, {"list"}, {"pretty"}, {"stuck"},
               {"recover"}, {"recover_pretty"}},
        b \in {{}, {"4318"}}, x \in BOOLEAN,
        t \in {<< >>, Today :> "partial"}}

InitOption(paths, daemon, dry) ==
    [path : paths, force : BOOLEAN, daemon : {daemon}, dry_run : dry]

\* Two inits and a receiver around one file.
InitWorlds ==
    {[Plain EXCEPT !.flags = l, !.env = e, !.conf = c, !.faults = f,
                   !.inits = [i \in Inits |-> IF i = "init1" THEN one ELSE two],
                   !.procs = Inits \cup {"serve"}] :
        l \in Optional("config", {<<"~", "c">>}),
        e \in {<< >>, "HOME" :> HOME, [HOME |-> HOME, XDG_CONFIG_HOME |-> <<"xdg">>]},
        c \in {<< >>, At("log_file" :> File), (HOME \o <<"c">>) :> ("log_file" :> File)},
        f \in {{}, {"inspect"}, {"read"}, {"parse"}, {"confdir"}, {"confwrite"}},
        one \in InitOption({<<>>}, FALSE, {FALSE}) \cup InitOption({<<"~", "c">>}, FALSE, BOOLEAN),
        two \in InitOption({<<>>}, TRUE, {FALSE})}

AllWorlds == LayerWorlds \cup ProxyWorlds \cup OutputWorlds \cup InitWorlds
=============================================================================
