------------------------------ MODULE Settings ------------------------------
(***************************************************************************)
(* How the settings of a process are put together (src/src/cli.rs,         *)
(* src/src/config.rs, src/src/path.rs): flag > environment > file >        *)
(* default, the checks that refuse a combination, and the routes of the    *)
(* proxy with their headers.                                               *)
(*                                                                         *)
(* A layer is a partial function: an option that is not given is not in    *)
(* its domain, and Or(a, b) is Rust's a.or(b). Path and header texts are   *)
(* sequences of components and pairs; only what the checks tell apart is   *)
(* kept of a text. Lanes are named by their route: the order of the        *)
(* BTreeMap of custom routes decides nothing but which error comes first.  *)
(***************************************************************************)
EXTENDS Integers, Sequences, FiniteSets

CONSTANTS EmptyText,    \* the empty string
          BadKeys,      \* header names with a character that no token has
          BadTexts,     \* texts with a control character or not in Unicode
          MaxPermits    \* Semaphore::MAX_PERMITS, also MAX_INFLIGHT_REQUESTS

ASSUME SettingsAssumption == MaxPermits \in Nat \ {0}

\* Each option from the first layer that has it.
Or(a, b) == [k \in DOMAIN a \cup DOMAIN b |-> IF k \in DOMAIN a THEN a[k] ELSE b[k]]

Get(f, k, default) == IF k \in DOMAIN f THEN f[k] ELSE default

\* An environment variable that is set to something.
Given(env, k) == k \in DOMAIN env /\ env[k] # EmptyText
-----------------------------------------------------------------------------
(***************************************************************************)
(* Paths.                                                                  *)
(***************************************************************************)
\* The leading component ~ is replaced; an empty HOME counts as none.
ExpandUserPath(path, env) ==
    IF Given(env, "HOME") /\ Head(path) = "~" THEN env.HOME \o Tail(path) ELSE path

ConfigFile == <<"otel-logger", "config.toml">>

\* default_config_path: the empty sequence stands for None.
DefaultConfigPath(env) ==
    IF Given(env, "XDG_CONFIG_HOME") THEN env.XDG_CONFIG_HOME \o ConfigFile
    ELSE IF Given(env, "HOME") THEN env.HOME \o <<".config">> \o ConfigFile
    ELSE <<>>

Parent(path) == SubSeq(path, 1, Len(path) - 1)
-----------------------------------------------------------------------------
(***************************************************************************)
(* The command line.                                                       *)
(***************************************************************************)
\* The fields of Cli that have a variable OTEL_LOGGER_*, and for every vendor
\* the names of its three.
ReceiverOptions ==
    {"config", "grpc_addr", "http_addr", "max_inflight_requests", "receive_timeout_ms",
     "log_file", "log_dir", "log_keep_days", "no_stdout", "pretty_log", "summary", "color"}

VendorOptions ==
    [anthropic |-> [endpoint |-> "anthropic_endpoint", transport |-> "anthropic_transport",
                    headers |-> "anthropic_headers"],
     openai |-> [endpoint |-> "openai_endpoint", transport |-> "openai_transport",
                 headers |-> "openai_headers"]]

Options ==
    ReceiverOptions \cup {"checkpoint_dir"}
    \cup {VendorOptions[v][o] : v \in DOMAIN VendorOptions, o \in {"endpoint", "transport", "headers"}}

\* clear_empty_otel_logger_env removes the empty variables for good.
ClearEmptyEnv(env) == [k \in DOMAIN env \ {o \in Options : ~ Given(env, o)} |-> env[k]]

\* Cli::parse, with the variables that are left.
Cli(flags, env) == Or(flags, [k \in Options \cap DOMAIN env |-> env[k]])

NoColorRequested(env) == Given(env, "NO_COLOR")

\* ColorMode::enabled_for_stdout
EnabledForStdout(color, env, terminal) ==
    color = "always" \/ (color = "auto" /\ ~ NoColorRequested(env) /\ terminal)

WarnsUnrotatedStdout(settings, terminal) == ~ settings.no_stdout /\ ~ terminal
-----------------------------------------------------------------------------
(***************************************************************************)
(* The file that init writes: what is not commented out in its templates.  *)
(***************************************************************************)
LogDirectory == <<"var", "log", "otel-logger">>

StorageSection(profile) ==
    IF profile = "daemon" THEN [log_dir |-> LogDirectory, log_keep_days |-> 10]
    ELSE [log_file |-> Append(LogDirectory, "otel-logger.jsonl")]

OutputSection(profile) == [no_stdout |-> profile = "daemon", summary |-> FALSE]

CommonTail == [color |-> "auto"]

RenderConfigTemplate(profile) == Or(StorageSection(profile), Or(OutputSection(profile), CommonTail))
-----------------------------------------------------------------------------
(***************************************************************************)
(* The output of JSON lines.                                               *)
(***************************************************************************)
SinkKeys == {"log_file", "log_dir"}

\* One of the two on the command line hides both of the file.
SinkLayer(cli, config) == IF SinkKeys \cap DOMAIN cli # {} THEN cli ELSE config

\* Not both, and not an empty path where one is adopted.
SinkOk(cli, config) ==
    LET layer == SinkLayer(cli, config)
    IN  /\ ~ SinkKeys \subseteq DOMAIN layer
        /\ \A k \in SinkKeys \cap DOMAIN layer : layer[k] # EmptyText

LogSink(cli, config, env) ==
    LET layer == SinkLayer(cli, config)
    IN  IF "log_file" \in DOMAIN layer
        THEN [kind |-> "file", path |-> ExpandUserPath(layer.log_file, env)]
        ELSE IF "log_dir" \in DOMAIN layer
        THEN [kind |-> "dir", path |-> ExpandUserPath(layer.log_dir, env),
              keep_days |-> Get(Or(cli, config), "log_keep_days", 10)]
        ELSE [kind |-> "none"]

PrettyLogOn(cli, config) == Get(Or(cli, config), "pretty_log", FALSE)

\* resolve_pretty_log_dir refuses any other sink.
PrettyLogOk(cli, config, env) == PrettyLogOn(cli, config) => LogSink(cli, config, env).kind = "dir"

PrettyLogDir(cli, config, env) ==
    IF PrettyLogOn(cli, config) THEN LogSink(cli, config, env).path ELSE <<>>
-----------------------------------------------------------------------------
(***************************************************************************)
(* Headers. A key is <<name, spelling>> with the name in lower case; a     *)
(* value is <<"text", t>> or <<"env", variable>>; an entry of the command  *)
(* line is <<key, value>>, or <<>> when it has no '='.                     *)
(***************************************************************************)
ReservedKeys == {"host", "content-length", "transfer-encoding"}

EntriesOk(entries) == \A i \in DOMAIN entries : entries[i] # <<>> /\ entries[i][1][1] # EmptyText

\* Keys that differ in their spelling are kept apart.
MergeCliHeaders_CaseSensitive(headers, entries) ==
    LET At(k) == {i \in DOMAIN entries : entries[i][1] = k}
        Last(k) == CHOOSE i \in At(k) : \A j \in At(k) : j <= i
    IN  Or([k \in {entries[i][1] : i \in DOMAIN entries} |-> entries[Last(k)][2]], headers)

\* Every entry takes the place of all spellings of its name; the last one wins.
MergeCliHeaders(headers, entries) ==
    LET names == {entries[i][1][1] : i \in DOMAIN entries}
        At(n) == {i \in DOMAIN entries : entries[i][1][1] = n}
        Last(n) == CHOOSE i \in At(n) : \A j \in At(n) : j <= i
    IN  Or([k \in {<<n, "lower">> : n \in names} |-> entries[Last(k[1])][2]],
           [k \in {k \in DOMAIN headers : k[1] \notin names} |-> headers[k]])

HeaderText(value, env) == IF value[1] = "env" THEN env[value[2]] ELSE value[2]

ValidHeaderKey(name) == name # EmptyText /\ name \notin BadKeys \cup ReservedKeys

ValidHeaderValue(value, env) ==
    /\ value[1] = "env" => value[2] \in DOMAIN env
    /\ HeaderText(value, env) \notin BadTexts

HeadersOk(headers, env) ==
    /\ \A k \in DOMAIN headers : ValidHeaderKey(k[1]) /\ ValidHeaderValue(headers[k], env)
    /\ \A k, l \in DOMAIN headers : k[1] = l[1] => k = l

\* For headers that are ok.
ResolveHeaders(headers, env) ==
    [n \in {k[1] : k \in DOMAIN headers} |->
        HeaderText(headers[CHOOSE k \in DOMAIN headers : k[1] = n], env)]
-----------------------------------------------------------------------------
(***************************************************************************)
(* Routes.                                                                 *)
(***************************************************************************)
AllSignals == {"logs", "traces", "metrics"}

DefaultServices ==
    [anthropic |-> <<"claude-code">>,
     openai |-> <<"codex_cli_rs", "codex_exec", "codex-app-server", "codex_mcp_server",
                  "Codex Desktop", "codex-exec-server">>]

Vendors == DOMAIN DefaultServices

NormalizeSignals(signals) == IF signals = {} THEN AllSignals ELSE signals

NormalizeServiceNames(names, vendor) == IF names = <<>> THEN DefaultServices[vendor] ELSE names

\* The routes of the file by their name.
ConfigRoutes(config) == Get(Get(config, "proxy", << >>), "routes", << >>)
NamesUnique(routes) == \A i, j \in DOMAIN routes : routes[i].name = routes[j].name => i = j
HasRoute(routes, name) == \E i \in DOMAIN routes : routes[i].name = name
RouteNamed(routes, name) == routes[CHOOSE i \in DOMAIN routes : routes[i].name = name]

CliEntries(cli, v) == Get(cli, VendorOptions[v].headers, <<>>)

VendorPresent(cli, routes, v) == VendorOptions[v].endpoint \in DOMAIN cli \/ HasRoute(routes, v)

\* The route of the file that the vendor's flags change; without one, a route
\* that says nothing.
VendorBase(routes, v) ==
    IF HasRoute(routes, v) THEN RouteNamed(routes, v)
    ELSE [name |-> v, service_names |-> <<>>, signal_types |-> {}, endpoint |-> EmptyText,
          headers |-> << >>]

VendorHeaders(cli, routes, v) == MergeCliHeaders(VendorBase(routes, v).headers, CliEntries(cli, v))

\* build_vendor_route returns no error: flags without an endpoint are refused.
VendorOk(cli, routes, v, env) ==
    IF VendorPresent(cli, routes, v)
    THEN EntriesOk(CliEntries(cli, v)) /\ HeadersOk(VendorHeaders(cli, routes, v), env)
    ELSE VendorOptions[v].transport \notin DOMAIN cli /\ CliEntries(cli, v) = <<>>

BuildVendorRoute(cli, routes, v, env) ==
    LET base == VendorBase(routes, v)
    IN  [service_names |-> NormalizeServiceNames(base.service_names, v),
         signals |-> NormalizeSignals(base.signal_types),
         transport |-> Get(cli, VendorOptions[v].transport, Get(base, "transport", "grpc")),
         endpoint |-> Get(cli, VendorOptions[v].endpoint, base.endpoint),
         headers |-> ResolveHeaders(VendorHeaders(cli, routes, v), env)]

CustomOk(route, env) ==
    route.endpoint # EmptyText /\ route.service_names # <<>> /\ HeadersOk(route.headers, env)

BuildCustomRoute(route, env) ==
    [service_names |-> route.service_names,
     signals |-> NormalizeSignals(route.signal_types),
     transport |-> Get(route, "transport", "grpc"),
     endpoint |-> route.endpoint,
     headers |-> ResolveHeaders(route.headers, env)]

CustomRoutes(routes) == {i \in DOMAIN routes : routes[i].name \notin Vendors}

\* The routes of resolve_proxy_settings, by name; no route is no proxy.
ProxyRoutes(cli, config, env) ==
    LET routes == ConfigRoutes(config)
        names == {v \in Vendors : VendorPresent(cli, routes, v)}
                 \cup {routes[i].name : i \in CustomRoutes(routes)}
    IN  [n \in names |-> IF n \in Vendors THEN BuildVendorRoute(cli, routes, n, env)
                         ELSE BuildCustomRoute(RouteNamed(routes, n), env)]

\* Only the names of different routes are compared by their first service.
ClaimsUnique_FirstOnly(routes) ==
    \A m, n \in DOMAIN routes :
        routes[m].service_names[1] = routes[n].service_names[1] => m = n

\* Every service is claimed once, also within one route, and none is empty.
ClaimsUnique(routes) ==
    /\ \A n \in DOMAIN routes : \A i \in DOMAIN routes[n].service_names :
          routes[n].service_names[i] # EmptyText
    /\ \A m, n \in DOMAIN routes :
          \A i \in DOMAIN routes[m].service_names, j \in DOMAIN routes[n].service_names :
              routes[m].service_names[i] = routes[n].service_names[j] => m = n /\ i = j

\* The directory of the file is looked at only where the flag is not given.
CheckpointOk(cli, proxy) ==
    "checkpoint_dir" \in DOMAIN proxy \ DOMAIN cli => proxy.checkpoint_dir # EmptyText

DefaultCheckpointDir(sink) ==
    Append(IF sink.kind = "file" THEN Parent(sink.path) ELSE sink.path, ".otel-logger-proxy")

ProxyOk(cli, config, env) ==
    LET routes == ConfigRoutes(config)
    IN  /\ NamesUnique(routes)
        /\ \A v \in Vendors : VendorOk(cli, routes, v, env)
        /\ \A i \in CustomRoutes(routes) : CustomOk(routes[i], env)
        /\ LET lanes == ProxyRoutes(cli, config, env)
           IN  lanes # << >> =>
                  /\ ClaimsUnique(lanes)
                  /\ LogSink(cli, config, env).kind # "none"
                  /\ CheckpointOk(cli, Get(config, "proxy", << >>))

\* filter(|v| *v > 0).unwrap_or(default)
PositiveOr(n, default) == IF n > 0 THEN n ELSE default

\* For a command line and a file that are ok and give at least one route.
ProxySettings(cli, config, env) ==
    LET proxy == Get(config, "proxy", << >>)
        sink == LogSink(cli, config, env)
        layers == Or(cli, proxy)
    IN  [queue_capacity |-> PositiveOr(Get(proxy, "queue_capacity", 1024), 1024),
         timeout_ms |-> PositiveOr(Get(proxy, "timeout_ms", 5000), 5000),
         retry_max |-> Get(proxy, "retry_max", 8),
         checkpoint_dir |-> IF "checkpoint_dir" \in DOMAIN layers
                            THEN ExpandUserPath(layers.checkpoint_dir, env)
                            ELSE DefaultCheckpointDir(sink),
         routes |-> ProxyRoutes(cli, config, env)]
-----------------------------------------------------------------------------
(***************************************************************************)
(* Settings::merge.                                                        *)
(***************************************************************************)
Defaults ==
    [grpc_addr |-> "4317", http_addr |-> "4318", max_inflight_requests |-> 8,
     receive_timeout_ms |-> 5000, no_stdout |-> FALSE, summary |-> FALSE, color |-> "auto"]

LimitsOk(cli, config) ==
    LET layers == Or(cli, Or(config, Defaults))
    IN  layers.max_inflight_requests \in 1..MaxPermits /\ layers.receive_timeout_ms > 0

Mergeable(cli, config, env) ==
    /\ SinkOk(cli, config)
    /\ PrettyLogOk(cli, config, env)
    /\ ProxyOk(cli, config, env)
    /\ LimitsOk(cli, config)

\* For layers that are mergeable.
Merge(cli, config, env) ==
    LET layers == Or(cli, Or(config, Defaults))
    IN  Or([k \in DOMAIN Defaults |-> layers[k]],
           [log_sink |-> LogSink(cli, config, env),
            pretty_log_dir |-> PrettyLogDir(cli, config, env),
            proxy |-> IF ProxyRoutes(cli, config, env) = << >> THEN << >>
                      ELSE ProxySettings(cli, config, env)])
=============================================================================
