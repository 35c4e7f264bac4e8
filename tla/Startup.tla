------------------------------ MODULE Startup ------------------------------
(***************************************************************************)
(* The processes a user starts before telemetry flows: otel-logger init    *)
(* (any number of them), a dry run and the receiver, side by side over one *)
(* configuration file, one log directory and one set of ports. main.rs,    *)
(* Config::load and write_with_profile (config.rs), the opening of the     *)
(* sink and its probe (sink.rs), the binds of server.rs and http.rs.       *)
(*                                                                         *)
(* A world is what the processes find and what they are started with: the  *)
(* flags and variables that all of them share, the files, the operations   *)
(* that fail, the ports others hold and which processes there are. Only    *)
(* the processes change it. A file is written by one write; between the    *)
(* open and the write it is empty, and it stays empty when the write fails *)
(* (one that stops half way is left out); an empty file is a configuration *)
(* without keys. Log files are "whole" or end in a "partial" line (Storage *)
(* models their cells).                                                    *)
(***************************************************************************)
EXTENDS Routing

CONSTANTS Inits,     \* the init processes
          Worlds     \* the situations to start in

Readers == {"dry", "serve"}

ASSUME InitsAssumption == Inits \cap Readers = {}

\* What serde makes of a file: a route has all of its fields but the transport,
\* and its service names are a list.
IsConfig(config) ==
    \A i \in DOMAIN ConfigRoutes(config) :
        LET r == ConfigRoutes(config)[i]
        IN  /\ {"name", "service_names", "signal_types", "endpoint", "headers"} \subseteq DOMAIN r
            /\ r.service_names \in Seq(Services(r))

\* A world has the flags of Cli and files that the program can parse (a file
\* that it cannot is a fault).
ASSUME WorldsAssumption ==
    \A w \in Worlds :
        /\ DOMAIN w.flags \subseteq Options
        /\ \A path \in DOMAIN w.conf : IsConfig(w.conf[path])

VARIABLES
    world,     \* chosen once
    conf,      \* the configuration files there are, by path
    pc,        \* where each process is
    at,        \* the step at which a process failed
    existed,   \* pre_existed of write_with_profile
    outcome,   \* what an init reported
    loaded,    \* the configuration a reader has loaded
    settings,  \* what it made of it
    tail,      \* how the log files that exist end, by path
    expired,   \* there are daily files past their keep days
    stdout,    \* what the receiver does with stdout: "off", "plain" or "color"
    warned,    \* the readers that warned of a stdout nobody rotates
    held,      \* the listeners each reader has bound and not dropped
    tried,     \* the listeners the receiver has tried to bind
    clash,     \* the readers that failed at a port which the other one held
    writing,   \* the receiver is in the middle of a line
    before,    \* the inits that had succeeded when the receiver loaded
    midway     \* the inits that had opened their file by then and not written it

inits == <<existed, outcome>>
readers == <<loaded, settings, before, midway>>
logs == <<tail, expired, writing>>
console == <<stdout, warned>>
ports == <<held, tried, clash>>
vars == <<world, conf, pc, at, inits, readers, logs, console, ports>>

Fault(f) == f \in world.faults
Env == ClearEmptyEnv(world.env)
Flags == Cli(world.flags, Env)

Init ==
    /\ world \in Worlds
    /\ conf = world.conf
    /\ pc = [p \in Inits \cup Readers |-> IF p \in world.procs THEN "off" ELSE "absent"]
    /\ at = [p \in Inits \cup Readers |-> "none"]
    /\ existed = [i \in Inits |-> FALSE]
    /\ outcome = [i \in Inits |-> "none"]
    /\ loaded = [p \in Readers |-> << >>]
    /\ settings = [p \in Readers |-> << >>]
    /\ tail = world.tail
    /\ expired = world.expired
    /\ stdout = "off"
    /\ warned = {}
    /\ held = [p \in Readers |-> {}]
    /\ tried = {}
    /\ clash = {}
    /\ writing = FALSE
    /\ before = {}
    /\ midway = {}

\* The files with what is written to one of them, made if it is not there.
Put(files, path, text) ==
    [f \in DOMAIN files \cup {path} |-> IF f = path THEN text ELSE files[f]]

\* main returns the error of the step it is in.
Fail(p) ==
    /\ pc' = [pc EXCEPT ![p] = "failed"]
    /\ at' = [at EXCEPT ![p] = pc[p]]

Go(p, step) ==
    /\ pc' = [pc EXCEPT ![p] = step]
    /\ UNCHANGED at
-----------------------------------------------------------------------------
(***************************************************************************)
(* otel-logger init. Its options: path (empty for none), force, daemon and *)
(* dry_run.                                                                *)
(***************************************************************************)
\* --path, else where the receiver reads, else the default location.
Dest(i) ==
    IF world.inits[i].path # <<>> THEN ExpandUserPath(world.inits[i].path, Env)
    ELSE IF "config" \in DOMAIN Flags THEN ExpandUserPath(Flags.config, Env)
    ELSE DefaultConfigPath(Env)

Profile(i) == IF world.inits[i].daemon THEN "daemon" ELSE "default"

\* Up to the open: the parent directory is made and the file is looked for.
InitBegin(i) ==
    /\ pc[i] = "off"
    /\ IF world.inits[i].dry_run \/ Dest(i) = <<>> \/ Fault("confdir")
       THEN Fail(i) /\ UNCHANGED existed
       ELSE Go(i, "open") /\ existed' = [existed EXCEPT ![i] = Dest(i) \in DOMAIN conf]
    /\ UNCHANGED <<world, conf, outcome, readers, logs, console, ports>>

\* The check for an existing file is the one made before the open.
InitOpen_ChecksFirst(i) ==
    /\ pc[i] = "open"
    /\ IF existed[i] /\ ~ world.inits[i].force
       THEN Fail(i) /\ UNCHANGED conf
       ELSE Go(i, "write") /\ conf' = Put(conf, Dest(i), << >>)
    /\ UNCHANGED <<world, inits, readers, logs, console, ports>>

\* create_new, or create and truncate with --force.
InitOpen(i) ==
    /\ pc[i] = "open"
    /\ IF Dest(i) \in DOMAIN conf /\ ~ world.inits[i].force
       THEN Fail(i) /\ UNCHANGED conf
       ELSE Go(i, "write") /\ conf' = Put(conf, Dest(i), << >>)
    /\ UNCHANGED <<world, inits, readers, logs, console, ports>>

InitWrite(i) ==
    /\ pc[i] = "write"
    /\ IF Fault("confwrite")
       THEN Fail(i) /\ UNCHANGED <<conf, outcome>>
       ELSE /\ Go(i, "ok")
            /\ conf' = Put(conf, Dest(i), RenderConfigTemplate(Profile(i)))
            /\ outcome' = [outcome EXCEPT
                  ![i] = IF world.inits[i].force /\ existed[i] THEN "overwrote" ELSE "created"]
    /\ UNCHANGED <<world, existed, readers, logs, console, ports>>
-----------------------------------------------------------------------------
(***************************************************************************)
(* What the dry run and the receiver have in common.                       *)
(***************************************************************************)
ReadPath ==
    IF "config" \in DOMAIN Flags THEN ExpandUserPath(Flags.config, Env)
    ELSE DefaultConfigPath(Env)

\* Between the open of the file and the end of its write, or stopped there.
Midway(i) == pc[i] = "write" \/ at[i] = "write"

\* An explicit file must be there; any file that is there must be read.
LoadOk ==
    \/ "config" \notin DOMAIN Flags /\ ReadPath = <<>>
    \/ /\ ~ Fault("inspect")
       /\ \/ ReadPath \in DOMAIN conf /\ ~ Fault("read") /\ ~ Fault("parse")
          \/ ReadPath \notin DOMAIN conf /\ "config" \notin DOMAIN Flags

Load_DeniedIsAbsent(p) ==
    /\ pc[p] = "off"
    /\ loaded' = [loaded EXCEPT ![p] =
          IF Fault("inspect") \/ Fault("read") THEN << >> ELSE Get(conf, ReadPath, << >>)]
    /\ before' = IF p = "serve" THEN {i \in Inits : pc[i] = "ok"} ELSE before
    /\ midway' = IF p = "serve" THEN {i \in Inits : Midway(i)} ELSE midway
    /\ Go(p, "merge")
    /\ UNCHANGED <<world, conf, inits, settings, logs, console, ports>>

\* Config::load
Load(p) ==
    /\ pc[p] = "off"
    /\ IF LoadOk
       THEN loaded' = [loaded EXCEPT ![p] = Get(conf, ReadPath, << >>)] /\ Go(p, "merge")
       ELSE Fail(p) /\ UNCHANGED loaded
    /\ before' = IF p = "serve" THEN {i \in Inits : pc[i] = "ok"} ELSE before
    /\ midway' = IF p = "serve" THEN {i \in Inits : Midway(i)} ELSE midway
    /\ UNCHANGED <<world, conf, inits, settings, logs, console, ports>>

\* Settings::merge and warn_if_stdout_unrotated
MergeSettings(p) ==
    /\ pc[p] = "merge"
    /\ IF Mergeable(Flags, loaded[p], Env)
       THEN LET s == Merge(Flags, loaded[p], Env)
            IN  /\ settings' = [settings EXCEPT ![p] = s]
                /\ warned' = IF WarnsUnrotatedStdout(s, world.terminal) THEN warned \cup {p} ELSE warned
                /\ Go(p, "router")
       ELSE Fail(p) /\ UNCHANGED <<settings, warned>>
    /\ UNCHANGED <<world, conf, inits, loaded, before, midway, logs, stdout, ports>>

\* spawn_router, when there are routes. It comes before the branch of main.
SpawnRouter(p) ==
    /\ pc[p] = "router"
    /\ IF settings[p].proxy = << >> \/ SpawnRouterOk(settings[p].proxy)
       THEN Go(p, IF p = "dry" THEN "probe" ELSE "jsonl")
       ELSE Fail(p)
    /\ UNCHANGED <<world, conf, inits, readers, logs, console, ports>>
-----------------------------------------------------------------------------
(***************************************************************************)
(* The outputs.                                                            *)
(***************************************************************************)
JsonlPath(s) ==
    IF s.log_sink.kind = "dir" THEN Append(s.log_sink.path, "otel-logger.today") ELSE s.log_sink.path

PrettyPath(s) == Append(s.pretty_log_dir, "otel-logger.pretty.today.log")

\* The file of the output can be made and opened.
JsonlOpens(s) == s.log_sink.kind # "none" => ~ Fault("mkdir") /\ ~ Fault("jsonl")
PrettyOpens(s) == s.pretty_log_dir # <<>> => ~ Fault("pretty")

\* The directory can be listed; cleanup must also remove what has expired.
Lists(s) == s.log_sink.kind = "dir" => ~ Fault("list")
CleansUp(s) == s.log_sink.kind = "dir" => ~ (expired /\ Fault("stuck"))

\* recover_tail can read the end of the file and cut it.
JsonlRecovers(s) == s.log_sink.kind # "none" => ~ Fault("recover")
PrettyRecovers(s) == s.pretty_log_dir # <<>> => ~ Fault("recover_pretty")

JsonlFile(s) == IF s.log_sink.kind = "none" THEN {} ELSE {JsonlPath(s)}
PrettyFile(s) == IF s.pretty_log_dir = <<>> THEN {} ELSE {PrettyPath(s)}

\* The log files with those that open makes; recovery leaves them whole.
Made(fs) == [f \in DOMAIN tail \cup fs |-> Get(tail, f, "whole")]
Recovered(fs) == [f \in DOMAIN tail \cup fs |-> IF f \in fs THEN "whole" ELSE tail[f]]

\* The files are opened the way the receiver opens them.
Probe_Opens ==
    /\ pc["dry"] = "probe"
    /\ LET s == settings["dry"]
           jsonl == JsonlOpens(s) /\ Lists(s)
           pretty == jsonl /\ PrettyOpens(s)
       IN  /\ IF pretty THEN Go("dry", "grpc") ELSE Fail("dry")
           /\ tail' = Recovered((IF jsonl THEN JsonlFile(s) ELSE {}) \cup (IF pretty THEN PrettyFile(s) ELSE {}))
    /\ UNCHANGED <<world, conf, inits, readers, expired, writing, console, ports>>

\* probe_settings: makes what is missing, changes nothing that is there.
Probe ==
    /\ pc["dry"] = "probe"
    /\ LET s == settings["dry"]
           jsonl == JsonlOpens(s) /\ Lists(s)
           pretty == jsonl /\ PrettyOpens(s)
       IN  /\ IF pretty THEN Go("dry", "grpc") ELSE Fail("dry")
           /\ tail' = Made((IF jsonl THEN JsonlFile(s) ELSE {}) \cup (IF pretty THEN PrettyFile(s) ELSE {}))
    /\ UNCHANGED <<world, conf, inits, readers, expired, writing, console, ports>>

\* Sink::from_settings_with_proxy, first the JSON lines: make the directory,
\* remove what has expired, open the file and recover its tail.
OpenJsonl ==
    /\ pc["serve"] = "jsonl"
    /\ LET s == settings["serve"]
           cleaned == s.log_sink.kind = "dir" /\ ~ Fault("mkdir") /\ Lists(s) /\ CleansUp(s)
           opened == JsonlOpens(s) /\ Lists(s) /\ CleansUp(s)
       IN  /\ IF opened /\ JsonlRecovers(s) THEN Go("serve", "pretty") ELSE Fail("serve")
           /\ tail' = IF ~ opened THEN tail
                      ELSE IF JsonlRecovers(s) THEN Recovered(JsonlFile(s)) ELSE Made(JsonlFile(s))
           /\ expired' = (expired /\ ~ cleaned)
    /\ UNCHANGED <<world, conf, inits, readers, writing, console, ports>>

\* Then the human-readable outputs, stdout first; its files are never colored.
OpenPretty ==
    /\ pc["serve"] = "pretty"
    /\ LET s == settings["serve"]
       IN  /\ stdout' = IF s.no_stdout THEN "off"
                        ELSE IF EnabledForStdout(s.color, Env, world.terminal) THEN "color"
                        ELSE "plain"
           /\ IF PrettyOpens(s) /\ PrettyRecovers(s) THEN Go("serve", "bind") ELSE Fail("serve")
           /\ tail' = IF ~ PrettyOpens(s) THEN tail
                      ELSE IF PrettyRecovers(s) THEN Recovered(PrettyFile(s)) ELSE Made(PrettyFile(s))
    /\ UNCHANGED <<world, conf, inits, readers, expired, writing, warned, ports>>
-----------------------------------------------------------------------------
(***************************************************************************)
(* The listeners. Port 0 is any free port. A process that has failed drops *)
(* what it holds as it returns.                                            *)
(***************************************************************************)
Listeners == {"grpc", "http"}
Addr(s, l) == IF l = "grpc" THEN s.grpc_addr ELSE s.http_addr
Held(p) == {Addr(settings[p], l) : l \in held[p]} \ {"0"}
Free(addr) == \A p \in Readers : addr \notin world.busy \cup Held(p)

Hold(p, l) == held' = [held EXCEPT ![p] = @ \cup {l}]

\* The bind fails, perhaps because the other reader has the address.
Refused(p, addr) ==
    /\ Fail(p)
    /\ clash' = IF \E q \in Readers \ {p} : addr \in Held(q) THEN clash \cup {p} ELSE clash
    /\ UNCHANGED held

\* probe_binds: gRPC first, then HTTP with gRPC still held.
ProbeGrpc ==
    /\ pc["dry"] = "grpc"
    /\ LET addr == settings["dry"].grpc_addr
       IN  IF Free(addr) THEN Hold("dry", "grpc") /\ Go("dry", "http") /\ UNCHANGED clash
           ELSE Refused("dry", addr)
    /\ UNCHANGED <<world, conf, inits, readers, logs, console, tried>>

\* Each listener is bound and dropped by itself.
ProbeHttp_OneByOne ==
    /\ pc["dry"] = "http"
    /\ LET addr == settings["dry"].http_addr
       IN  IF addr \notin world.busy \cup Held("serve")
           THEN Hold("dry", "http") /\ Go("dry", "drop") /\ UNCHANGED clash
           ELSE Refused("dry", addr)
    /\ UNCHANGED <<world, conf, inits, readers, logs, console, tried>>

ProbeHttp ==
    /\ pc["dry"] = "http"
    /\ LET addr == settings["dry"].http_addr
       IN  IF Free(addr) THEN Hold("dry", "http") /\ Go("dry", "drop") /\ UNCHANGED clash
           ELSE Refused("dry", addr)
    /\ UNCHANGED <<world, conf, inits, readers, logs, console, tried>>

\* With both bound the dry run drops them, HTTP first, and ends.
ProbeDrop ==
    /\ pc["dry"] = "drop"
    /\ IF "http" \in held["dry"]
       THEN held' = [held EXCEPT !["dry"] = @ \ {"http"}] /\ UNCHANGED <<pc, at>>
       ELSE held' = [held EXCEPT !["dry"] = {}] /\ Go("dry", "ok")
    /\ UNCHANGED <<world, conf, inits, readers, logs, console, tried, clash>>

\* serve_grpc and http::serve bind in tasks of their own; when one fails
\* server::run stops the other, which may bind before it notices.
Bind(l) ==
    /\ pc["serve"] = "bind" \/ at["serve"] = "bind"
    /\ l \notin tried
    /\ tried' = tried \cup {l}
    /\ LET addr == Addr(settings["serve"], l)
       IN  \/ /\ Free(addr)
              /\ Hold("serve", l)
              /\ IF held'["serve"] = Listeners THEN Go("serve", "running") ELSE UNCHANGED <<pc, at>>
              /\ UNCHANGED clash
           \/ ~ Free(addr) /\ pc["serve"] = "bind" /\ Refused("serve", addr)
           \/ ~ Free(addr) /\ pc["serve"] = "failed" /\ UNCHANGED <<pc, at, held, clash>>
    /\ UNCHANGED <<world, conf, inits, readers, logs, console>>

\* One listener of a process that has failed is closed.
Drop(p, l) ==
    /\ pc[p] = "failed"
    /\ l \in held[p]
    /\ held' = [held EXCEPT ![p] = @ \ {l}]
    /\ UNCHANGED <<world, conf, pc, at, inits, readers, logs, console, tried, clash>>

\* The receiver appends a line to its file, which one listener is enough for;
\* others see it half done.
BeginLine ==
    /\ held["serve"] # {}
    /\ settings["serve"].log_sink.kind # "none"
    /\ ~ writing
    /\ writing' = TRUE
    /\ tail' = [tail EXCEPT ![JsonlPath(settings["serve"])] = "partial"]
    /\ UNCHANGED <<world, conf, pc, at, inits, readers, expired, console, ports>>

EndLine ==
    /\ writing
    /\ writing' = FALSE
    /\ tail' = [tail EXCEPT ![JsonlPath(settings["serve"])] = "whole"]
    /\ UNCHANGED <<world, conf, pc, at, inits, readers, expired, console, ports>>

Next ==
    \/ \E i \in Inits : InitBegin(i) \/ InitOpen(i) \/ InitWrite(i)
    \/ \E p \in Readers : Load(p) \/ MergeSettings(p) \/ SpawnRouter(p)
    \/ Probe \/ ProbeGrpc \/ ProbeHttp \/ ProbeDrop
    \/ OpenJsonl \/ OpenPretty \/ (\E l \in Listeners : Bind(l))
    \/ (\E p \in Readers, l \in Listeners : Drop(p, l))
    \/ BeginLine \/ EndLine

Spec == Init /\ [][Next]_vars
-----------------------------------------------------------------------------
TypeOK ==
    /\ pc \in [Inits \cup Readers -> {"absent", "off", "open", "write", "merge", "router", "probe", "grpc", "http",
                                      "drop", "jsonl", "pretty", "bind", "running", "ok", "failed"}]
    /\ existed \in [Inits -> BOOLEAN]
    /\ outcome \in [Inits -> {"none", "created", "overwrote"}]
    /\ expired \in BOOLEAN
    /\ stdout \in {"off", "plain", "color"}
    /\ warned \in SUBSET Readers
    /\ held \in [Readers -> SUBSET Listeners]
    /\ tried \in SUBSET Listeners
    /\ clash \in SUBSET Readers
    /\ writing \in BOOLEAN
    /\ before \in SUBSET Inits
    /\ midway \in SUBSET Inits

SameSettings == settings["dry"] # << >> /\ settings["dry"] = settings["serve"]

\* The dry run and the start agree. When it passes, a receiver with the same
\* settings starts, unless it meets what the dry run does not try (an expired
\* file that cannot be removed, a tail that cannot be recovered) or a port that
\* the dry run holds at that moment. When it fails where the receiver runs, it
\* is because the receiver itself holds a port.
DryRunAgrees ==
    SameSettings =>
        /\ pc["dry"] = "ok" /\ pc["serve"] = "failed" =>
              \/ at["serve"] = "jsonl" /\ ((expired /\ Fault("stuck")) \/ Fault("recover"))
              \/ at["serve"] = "pretty" /\ Fault("recover_pretty")
              \/ at["serve"] = "bind" /\ "serve" \in clash
        /\ pc["dry"] = "failed" /\ pc["serve"] = "running" =>
              at["dry"] \in {"grpc", "http"} /\ "dry" \in clash

\* A dry run beside a receiver cuts no line that is being written, and expired
\* files stay until a receiver has opened the directory.
ProbeHarmless ==
    /\ writing => tail[JsonlPath(settings["serve"])] = "partial"
    /\ world.expired /\ ~ expired => pc["serve"] \in {"pretty", "bind", "running", "failed"}

\* Nobody with --force has this file as its destination.
Unforced(path) == \A i \in Inits : world.inits[i].force => Dest(i) # path

\* Without --force no init changes a file that was there, not even one that
\* another init has made since it looked: of two that both find none, one
\* succeeds and the file is its template.
InitKeepsExisting ==
    /\ \A path \in DOMAIN world.conf : Unforced(path) => conf[path] = world.conf[path]
    /\ \A i \in Inits : pc[i] = "ok" /\ Unforced(Dest(i)) =>
          conf[Dest(i)] = RenderConfigTemplate(Profile(i))

\* What the receiver can have read: the user's file, the template of an init
\* that has reported success, the empty file of one that has opened it and not
\* written it, or nothing where no file was asked for or there.
LoadedKnown ==
    \/ ReadPath \in DOMAIN world.conf /\ loaded["serve"] = world.conf[ReadPath]
    \/ \E i \in before : Dest(i) = ReadPath /\ loaded["serve"] = RenderConfigTemplate(Profile(i))
    \/ loaded["serve"] = << >> /\ \E i \in midway : Dest(i) = ReadPath
    \/ loaded["serve"] = << >> /\ "config" \notin DOMAIN Flags /\ ReadPath \notin DOMAIN world.conf

\* The receiver gets past its configuration only with one of these, so that a
\* file it cannot read is never taken for a missing one. An empty file gets it
\* there without what the user wants: while an init, with --force or without,
\* is between the open and the write, and after a write that failed. A file
\* nobody forces reaches it unchanged, and so does the template of an init
\* without --path, run under the same flags and variables, if no other init
\* has opened a file since.
ConfigReachesServe ==
    pc["serve"] \notin {"absent", "off", "failed"} =>
        /\ LoadedKnown
        /\ ReadPath \in DOMAIN world.conf /\ Unforced(ReadPath) =>
              loaded["serve"] = world.conf[ReadPath]
        /\ \A i \in before :
              /\ world.inits[i].path = <<>>
              /\ \A j \in Inits : pc[j] \in {"write", "ok"} => j = i
              => loaded["serve"] = RenderConfigTemplate(Profile(i))

\* The keys of the file that the command line overrides.
Hidden(cli) == DOMAIN cli \cup (IF SinkKeys \cap DOMAIN cli # {} THEN SinkKeys ELSE {})

\* The names of the headers given on the command line for a vendor.
NamedByCli(cli, v) == {CliEntries(cli, v)[i][1][1] : i \in {i \in DOMAIN CliEntries(cli, v) : CliEntries(cli, v)[i] # <<>>}}

RouteWithoutOverridden(cli, r) ==
    IF r.name \notin Vendors THEN r
    ELSE LET o == VendorOptions[r.name]
         IN  [k \in DOMAIN r \ {x \in {"transport"} : o.transport \in DOMAIN cli} |->
                CASE k = "endpoint" /\ o.endpoint \in DOMAIN cli -> EmptyText
                  [] k = "headers" -> [h \in {h \in DOMAIN r.headers : h[1] \notin NamedByCli(cli, r.name)} |->
                                          r.headers[h]]
                  [] OTHER -> r[k]]

ProxyWithoutOverridden(cli, proxy) ==
    [k \in DOMAIN proxy \ (DOMAIN cli \cap {"checkpoint_dir"}) |->
        IF k = "routes"
        THEN [i \in DOMAIN proxy.routes |-> RouteWithoutOverridden(cli, proxy.routes[i])]
        ELSE proxy[k]]

\* The file without anything that the command line overrides: its own keys, the
\* sinks when one is given, and for a vendor the endpoint, the transport and
\* all spellings of a header.
WithoutOverridden(cli, config) ==
    [k \in DOMAIN config \ Hidden(cli) |->
        IF k = "proxy" THEN ProxyWithoutOverridden(cli, config.proxy) ELSE config[k]]

\* What the command line overrides in the file has no effect, neither on the
\* settings nor on whether there are any: the start goes as if the file did not
\* have it and as if variables of the program that are set to nothing were not
\* set. The command line is the flags with the variables under them; see
\* FlagBeatsVariable for these two.
OverriddenIsInert ==
    \A p \in Readers :
        pc[p] \notin {"absent", "off", "merge"} /\ at[p] # "off" =>
            LET env == [k \in {k \in DOMAIN world.env : k \in Options => Given(world.env, k)} |-> world.env[k]]
                cli == Or(world.flags, [k \in DOMAIN env \cap Options |-> env[k]])
                rest == WithoutOverridden(cli, loaded[p])
            IN  IF at[p] = "merge" THEN ~ Mergeable(cli, rest, env)
                ELSE Mergeable(cli, rest, env) /\ settings[p] = Merge(cli, rest, env)

\* docs/configuration.md:19: a flag wins over a variable, and for the log sinks
\* also across log-file and log-dir. The start goes as if the variables that a
\* flag overrides were not set.
FlagBeatsVariable ==
    \A p \in Readers :
        pc[p] \notin {"absent", "off", "merge"} /\ at[p] # "off" =>
            LET env == ClearEmptyEnv([k \in DOMAIN world.env \ Hidden(world.flags) |-> world.env[k]])
                cli == Cli(world.flags, env)
            IN  IF at[p] = "merge" THEN ~ Mergeable(cli, loaded[p], env)
                ELSE Mergeable(cli, loaded[p], env) /\ settings[p] = Merge(cli, loaded[p], env)

Lanes == settings["serve"].proxy.routes

\* Every resource goes to the one route that lists its service, and one without
\* a service name, or with a service nobody lists, to none.
ServiceRoutedOnce ==
    (settings["serve"] # << >> /\ settings["serve"].proxy # << >>) =>
        LET known == UNION {Services(Lanes[n]) : n \in DOMAIN Lanes}
        IN  /\ \A s \in known \cup {"unlisted"} :
                  {n \in DOMAIN Lanes : MatchesLane(Lanes, n, <<<<"string", s>>>>)}
                      = {n \in DOMAIN Lanes : s \in Services(Lanes[n])}
            /\ \A s \in known : Cardinality({n \in DOMAIN Lanes : s \in Services(Lanes[n])}) = 1
            /\ \A n \in DOMAIN Lanes, r \in {<<>>, <<<<"other">>>>, <<<<"string", EmptyText>>>>} :
                  Filtered(Lanes, n, "logs", <<r>>) = {}
=============================================================================
