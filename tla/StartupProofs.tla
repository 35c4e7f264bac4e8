--------------------------- MODULE StartupProofs ---------------------------
(***************************************************************************)
(* What the commands of the program do to its configuration and log files, *)
(* for every set of init commands, every world the program may find and    *)
(* every failure in it: StartInv says for each process what holds at the   *)
(* step it has reached, so that two processes that pass the same steps can *)
(* be compared. SettingsInv adds what Settings::merge has made of the      *)
(* file, whichever layers give which keys. The last section is about       *)
(* Retention, the files of the receiver once it runs.                      *)
(***************************************************************************)
EXTENDS Startup, Retention, FiniteSetTheorems, TLAPS

Procs == Inits \cup Readers

DryFails == {"off", "merge", "router", "probe", "grpc", "http"}
DrySteps == DryFails \cup {"absent", "drop", "ok", "failed"}
ServeFails == {"off", "merge", "router", "jsonl", "pretty", "bind"}
ServeSteps == ServeFails \cup {"absent", "running", "failed"}

\* Where the processes are, and where one failed that has failed.
StepsOK ==
    /\ DOMAIN pc = Procs /\ DOMAIN at = Procs
    /\ pc["dry"] \in DrySteps /\ pc["serve"] \in ServeSteps
    /\ \A p \in Procs : (at[p] # "none") <=> (pc[p] = "failed")
    /\ at["dry"] \in DryFails \cup {"none"} /\ at["serve"] \in ServeFails \cup {"none"}
    /\ DOMAIN loaded = Readers /\ DOMAIN settings = Readers
    /\ held \in [Readers -> SUBSET Listeners]

Started(i) == pc[i] \in {"write", "ok"}

\* Nobody but i has opened a configuration file.
Alone(i) == \A j \in Inits : Started(j) => j = i

\* What init has opened is there, and was not there when nobody forces; of
\* several with the same unforced destination one has opened it. What a lone
\* init has written is there, and the receiver has seen those that reported.
ConfInv ==
    /\ \A path \in DOMAIN world.conf : path \in DOMAIN conf
    /\ \A i \in Inits : Started(i) => Dest(i) \in DOMAIN conf
    /\ \A i \in Inits : Started(i) /\ Unforced(Dest(i)) => Dest(i) \notin DOMAIN world.conf
    /\ \A i, j \in Inits : Started(i) /\ Started(j) /\ Dest(i) = Dest(j) /\ Unforced(Dest(i)) => i = j
    /\ \A i \in Inits : pc[i] = "ok" => ~ Fault("confwrite")
    /\ \A i \in Inits : pc[i] = "ok" /\ Alone(i) => conf[Dest(i)] = RenderConfigTemplate(Profile(i))
    /\ \A i \in before : i \in Inits /\ pc[i] = "ok"

\* A file is the user's, what an init has written that reported so, or empty
\* since an init has come that far and no further.
FilesInv ==
    \A path \in DOMAIN conf :
        \/ path \in DOMAIN world.conf /\ conf[path] = world.conf[path]
        \/ \E i \in Inits : pc[i] = "ok" /\ Dest(i) = path /\ conf[path] = RenderConfigTemplate(Profile(i))
        \/ conf[path] = << >> /\ \E i \in Inits : Midway(i) /\ Dest(i) = path

\* The receiver has come to its listeners, or to its open logs.
Serving == pc["serve"] \in {"bind", "running"} \/ at["serve"] = "bind"
LogsOpen == pc["serve"] = "pretty" \/ Serving

\* The receiver writes to a file that is there.
LogInv ==
    /\ writing => Serving /\ settings["serve"].log_sink.kind # "none"
    /\ LogsOpen /\ settings["serve"].log_sink.kind # "none" => JsonlPath(settings["serve"]) \in DOMAIN tail

RouterOk(s) == s.proxy = << >> \/ SpawnRouterOk(s.proxy)
Opens(s) == JsonlOpens(s) /\ Lists(s)
AddrOk(s) == /\ s.grpc_addr \notin world.busy /\ s.http_addr \notin world.busy
             /\ s.grpc_addr = s.http_addr => s.grpc_addr = "0"

\* A reader that has passed a step has what the step asks for, and one that
\* failed there has not.
PassInv ==
    /\ \A p \in Readers :
          /\ pc[p] \in {"absent", "off", "merge"} \/ at[p] \in {"off", "merge"} => settings[p] = << >>
          /\ {pc[p], at[p]} \cap {"probe", "grpc", "http", "drop", "ok", "jsonl", "pretty", "bind", "running"} # {} =>
                RouterOk(settings[p])
          /\ at[p] = "router" => ~ RouterOk(settings[p])
    /\ {pc["dry"], at["dry"]} \cap {"grpc", "http", "drop", "ok"} # {} =>
          Opens(settings["dry"]) /\ PrettyOpens(settings["dry"])
    /\ at["dry"] = "probe" => ~ (Opens(settings["dry"]) /\ PrettyOpens(settings["dry"]))
    /\ {pc["serve"], at["serve"]} \cap {"pretty", "bind", "running"} # {} => Opens(settings["serve"])
    /\ at["serve"] = "jsonl" => ~ Opens(settings["serve"]) \/ (expired /\ Fault("stuck")) \/ Fault("recover")
    /\ at["serve"] = "pretty" => ~ PrettyOpens(settings["serve"]) \/ Fault("recover_pretty")
    /\ {pc["serve"], at["serve"]} \cap {"bind", "running"} # {} => PrettyOpens(settings["serve"])

\* The addresses a reader has bound were nobody's, not even its own.
HeldOk(p) ==
    /\ \A l \in held[p] : Addr(settings[p], l) \notin world.busy
    /\ \A l, k \in held[p] : l # k /\ Addr(settings[p], l) = Addr(settings[p], k) => Addr(settings[p], l) = "0"

\* The listeners that are held where a reader is. One that failed at them has
\* settings that cannot be served, or has met the other.
PortInv ==
    /\ held["dry"] # {} => pc["dry"] \in {"http", "drop"} \/ at["dry"] = "http"
    /\ pc["dry"] = "http" => held["dry"] = {"grpc"}
    /\ held["serve"] # {} => Serving
    /\ held["serve"] \subseteq tried
    /\ at["serve"] = "bind" => \E l \in tried \cap Listeners : l \notin held["serve"]
    /\ HeldOk("dry") /\ HeldOk("serve")
    /\ pc["dry"] \in {"drop", "ok"} => AddrOk(settings["dry"])
    /\ pc["serve"] = "running" => AddrOk(settings["serve"])
    /\ at["dry"] \in {"grpc", "http"} => ~ AddrOk(settings["dry"]) \/ "dry" \in clash
    /\ at["serve"] = "bind" => ~ AddrOk(settings["serve"]) \/ "serve" \in clash

StartInv ==
    /\ StepsOK
    /\ ConfInv /\ FilesInv /\ InitKeepsExisting /\ ConfigReachesServe
    /\ LogInv /\ ProbeHarmless
    /\ PassInv /\ PortInv

SamePorts == held' = held /\ tried' = tried /\ clash' = clash
-----------------------------------------------------------------------------
LEMMA Distinct == "dry" \notin Inits /\ "serve" \notin Inits /\ "dry" \in Readers /\ "serve" \in Readers
BY InitsAssumption DEF Readers

\* What depends on the world alone does not change.
LEMMA WorldFixed ==
    ASSUME world' = world
    PROVE  /\ \A f : Fault(f)' <=> Fault(f)
           /\ \A i : Dest(i)' = Dest(i)
           /\ \A i : Profile(i)' = Profile(i)
           /\ ReadPath' = ReadPath /\ Flags' = Flags
           /\ \A path : Unforced(path)' <=> Unforced(path)
<1>1. \A f : Fault(f)' <=> Fault(f)
  BY DEF Fault
<1>2. \A i : Dest(i)' = Dest(i)
  BY DEF Dest, Flags, Env
<1>3. \A i : Profile(i)' = Profile(i)
  BY DEF Profile
<1>4. ReadPath' = ReadPath /\ Flags' = Flags
  BY DEF ReadPath, Flags, Env
<1>5. \A path : Unforced(path)' <=> Unforced(path)
  BY <1>2 DEF Unforced
<1> QED  BY <1>1, <1>2, <1>3, <1>4, <1>5

\* What the receiver has loaded is not looked at again.
LEMMA KnownFixed ==
    ASSUME world' = world, before' = before, midway' = midway, loaded'["serve"] = loaded["serve"]
    PROVE  LoadedKnown' <=> LoadedKnown
BY WorldFixed DEF LoadedKnown

\* An init without --path writes where the receiver reads.
LEMMA DestIsReadPath ==
    ASSUME NEW i \in Inits, world.inits[i].path = <<>>
    PROVE  Dest(i) = ReadPath
BY DEF Dest, ReadPath

LEMMA InitStart == Init => StartInv
<1> SUFFICES ASSUME Init PROVE StartInv
  OBVIOUS
<1>1. \A p \in Procs : pc[p] \in {"off", "absent"} /\ at[p] = "none"
  BY DEF Init, Procs
<1>2. StepsOK
  BY <1>1, Distinct DEF Init, StepsOK, Procs, DrySteps, ServeSteps, DryFails, ServeFails
<1>3. \A i \in Inits : ~ Started(i) /\ pc[i] # "ok"
  BY <1>1 DEF Started, Procs
<1>4. ConfInv /\ FilesInv /\ InitKeepsExisting
  BY <1>3 DEF Init, ConfInv, FilesInv, InitKeepsExisting
<1>5. ConfigReachesServe
  BY <1>1, Distinct DEF ConfigReachesServe, Procs
<1>6. LogInv /\ ProbeHarmless
  BY <1>1, Distinct DEF Init, LogInv, LogsOpen, Serving, ProbeHarmless, Procs
<1>7. \A p \in Readers : settings[p] = << >> /\ pc[p] \in {"off", "absent"} /\ at[p] = "none"
  BY <1>1 DEF Init, Procs
<1>8. PassInv
  BY <1>7, Distinct DEF PassInv
<1>9. PortInv
  <2>1. held["dry"] = {} /\ held["serve"] = {}
    BY Distinct DEF Init
  <2> QED  BY <1>7, <2>1, Distinct DEF PortInv, HeldOk, Serving
<1> QED  BY <1>2, <1>4, <1>5, <1>6, <1>8, <1>9 DEF StartInv
-----------------------------------------------------------------------------
\* What a step of an init leaves alone, and what it does to the processes.
InitFrame(i) ==
    /\ world' = world
    /\ loaded' = loaded /\ settings' = settings /\ before' = before /\ midway' = midway
    /\ tail' = tail /\ expired' = expired /\ writing' = writing /\ SamePorts
    /\ DOMAIN pc' = DOMAIN pc /\ DOMAIN at' = DOMAIN at
    /\ \A p \in Procs : p # i => pc'[p] = pc[p] /\ at'[p] = at[p]

LEMMA InitFrames ==
    ASSUME StepsOK, NEW i \in Inits, InitBegin(i) \/ InitOpen(i) \/ InitWrite(i)
    PROVE  InitFrame(i) /\ StepsOK'
<1>1. i \in Procs /\ pc[i] \in {"off", "open", "write"}
  BY DEF Procs, InitBegin, InitOpen, InitWrite
<1>2. Fail(i) \/ Go(i, "open") \/ Go(i, "write") \/ Go(i, "ok")
  BY DEF InitBegin, InitOpen, InitWrite
<1>3. /\ world' = world
      /\ loaded' = loaded /\ settings' = settings /\ before' = before /\ midway' = midway
      /\ tail' = tail /\ expired' = expired /\ writing' = writing /\ SamePorts
  BY DEF InitBegin, InitOpen, InitWrite, readers, logs, ports, SamePorts
<1>4. /\ DOMAIN pc' = DOMAIN pc /\ DOMAIN at' = DOMAIN at
      /\ \A p \in Procs : p # i => pc'[p] = pc[p] /\ at'[p] = at[p]
      /\ \/ pc'[i] = "failed" /\ at'[i] = pc[i]
         \/ pc'[i] \in {"open", "write", "ok"} /\ at'[i] = at[i]
  BY <1>1, <1>2 DEF Fail, Go, StepsOK
<1>5. InitFrame(i)
  BY <1>3, <1>4 DEF InitFrame
<1>6. \A p \in Procs : (at'[p] # "none") <=> (pc'[p] = "failed")
  BY <1>1, <1>4 DEF StepsOK
<1>7. /\ pc'["dry"] = pc["dry"] /\ pc'["serve"] = pc["serve"]
      /\ at'["dry"] = at["dry"] /\ at'["serve"] = at["serve"]
  BY <1>4, Distinct DEF Procs
<1> QED  BY <1>3, <1>4, <1>5, <1>6, <1>7 DEF StepsOK, SamePorts

\* Of its predicates only the world decides.
LEMMA PassFixed ==
    ASSUME world' = world
    PROVE  /\ \A s : RouterOk(s)' <=> RouterOk(s)
           /\ \A s : Opens(s)' <=> Opens(s)
           /\ \A s : PrettyOpens(s)' <=> PrettyOpens(s)
           /\ \A s : AddrOk(s)' <=> AddrOk(s)
           /\ \A s : JsonlPath(s)' = JsonlPath(s)
           /\ \A f : Fault(f)' <=> Fault(f)
BY DEF RouterOk, Opens, JsonlOpens, Lists, PrettyOpens, AddrOk, JsonlPath, Fault

\* Listeners matter only where a reader has come to them.
LEMMA PortsStay ==
    ASSUME PortInv, world' = world, SamePorts,
           \A q \in Readers :
               \/ pc'[q] = pc[q] /\ at'[q] = at[q] /\ settings'[q] = settings[q]
               \/ /\ held[q] = {}
                  /\ pc'[q] \notin {"http", "drop", "ok", "running"} /\ at'[q] \notin {"grpc", "http", "bind"}
    PROVE  PortInv'
<1>1. "dry" \in Readers /\ "serve" \in Readers
  BY Distinct
<1>2. held' = held /\ tried' = tried /\ clash' = clash
  BY DEF SamePorts
<1>3. \A q \in Readers : HeldOk(q) => HeldOk(q)'
  BY <1>2 DEF HeldOk, Addr
<1>4. \A s : AddrOk(s)' <=> AddrOk(s)
  BY PassFixed
<1>5. /\ held'["dry"] # {} => pc'["dry"] \in {"http", "drop"} \/ at'["dry"] = "http"
      /\ pc'["dry"] = "http" => held'["dry"] = {"grpc"}
      /\ pc'["dry"] \in {"drop", "ok"} => AddrOk(settings'["dry"])
      /\ at'["dry"] \in {"grpc", "http"} => ~ AddrOk(settings'["dry"]) \/ "dry" \in clash'
  BY <1>1, <1>2 DEF PortInv
<1>6. /\ held'["serve"] # {} => Serving'
      /\ at'["serve"] = "bind" => \E l \in tried' \cap Listeners : l \notin held'["serve"]
      /\ pc'["serve"] = "running" => AddrOk(settings'["serve"])
      /\ at'["serve"] = "bind" => ~ AddrOk(settings'["serve"]) \/ "serve" \in clash'
  BY <1>1, <1>2 DEF PortInv, Serving
<1> QED  BY <1>1, <1>2, <1>3, <1>4, <1>5, <1>6 DEF PortInv

\* The readers' part of the invariant does not see the inits.
LEMMA InitFrameKeeps ==
    ASSUME StepsOK, LogInv, ProbeHarmless, PassInv, PortInv, NEW i \in Inits, InitFrame(i)
    PROVE  LogInv' /\ ProbeHarmless' /\ PassInv' /\ PortInv'
<1>1. /\ pc'["dry"] = pc["dry"] /\ pc'["serve"] = pc["serve"]
      /\ at'["dry"] = at["dry"] /\ at'["serve"] = at["serve"]
      /\ \A p \in Readers : pc'[p] = pc[p] /\ at'[p] = at[p]
  BY Distinct, InitsAssumption DEF InitFrame, Procs
<1>2. /\ settings' = settings /\ tail' = tail /\ expired' = expired /\ writing' = writing /\ world' = world
  BY DEF InitFrame
<1>3. LogInv' /\ ProbeHarmless'
  BY <1>1, <1>2 DEF LogInv, LogsOpen, Serving, ProbeHarmless, JsonlPath
<1>4. PassInv'
  BY <1>1, <1>2, PassFixed DEF PassInv
<1>5. PortInv'
  BY <1>1, <1>2, PortsStay DEF InitFrame
<1> QED  BY <1>3, <1>4, <1>5

\* The names of the configuration part.
ConfPart == ConfInv /\ FilesInv /\ InitKeepsExisting /\ ConfigReachesServe

LEMMA BeginConf ==
    ASSUME StepsOK, ConfPart, NEW i \in Inits, InitBegin(i)
    PROVE  ConfPart'
<1>1. InitFrame(i)
  BY InitFrames
<1>2. /\ conf' = conf /\ world' = world /\ before' = before /\ midway' = midway /\ loaded' = loaded
      /\ pc[i] = "off"
  BY <1>1 DEF InitFrame, InitBegin
<1>3. pc'[i] \in {"failed", "open"} /\ at[i] = "none"
  BY <1>2 DEF InitBegin, Fail, Go, StepsOK, Procs
<1>4. \A j \in Inits : (Started(j)' <=> Started(j)) /\ ((pc'[j] = "ok") <=> (pc[j] = "ok"))
  BY <1>1, <1>2, <1>3 DEF InitFrame, Started, Procs
<1>5. \A j \in Inits : Alone(j)' <=> Alone(j)
  BY <1>4 DEF Alone
<1>6. pc'["serve"] = pc["serve"]
  BY <1>1, Distinct DEF InitFrame, Procs
<1>7. ConfInv'
  BY <1>2, <1>4, <1>5, WorldFixed DEF ConfPart, ConfInv
<1>8. InitKeepsExisting'
  BY <1>2, <1>4, WorldFixed DEF ConfPart, InitKeepsExisting
<1>9. ConfigReachesServe'
  <2>1. \A j \in Inits : (pc'[j] \in {"write", "ok"}) <=> (pc[j] \in {"write", "ok"})
    BY <1>4 DEF Started
  <2> QED  BY <1>2, <1>6, <2>1, WorldFixed, KnownFixed DEF ConfPart, ConfigReachesServe
<1>10. FilesInv'
  <2>1. \A j \in Inits : Midway(j) => Midway(j)'
    BY <1>1, <1>2, <1>3 DEF InitFrame, Midway, Procs
  <2> QED  BY <1>2, <1>4, <2>1, WorldFixed DEF ConfPart, FilesInv
<1> QED  BY <1>7, <1>8, <1>9, <1>10 DEF ConfPart

LEMMA OpenConf ==
    ASSUME StepsOK, ConfPart, NEW i \in Inits, InitOpen(i)
    PROVE  ConfPart'
<1>1. InitFrame(i)
  BY InitFrames
<1>2. /\ world' = world /\ before' = before /\ midway' = midway /\ loaded' = loaded
      /\ pc[i] = "open" /\ ~ Started(i) /\ ~ Midway(i)
  BY <1>1 DEF InitFrame, InitOpen, Started, Midway, StepsOK, Procs
<1>3. \A j \in Inits : j # i => pc'[j] = pc[j] /\ (Started(j)' <=> Started(j)) /\ (Midway(j)' <=> Midway(j))
  BY <1>1 DEF InitFrame, Procs, Started, Midway
<1>4. pc'["serve"] = pc["serve"]
  BY <1>1, Distinct DEF InitFrame, Procs
<1>5. CASE Dest(i) \in DOMAIN conf /\ ~ world.inits[i].force
  <2>1. pc'[i] = "failed" /\ conf' = conf
    BY <1>5 DEF InitOpen, Fail, StepsOK, Procs
  <2>2. \A j \in Inits : (Started(j)' <=> Started(j)) /\ ((pc'[j] = "ok") <=> (pc[j] = "ok"))
    BY <1>2, <1>3, <2>1 DEF Started
  <2>3. \A j \in Inits : Alone(j)' <=> Alone(j)
    BY <2>2 DEF Alone
  <2>4. ConfInv'
    BY <1>2, <2>1, <2>2, <2>3, WorldFixed DEF ConfPart, ConfInv
  <2>5. InitKeepsExisting'
    BY <1>2, <2>1, <2>2, WorldFixed DEF ConfPart, InitKeepsExisting
  <2>6. ConfigReachesServe'
    <3>1. \A j \in Inits : (pc'[j] \in {"write", "ok"}) <=> (pc[j] \in {"write", "ok"})
      BY <2>2 DEF Started
    <3> QED  BY <1>2, <1>4, <3>1, WorldFixed, KnownFixed DEF ConfPart, ConfigReachesServe
  <2>7. FilesInv'
    BY <1>2, <1>3, <2>1, <2>2, WorldFixed DEF ConfPart, FilesInv
  <2> QED  BY <2>4, <2>5, <2>6, <2>7 DEF ConfPart
<1>6. CASE ~ (Dest(i) \in DOMAIN conf /\ ~ world.inits[i].force)
  <2>1. pc'[i] = "write" /\ conf' = Put(conf, Dest(i), << >>)
    BY <1>6 DEF InitOpen, Go, StepsOK, Procs
  <2>2. /\ DOMAIN conf' = DOMAIN conf \cup {Dest(i)} /\ conf'[Dest(i)] = << >>
        /\ \A path \in DOMAIN conf : path # Dest(i) => conf'[path] = conf[path]
    BY <2>1 DEF Put
  <2>3. Unforced(Dest(i)) => Dest(i) \notin DOMAIN conf
    BY <1>6 DEF Unforced
  <2>4. Started(i)' /\ pc'[i] # "ok" /\ \A j \in Inits : (pc'[j] = "ok") <=> (pc[j] = "ok")
    BY <1>2, <1>3, <2>1 DEF Started
  <2>5. \A j \in Inits : pc'[j] = "ok" => ~ Alone(j)'
    BY <2>4 DEF Alone
  <2>6. \A path \in DOMAIN world.conf : path \in DOMAIN conf
    BY DEF ConfPart, ConfInv
  <2>7. \A j \in Inits : Started(j) => Dest(j) \in DOMAIN conf
    BY DEF ConfPart, ConfInv
  <2>8. ConfInv'
    <3>1. \A path \in DOMAIN world.conf : path \in DOMAIN conf'
      BY <2>2, <2>6
    <3>2. \A j \in Inits : Started(j)' => Dest(j) \in DOMAIN conf'
      BY <1>3, <2>2, <2>7
    <3>3. \A j \in Inits : Started(j)' /\ Unforced(Dest(j)) => Dest(j) \notin DOMAIN world.conf
      BY <1>3, <2>3, <2>6 DEF ConfPart, ConfInv
    <3>4. \A j, k \in Inits : Started(j)' /\ Started(k)' /\ Dest(j) = Dest(k) /\ Unforced(Dest(j)) => j = k
      <4> SUFFICES ASSUME NEW j \in Inits, NEW k \in Inits, Started(j)', Started(k)', Dest(j) = Dest(k),
                          Unforced(Dest(j))
                   PROVE  j = k
        OBVIOUS
      <4>1. CASE j = i \/ k = i
        BY <4>1, <1>3, <2>3, <2>7
      <4>2. CASE j # i /\ k # i
        BY <4>2, <1>3 DEF ConfPart, ConfInv
      <4> QED  BY <4>1, <4>2
    <3>5. /\ \A j \in Inits : pc'[j] = "ok" => ~ Fault("confwrite")
          /\ \A j \in before : j \in Inits /\ pc'[j] = "ok"
      BY <2>4 DEF ConfPart, ConfInv
    <3> QED  BY <1>2, <2>5, <3>1, <3>2, <3>3, <3>4, <3>5, WorldFixed DEF ConfInv
  <2>9. InitKeepsExisting'
    <3>1. \A path \in DOMAIN world.conf : Unforced(path) => conf'[path] = world.conf[path]
      BY <2>2, <2>3, <2>6 DEF ConfPart, InitKeepsExisting
    <3>2. \A j \in Inits : pc'[j] = "ok" /\ Unforced(Dest(j)) =>
             conf'[Dest(j)] = RenderConfigTemplate(Profile(j))
      <4> SUFFICES ASSUME NEW j \in Inits, pc[j] = "ok", Unforced(Dest(j))
                   PROVE  conf'[Dest(j)] = RenderConfigTemplate(Profile(j))
        BY <2>4
      <4>1. Dest(j) \in DOMAIN conf
        BY <2>7 DEF Started
      <4>2. Dest(j) # Dest(i)
        BY <4>1, <2>3
      <4> QED  BY <4>1, <4>2, <2>2 DEF ConfPart, InitKeepsExisting
    <3> QED  BY <1>2, <3>1, <3>2, WorldFixed DEF InitKeepsExisting
  <2>10. ConfigReachesServe'
    <3>1. \A k \in before : ~ (\A j \in Inits : pc'[j] \in {"write", "ok"} => j = k)
      BY <1>2, <2>1 DEF ConfPart, ConfInv
    <3> QED  BY <1>2, <1>4, <3>1, WorldFixed, KnownFixed DEF ConfPart, ConfigReachesServe
  <2>11. FilesInv'
    <3>1. Midway(i)'
      BY <2>1 DEF Midway
    <3> QED  BY <1>2, <1>3, <2>2, <2>4, <3>1, WorldFixed DEF ConfPart, FilesInv
  <2> QED  BY <2>8, <2>9, <2>10, <2>11 DEF ConfPart
<1> QED  BY <1>5, <1>6

LEMMA WriteConf ==
    ASSUME StepsOK, ConfPart, NEW i \in Inits, InitWrite(i)
    PROVE  ConfPart'
<1>1. InitFrame(i)
  BY InitFrames
<1>2. /\ world' = world /\ before' = before /\ midway' = midway /\ loaded' = loaded
      /\ pc[i] = "write" /\ Started(i)
  BY <1>1 DEF InitFrame, InitWrite, Started
<1>3. \A j \in Inits : j # i => pc'[j] = pc[j] /\ (Started(j)' <=> Started(j)) /\ (Midway(j)' <=> Midway(j))
  BY <1>1 DEF InitFrame, Procs, Started, Midway
<1>4. pc'["serve"] = pc["serve"]
  BY <1>1, Distinct DEF InitFrame, Procs
<1>5. CASE Fault("confwrite")
  <2>1. pc'[i] = "failed" /\ conf' = conf
    BY <1>5 DEF InitWrite, Fail, StepsOK, Procs
  <2>2. \A j \in Inits : pc[j] # "ok" /\ pc'[j] # "ok"
    BY <1>3, <1>5, <2>1 DEF ConfPart, ConfInv
  <2>3. before = {}
    BY <2>2 DEF ConfPart, ConfInv
  <2>4. \A j \in Inits : Started(j)' => Started(j)
    BY <1>3, <2>1 DEF Started
  <2>5. ConfInv'
    BY <1>2, <2>1, <2>2, <2>3, <2>4, WorldFixed DEF ConfPart, ConfInv
  <2>6. InitKeepsExisting'
    BY <1>2, <2>1, <2>2, WorldFixed DEF ConfPart, InitKeepsExisting
  <2>7. ConfigReachesServe'
    BY <1>2, <1>4, <2>3, WorldFixed, KnownFixed DEF ConfPart, ConfigReachesServe
  <2>8. FilesInv'
    <3>1. Midway(i)'
      BY <1>2, <1>5 DEF InitWrite, Fail, StepsOK, Procs, Midway
    <3> QED  BY <1>2, <1>3, <2>1, <2>2, <3>1, WorldFixed DEF ConfPart, FilesInv
  <2> QED  BY <2>5, <2>6, <2>7, <2>8 DEF ConfPart
<1>6. CASE ~ Fault("confwrite")
  <2>1. pc'[i] = "ok" /\ conf' = Put(conf, Dest(i), RenderConfigTemplate(Profile(i)))
    BY <1>6 DEF InitWrite, Go, StepsOK, Procs
  <2>2. /\ DOMAIN conf' = DOMAIN conf \cup {Dest(i)}
        /\ conf'[Dest(i)] = RenderConfigTemplate(Profile(i))
        /\ \A path \in DOMAIN conf : path # Dest(i) => conf'[path] = conf[path]
    BY <2>1 DEF Put
  <2>3. \A j \in Inits : Started(j)' <=> Started(j)
    BY <1>2, <1>3, <2>1 DEF Started
  <2>4. \A j \in Inits : Started(j) => Dest(j) \in DOMAIN conf
    BY DEF ConfPart, ConfInv
  <2>5. ConfInv'
    <3>1. \A path \in DOMAIN world.conf : path \in DOMAIN conf'
      BY <2>2 DEF ConfPart, ConfInv
    <3>2. \A j \in Inits : Started(j)' => Dest(j) \in DOMAIN conf'
      BY <2>2, <2>3, <2>4
    <3>3. \A j \in Inits : pc'[j] = "ok" /\ Alone(j)' => conf'[Dest(j)] = RenderConfigTemplate(Profile(j))
      <4> SUFFICES ASSUME NEW j \in Inits, Alone(j)' PROVE j = i
        BY <2>2
      <4> QED  BY <1>2, <2>3 DEF Alone
    <3>4. \A j \in before : j \in Inits /\ pc'[j] = "ok"
      BY <1>3, <2>1 DEF ConfPart, ConfInv
    <3>5. /\ \A j \in Inits : Started(j)' /\ Unforced(Dest(j)) => Dest(j) \notin DOMAIN world.conf
          /\ \A j, k \in Inits : Started(j)' /\ Started(k)' /\ Dest(j) = Dest(k) /\ Unforced(Dest(j)) => j = k
      BY <2>3 DEF ConfPart, ConfInv
    <3> QED  BY <1>2, <1>6, <3>1, <3>2, <3>3, <3>4, <3>5, WorldFixed DEF ConfInv
  <2>6. InitKeepsExisting'
    <3>1. \A path \in DOMAIN world.conf : Unforced(path) => conf'[path] = world.conf[path]
      <4> SUFFICES ASSUME NEW path \in DOMAIN world.conf, Unforced(path)
                   PROVE  conf'[path] = world.conf[path]
        OBVIOUS
      <4>1. path # Dest(i) /\ path \in DOMAIN conf
        BY <1>2 DEF ConfPart, ConfInv
      <4> QED  BY <4>1, <2>2 DEF ConfPart, InitKeepsExisting
    <3>2. \A j \in Inits : pc'[j] = "ok" /\ Unforced(Dest(j)) =>
             conf'[Dest(j)] = RenderConfigTemplate(Profile(j))
      <4> SUFFICES ASSUME NEW j \in Inits, pc'[j] = "ok", Unforced(Dest(j)), j # i
                   PROVE  conf'[Dest(j)] = RenderConfigTemplate(Profile(j))
        BY <2>2
      <4>1. pc[j] = "ok" /\ Started(j)
        BY <1>3 DEF Started
      <4>2. Dest(j) # Dest(i)
        BY <4>1, <1>2 DEF ConfPart, ConfInv
      <4> QED  BY <4>1, <4>2, <2>2, <2>4 DEF ConfPart, InitKeepsExisting
    <3> QED  BY <1>2, <3>1, <3>2, WorldFixed DEF InitKeepsExisting
  <2>7. ConfigReachesServe'
    <3>1. \A j \in Inits : (pc'[j] \in {"write", "ok"}) <=> (pc[j] \in {"write", "ok"})
      BY <2>3 DEF Started
    <3> QED  BY <1>2, <1>4, <3>1, WorldFixed, KnownFixed DEF ConfPart, ConfigReachesServe
  <2>8. FilesInv'
    BY <1>2, <1>3, <2>1, <2>2, WorldFixed DEF ConfPart, FilesInv
  <2> QED  BY <2>5, <2>6, <2>7, <2>8 DEF ConfPart
<1> QED  BY <1>5, <1>6

LEMMA InitSteps ==
    ASSUME StartInv, NEW i \in Inits, InitBegin(i) \/ InitOpen(i) \/ InitWrite(i)
    PROVE  StartInv'
<1>1. InitFrame(i) /\ StepsOK'
  BY InitFrames DEF StartInv
<1>2. LogInv' /\ ProbeHarmless' /\ PassInv' /\ PortInv'
  BY <1>1, InitFrameKeeps DEF StartInv
<1>3. ConfPart'
  BY BeginConf, OpenConf, WriteConf DEF StartInv, ConfPart
<1> QED  BY <1>1, <1>2, <1>3 DEF StartInv, ConfPart
-----------------------------------------------------------------------------
\* What a step of reader p does to the processes.
ReaderFrame(p) ==
    /\ world' = world /\ conf' = conf
    /\ DOMAIN pc' = DOMAIN pc /\ DOMAIN at' = DOMAIN at
    /\ \A q \in Procs : q # p => pc'[q] = pc[q] /\ at'[q] = at[q]

Outside == {"absent", "off", "failed"}

LEMMA GoIs ==
    ASSUME StepsOK, NEW p \in Readers, NEW step, Go(p, step), step # "failed", pc[p] # "failed"
    PROVE  /\ pc'[p] = step /\ at'[p] = "none" /\ at[p] = "none"
           /\ DOMAIN pc' = DOMAIN pc /\ DOMAIN at' = DOMAIN at
           /\ \A q \in Procs : q # p => pc'[q] = pc[q] /\ at'[q] = at[q]
           /\ \A q \in Procs : (at'[q] # "none") <=> (pc'[q] = "failed")
<1>1. p \in Procs
  BY DEF Procs
<1>2. at[p] = "none" /\ at' = at
  BY <1>1 DEF StepsOK, Go
<1>3. /\ pc'[p] = step /\ DOMAIN pc' = DOMAIN pc
      /\ \A q \in Procs : q # p => pc'[q] = pc[q]
  BY <1>1 DEF StepsOK, Go
<1> QED  BY <1>1, <1>2, <1>3 DEF StepsOK

LEMMA FailIs ==
    ASSUME StepsOK, NEW p \in Readers, Fail(p), pc[p] # "none"
    PROVE  /\ pc'[p] = "failed" /\ at'[p] = pc[p]
           /\ DOMAIN pc' = DOMAIN pc /\ DOMAIN at' = DOMAIN at
           /\ \A q \in Procs : q # p => pc'[q] = pc[q] /\ at'[q] = at[q]
           /\ \A q \in Procs : (at'[q] # "none") <=> (pc'[q] = "failed")
<1>1. p \in Procs
  BY DEF Procs
<1>2. /\ pc'[p] = "failed" /\ at'[p] = pc[p]
      /\ DOMAIN pc' = DOMAIN pc /\ DOMAIN at' = DOMAIN at
      /\ \A q \in Procs : q # p => pc'[q] = pc[q] /\ at'[q] = at[q]
  BY <1>1 DEF StepsOK, Fail
<1> QED  BY <1>1, <1>2 DEF StepsOK

\* The configuration part does not see a reader that has loaded.
LEMMA QuietConf ==
    ASSUME ConfPart, world' = world, conf' = conf, before' = before, midway' = midway,
           loaded'["serve"] = loaded["serve"],
           \A i \in Inits : pc'[i] = pc[i] /\ at'[i] = at[i],
           pc'["serve"] \notin Outside => pc["serve"] \notin Outside
    PROVE  ConfPart'
<1>1. \A i \in Inits : (Started(i)' <=> Started(i)) /\ (Alone(i)' <=> Alone(i))
  BY DEF Started, Alone
<1>2. ConfInv'
  BY <1>1, WorldFixed DEF ConfPart, ConfInv
<1>3. InitKeepsExisting'
  BY WorldFixed DEF ConfPart, InitKeepsExisting
<1>4. ConfigReachesServe'
  BY WorldFixed, KnownFixed DEF ConfPart, ConfigReachesServe, Outside
<1>5. FilesInv'
  BY WorldFixed DEF ConfPart, FilesInv, Midway
<1> QED  BY <1>2, <1>3, <1>4, <1>5 DEF ConfPart

\* Neither of them changes before the receiver opens its logs.
LEMMA QuietLogs ==
    ASSUME LogInv, ProbeHarmless, world' = world, tail' = tail, writing' = writing, expired' = expired,
           pc["serve"] \in {"off", "merge", "router"}, at["serve"] = "none",
           pc'["serve"] \in {"merge", "router", "jsonl", "failed"}, at'["serve"] # "bind"
    PROVE  LogInv' /\ ProbeHarmless'
<1>1. ~ Serving /\ ~ LogsOpen' /\ ~ Serving'
  BY DEF Serving, LogsOpen
<1> QED  BY <1>1 DEF LogInv, ProbeHarmless

LEMMA SameLogs ==
    ASSUME LogInv, ProbeHarmless, world' = world, tail' = tail, writing' = writing, expired' = expired,
           pc'["serve"] = pc["serve"], at'["serve"] = at["serve"],
           settings'["serve"] = settings["serve"]
    PROVE  LogInv' /\ ProbeHarmless'
BY PassFixed DEF LogInv, LogsOpen, Serving, ProbeHarmless

\* Config::load
LEMMA LoadStep ==
    ASSUME StartInv, NEW p \in Readers, Load(p)
    PROVE  StartInv'
<1>0. p \in Procs /\ (pc[p] # "failed" => at[p] = "none")
  BY DEF Procs, StartInv, StepsOK
<1>1. /\ pc[p] = "off" /\ world' = world /\ conf' = conf /\ settings' = settings
      /\ tail' = tail /\ expired' = expired /\ writing' = writing /\ SamePorts
  BY DEF Load, logs, ports, SamePorts
<1>2. /\ DOMAIN pc' = DOMAIN pc /\ DOMAIN at' = DOMAIN at
      /\ \A q \in Procs : q # p => pc'[q] = pc[q] /\ at'[q] = at[q]
      /\ \A q \in Procs : (at'[q] # "none") <=> (pc'[q] = "failed")
      /\ \/ pc'[p] = "merge" /\ at'[p] = "none" /\ LoadOk
            /\ loaded' = [loaded EXCEPT ![p] = Get(conf, ReadPath, << >>)]
         \/ pc'[p] = "failed" /\ at'[p] = "off" /\ loaded' = loaded
  <2>1. CASE LoadOk
    BY <1>1, <2>1, GoIs DEF StartInv, Load
  <2>2. CASE ~ LoadOk
    BY <1>1, <2>2, FailIs DEF StartInv, Load
  <2> QED  BY <2>1, <2>2
<1>3. \A i \in Inits : pc'[i] = pc[i] /\ at'[i] = at[i]
  BY <1>2, Distinct, InitsAssumption DEF Procs
<1>4. p \in {"dry", "serve"} /\ "dry" \in Procs /\ "serve" \in Procs
  BY DEF Readers, Procs
<1>5. StepsOK'
  BY <1>1, <1>2, <1>4 DEF StartInv, StepsOK, SamePorts, DrySteps, ServeSteps, DryFails, ServeFails
<1>6. LogInv' /\ ProbeHarmless'
  <2>1. CASE p = "serve"
    BY <1>0, <1>1, <1>2, <2>1, QuietLogs DEF StartInv
  <2>2. CASE p = "dry"
    BY <1>1, <1>2, <1>4, <2>2, SameLogs DEF StartInv
  <2> QED  BY <1>4, <2>1, <2>2
<1>7. PassInv'
  BY <1>1, <1>2, <1>4, PassFixed DEF StartInv, PassInv, Readers
<1>8. ConfPart'
  <2>1. CASE p = "dry"
    <3>1. before' = before /\ midway' = midway /\ loaded'["serve"] = loaded["serve"] /\ pc'["serve"] = pc["serve"]
      <4>1. before' = before /\ midway' = midway
        BY <2>1 DEF Load
      <4>2. DOMAIN loaded = Readers /\ "serve" \in Readers
        BY Distinct DEF StartInv, StepsOK
      <4>3. loaded'["serve"] = loaded["serve"]
        BY <1>2, <2>1, <4>2
      <4> QED  BY <1>2, <1>4, <2>1, <4>1, <4>3
    <3> QED  BY <1>1, <1>3, <3>1, QuietConf DEF StartInv, ConfPart
  <2>2. CASE p = "serve"
    <3>1. before' = {i \in Inits : pc[i] = "ok"} /\ midway' = {i \in Inits : Midway(i)}
      BY <2>2 DEF Load
    <3>2. \A i \in Inits : (Started(i)' <=> Started(i)) /\ (Alone(i)' <=> Alone(i))
      BY <1>3 DEF Started, Alone
    <3>3. ConfInv'
      BY <1>1, <1>3, <3>1, <3>2, WorldFixed DEF StartInv, ConfInv
    <3>4. InitKeepsExisting'
      BY <1>1, <1>3, WorldFixed DEF StartInv, InitKeepsExisting
    <3>5. FilesInv'
      BY <1>1, <1>3, WorldFixed DEF StartInv, FilesInv, Midway
    <3>6. CASE pc'["serve"] = "failed"
      BY <3>3, <3>4, <3>6, <3>5 DEF ConfPart, ConfigReachesServe
    <3>7. CASE pc'["serve"] = "merge"
      <4>1. loaded'["serve"] = Get(conf, ReadPath, << >>)
        BY <1>2, <1>4, <2>2, <3>7 DEF StartInv, StepsOK
      <4>2. ReadPath \in DOMAIN conf => loaded'["serve"] = conf[ReadPath]
        BY <4>1 DEF Get
      <4>3. ReadPath \in DOMAIN world.conf /\ Unforced(ReadPath) => loaded'["serve"] = world.conf[ReadPath]
        BY <4>2 DEF StartInv, ConfInv, InitKeepsExisting
      <4>4. \A i \in before' :
               /\ world.inits[i].path = <<>>
               /\ \A j \in Inits : pc[j] \in {"write", "ok"} => j = i
               => loaded'["serve"] = RenderConfigTemplate(Profile(i))
        <5> SUFFICES ASSUME NEW i \in Inits, pc[i] = "ok", world.inits[i].path = <<>>,
                            \A j \in Inits : pc[j] \in {"write", "ok"} => j = i
                     PROVE  loaded'["serve"] = RenderConfigTemplate(Profile(i))
          BY <3>1
        <5>1. Started(i) /\ Alone(i)
          BY DEF Started, Alone
        <5>2. Dest(i) \in DOMAIN conf /\ conf[Dest(i)] = RenderConfigTemplate(Profile(i))
          BY <5>1 DEF StartInv, ConfInv
        <5> QED  BY <5>2, <4>2, DestIsReadPath
      <4>5. LoadedKnown'
        <5>1. CASE ReadPath \in DOMAIN conf
          BY <5>1, <1>1, <3>1, <4>2, WorldFixed DEF StartInv, FilesInv, LoadedKnown
        <5>2. CASE ReadPath \notin DOMAIN conf
          <6>1. loaded'["serve"] = << >> /\ ReadPath \notin DOMAIN world.conf
            BY <5>2, <4>1 DEF Get, StartInv, ConfInv
          <6>2. "config" \notin DOMAIN Flags
            BY <5>2, <1>2, <2>2, <3>7 DEF LoadOk
          <6> QED  BY <6>1, <6>2, <1>1, WorldFixed DEF LoadedKnown
        <5> QED  BY <5>1, <5>2
      <4>6. ConfigReachesServe'
        BY <1>1, <1>3, <4>3, <4>4, <4>5, WorldFixed DEF ConfigReachesServe
      <4> QED  BY <3>3, <3>4, <3>5, <4>6 DEF ConfPart
    <3> QED  BY <1>2, <2>2, <3>6, <3>7
  <2> QED  BY <1>4, <2>1, <2>2
<1>9. PortInv'
  <2>1. held[p] = {}
    BY <1>0, <1>1, <1>4 DEF StartInv, PortInv, Serving
  <2> QED  BY <1>1, <1>2, <1>4, <2>1, PortsStay DEF StartInv, Readers
<1> QED  BY <1>5, <1>6, <1>7, <1>8, <1>9 DEF StartInv, ConfPart

\* Settings::merge
LEMMA MergeStep ==
    ASSUME StartInv, NEW p \in Readers, MergeSettings(p)
    PROVE  StartInv'
<1>0. p \in Procs /\ (pc[p] # "failed" => at[p] = "none")
  BY DEF Procs, StartInv, StepsOK
<1>1. /\ pc[p] = "merge" /\ world' = world /\ conf' = conf /\ loaded' = loaded /\ before' = before /\ midway' = midway
      /\ tail' = tail /\ expired' = expired /\ writing' = writing /\ SamePorts
  BY DEF MergeSettings, logs, ports, SamePorts
<1>2. /\ DOMAIN pc' = DOMAIN pc /\ DOMAIN at' = DOMAIN at
      /\ \A q \in Procs : q # p => pc'[q] = pc[q] /\ at'[q] = at[q]
      /\ \A q \in Procs : (at'[q] # "none") <=> (pc'[q] = "failed")
      /\ \/ pc'[p] = "router" /\ at'[p] = "none"
         \/ pc'[p] = "failed" /\ at'[p] = "merge" /\ settings' = settings
      /\ DOMAIN settings' = DOMAIN settings
      /\ \A q \in Readers : q # p => settings'[q] = settings[q]
  <2>1. CASE Mergeable(Flags, loaded[p], Env)
    <3>1. Go(p, "router") /\ \E s : settings' = [settings EXCEPT ![p] = s]
      BY <2>1 DEF MergeSettings
    <3>2. /\ pc'[p] = "router" /\ at'[p] = "none"
          /\ DOMAIN pc' = DOMAIN pc /\ DOMAIN at' = DOMAIN at
          /\ \A q \in Procs : q # p => pc'[q] = pc[q] /\ at'[q] = at[q]
          /\ \A q \in Procs : (at'[q] # "none") <=> (pc'[q] = "failed")
      BY <1>1, <3>1, GoIs DEF StartInv
    <3>3. DOMAIN settings = Readers
      BY DEF StartInv, StepsOK
    <3> QED  BY <3>1, <3>2, <3>3
  <2>2. CASE ~ Mergeable(Flags, loaded[p], Env)
    BY <1>1, <2>2, FailIs DEF StartInv, MergeSettings
  <2> QED  BY <2>1, <2>2
<1>3. \A i \in Inits : pc'[i] = pc[i] /\ at'[i] = at[i]
  BY <1>2, Distinct, InitsAssumption DEF Procs
<1>4. p \in {"dry", "serve"} /\ "dry" \in Procs /\ "serve" \in Procs /\ "dry" \in Readers /\ "serve" \in Readers
  BY DEF Readers, Procs
<1>5. StepsOK'
  BY <1>1, <1>2, <1>4 DEF StartInv, StepsOK, SamePorts, DrySteps, ServeSteps, DryFails, ServeFails
<1>6. LogInv' /\ ProbeHarmless'
  <2>1. CASE p = "serve"
    BY <1>0, <1>1, <1>2, <2>1, QuietLogs DEF StartInv
  <2>2. CASE p = "dry"
    BY <1>1, <1>2, <1>4, <2>2, SameLogs DEF StartInv
  <2> QED  BY <1>4, <2>1, <2>2
<1>7. PassInv'
  BY <1>1, <1>2, <1>4, PassFixed DEF StartInv, PassInv, Readers
<1>8. pc'["serve"] \notin Outside => pc["serve"] \notin Outside
  BY <1>1, <1>2, <1>4 DEF Outside
<1>9. ConfPart'
  BY <1>1, <1>3, <1>8, QuietConf DEF StartInv, ConfPart
<1>10. PortInv'
  <2>1. held[p] = {}
    BY <1>0, <1>1, <1>4 DEF StartInv, PortInv, Serving
  <2> QED  BY <1>1, <1>2, <1>4, <2>1, PortsStay DEF StartInv, Readers
<1> QED  BY <1>5, <1>6, <1>7, <1>9, <1>10 DEF StartInv, ConfPart

\* spawn_router
LEMMA RouterStep ==
    ASSUME StartInv, NEW p \in Readers, SpawnRouter(p)
    PROVE  StartInv'
<1>0. p \in Procs /\ (pc[p] # "failed" => at[p] = "none")
  BY DEF Procs, StartInv, StepsOK
<1>1. /\ pc[p] = "router" /\ world' = world /\ conf' = conf /\ loaded' = loaded /\ before' = before /\ midway' = midway
      /\ settings' = settings
      /\ tail' = tail /\ expired' = expired /\ writing' = writing /\ SamePorts
  BY DEF SpawnRouter, logs, readers, ports, SamePorts
<1>2. /\ DOMAIN pc' = DOMAIN pc /\ DOMAIN at' = DOMAIN at
      /\ \A q \in Procs : q # p => pc'[q] = pc[q] /\ at'[q] = at[q]
      /\ \A q \in Procs : (at'[q] # "none") <=> (pc'[q] = "failed")
      /\ \/ pc'[p] = (IF p = "dry" THEN "probe" ELSE "jsonl") /\ at'[p] = "none" /\ RouterOk(settings[p])
         \/ pc'[p] = "failed" /\ at'[p] = "router" /\ ~ RouterOk(settings[p])
  <2>1. CASE RouterOk(settings[p])
    <3>1. Go(p, IF p = "dry" THEN "probe" ELSE "jsonl")
      BY <2>1 DEF SpawnRouter, RouterOk
    <3> QED  BY <1>1, <2>1, <3>1, GoIs DEF StartInv
  <2>2. CASE ~ RouterOk(settings[p])
    <3>1. Fail(p)
      BY <2>2 DEF SpawnRouter, RouterOk
    <3> QED  BY <1>1, <2>2, <3>1, FailIs DEF StartInv
  <2> QED  BY <2>1, <2>2
<1>3. \A i \in Inits : pc'[i] = pc[i] /\ at'[i] = at[i]
  BY <1>2, Distinct, InitsAssumption DEF Procs
<1>4. p \in {"dry", "serve"} /\ "dry" \in Procs /\ "serve" \in Procs /\ "dry" \in Readers /\ "serve" \in Readers
  BY DEF Readers, Procs
<1>5. StepsOK'
  BY <1>1, <1>2, <1>4 DEF StartInv, StepsOK, SamePorts, DrySteps, ServeSteps, DryFails, ServeFails
<1>6. LogInv' /\ ProbeHarmless'
  <2>1. CASE p = "serve"
    BY <1>0, <1>1, <1>2, <2>1, QuietLogs DEF StartInv
  <2>2. CASE p = "dry"
    BY <1>1, <1>2, <1>4, <2>2, SameLogs DEF StartInv
  <2> QED  BY <1>4, <2>1, <2>2
<1>7. PassInv'
  BY <1>1, <1>2, <1>4, PassFixed DEF StartInv, PassInv, Readers
<1>8. pc'["serve"] \notin Outside => pc["serve"] \notin Outside
  BY <1>1, <1>2, <1>4 DEF Outside
<1>9. ConfPart'
  BY <1>1, <1>3, <1>8, QuietConf DEF StartInv, ConfPart
<1>10. PortInv'
  <2>1. held[p] = {}
    BY <1>0, <1>1, <1>4 DEF StartInv, PortInv, Serving
  <2> QED  BY <1>1, <1>2, <1>4, <2>1, PortsStay DEF StartInv, Readers
<1> QED  BY <1>5, <1>6, <1>7, <1>9, <1>10 DEF StartInv, ConfPart
-----------------------------------------------------------------------------
\* What the steps of the dry run leave alone.
LEMMA DryKeeps ==
    ASSUME StartInv, world' = world, conf' = conf, loaded' = loaded, before' = before, midway' = midway,
           settings' = settings, held' \in [Readers -> SUBSET Listeners],
           DOMAIN pc' = DOMAIN pc, DOMAIN at' = DOMAIN at,
           \A q \in Procs : q # "dry" => pc'[q] = pc[q] /\ at'[q] = at[q],
           \A q \in Procs : (at'[q] # "none") <=> (pc'[q] = "failed"),
           pc'["dry"] \in DrySteps, at'["dry"] \in DryFails \cup {"none"}
    PROVE  StepsOK' /\ ConfPart' /\ pc'["serve"] = pc["serve"] /\ at'["serve"] = at["serve"]
<1>1. /\ pc'["serve"] = pc["serve"] /\ at'["serve"] = at["serve"]
      /\ \A i \in Inits : pc'[i] = pc[i] /\ at'[i] = at[i]
  BY Distinct DEF Procs
<1>2. StepsOK'
  BY <1>1 DEF StartInv, StepsOK
<1>3. ConfPart'
  BY <1>1, QuietConf DEF StartInv, ConfPart
<1> QED  BY <1>1, <1>2, <1>3

\* What is held stays of its type.
LEMMA HeldType ==
    ASSUME StepsOK
    PROVE  /\ held \in [Readers -> SUBSET Listeners]
           /\ \A p \in Readers, ls \in SUBSET Listeners : [held EXCEPT ![p] = ls] \in [Readers -> SUBSET Listeners]
<1>1. held \in [Readers -> SUBSET Listeners]
  BY DEF StepsOK
<1> QED  BY <1>1

\* probe_settings
LEMMA ProbeStep == ASSUME StartInv, Probe PROVE StartInv'
<1> DEFINE s == settings["dry"]
<1>0. "dry" \in Readers /\ pc["dry"] = "probe" /\ "dry" \in Procs
  BY DEF Probe, Readers, Procs
<1>1. /\ world' = world /\ conf' = conf /\ loaded' = loaded /\ before' = before /\ midway' = midway
      /\ settings' = settings /\ expired' = expired /\ writing' = writing /\ SamePorts
  BY DEF Probe, readers, ports, SamePorts
<1>2. /\ DOMAIN pc' = DOMAIN pc /\ DOMAIN at' = DOMAIN at
      /\ \A q \in Procs : q # "dry" => pc'[q] = pc[q] /\ at'[q] = at[q]
      /\ \A q \in Procs : (at'[q] # "none") <=> (pc'[q] = "failed")
      /\ \/ pc'["dry"] = "grpc" /\ at'["dry"] = "none" /\ Opens(s) /\ PrettyOpens(s)
         \/ pc'["dry"] = "failed" /\ at'["dry"] = "probe" /\ ~ (Opens(s) /\ PrettyOpens(s))
  <2>1. CASE Opens(s) /\ PrettyOpens(s)
    <3>1. Go("dry", "grpc")
      BY <2>1 DEF Probe, Opens
    <3> QED  BY <1>0, <2>1, <3>1, GoIs DEF StartInv
  <2>2. CASE ~ (Opens(s) /\ PrettyOpens(s))
    <3>1. Fail("dry")
      BY <2>2 DEF Probe, Opens
    <3> QED  BY <1>0, <2>2, <3>1, FailIs DEF StartInv
  <2> QED  BY <2>1, <2>2
<1>3. StepsOK' /\ ConfPart' /\ pc'["serve"] = pc["serve"] /\ at'["serve"] = at["serve"]
  <2>1. held' \in [Readers -> SUBSET Listeners]
    BY <1>1, HeldType DEF StartInv, SamePorts
  <2> QED  BY <1>0, <1>1, <1>2, <2>1, DryKeeps DEF DrySteps, DryFails
<1>4. \A f \in DOMAIN tail : f \in DOMAIN tail' /\ tail'[f] = tail[f]
  <2>1. \E fs : tail' = Made(fs)
    BY DEF Probe
  <2> QED  BY <2>1 DEF Made, Get
<1>5. LogInv'
  BY <1>1, <1>3, <1>4, PassFixed DEF StartInv, LogInv, LogsOpen, Serving
<1>6. ProbeHarmless'
  BY <1>1, <1>3, <1>4, PassFixed DEF StartInv, LogInv, LogsOpen, Serving, ProbeHarmless
<1>7. PassInv'
  BY <1>0, <1>1, <1>2, <1>3, PassFixed DEF StartInv, PassInv, Readers
<1>8. PortInv'
  <2>1. held["dry"] = {}
    BY <1>0 DEF StartInv, StepsOK, PortInv
  <2> QED  BY <1>1, <1>2, <1>3, <2>1, PortsStay DEF StartInv, Readers
<1> QED  BY <1>3, <1>5, <1>6, <1>7, <1>8 DEF StartInv, ConfPart

\* A refused bind stops the reader where it is and is counted as a clash if the
\* other reader holds the address.
LEMMA RefusedIs ==
    ASSUME StepsOK, NEW p \in Readers, NEW addr, Refused(p, addr), pc[p] # "none", ~ Free(addr)
    PROVE  /\ pc'[p] = "failed" /\ at'[p] = pc[p] /\ held' = held
           /\ DOMAIN pc' = DOMAIN pc /\ DOMAIN at' = DOMAIN at
           /\ \A q \in Procs : q # p => pc'[q] = pc[q] /\ at'[q] = at[q]
           /\ \A q \in Procs : (at'[q] # "none") <=> (pc'[q] = "failed")
           /\ addr \in world.busy \/ addr \in Held(p) \/ p \in clash'
           /\ \A q \in Readers : q # p => (q \in clash' <=> q \in clash)
<1>1. Fail(p) /\ held' = held
  BY DEF Refused
<1>2. addr \in world.busy \/ addr \in Held(p) \/ p \in clash'
  <2>1. PICK q \in Readers : addr \in world.busy \cup Held(q)
    BY DEF Free
  <2> QED  BY <2>1 DEF Refused
<1>3. \A q \in Readers : q # p => (q \in clash' <=> q \in clash)
  BY DEF Refused
<1> QED  BY <1>1, <1>2, <1>3, FailIs

\* The port part of a step of the dry run, whose receiver stays as it is.
LEMMA DryPorts ==
    ASSUME StartInv, world' = world, settings' = settings, tried' = tried,
           pc'["serve"] = pc["serve"], at'["serve"] = at["serve"], held'["serve"] = held["serve"],
           "serve" \in clash' <=> "serve" \in clash,
           held'["dry"] # {} => pc'["dry"] \in {"http", "drop"} \/ at'["dry"] = "http",
           pc'["dry"] = "http" => held'["dry"] = {"grpc"},
           HeldOk("dry")',
           pc'["dry"] \in {"drop", "ok"} => AddrOk(settings["dry"]),
           at'["dry"] \in {"grpc", "http"} => ~ AddrOk(settings["dry"]) \/ "dry" \in clash'
    PROVE  PortInv'
<1>1. \A s : AddrOk(s)' <=> AddrOk(s)
  BY PassFixed
<1>2. HeldOk("serve")'
  BY DEF StartInv, PortInv, HeldOk, Addr
<1> QED  BY <1>1, <1>2 DEF StartInv, PortInv, Serving

\* probe_binds takes the gRPC address.
LEMMA GrpcStep == ASSUME StartInv, ProbeGrpc PROVE StartInv'
<1> DEFINE s == settings["dry"]
<1>0. "dry" \in Readers /\ pc["dry"] = "grpc" /\ "dry" \in Procs /\ "serve" \in Readers
  BY DEF ProbeGrpc, Readers, Procs
<1>1. /\ world' = world /\ conf' = conf /\ loaded' = loaded /\ before' = before /\ midway' = midway
      /\ settings' = settings /\ tail' = tail /\ expired' = expired /\ writing' = writing /\ tried' = tried
  BY DEF ProbeGrpc, readers, logs
<1>2. held["dry"] = {} /\ at["dry"] = "none"
  BY <1>0 DEF StartInv, StepsOK, PortInv
<1>3. /\ DOMAIN pc' = DOMAIN pc /\ DOMAIN at' = DOMAIN at
      /\ \A q \in Procs : q # "dry" => pc'[q] = pc[q] /\ at'[q] = at[q]
      /\ \A q \in Procs : (at'[q] # "none") <=> (pc'[q] = "failed")
      /\ \/ /\ pc'["dry"] = "http" /\ at'["dry"] = "none" /\ Free(s.grpc_addr)
            /\ held' = [held EXCEPT !["dry"] = {"grpc"}] /\ clash' = clash
         \/ /\ pc'["dry"] = "failed" /\ at'["dry"] = "grpc" /\ held' = held
            /\ s.grpc_addr \in world.busy \/ s.grpc_addr \in Held("dry") \/ "dry" \in clash'
            /\ "serve" \in clash' <=> "serve" \in clash
  <2>1. CASE Free(s.grpc_addr)
    <3>1. Go("dry", "http") /\ clash' = clash /\ Hold("dry", "grpc")
      BY <2>1 DEF ProbeGrpc
    <3>2. held' = [held EXCEPT !["dry"] = {"grpc"}]
      BY <1>2, <3>1 DEF Hold
    <3> QED  BY <1>0, <2>1, <3>1, <3>2, GoIs DEF StartInv
  <2>2. CASE ~ Free(s.grpc_addr)
    <3>1. Refused("dry", s.grpc_addr)
      BY <2>2 DEF ProbeGrpc
    <3> QED  BY <1>0, <2>2, <3>1, RefusedIs DEF StartInv
  <2> QED  BY <2>1, <2>2
<1>4. StepsOK' /\ ConfPart' /\ pc'["serve"] = pc["serve"] /\ at'["serve"] = at["serve"]
  <2>1. held' \in [Readers -> SUBSET Listeners]
    BY <1>0, <1>3, HeldType DEF StartInv, Listeners
  <2> QED  BY <1>0, <1>1, <1>3, <2>1, DryKeeps DEF DrySteps, DryFails
<1>5. LogInv' /\ ProbeHarmless'
  BY <1>1, <1>4, SameLogs DEF StartInv
<1>6. PassInv'
  BY <1>0, <1>1, <1>3, <1>4, PassFixed DEF StartInv, PassInv, Readers
<1>7. PortInv'
  <2>1. held'["serve"] = held["serve"] /\ held'["dry"] \in {{}, {"grpc"}}
        /\ (held'["dry"] # {} => pc'["dry"] = "http" /\ Free(s.grpc_addr))
        /\ (pc'["dry"] = "http" => held'["dry"] = {"grpc"})
    BY <1>0, <1>2, <1>3, HeldType DEF StartInv
  <2>2. HeldOk("dry")'
    BY <1>0, <1>1, <2>1 DEF HeldOk, Addr, Free
  <2>3. at'["dry"] \in {"grpc", "http"} => ~ AddrOk(s) \/ "dry" \in clash'
    BY <1>2, <1>3 DEF AddrOk, Held
  <2> QED  BY <1>1, <1>3, <1>4, <2>1, <2>2, <2>3, DryPorts
<1> QED  BY <1>4, <1>5, <1>6, <1>7 DEF StartInv, ConfPart

\* Then the HTTP address, with the first one still held.
LEMMA HttpStep == ASSUME StartInv, ProbeHttp PROVE StartInv'
<1> DEFINE s == settings["dry"]
<1>0. "dry" \in Readers /\ pc["dry"] = "http" /\ "dry" \in Procs /\ "serve" \in Readers
  BY DEF ProbeHttp, Readers, Procs
<1>1. /\ world' = world /\ conf' = conf /\ loaded' = loaded /\ before' = before /\ midway' = midway
      /\ settings' = settings /\ tail' = tail /\ expired' = expired /\ writing' = writing /\ tried' = tried
  BY DEF ProbeHttp, readers, logs
<1>2. held["dry"] = {"grpc"} /\ at["dry"] = "none" /\ s.grpc_addr \notin world.busy
  BY <1>0 DEF StartInv, StepsOK, PortInv, HeldOk, Addr
<1>3. Held("dry") = {s.grpc_addr} \ {"0"}
  BY <1>2 DEF Held, Addr
<1>4. /\ DOMAIN pc' = DOMAIN pc /\ DOMAIN at' = DOMAIN at
      /\ \A q \in Procs : q # "dry" => pc'[q] = pc[q] /\ at'[q] = at[q]
      /\ \A q \in Procs : (at'[q] # "none") <=> (pc'[q] = "failed")
      /\ \/ /\ pc'["dry"] = "drop" /\ at'["dry"] = "none" /\ Free(s.http_addr)
            /\ held' = [held EXCEPT !["dry"] = {"grpc", "http"}] /\ clash' = clash
         \/ /\ pc'["dry"] = "failed" /\ at'["dry"] = "http" /\ held' = held
            /\ s.http_addr \in world.busy \/ s.http_addr \in Held("dry") \/ "dry" \in clash'
            /\ "serve" \in clash' <=> "serve" \in clash
  <2>1. CASE Free(s.http_addr)
    <3>1. Go("dry", "drop") /\ clash' = clash /\ Hold("dry", "http")
      BY <2>1 DEF ProbeHttp
    <3>2. held["dry"] \cup {"http"} = {"grpc", "http"}
      BY <1>2
    <3>3. held' = [held EXCEPT !["dry"] = {"grpc", "http"}]
      BY <3>1, <3>2 DEF Hold
    <3> QED  BY <1>0, <2>1, <3>1, <3>3, GoIs DEF StartInv
  <2>2. CASE ~ Free(s.http_addr)
    <3>1. Refused("dry", s.http_addr)
      BY <2>2 DEF ProbeHttp
    <3> QED  BY <1>0, <2>2, <3>1, RefusedIs DEF StartInv
  <2> QED  BY <2>1, <2>2
<1>5. StepsOK' /\ ConfPart' /\ pc'["serve"] = pc["serve"] /\ at'["serve"] = at["serve"]
  <2>1. held' \in [Readers -> SUBSET Listeners]
    BY <1>0, <1>4, HeldType DEF StartInv, Listeners
  <2> QED  BY <1>0, <1>1, <1>4, <2>1, DryKeeps DEF DrySteps, DryFails
<1>6. LogInv' /\ ProbeHarmless'
  BY <1>1, <1>5, SameLogs DEF StartInv
<1>7. PassInv'
  BY <1>0, <1>1, <1>4, <1>5, PassFixed DEF StartInv, PassInv, Readers
<1>8. PortInv'
  <2>1. /\ held'["serve"] = held["serve"]
        /\ held'["dry"] \subseteq {"grpc", "http"}
        /\ "http" \in held'["dry"] => pc'["dry"] = "drop"
    BY <1>0, <1>2, <1>4, HeldType DEF StartInv
  <2>2. pc'["dry"] = "drop" => AddrOk(s)
    BY <1>0, <1>2, <1>3, <1>4 DEF Free, AddrOk
  <2>3. HeldOk("dry")'
    <3>1. CASE pc'["dry"] = "drop"
      BY <1>1, <2>1, <2>2, <3>1 DEF HeldOk, Addr, AddrOk
    <3>2. CASE pc'["dry"] # "drop"
      <4>1. held'["dry"] \subseteq {"grpc"}
        BY <2>1, <3>2
      <4> QED  BY <1>1, <1>2, <4>1 DEF HeldOk, Addr
    <3> QED  BY <3>1, <3>2
  <2>4. at'["dry"] \in {"grpc", "http"} => ~ AddrOk(s) \/ "dry" \in clash'
    BY <1>3, <1>4 DEF AddrOk
  <2> QED  BY <1>1, <1>4, <1>5, <2>1, <2>2, <2>3, <2>4, DryPorts
<1> QED  BY <1>5, <1>6, <1>7, <1>8 DEF StartInv, ConfPart

\* Fewer listeners are held the same way.
LEMMA FewerHeld ==
    ASSUME NEW p \in Readers, HeldOk(p), held'[p] \subseteq held[p], world' = world, settings' = settings
    PROVE  HeldOk(p)'
BY DEF HeldOk, Addr

\* The listeners are dropped and the dry run ends.
LEMMA ProbeDropStep == ASSUME StartInv, ProbeDrop PROVE StartInv'
<1>0. "dry" \in Readers /\ pc["dry"] = "drop" /\ "dry" \in Procs /\ "serve" \in Readers
  BY DEF ProbeDrop, Readers, Procs
<1>1. /\ world' = world /\ conf' = conf /\ loaded' = loaded /\ before' = before /\ midway' = midway
      /\ settings' = settings /\ tail' = tail /\ expired' = expired /\ writing' = writing
      /\ tried' = tried /\ clash' = clash
  BY DEF ProbeDrop, readers, logs
<1>2. held \in [Readers -> SUBSET Listeners]
  BY HeldType DEF StartInv
<1>3. /\ DOMAIN pc' = DOMAIN pc /\ DOMAIN at' = DOMAIN at
      /\ \A q \in Procs : q # "dry" => pc'[q] = pc[q] /\ at'[q] = at[q]
      /\ \A q \in Procs : (at'[q] # "none") <=> (pc'[q] = "failed")
      /\ at'["dry"] = "none"
      /\ \/ pc'["dry"] = "drop" /\ held' = [held EXCEPT !["dry"] = held["dry"] \ {"http"}]
         \/ pc'["dry"] = "ok" /\ held' = [held EXCEPT !["dry"] = {}]
  <2>1. CASE "http" \in held["dry"]
    <3>1. pc' = pc /\ at' = at /\ held' = [held EXCEPT !["dry"] = held["dry"] \ {"http"}]
      BY <2>1 DEF ProbeDrop
    <3> QED  BY <1>0, <3>1 DEF StartInv, StepsOK
  <2>2. CASE "http" \notin held["dry"]
    <3>1. Go("dry", "ok") /\ held' = [held EXCEPT !["dry"] = {}]
      BY <2>2 DEF ProbeDrop
    <3> QED  BY <1>0, <3>1, GoIs DEF StartInv
  <2> QED  BY <2>1, <2>2
<1>4. held' \in [Readers -> SUBSET Listeners] /\ held'["serve"] = held["serve"] /\ held'["dry"] \subseteq held["dry"]
      /\ (pc'["dry"] = "ok" => held'["dry"] = {})
  BY <1>0, <1>2, <1>3
<1>5. StepsOK' /\ ConfPart' /\ pc'["serve"] = pc["serve"] /\ at'["serve"] = at["serve"]
  BY <1>0, <1>1, <1>3, <1>4, DryKeeps DEF DrySteps, DryFails
<1>6. LogInv' /\ ProbeHarmless'
  BY <1>1, <1>5, SameLogs DEF StartInv
<1>7. PassInv'
  BY <1>0, <1>1, <1>3, <1>5, PassFixed DEF StartInv, PassInv, Readers
<1>8. PortInv'
  <2>1. HeldOk("dry")' /\ AddrOk(settings["dry"])
    BY <1>0, <1>1, <1>4, FewerHeld DEF StartInv, PortInv
  <2> QED  BY <1>0, <1>1, <1>3, <1>4, <1>5, <2>1, DryPorts
<1> QED  BY <1>5, <1>6, <1>7, <1>8 DEF StartInv, ConfPart

\* A process that has failed drops a listener.
LEMMA DropStep == ASSUME StartInv, NEW p \in Readers, NEW l \in Listeners, Drop(p, l) PROVE StartInv'
<1>1. /\ world' = world /\ conf' = conf /\ loaded' = loaded /\ before' = before /\ midway' = midway
      /\ settings' = settings /\ tail' = tail /\ expired' = expired /\ writing' = writing
      /\ tried' = tried /\ clash' = clash /\ pc' = pc /\ at' = at /\ pc[p] = "failed"
      /\ held' = [held EXCEPT ![p] = held[p] \ {l}]
  BY DEF Drop, readers, logs
<1>2. held \in [Readers -> SUBSET Listeners]
  BY HeldType DEF StartInv
<1>3. held' \in [Readers -> SUBSET Listeners] /\ \A q \in Readers : held'[q] \subseteq held[q]
  BY <1>1, <1>2
<1>4. StepsOK'
  BY <1>1, <1>3 DEF StartInv, StepsOK
<1>5. ConfPart'
  BY <1>1, QuietConf DEF StartInv, ConfPart
<1>6. LogInv' /\ ProbeHarmless'
  BY <1>1, SameLogs DEF StartInv
<1>7. PassInv'
  BY <1>1, PassFixed DEF StartInv, PassInv
<1>8. PortInv'
  <2>1. "dry" \in Readers /\ "serve" \in Readers /\ p \in {"dry", "serve"}
    BY DEF Readers
  <2>2. HeldOk("dry")' /\ HeldOk("serve")'
    BY <1>1, <1>3, <2>1, FewerHeld DEF StartInv, PortInv
  <2>3. pc'["dry"] = "http" => held'["dry"] = {"grpc"}
    BY <1>1, <1>2, <2>1 DEF StartInv, PortInv
  <2>4. held'["dry"] \subseteq held["dry"] /\ held'["serve"] \subseteq held["serve"]
    BY <1>3, <2>1
  <2>5. \A s : AddrOk(s)' <=> AddrOk(s)
    BY <1>1, PassFixed
  <2> QED  BY <1>1, <2>2, <2>3, <2>4, <2>5 DEF StartInv, PortInv, Serving
<1> QED  BY <1>4, <1>5, <1>6, <1>7, <1>8 DEF StartInv, ConfPart
-----------------------------------------------------------------------------
\* What the steps of the receiver leave alone.
LEMMA ServeKeeps ==
    ASSUME StartInv, world' = world, conf' = conf, loaded' = loaded, before' = before, midway' = midway,
           settings' = settings, held' \in [Readers -> SUBSET Listeners],
           pc'["serve"] \notin Outside => pc["serve"] \notin Outside,
           DOMAIN pc' = DOMAIN pc, DOMAIN at' = DOMAIN at,
           \A q \in Procs : q # "serve" => pc'[q] = pc[q] /\ at'[q] = at[q],
           \A q \in Procs : (at'[q] # "none") <=> (pc'[q] = "failed"),
           pc'["serve"] \in ServeSteps, at'["serve"] \in ServeFails \cup {"none"}
    PROVE  StepsOK' /\ ConfPart' /\ pc'["dry"] = pc["dry"] /\ at'["dry"] = at["dry"]
<1>1. /\ pc'["dry"] = pc["dry"] /\ at'["dry"] = at["dry"]
      /\ \A i \in Inits : pc'[i] = pc[i] /\ at'[i] = at[i]
  BY Distinct DEF Procs
<1>2. StepsOK'
  BY <1>1 DEF StartInv, StepsOK
<1>3. ConfPart'
  BY <1>1, QuietConf DEF StartInv, ConfPart
<1> QED  BY <1>1, <1>2, <1>3

\* The JSON lines are opened.
LEMMA JsonlStep == ASSUME StartInv, OpenJsonl PROVE StartInv'
<1> DEFINE s == settings["serve"]
           opened == JsonlOpens(s) /\ Lists(s) /\ CleansUp(s)
<1>0. "serve" \in Readers /\ pc["serve"] = "jsonl" /\ "serve" \in Procs
  BY DEF OpenJsonl, Readers, Procs
<1>1. /\ world' = world /\ conf' = conf /\ loaded' = loaded /\ before' = before /\ midway' = midway
      /\ settings' = settings /\ writing' = writing /\ SamePorts
  BY DEF OpenJsonl, readers, ports, SamePorts
<1>2. /\ DOMAIN pc' = DOMAIN pc /\ DOMAIN at' = DOMAIN at
      /\ \A q \in Procs : q # "serve" => pc'[q] = pc[q] /\ at'[q] = at[q]
      /\ \A q \in Procs : (at'[q] # "none") <=> (pc'[q] = "failed")
      /\ \/ /\ pc'["serve"] = "pretty" /\ at'["serve"] = "none" /\ Opens(s)
            /\ s.log_sink.kind # "none" => JsonlPath(s) \in DOMAIN tail'
         \/ /\ pc'["serve"] = "failed" /\ at'["serve"] = "jsonl"
            /\ ~ Opens(s) \/ (expired' /\ Fault("stuck")) \/ Fault("recover")
  <2>1. CASE opened /\ JsonlRecovers(s)
    <3>1. Go("serve", "pretty") /\ tail' = Recovered(JsonlFile(s)) /\ Opens(s)
      BY <2>1 DEF OpenJsonl, Opens
    <3>2. s.log_sink.kind # "none" => JsonlPath(s) \in DOMAIN tail'
      BY <3>1 DEF Recovered, JsonlFile
    <3> QED  BY <1>0, <3>1, <3>2, GoIs DEF StartInv
  <2>2. CASE ~ (opened /\ JsonlRecovers(s))
    <3>1. Fail("serve")
      BY <2>2 DEF OpenJsonl
    <3>2. ~ Opens(s) \/ (expired' /\ Fault("stuck")) \/ Fault("recover")
      <4>1. CASE ~ CleansUp(s)
        <5>1. expired /\ Fault("stuck")
          BY <4>1 DEF CleansUp
        <5>2. expired'
          BY <4>1, <5>1 DEF OpenJsonl
        <5> QED  BY <5>1, <5>2
      <4>2. CASE CleansUp(s)
        BY <2>2, <4>2 DEF Opens, JsonlRecovers
      <4> QED  BY <4>1, <4>2
    <3> QED  BY <1>0, <3>1, <3>2, FailIs DEF StartInv
  <2> QED  BY <2>1, <2>2
<1>3. StepsOK' /\ ConfPart' /\ pc'["dry"] = pc["dry"] /\ at'["dry"] = at["dry"]
  <2>1. held' \in [Readers -> SUBSET Listeners]
    BY <1>1, HeldType DEF StartInv, SamePorts
  <2> QED  BY <1>0, <1>1, <1>2, <2>1, ServeKeeps DEF ServeSteps, ServeFails, Outside
<1>4. at["serve"] = "none" /\ ~ Serving /\ ~ writing
  BY <1>0 DEF StartInv, StepsOK, LogInv, Serving
<1>5. LogInv'
  BY <1>1, <1>2, <1>4, PassFixed DEF LogInv, LogsOpen, Serving
<1>6. ProbeHarmless'
  BY <1>1, <1>2, <1>4 DEF ProbeHarmless
<1>7. PassInv'
  BY <1>0, <1>1, <1>2, <1>3, PassFixed DEF StartInv, PassInv, Readers
<1>8. PortInv'
  <2>1. held["serve"] = {}
    BY <1>4 DEF StartInv, PortInv
  <2> QED  BY <1>1, <1>2, <1>3, <2>1, PortsStay DEF StartInv, Readers
<1> QED  BY <1>3, <1>5, <1>6, <1>7, <1>8 DEF StartInv, ConfPart

\* The human-readable outputs are opened.
LEMMA PrettyStep == ASSUME StartInv, OpenPretty PROVE StartInv'
<1> DEFINE s == settings["serve"]
<1>0. "serve" \in Readers /\ pc["serve"] = "pretty" /\ "serve" \in Procs
  BY DEF OpenPretty, Readers, Procs
<1>1. /\ world' = world /\ conf' = conf /\ loaded' = loaded /\ before' = before /\ midway' = midway
      /\ settings' = settings /\ expired' = expired /\ writing' = writing /\ SamePorts
  BY DEF OpenPretty, readers, ports, SamePorts
<1>2. /\ DOMAIN pc' = DOMAIN pc /\ DOMAIN at' = DOMAIN at
      /\ \A q \in Procs : q # "serve" => pc'[q] = pc[q] /\ at'[q] = at[q]
      /\ \A q \in Procs : (at'[q] # "none") <=> (pc'[q] = "failed")
      /\ \/ pc'["serve"] = "bind" /\ at'["serve"] = "none" /\ PrettyOpens(s)
         \/ pc'["serve"] = "failed" /\ at'["serve"] = "pretty" /\ (~ PrettyOpens(s) \/ Fault("recover_pretty"))
  <2>1. CASE PrettyOpens(s) /\ PrettyRecovers(s)
    <3>1. Go("serve", "bind")
      BY <2>1 DEF OpenPretty
    <3> QED  BY <1>0, <2>1, <3>1, GoIs DEF StartInv
  <2>2. CASE ~ (PrettyOpens(s) /\ PrettyRecovers(s))
    <3>1. Fail("serve")
      BY <2>2 DEF OpenPretty
    <3>2. ~ PrettyOpens(s) \/ Fault("recover_pretty")
      BY <2>2 DEF PrettyRecovers
    <3> QED  BY <1>0, <3>1, <3>2, FailIs DEF StartInv
  <2> QED  BY <2>1, <2>2
<1>3. StepsOK' /\ ConfPart' /\ pc'["dry"] = pc["dry"] /\ at'["dry"] = at["dry"]
  <2>1. held' \in [Readers -> SUBSET Listeners]
    BY <1>1, HeldType DEF StartInv, SamePorts
  <2> QED  BY <1>0, <1>1, <1>2, <2>1, ServeKeeps DEF ServeSteps, ServeFails, Outside
<1>4. at["serve"] = "none" /\ ~ Serving /\ LogsOpen /\ ~ writing
  BY <1>0 DEF StartInv, StepsOK, LogInv, Serving, LogsOpen
<1>5. DOMAIN tail \subseteq DOMAIN tail'
  <2>1. tail' = tail \/ tail' = Recovered(PrettyFile(s)) \/ tail' = Made(PrettyFile(s))
    BY DEF OpenPretty
  <2> QED  BY <2>1 DEF Recovered, Made
<1>6. LogInv'
  BY <1>1, <1>4, <1>5, PassFixed DEF StartInv, LogInv
<1>7. ProbeHarmless'
  BY <1>1, <1>2, <1>4 DEF ProbeHarmless
<1>8. PassInv'
  BY <1>0, <1>1, <1>2, <1>3, PassFixed DEF StartInv, PassInv, Readers
<1>9. PortInv'
  <2>1. held["serve"] = {}
    BY <1>4 DEF StartInv, PortInv
  <2> QED  BY <1>1, <1>2, <1>3, <2>1, PortsStay DEF StartInv, Readers
<1> QED  BY <1>3, <1>6, <1>7, <1>8, <1>9 DEF StartInv, ConfPart

\* An address that is taken is not another of one's own unless the settings
\* name it twice.
LEMMA OwnAddress ==
    ASSUME StartInv, NEW l \in Listeners, l \notin tried, Addr(settings["serve"], l) \in Held("serve")
    PROVE  ~ AddrOk(settings["serve"])
<1>1. PICK k \in held["serve"] : Addr(settings["serve"], l) = Addr(settings["serve"], k)
                                 /\ Addr(settings["serve"], k) # "0"
  BY DEF Held
<1>2. k # l
  BY DEF StartInv, PortInv
<1>3. k \in {"grpc", "http"} /\ l \in {"grpc", "http"}
  BY Distinct DEF StartInv, StepsOK, Listeners
<1> QED  BY <1>1, <1>2, <1>3 DEF Addr, AddrOk

\* A listener is bound, or the address is taken; a receiver that has failed at
\* one listener never gets to run.
LEMMA BindStep == ASSUME StartInv, NEW l \in Listeners, Bind(l) PROVE StartInv'
<1> DEFINE s == settings["serve"]
           addr == Addr(s, l)
<1>0. /\ "serve" \in Readers /\ "serve" \in Procs /\ "dry" \in Readers /\ "dry" \in Procs
      /\ pc["serve"] = "bind" \/ (pc["serve"] = "failed" /\ at["serve"] = "bind")
  BY DEF Bind, Readers, Procs, StartInv, StepsOK
<1>1. /\ world' = world /\ conf' = conf /\ loaded' = loaded /\ before' = before /\ midway' = midway
      /\ settings' = settings /\ tail' = tail /\ expired' = expired /\ writing' = writing
      /\ l \notin tried /\ tried' = tried \cup {l}
  BY DEF Bind, readers, logs
<1>2. held \in [Readers -> SUBSET Listeners]
  BY HeldType DEF StartInv
<1>3. /\ DOMAIN pc' = DOMAIN pc /\ DOMAIN at' = DOMAIN at
      /\ \A q \in Procs : q # "serve" => pc'[q] = pc[q] /\ at'[q] = at[q]
      /\ \A q \in Procs : (at'[q] # "none") <=> (pc'[q] = "failed")
      /\ "dry" \in clash' <=> "dry" \in clash
      /\ \/ /\ Free(addr) /\ held' = [held EXCEPT !["serve"] = held["serve"] \cup {l}] /\ clash' = clash
            /\ \/ pc'["serve"] = pc["serve"] /\ at'["serve"] = at["serve"]
               \/ /\ pc["serve"] = "bind" /\ pc'["serve"] = "running" /\ at'["serve"] = "none"
                  /\ held'["serve"] = Listeners
         \/ /\ pc["serve"] = "bind" /\ pc'["serve"] = "failed" /\ at'["serve"] = "bind" /\ held' = held
            /\ ~ AddrOk(s) \/ "serve" \in clash'
         \/ /\ pc["serve"] = "failed" /\ pc'["serve"] = "failed" /\ at'["serve"] = "bind" /\ held' = held
            /\ clash' = clash
  <2>1. CASE Free(addr)
    <3>1. held' = [held EXCEPT !["serve"] = held["serve"] \cup {l}] /\ clash' = clash
      BY <2>1 DEF Bind, Hold
    <3>2. CASE held'["serve"] = Listeners
      <4>1. Go("serve", "running")
        BY <2>1, <3>2 DEF Bind
      <4>2. pc["serve"] = "bind"
        <5> SUFFICES ASSUME at["serve"] = "bind" PROVE FALSE
          BY <1>0
        <5>1. PICK k \in tried \cap Listeners : k \notin held["serve"]
          BY DEF StartInv, PortInv
        <5>2. k # l /\ held'["serve"] = held["serve"] \cup {l}
          BY <1>0, <1>1, <1>2, <3>1
        <5> QED  BY <3>2, <5>1, <5>2
      <4> QED  BY <1>0, <2>1, <3>1, <3>2, <4>1, <4>2, GoIs DEF StartInv
    <3>3. CASE held'["serve"] # Listeners
      <4>1. pc' = pc /\ at' = at
        BY <2>1, <3>3 DEF Bind
      <4> QED  BY <2>1, <3>1, <4>1 DEF StartInv, StepsOK
    <3> QED  BY <3>2, <3>3
  <2>2. CASE ~ Free(addr) /\ pc["serve"] = "bind"
    <3>1. Refused("serve", addr)
      BY <2>2 DEF Bind
    <3>2. addr \in world.busy \/ addr \in Held("serve") \/ "serve" \in clash'
      BY <1>0, <2>2, <3>1, RefusedIs DEF StartInv
    <3>3. addr \in world.busy => ~ AddrOk(s)
      BY DEF Addr, AddrOk
    <3>4. ~ AddrOk(s) \/ "serve" \in clash'
      BY <1>1, <3>2, <3>3, OwnAddress
    <3> QED  BY <1>0, <2>2, <3>1, <3>4, RefusedIs DEF StartInv
  <2>3. CASE ~ Free(addr) /\ pc["serve"] = "failed"
    <3>1. pc' = pc /\ at' = at /\ held' = held /\ clash' = clash
      BY <2>3 DEF Bind
    <3> QED  BY <1>0, <2>3, <3>1 DEF StartInv, StepsOK
  <2> QED  BY <1>0, <2>1, <2>2, <2>3
<1>4. held' \in [Readers -> SUBSET Listeners] /\ held'["dry"] = held["dry"]
      /\ held["serve"] \subseteq held'["serve"] /\ held'["serve"] \subseteq held["serve"] \cup {l}
      /\ (l \in held'["serve"] => Free(addr) \/ l \in held["serve"])
  BY <1>0, <1>2, <1>3
<1>5. StepsOK' /\ ConfPart' /\ pc'["dry"] = pc["dry"] /\ at'["dry"] = at["dry"]
  BY <1>0, <1>1, <1>3, <1>4, ServeKeeps DEF ServeSteps, ServeFails, Outside
<1>6. Serving /\ Serving' /\ LogsOpen /\ LogsOpen'
  BY <1>0, <1>3 DEF Serving, LogsOpen
<1>7. LogInv'
  BY <1>1, <1>6, PassFixed DEF StartInv, LogInv
<1>8. ProbeHarmless'
  BY <1>0, <1>1, <1>3, PassFixed DEF StartInv, ProbeHarmless
<1>9. PassInv'
  BY <1>0, <1>1, <1>3, <1>5, PassFixed DEF StartInv, PassInv, Readers
<1>10. PortInv'
  <2>1. l \notin held["serve"] /\ held["serve"] \subseteq tried
    BY <1>1 DEF StartInv, PortInv
  <2>2. HeldOk("serve")'
    <3>1. \A k \in held["serve"] : Addr(s, k) \notin world.busy
      BY DEF StartInv, PortInv, HeldOk
    <3>2. l \in held'["serve"] => addr \notin world.busy /\ addr \notin Held("serve")
      BY <1>0, <1>4, <2>1 DEF Free
    <3>3. l \in held'["serve"] => \A k \in held["serve"] : Addr(s, k) = addr => addr = "0"
      BY <3>2 DEF Held
    <3>4. \A j, k \in held["serve"] : j # k /\ Addr(s, j) = Addr(s, k) => Addr(s, j) = "0"
      BY DEF StartInv, PortInv, HeldOk
    <3>5. /\ \A k \in held'["serve"] : Addr(s, k) \notin world.busy
          /\ \A j, k \in held'["serve"] : j # k /\ Addr(s, j) = Addr(s, k) => Addr(s, j) = "0"
      BY <1>4, <3>1, <3>2, <3>3, <3>4
    <3> QED  BY <1>1, <3>5 DEF HeldOk, Addr
  <2>3. HeldOk("dry")'
    BY <1>1, <1>4 DEF StartInv, PortInv, HeldOk, Addr
  <2>4. pc'["serve"] = "running" => AddrOk(s)
    <3> SUFFICES ASSUME pc'["serve"] = "running" PROVE AddrOk(s)
      OBVIOUS
    <3>1. held'["serve"] = Listeners
      BY <1>0, <1>3
    <3> QED  BY <1>1, <2>2, <3>1 DEF HeldOk, Addr, AddrOk, Listeners
  <2>5. at'["serve"] = "bind" => \E k \in tried' \cap Listeners : k \notin held'["serve"]
    <3>1. CASE at["serve"] = "bind"
      <4>1. PICK k \in tried \cap Listeners : k \notin held["serve"]
        BY <3>1 DEF StartInv, PortInv
      <4>2. k # l /\ k \in tried' /\ k \notin held'["serve"]
        BY <1>1, <1>4, <4>1
      <4> QED  BY <4>2
    <3>2. CASE at["serve"] # "bind" /\ at'["serve"] = "bind"
      <4>1. held' = held
        BY <1>3, <3>2
      <4> QED  BY <1>1, <2>1, <4>1
    <3> QED  BY <3>1, <3>2
  <2>6. at'["serve"] = "bind" => ~ AddrOk(s) \/ "serve" \in clash'
    BY <1>0, <1>3 DEF StartInv, PortInv
  <2>7. \A r : AddrOk(r)' <=> AddrOk(r)
    BY <1>1, PassFixed
  <2>8. held'["serve"] \subseteq tried'
    BY <1>1, <1>4, <2>1
  <2> QED  BY <1>1, <1>3, <1>4, <1>5, <1>6, <2>2, <2>3, <2>4, <2>5, <2>6, <2>7, <2>8 DEF StartInv, PortInv
<1> QED  BY <1>5, <1>7, <1>8, <1>9, <1>10 DEF StartInv, ConfPart

\* The receiver writes a line.
LEMMA LineStep == ASSUME StartInv, BeginLine \/ EndLine PROVE StartInv'
<1> DEFINE s == settings["serve"]
           path == JsonlPath(s)
<1>1. /\ world' = world /\ conf' = conf /\ loaded' = loaded /\ before' = before /\ midway' = midway
      /\ settings' = settings /\ expired' = expired /\ SamePorts /\ pc' = pc /\ at' = at
  BY DEF BeginLine, EndLine, readers, ports, SamePorts
<1>2. Serving /\ LogsOpen /\ s.log_sink.kind # "none"
  BY DEF BeginLine, EndLine, StartInv, LogInv, PortInv, LogsOpen
<1>3. path \in DOMAIN tail
  BY <1>2 DEF StartInv, LogInv
<1>4. \/ ~ writing'
      \/ tail' = [tail EXCEPT ![path] = "partial"]
  BY DEF BeginLine, EndLine
<1>5. DOMAIN tail' = DOMAIN tail
  BY DEF BeginLine, EndLine
<1> HIDE DEF path
<1>6. LogInv'
  BY <1>1, <1>2, <1>3, <1>5, PassFixed DEF LogInv, Serving, LogsOpen, path
<1>7. writing' => tail'[path] = "partial"
  BY <1>3, <1>4
<1>8. ProbeHarmless'
  BY <1>1, <1>7, PassFixed DEF StartInv, ProbeHarmless, path
<1>9. StepsOK'
  BY <1>1 DEF StartInv, StepsOK, SamePorts
<1>10. ConfPart'
  BY <1>1, QuietConf DEF StartInv, ConfPart
<1>11. PassInv'
  BY <1>1, PassFixed DEF StartInv, PassInv
<1>12. PortInv'
  BY <1>1, PortsStay DEF StartInv
<1> QED  BY <1>6, <1>8, <1>9, <1>10, <1>11, <1>12 DEF StartInv, ConfPart

LEMMA StutterStep == ASSUME StartInv, UNCHANGED vars PROVE StartInv'
<1>1. /\ world' = world /\ conf' = conf /\ loaded' = loaded /\ before' = before /\ midway' = midway
      /\ settings' = settings /\ tail' = tail /\ expired' = expired /\ writing' = writing
      /\ SamePorts /\ pc' = pc /\ at' = at
  BY DEF vars, readers, logs, ports, SamePorts
<1>2. LogInv' /\ ProbeHarmless'
  BY <1>1, SameLogs DEF StartInv
<1>3. StepsOK'
  BY <1>1 DEF StartInv, StepsOK, SamePorts
<1>4. ConfPart'
  BY <1>1, QuietConf DEF StartInv, ConfPart
<1>5. PassInv'
  BY <1>1, PassFixed DEF StartInv, PassInv
<1>6. PortInv'
  BY <1>1, PortsStay DEF StartInv
<1> QED  BY <1>2, <1>3, <1>4, <1>5, <1>6 DEF StartInv, ConfPart

LEMMA StartStep == StartInv /\ [Next]_vars => StartInv'
<1> SUFFICES ASSUME StartInv, [Next]_vars PROVE StartInv'
  OBVIOUS
<1>1. CASE \E i \in Inits : InitBegin(i) \/ InitOpen(i) \/ InitWrite(i)
  BY <1>1, InitSteps
<1>2. CASE \E p \in Readers : Load(p) \/ MergeSettings(p) \/ SpawnRouter(p)
  BY <1>2, LoadStep, MergeStep, RouterStep
<1>3. CASE Probe \/ ProbeGrpc \/ ProbeHttp \/ ProbeDrop
  BY <1>3, ProbeStep, GrpcStep, HttpStep, ProbeDropStep
<1>4. CASE OpenJsonl \/ OpenPretty \/ \E l \in Listeners : Bind(l)
  BY <1>4, JsonlStep, PrettyStep, BindStep
<1>5. CASE \E p \in Readers, l \in Listeners : Drop(p, l)
  BY <1>5, DropStep
<1>6. CASE BeginLine \/ EndLine
  BY <1>6, LineStep
<1>7. CASE UNCHANGED vars
  BY <1>7, StutterStep
<1> QED  BY <1>1, <1>2, <1>3, <1>4, <1>5, <1>6, <1>7 DEF Next

\* StartInv is an invariant of any number of inits, a dry run and a receiver.
THEOREM StartInvariant == Spec => []StartInv
BY InitStart, StartStep, PTL DEF Spec

\* write_with_profile: no init without --force changes a file that was there,
\* whoever made it and however the inits interleave.
THEOREM InitKeepsTheorem == Spec => []InitKeepsExisting
<1>1. StartInv => InitKeepsExisting
  BY DEF StartInv
<1> QED  BY <1>1, StartInvariant, PTL

\* The receiver runs with what the user wrote, with what an init reported or,
\* if it loads between the open and the write of an init or after a write that
\* failed, with an empty file; with nothing only where no file was asked for.
THEOREM ConfigTheorem == Spec => []ConfigReachesServe
<1>1. StartInv => ConfigReachesServe
  BY DEF StartInv
<1> QED  BY <1>1, StartInvariant, PTL

\* The probe of the dry run cuts no line a receiver is writing and removes no
\* file of the log directory.
THEOREM ProbeTheorem == Spec => []ProbeHarmless
<1>1. StartInv => ProbeHarmless
  BY DEF StartInv
<1> QED  BY <1>1, StartInvariant, PTL

\* With the same settings the dry run and the start come to the same result, but
\* for expired files that cannot be removed, tails that cannot be recovered and
\* ports that one of them holds when the other comes to them.
THEOREM DryRunTheorem == Spec => []DryRunAgrees
<1>1. StartInv => DryRunAgrees
  <2> SUFFICES ASSUME StartInv, settings["dry"] # << >>, settings["dry"] = settings["serve"]
               PROVE  /\ pc["dry"] = "ok" /\ pc["serve"] = "failed" =>
                            \/ at["serve"] = "jsonl" /\ ((expired /\ Fault("stuck")) \/ Fault("recover"))
                            \/ at["serve"] = "pretty" /\ Fault("recover_pretty")
                            \/ at["serve"] = "bind" /\ "serve" \in clash
                      /\ pc["dry"] = "failed" /\ pc["serve"] = "running" =>
                            at["dry"] \in {"grpc", "http"} /\ "dry" \in clash
    BY DEF DryRunAgrees, SameSettings
  <2> DEFINE s == settings["dry"]
  <2>0. "dry" \in Readers /\ "serve" \in Readers /\ "dry" \in Procs /\ "serve" \in Procs
    BY DEF Readers, Procs
  <2>1. ASSUME pc["dry"] = "ok", pc["serve"] = "failed"
        PROVE  \/ at["serve"] = "jsonl" /\ ((expired /\ Fault("stuck")) \/ Fault("recover"))
               \/ at["serve"] = "pretty" /\ Fault("recover_pretty")
               \/ at["serve"] = "bind" /\ "serve" \in clash
    <3>1. RouterOk(s) /\ Opens(s) /\ PrettyOpens(s) /\ AddrOk(s)
      BY <2>0, <2>1 DEF StartInv, PassInv, PortInv
    <3>2. at["serve"] \in ServeFails
      BY <2>0, <2>1 DEF StartInv, StepsOK
    <3>3. at["serve"] \in {"jsonl", "pretty", "bind"}
      BY <2>0, <3>1, <3>2 DEF StartInv, PassInv, ServeFails
    <3> QED  BY <3>1, <3>3 DEF StartInv, PassInv, PortInv
  <2>2. ASSUME pc["dry"] = "failed", pc["serve"] = "running"
        PROVE  at["dry"] \in {"grpc", "http"} /\ "dry" \in clash
    <3>1. RouterOk(s) /\ Opens(s) /\ PrettyOpens(s) /\ AddrOk(s)
      BY <2>0, <2>2 DEF StartInv, PassInv, PortInv
    <3>2. at["dry"] \in DryFails
      BY <2>0, <2>2 DEF StartInv, StepsOK
    <3>3. at["dry"] \in {"grpc", "http"}
      BY <2>0, <3>1, <3>2 DEF StartInv, PassInv, DryFails
    <3> QED  BY <3>1, <3>3 DEF StartInv, PortInv
  <2> QED  BY <2>1, <2>2
<1> QED  BY <1>1, StartInvariant, PTL
-----------------------------------------------------------------------------
(***************************************************************************)
(* What the command line overrides in the file does not reach the settings.*)
(* The file is taken apart the way Settings::merge reads it: single keys,  *)
(* the sinks, the section of the proxy, its routes one by one, and in a    *)
(* route of a vendor its headers by their names. For each of these parts,  *)
(* WithoutOverridden leaves what Settings::merge makes of it alone.        *)
(***************************************************************************)
\* The fields that every route of a file has.
Fields == {"name", "service_names", "signal_types", "endpoint", "headers"}

\* No flag or variable stands for the whole section of the proxy.
LEMMA ProxyIsNoOption == "proxy" \notin Options
BY DEF Options, ReceiverOptions, VendorOptions

\* A key that is in both layers or in none of them is looked up alike.
LEMMA LayersKept ==
    ASSUME NEW cli, NEW config, NEW k, k \notin SinkKeys, k # "proxy", NEW base
    PROVE  LET rest == WithoutOverridden(cli, config)
           IN  /\ k \in DOMAIN Or(cli, rest) <=> k \in DOMAIN Or(cli, config)
               /\ k \in DOMAIN Or(cli, config) => Or(cli, rest)[k] = Or(cli, config)[k]
               /\ \A d : Get(Or(cli, rest), k, d) = Get(Or(cli, config), k, d)
               /\ k \in DOMAIN base => Or(cli, Or(rest, base))[k] = Or(cli, Or(config, base))[k]
<1> DEFINE rest == WithoutOverridden(cli, config)
<1>1. DOMAIN rest = DOMAIN config \ Hidden(cli)
  BY DEF WithoutOverridden
<1>2. k \in DOMAIN rest <=> k \in DOMAIN config /\ k \notin DOMAIN cli
  BY <1>1 DEF Hidden
<1>3. k \in DOMAIN rest => rest[k] = config[k]
  BY DEF WithoutOverridden
<1> HIDE DEF rest
<1>4. k \in DOMAIN Or(cli, rest) <=> k \in DOMAIN Or(cli, config)
  BY <1>2 DEF Or
<1>5. k \in DOMAIN Or(cli, config) => Or(cli, rest)[k] = Or(cli, config)[k]
  BY <1>2, <1>3 DEF Or
<1>6. ASSUME NEW d PROVE Get(Or(cli, rest), k, d) = Get(Or(cli, config), k, d)
  BY <1>4, <1>5 DEF Get
<1>7. ASSUME k \in DOMAIN base PROVE Or(cli, Or(rest, base))[k] = Or(cli, Or(config, base))[k]
  <2>1. CASE k \in DOMAIN cli
    BY <2>1 DEF Or
  <2>2. CASE k \notin DOMAIN cli
    <3>1. Or(rest, base)[k] = Or(config, base)[k]
      BY <1>2, <1>3, <1>7, <2>2 DEF Or
    <3>2. k \in DOMAIN Or(rest, base) /\ k \in DOMAIN Or(config, base)
      BY <1>7 DEF Or
    <3> HIDE DEF Or
    <3>3. \A f : k \in DOMAIN f => Or(cli, f)[k] = f[k]
      BY <2>2 DEF Or
    <3> QED  BY <3>1, <3>2, <3>3
  <2> QED  BY <2>1, <2>2
<1> QED  BY <1>4, <1>5, <1>6, <1>7 DEF rest

\* The destination of the logs is the same and is as valid as before, although
\* a flag for one sink hides the keys of all of them.
LEMMA SinksKept ==
    ASSUME NEW cli, NEW config, NEW env
    PROVE  LET rest == WithoutOverridden(cli, config)
           IN  /\ SinkOk(cli, rest) <=> SinkOk(cli, config)
               /\ LogSink(cli, rest, env) = LogSink(cli, config, env)
               /\ PrettyLogOn(cli, rest) = PrettyLogOn(cli, config)
               /\ PrettyLogOk(cli, rest, env) <=> PrettyLogOk(cli, config, env)
               /\ PrettyLogDir(cli, rest, env) = PrettyLogDir(cli, config, env)
<1> DEFINE rest == WithoutOverridden(cli, config)
           old == SinkLayer(cli, config)
           new == SinkLayer(cli, rest)
<1>1. \A k \in SinkKeys : /\ k \in DOMAIN new <=> k \in DOMAIN old
                          /\ k \in DOMAIN old => new[k] = old[k]
  <2>1. CASE SinkKeys \cap DOMAIN cli # {}
    BY <2>1 DEF SinkLayer
  <2>2. CASE SinkKeys \cap DOMAIN cli = {}
    <3>1. new = rest /\ old = config
      BY <2>2 DEF SinkLayer
    <3>2. \A k \in SinkKeys : k \in DOMAIN rest <=> k \in DOMAIN config
      BY <2>2 DEF WithoutOverridden, Hidden
    <3>3. \A k \in SinkKeys : k \in DOMAIN rest => rest[k] = config[k]
      BY DEF WithoutOverridden, SinkKeys
    <3> QED  BY <3>1, <3>2, <3>3
  <2> QED  BY <2>1, <2>2
<1>2. "log_keep_days" \notin SinkKeys /\ "pretty_log" \notin SinkKeys
  BY DEF SinkKeys
<1>3. Get(Or(cli, rest), "log_keep_days", 10) = Get(Or(cli, config), "log_keep_days", 10)
  BY <1>2, LayersKept
<1>4. PrettyLogOn(cli, rest) = PrettyLogOn(cli, config)
  <2>1. \A d : Get(Or(cli, rest), "pretty_log", d) = Get(Or(cli, config), "pretty_log", d)
    BY <1>2, LayersKept
  <2> HIDE DEF rest
  <2> QED  BY <2>1, Zenon DEF PrettyLogOn
<1> HIDE DEF rest, old, new
<1>5. SinkOk(cli, rest) <=> SinkOk(cli, config)
  BY <1>1 DEF SinkOk, old, new
<1>6. "log_file" \in SinkKeys /\ "log_dir" \in SinkKeys
  BY DEF SinkKeys
<1>7. LogSink(cli, rest, env) = LogSink(cli, config, env)
  <2>1. CASE "log_file" \in DOMAIN old
    <3>1. new.log_file = old.log_file /\ "log_file" \in DOMAIN new
      BY <1>1, <1>6, <2>1
    <3> QED  BY <2>1, <3>1 DEF LogSink, old, new
  <2>2. CASE "log_file" \notin DOMAIN old /\ "log_dir" \in DOMAIN old
    <3>1. new.log_dir = old.log_dir /\ "log_dir" \in DOMAIN new /\ "log_file" \notin DOMAIN new
      BY <1>1, <1>6, <2>2
    <3> QED  BY <1>3, <2>2, <3>1 DEF LogSink, old, new
  <2>3. CASE "log_file" \notin DOMAIN old /\ "log_dir" \notin DOMAIN old
    <3>1. "log_dir" \notin DOMAIN new /\ "log_file" \notin DOMAIN new
      BY <1>1, <1>6, <2>3
    <3> QED  BY <2>3, <3>1 DEF LogSink, old, new
  <2> QED  BY <2>1, <2>2, <2>3
<1>8. PrettyLogOk(cli, rest, env) <=> PrettyLogOk(cli, config, env)
  BY <1>4, <1>7 DEF PrettyLogOk
<1>9. PrettyLogDir(cli, rest, env) = PrettyLogDir(cli, config, env)
  BY <1>4, <1>7 DEF PrettyLogDir
<1> QED  BY <1>4, <1>5, <1>7, <1>8, <1>9 DEF rest
-----------------------------------------------------------------------------
\* What is left of the section about the proxy.
LEMMA ProxyKept ==
    ASSUME NEW cli, NEW config, DOMAIN cli \subseteq Options
    PROVE  Get(WithoutOverridden(cli, config), "proxy", << >>)
              = ProxyWithoutOverridden(cli, Get(config, "proxy", << >>))
<1> DEFINE rest == WithoutOverridden(cli, config)
<1>1. "proxy" \notin Hidden(cli)
  BY ProxyIsNoOption DEF Hidden, SinkKeys
<1>2. CASE "proxy" \in DOMAIN config
  BY <1>1, <1>2 DEF WithoutOverridden, Get
<1>3. CASE "proxy" \notin DOMAIN config
  <2>1. "proxy" \notin DOMAIN rest
    BY <1>3 DEF WithoutOverridden
  <2>2. Get(config, "proxy", << >>) = << >> /\ Get(rest, "proxy", << >>) = << >>
    BY <1>3, <2>1 DEF Get
  <2>3. ProxyWithoutOverridden(cli, << >>) = << >>
    BY DEF ProxyWithoutOverridden
  <2> QED  BY <2>2, <2>3
<1> QED  BY <1>2, <1>3

\* The headers of the command line take the place of what was left out.
LEMMA HeadersKept ==
    ASSUME NEW headers, NEW cli, NEW v, EntriesOk(CliEntries(cli, v))
    PROVE  MergeCliHeaders([h \in {h \in DOMAIN headers : h[1] \notin NamedByCli(cli, v)} |-> headers[h]],
                           CliEntries(cli, v))
              = MergeCliHeaders(headers, CliEntries(cli, v))
<1> DEFINE entries == CliEntries(cli, v)
           names == {entries[i][1][1] : i \in DOMAIN entries}
           left == [h \in {h \in DOMAIN headers : h[1] \notin NamedByCli(cli, v)} |-> headers[h]]
           Kept(f) == [k \in {k \in DOMAIN f : k[1] \notin names} |-> f[k]]
<1>1. NamedByCli(cli, v) = names
  BY DEF NamedByCli, EntriesOk
<1> HIDE DEF names, entries
<1>2. DOMAIN left = {h \in DOMAIN headers : h[1] \notin names}
  BY <1>1
<1>3. {k \in DOMAIN left : k[1] \notin names} = {k \in DOMAIN headers : k[1] \notin names}
  BY <1>2
<1>4. \A k \in DOMAIN left : left[k] = headers[k]
  OBVIOUS
<1>5. Kept(left) = Kept(headers)
  <2> HIDE DEF left
  <2> QED  BY <1>2, <1>3, <1>4
<1> HIDE DEF left, Kept
<1> QED  BY <1>5 DEF MergeCliHeaders, Kept, names, entries, left

\* A route of a vendor keeps its names and loses its endpoint and transport only
\* where the command line gives them; a custom route keeps everything.
LEMMA RouteKept ==
    ASSUME NEW cli, NEW r, Fields \subseteq DOMAIN r
    PROVE  LET q == RouteWithoutOverridden(cli, r)
               o == VendorOptions[r.name]
           IN  /\ q.name = r.name /\ q.service_names = r.service_names /\ q.signal_types = r.signal_types
               /\ r.name \notin Vendors => q = r
               /\ r.name \in Vendors =>
                     /\ Get(cli, o.endpoint, q.endpoint) = Get(cli, o.endpoint, r.endpoint)
                     /\ \A d : Get(cli, o.transport, Get(q, "transport", d)) = Get(cli, o.transport, Get(r, "transport", d))
                     /\ q.headers = [h \in {h \in DOMAIN r.headers : h[1] \notin NamedByCli(cli, r.name)} |-> r.headers[h]]
<1> DEFINE q == RouteWithoutOverridden(cli, r)
           o == VendorOptions[r.name]
<1>1. CASE r.name \notin Vendors
  BY <1>1 DEF RouteWithoutOverridden
<1>2. CASE r.name \in Vendors
  <2>1. DOMAIN q = DOMAIN r \ {x \in {"transport"} : o.transport \in DOMAIN cli}
    BY <1>2 DEF RouteWithoutOverridden
  <2>2. \A k \in DOMAIN q : q[k] = CASE k = "endpoint" /\ o.endpoint \in DOMAIN cli -> EmptyText
                                     [] k = "headers" -> [h \in {h \in DOMAIN r.headers : h[1] \notin NamedByCli(cli, r.name)} |-> r.headers[h]]
                                     [] OTHER -> r[k]
    BY <1>2, <2>1 DEF RouteWithoutOverridden
  <2> HIDE DEF q, o
  <2>3. Fields \subseteq DOMAIN q
    BY <2>1 DEF Fields
  <2>4. \A k \in DOMAIN q : k \notin {"endpoint", "headers"} => q[k] = r[k]
    BY <2>2
  <2>5. q.name = r.name /\ q.service_names = r.service_names /\ q.signal_types = r.signal_types
    BY <2>3, <2>4 DEF Fields
  <2>6. q.headers = [h \in {h \in DOMAIN r.headers : h[1] \notin NamedByCli(cli, r.name)} |-> r.headers[h]]
    BY <2>2, <2>3 DEF Fields
  <2>7. Get(cli, o.endpoint, q.endpoint) = Get(cli, o.endpoint, r.endpoint)
    <3>1. o.endpoint \notin DOMAIN cli => q.endpoint = r.endpoint
      BY <2>2, <2>3 DEF Fields
    <3> QED  BY <3>1 DEF Get
  <2>8. ASSUME NEW d
        PROVE  Get(cli, o.transport, Get(q, "transport", d)) = Get(cli, o.transport, Get(r, "transport", d))
    <3>1. o.transport \notin DOMAIN cli => ("transport" \in DOMAIN q <=> "transport" \in DOMAIN r)
      BY <2>1
    <3>2. "transport" \in DOMAIN q => q.transport = r.transport
      BY <2>4
    <3> QED  BY <3>1, <3>2 DEF Get
  <2> QED  BY <1>2, <2>5, <2>6, <2>7, <2>8 DEF q, o
<1> QED  BY <1>1, <1>2

\* The name of a route is never overridden.
LEMMA RouteNameKept ==
    ASSUME NEW cli, NEW r, Fields \subseteq DOMAIN r
    PROVE  RouteWithoutOverridden(cli, r).name = r.name
BY RouteKept

\* new has what is left of the routes of old.
Left(cli, old, new) ==
    /\ DOMAIN new = DOMAIN old
    /\ \A i \in DOMAIN old : new[i] = RouteWithoutOverridden(cli, old[i]) /\ Fields \subseteq DOMAIN old[i]

\* WithoutOverridden treats the routes of the file one by one.
LEMMA RoutesLeft ==
    ASSUME NEW cli, NEW config, DOMAIN cli \subseteq Options, IsConfig(config)
    PROVE  Left(cli, ConfigRoutes(config), ConfigRoutes(WithoutOverridden(cli, config)))
<1> DEFINE p == Get(config, "proxy", << >>)
           q == Get(WithoutOverridden(cli, config), "proxy", << >>)
           old == Get(p, "routes", << >>)
           new == Get(q, "routes", << >>)
<1>1. \A i \in DOMAIN old : Fields \subseteq DOMAIN old[i]
  BY DEF IsConfig, Fields, ConfigRoutes
<1>2. q = ProxyWithoutOverridden(cli, p)
  BY ProxyKept
<1> HIDE DEF p, q
<1>3. DOMAIN q = DOMAIN p \ (DOMAIN cli \cap {"checkpoint_dir"})
  BY <1>2 DEF ProxyWithoutOverridden
<1>4. Left(cli, old, new)
  <2>1. CASE "routes" \in DOMAIN p
    <3>1. "routes" \in DOMAIN q
      BY <1>3, <2>1
    <3>2. q.routes = [i \in DOMAIN p.routes |-> RouteWithoutOverridden(cli, p.routes[i])]
      BY <1>2, <3>1 DEF ProxyWithoutOverridden
    <3>3. new = q.routes /\ old = p.routes
      BY <2>1, <3>1 DEF Get
    <3> HIDE DEF old, new
    <3> QED  BY <1>1, <3>2, <3>3 DEF Left
  <2>2. CASE "routes" \notin DOMAIN p
    <3>1. new = << >> /\ old = << >>
      BY <1>3, <2>2 DEF Get
    <3> HIDE DEF old, new
    <3> QED  BY <3>1 DEF Left
  <2> QED  BY <2>1, <2>2
<1> QED  BY <1>4 DEF ConfigRoutes, p, q

\* The lookups of a route by its name and the custom routes are not affected.
LEMMA NamesKept ==
    ASSUME NEW cli, NEW old, NEW new, Left(cli, old, new)
    PROVE  /\ NamesUnique(new) <=> NamesUnique(old)
           /\ \A n : HasRoute(new, n) <=> HasRoute(old, n)
           /\ CustomRoutes(new) = CustomRoutes(old)
           /\ \A i \in CustomRoutes(old) : new[i] = old[i]
           /\ {new[i].name : i \in CustomRoutes(new)} = {old[i].name : i \in CustomRoutes(old)}
<1>1. ASSUME NEW i \in DOMAIN old PROVE new[i].name = old[i].name
  <2>1. new[i] = RouteWithoutOverridden(cli, old[i]) /\ Fields \subseteq DOMAIN old[i]
    BY DEF Left
  <2> QED  BY <2>1, RouteNameKept
<1>2. DOMAIN new = DOMAIN old
  BY DEF Left
<1>3. CustomRoutes(new) = CustomRoutes(old)
  BY <1>1, <1>2 DEF CustomRoutes
<1>4. \A i \in CustomRoutes(old) : new[i] = old[i]
  BY DEF Left, CustomRoutes, RouteWithoutOverridden
<1>5. {new[i].name : i \in CustomRoutes(new)} = {old[i].name : i \in CustomRoutes(old)}
  BY <1>3, <1>4
<1>6. NamesUnique(new) <=> NamesUnique(old)
  BY <1>1, <1>2 DEF NamesUnique
<1>7. \A n : HasRoute(new, n) <=> HasRoute(old, n)
  BY <1>1, <1>2 DEF HasRoute
<1> QED  BY <1>3, <1>4, <1>5, <1>6, <1>7

\* Where names are unique, a lookup by name finds the one route that has it.
LEMMA RouteNamedIs ==
    ASSUME NEW routes, NamesUnique(routes), NEW i \in DOMAIN routes
    PROVE  RouteNamed(routes, routes[i].name) = routes[i]
<1> DEFINE n == routes[i].name
           j == CHOOSE j \in DOMAIN routes : routes[j].name = n
<1>1. j \in DOMAIN routes /\ routes[j].name = n
  OBVIOUS
<1>2. j = i
  BY <1>1 DEF NamesUnique
<1> QED  BY <1>2 DEF RouteNamed

\* The route found by a name is what is left of the one found before.
LEMMA NamedKept ==
    ASSUME NEW cli, NEW old, NEW new, Left(cli, old, new), NamesUnique(old),
           NEW n, HasRoute(old, n)
    PROVE  /\ RouteNamed(new, n) = RouteWithoutOverridden(cli, RouteNamed(old, n))
           /\ RouteNamed(old, n).name = n
           /\ Fields \subseteq DOMAIN RouteNamed(old, n)
<1>1. PICK i \in DOMAIN old : old[i].name = n
  BY DEF HasRoute
<1>2. i \in DOMAIN new /\ new[i].name = n /\ new[i] = RouteWithoutOverridden(cli, old[i])
  <2>1. i \in DOMAIN new /\ new[i] = RouteWithoutOverridden(cli, old[i]) /\ Fields \subseteq DOMAIN old[i]
    BY DEF Left
  <2> QED  BY <1>1, <2>1, RouteNameKept
<1>3. NamesUnique(new)
  BY NamesKept
<1>4. RouteNamed(old, n) = old[i]
  BY <1>1, RouteNamedIs
<1>5. RouteNamed(new, n) = new[i]
  BY <1>2, <1>3, RouteNamedIs
<1> QED  BY <1>1, <1>2, <1>4, <1>5 DEF Left

\* build_vendor_route makes the same lane of what is left, or fails as before.
LEMMA VendorKept ==
    ASSUME NEW cli, NEW old, NEW new, Left(cli, old, new), NamesUnique(old), NEW env, NEW v \in Vendors
    PROVE  /\ VendorPresent(cli, new, v) <=> VendorPresent(cli, old, v)
           /\ VendorOk(cli, new, v, env) <=> VendorOk(cli, old, v, env)
           /\ VendorPresent(cli, old, v) /\ VendorOk(cli, old, v, env) =>
                 BuildVendorRoute(cli, new, v, env) = BuildVendorRoute(cli, old, v, env)
<1> DEFINE a == VendorBase(old, v)
           b == VendorBase(new, v)
           o == VendorOptions[v]
<1>1. HasRoute(new, v) <=> HasRoute(old, v)
  BY NamesKept
<1>2. VendorPresent(cli, new, v) <=> VendorPresent(cli, old, v)
  BY <1>1 DEF VendorPresent
<1>3. /\ b.service_names = a.service_names /\ b.signal_types = a.signal_types
      /\ Get(cli, o.endpoint, b.endpoint) = Get(cli, o.endpoint, a.endpoint)
      /\ Get(cli, o.transport, Get(b, "transport", "grpc")) = Get(cli, o.transport, Get(a, "transport", "grpc"))
      /\ EntriesOk(CliEntries(cli, v)) => VendorHeaders(cli, new, v) = VendorHeaders(cli, old, v)
  <2>1. CASE ~ HasRoute(old, v)
    <3>1. a = b
      BY <1>1, <2>1 DEF VendorBase
    <3> HIDE DEF a, b
    <3> QED  BY <3>1 DEF VendorHeaders, a, b
  <2>2. CASE HasRoute(old, v)
    <3>1. a = RouteNamed(old, v) /\ b = RouteNamed(new, v)
      BY <1>1, <2>2 DEF VendorBase
    <3>2. b = RouteWithoutOverridden(cli, a) /\ a.name = v /\ Fields \subseteq DOMAIN a
      BY <2>2, <3>1, NamedKept
    <3> HIDE DEF a, b
    <3>3. /\ b.service_names = a.service_names /\ b.signal_types = a.signal_types
          /\ Get(cli, o.endpoint, b.endpoint) = Get(cli, o.endpoint, a.endpoint)
          /\ Get(cli, o.transport, Get(b, "transport", "grpc")) = Get(cli, o.transport, Get(a, "transport", "grpc"))
          /\ b.headers = [h \in {h \in DOMAIN a.headers : h[1] \notin NamedByCli(cli, v)} |-> a.headers[h]]
      BY <3>2, RouteKept
    <3>4. EntriesOk(CliEntries(cli, v)) =>
            MergeCliHeaders(b.headers, CliEntries(cli, v)) = MergeCliHeaders(a.headers, CliEntries(cli, v))
      BY <3>3, HeadersKept
    <3> QED  BY <3>3, <3>4 DEF VendorHeaders, a, b
  <2> QED  BY <2>1, <2>2
<1>4. VendorOk(cli, new, v, env) <=> VendorOk(cli, old, v, env)
  BY <1>2, <1>3 DEF VendorOk
<1>5. ASSUME VendorPresent(cli, old, v), VendorOk(cli, old, v, env)
      PROVE  BuildVendorRoute(cli, new, v, env) = BuildVendorRoute(cli, old, v, env)
  <2>1. VendorHeaders(cli, new, v) = VendorHeaders(cli, old, v)
    BY <1>3, <1>5 DEF VendorOk
  <2> HIDE DEF a, b, o
  <2> QED  BY <1>3, <2>1 DEF BuildVendorRoute, a, b, o
<1> QED  BY <1>2, <1>4, <1>5

\* resolve_proxy_settings comes to the same lanes.
LEMMA RoutesKept ==
    ASSUME NEW cli, NEW config, NEW env, DOMAIN cli \subseteq Options, IsConfig(config),
           NamesUnique(ConfigRoutes(config)),
           \A v \in Vendors : VendorOk(cli, ConfigRoutes(config), v, env)
    PROVE  ProxyRoutes(cli, WithoutOverridden(cli, config), env) = ProxyRoutes(cli, config, env)
<1> DEFINE rest == WithoutOverridden(cli, config)
           old == ConfigRoutes(config)
           new == ConfigRoutes(rest)
           Names(routes) == {v \in Vendors : VendorPresent(cli, routes, v)}
                            \cup {routes[i].name : i \in CustomRoutes(routes)}
           Built(routes, n) == IF n \in Vendors THEN BuildVendorRoute(cli, routes, n, env)
                               ELSE BuildCustomRoute(RouteNamed(routes, n), env)
<1>1. Left(cli, old, new)
  BY RoutesLeft
<1> HIDE DEF old, new, rest
<1>2. Names(new) = Names(old)
  BY <1>1, NamesKept, VendorKept DEF old
<1>3. ASSUME NEW n \in Names(old) PROVE Built(new, n) = Built(old, n)
  <2>1. CASE n \in Vendors
    <3>1. VendorPresent(cli, old, n)
      BY <2>1 DEF CustomRoutes
    <3> QED  BY <1>1, <2>1, <3>1, VendorKept DEF old
  <2>2. CASE n \notin Vendors
    <3>1. HasRoute(old, n)
      BY <2>2 DEF CustomRoutes, HasRoute
    <3>2. RouteNamed(new, n) = RouteWithoutOverridden(cli, RouteNamed(old, n)) /\ RouteNamed(old, n).name = n
          /\ Fields \subseteq DOMAIN RouteNamed(old, n)
      BY <1>1, <3>1, NamedKept DEF old
    <3>3. RouteNamed(new, n) = RouteNamed(old, n)
      BY <2>2, <3>2 DEF RouteWithoutOverridden
    <3> QED  BY <2>2, <3>3
  <2> QED  BY <2>1, <2>2
<1> HIDE DEF Names, Built
<1>4. [n \in Names(new) |-> Built(new, n)] = [n \in Names(old) |-> Built(old, n)]
  BY <1>2, <1>3
<1> QED  BY <1>4 DEF ProxyRoutes, Names, Built, old, new, rest

\* resolve_proxy_settings accepts what is left whenever it accepted the file.
LEMMA ProxyOkKept ==
    ASSUME NEW cli, NEW config, NEW env, DOMAIN cli \subseteq Options, IsConfig(config)
    PROVE  LET rest == WithoutOverridden(cli, config)
           IN  /\ ProxyOk(cli, rest, env) <=> ProxyOk(cli, config, env)
               /\ ProxyOk(cli, config, env) => ProxyRoutes(cli, rest, env) = ProxyRoutes(cli, config, env)
               /\ ProxyOk(cli, config, env) => ProxySettings(cli, rest, env) = ProxySettings(cli, config, env)
<1> DEFINE rest == WithoutOverridden(cli, config)
           old == ConfigRoutes(config)
           new == ConfigRoutes(rest)
           p == Get(config, "proxy", << >>)
           q == Get(rest, "proxy", << >>)
           First(c) == /\ NamesUnique(ConfigRoutes(c))
                       /\ \A v \in Vendors : VendorOk(cli, ConfigRoutes(c), v, env)
           Customs(c) == \A i \in CustomRoutes(ConfigRoutes(c)) : CustomOk(ConfigRoutes(c)[i], env)
<1>1. Left(cli, old, new)
  BY RoutesLeft
<1>2. /\ DOMAIN q = DOMAIN p \ (DOMAIN cli \cap {"checkpoint_dir"})
      /\ \A k \in DOMAIN q : k # "routes" => q[k] = p[k]
  <2>1. q = ProxyWithoutOverridden(cli, p)
    BY ProxyKept
  <2> HIDE DEF p, q
  <2> QED  BY <2>1 DEF ProxyWithoutOverridden
<1>3. LogSink(cli, rest, env) = LogSink(cli, config, env)
  BY SinksKept
<1> HIDE DEF rest, old, new, p, q
<1>4. First(rest) <=> First(config)
  BY <1>1, NamesKept, VendorKept DEF old, new
<1>5. Customs(rest) <=> Customs(config)
  BY <1>1, NamesKept DEF old, new
<1>6. CheckpointOk(cli, q) <=> CheckpointOk(cli, p)
  BY <1>2 DEF CheckpointOk
<1>7. First(config) => ProxyRoutes(cli, rest, env) = ProxyRoutes(cli, config, env)
  BY RoutesKept DEF rest
<1> HIDE DEF First, Customs
<1>8. \A c : ProxyOk(cli, c, env) <=>
                /\ First(c) /\ Customs(c)
                /\ ProxyRoutes(cli, c, env) # << >> =>
                      /\ ClaimsUnique(ProxyRoutes(cli, c, env))
                      /\ LogSink(cli, c, env).kind # "none"
                      /\ CheckpointOk(cli, Get(c, "proxy", << >>))
  BY DEF ProxyOk, First, Customs
<1>9. ProxyOk(cli, rest, env) <=> ProxyOk(cli, config, env)
  BY <1>3, <1>4, <1>5, <1>6, <1>7, <1>8 DEF p, q
<1>10. ASSUME ProxyOk(cli, config, env)
       PROVE  ProxySettings(cli, rest, env) = ProxySettings(cli, config, env)
  <2>1. ProxyRoutes(cli, rest, env) = ProxyRoutes(cli, config, env)
    BY <1>7, <1>8, <1>10
  <2>2. \A k, d : k \notin {"routes", "checkpoint_dir"} => Get(q, k, d) = Get(p, k, d)
    BY <1>2 DEF Get
  <2>3. /\ "checkpoint_dir" \in DOMAIN Or(cli, q) <=> "checkpoint_dir" \in DOMAIN Or(cli, p)
        /\ "checkpoint_dir" \in DOMAIN Or(cli, p) => Or(cli, q).checkpoint_dir = Or(cli, p).checkpoint_dir
    BY <1>2 DEF Or
  <2>4. /\ Get(q, "queue_capacity", 1024) = Get(p, "queue_capacity", 1024)
        /\ Get(q, "timeout_ms", 5000) = Get(p, "timeout_ms", 5000)
        /\ Get(q, "retry_max", 8) = Get(p, "retry_max", 8)
    BY <2>2
  <2> QED  BY <1>3, <2>1, <2>3, <2>4 DEF ProxySettings, p, q
<1> QED  BY <1>7, <1>8, <1>9, <1>10 DEF rest

\* Settings::merge comes to the same result.
LEMMA MergeKept ==
    ASSUME NEW cli, NEW config, NEW env, DOMAIN cli \subseteq Options, IsConfig(config)
    PROVE  LET rest == WithoutOverridden(cli, config)
           IN  /\ Mergeable(cli, rest, env) <=> Mergeable(cli, config, env)
               /\ Mergeable(cli, config, env) => Merge(cli, rest, env) = Merge(cli, config, env)
<1> DEFINE rest == WithoutOverridden(cli, config)
           Layers(c) == Or(cli, Or(c, Defaults))
<1>1. \A k \in DOMAIN Defaults : k \notin SinkKeys /\ k # "proxy"
  BY DEF Defaults, SinkKeys
<1>2. \A k \in DOMAIN Defaults : Layers(rest)[k] = Layers(config)[k]
  BY <1>1, LayersKept
<1>3. "max_inflight_requests" \in DOMAIN Defaults /\ "receive_timeout_ms" \in DOMAIN Defaults
  BY DEF Defaults
<1> HIDE DEF rest, Layers
<1>4. LimitsOk(cli, rest) <=> LimitsOk(cli, config)
  BY <1>2, <1>3 DEF LimitsOk, Layers
<1>5. Mergeable(cli, rest, env) <=> Mergeable(cli, config, env)
  BY <1>4, SinksKept, ProxyOkKept DEF Mergeable, rest
<1>6. ASSUME Mergeable(cli, config, env)
      PROVE  Merge(cli, rest, env) = Merge(cli, config, env)
  <2>1. ProxyOk(cli, config, env)
    BY <1>6 DEF Mergeable
  <2>2. /\ ProxyRoutes(cli, rest, env) = ProxyRoutes(cli, config, env)
        /\ ProxySettings(cli, rest, env) = ProxySettings(cli, config, env)
    BY <2>1, ProxyOkKept DEF rest
  <2>3. /\ LogSink(cli, rest, env) = LogSink(cli, config, env)
        /\ PrettyLogDir(cli, rest, env) = PrettyLogDir(cli, config, env)
    BY SinksKept DEF rest
  <2>4. [k \in DOMAIN Defaults |-> Layers(rest)[k]] = [k \in DOMAIN Defaults |-> Layers(config)[k]]
    BY <1>2
  <2> QED  BY <2>2, <2>3, <2>4 DEF Merge, Layers
<1> QED  BY <1>5, <1>6 DEF rest
-----------------------------------------------------------------------------
(***************************************************************************)
(* The settings of a reader are what Settings::merge makes of the file it  *)
(* has loaded.                                                             *)
(***************************************************************************)
\* p holds the result of Settings::merge, or has stopped since there is none.
Merged(p) ==
    pc[p] \notin {"absent", "off", "merge"} /\ at[p] # "off" =>
        IF at[p] = "merge" THEN ~ Mergeable(Flags, loaded[p], Env)
        ELSE Mergeable(Flags, loaded[p], Env) /\ settings[p] = Merge(Flags, loaded[p], Env)

\* The inductive invariant about settings.
SettingsInv ==
    /\ world \in Worlds
    /\ \A path \in DOMAIN conf : IsConfig(conf[path])
    /\ \A p \in Readers : IsConfig(loaded[p]) /\ Merged(p)

\* A file that is absent counts as a configuration without keys.
LEMMA EmptyIsConfig == IsConfig(<< >>)
BY DEF IsConfig, ConfigRoutes, Get

\* What init writes is a configuration.
LEMMA TemplateIsConfig == ASSUME NEW profile PROVE IsConfig(RenderConfigTemplate(profile))
<1>1. "proxy" \notin DOMAIN RenderConfigTemplate(profile)
  <2>1. "proxy" \notin DOMAIN StorageSection(profile)
    BY DEF StorageSection
  <2>2. "proxy" \notin DOMAIN OutputSection(profile) /\ "proxy" \notin DOMAIN CommonTail
    BY DEF OutputSection, CommonTail
  <2> QED  BY <2>1, <2>2 DEF RenderConfigTemplate, Or
<1>2. ConfigRoutes(RenderConfigTemplate(profile)) = << >>
  BY <1>1 DEF ConfigRoutes, Get
<1> QED  BY <1>2 DEF IsConfig

\* The command line layer names options only.
LEMMA FlagsAreOptions == ASSUME world \in Worlds PROVE DOMAIN Flags \subseteq Options
BY WorldsAssumption DEF Flags, Cli, Or

\* Nobody has settings at the start.
LEMMA InitSettings == Init => SettingsInv
<1> SUFFICES ASSUME Init PROVE SettingsInv
  OBVIOUS
<1>1. \A p \in Readers : pc[p] \in {"off", "absent"} /\ loaded[p] = << >>
  BY DEF Init
<1> QED  BY <1>1, EmptyIsConfig, WorldsAssumption DEF Init, SettingsInv, Merged

\* A reader that does not move stays merged.
LEMMA MergedStays ==
    ASSUME NEW p \in Readers, Merged(p), world' = world, loaded'[p] = loaded[p], settings'[p] = settings[p],
           pc'[p] = pc[p], at'[p] = at[p]
    PROVE  Merged(p)'
<1>1. Flags' = Flags /\ Env' = Env
  BY DEF Flags, Env
<1> QED  BY <1>1 DEF Merged

\* An init changes files and no reader.
LEMMA InitKeepsSettings ==
    ASSUME StartInv, SettingsInv, NEW i \in Inits, InitBegin(i) \/ InitOpen(i) \/ InitWrite(i)
    PROVE  SettingsInv'
<1>1. InitFrame(i)
  BY InitFrames DEF StartInv
<1>2. \A p \in Readers : pc'[p] = pc[p] /\ at'[p] = at[p]
  BY <1>1, InitsAssumption DEF InitFrame, Procs
<1>3. world' = world /\ loaded' = loaded /\ settings' = settings
  BY <1>1 DEF InitFrame
<1>4. \A p \in Readers : Merged(p)'
  BY <1>2, <1>3, MergedStays DEF SettingsInv
<1>5. conf' = conf \/ \E path, text : conf' = Put(conf, path, text) /\ IsConfig(text)
  BY EmptyIsConfig, TemplateIsConfig DEF InitBegin, InitOpen, InitWrite
<1>6. \A path \in DOMAIN conf' : IsConfig(conf'[path])
  <2>1. CASE conf' = conf
    BY <2>1 DEF SettingsInv
  <2>2. CASE conf' # conf
    <3>1. PICK path, text : conf' = Put(conf, path, text) /\ IsConfig(text)
      BY <1>5, <2>2
    <3>2. DOMAIN conf' = DOMAIN conf \cup {path} /\ conf'[path] = text
      BY <3>1 DEF Put
    <3>3. \A f \in DOMAIN conf : f # path => conf'[f] = conf[f]
      BY <3>1 DEF Put
    <3> QED  BY <3>1, <3>2, <3>3 DEF SettingsInv
  <2> QED  BY <2>1, <2>2
<1>7. (\A path \in DOMAIN conf : IsConfig(conf[path]))'
  BY <1>6 DEF IsConfig
<1>8. \A p \in Readers : IsConfig(loaded[p])'
  BY <1>3 DEF SettingsInv, IsConfig
<1> QED  BY <1>3, <1>4, <1>7, <1>8 DEF SettingsInv

\* A reader that loads has no settings yet.
LEMMA LoadSettings ==
    ASSUME StartInv, SettingsInv, NEW p \in Readers, Load(p)
    PROVE  SettingsInv'
<1>1. pc[p] = "off" /\ world' = world /\ conf' = conf /\ settings' = settings
  BY DEF Load
<1>2. p \in Procs /\ DOMAIN loaded = Readers
  BY DEF Procs, StartInv, StepsOK
<1>3. \/ pc'[p] = "merge" /\ loaded' = [loaded EXCEPT ![p] = Get(conf, ReadPath, << >>)]
      \/ at'[p] = "off" /\ loaded' = loaded
  <2>1. CASE LoadOk
    BY <1>1, <2>1, GoIs DEF StartInv, Load
  <2>2. CASE ~ LoadOk
    BY <1>1, <2>2, FailIs DEF StartInv, Load
  <2> QED  BY <2>1, <2>2
<1>4. \A q \in Readers : q # p => pc'[q] = pc[q] /\ at'[q] = at[q]
  <2>1. CASE LoadOk
    BY <1>1, <2>1, GoIs DEF StartInv, Load, Procs
  <2>2. CASE ~ LoadOk
    BY <1>1, <2>2, FailIs DEF StartInv, Load, Procs
  <2> QED  BY <2>1, <2>2
<1>5. IsConfig(Get(conf, ReadPath, << >>))
  BY EmptyIsConfig DEF SettingsInv, Get
<1>6. \A q \in Readers : q # p => loaded'[q] = loaded[q]
  BY <1>2, <1>3
<1>7. \A q \in Readers : IsConfig(loaded'[q])
  BY <1>2, <1>3, <1>5, <1>6 DEF SettingsInv
<1>8. Merged(p)'
  BY <1>3 DEF Merged
<1>9. \A q \in Readers : q # p => Merged(q)'
  BY <1>1, <1>4, <1>6, MergedStays DEF SettingsInv
<1> QED  BY <1>1, <1>7, <1>8, <1>9 DEF SettingsInv

\* The step of Settings::merge itself.
LEMMA MergeSettingsKeeps ==
    ASSUME StartInv, SettingsInv, NEW p \in Readers, MergeSettings(p)
    PROVE  SettingsInv'
<1>1. pc[p] = "merge" /\ world' = world /\ conf' = conf /\ loaded' = loaded
  BY DEF MergeSettings
<1>2. Flags' = Flags /\ Env' = Env
  BY <1>1 DEF Flags, Env
<1>3. p \in Procs /\ DOMAIN settings = Readers
  BY DEF Procs, StartInv, StepsOK
<1>4. CASE Mergeable(Flags, loaded[p], Env)
  <2>1. Go(p, "router") /\ settings' = [settings EXCEPT ![p] = Merge(Flags, loaded[p], Env)]
    BY <1>4 DEF MergeSettings
  <2>2. /\ at'[p] = "none"
        /\ \A q \in Readers : q # p => pc'[q] = pc[q] /\ at'[q] = at[q]
    BY <1>1, <2>1, GoIs DEF StartInv, Procs
  <2>3. settings'[p] = Merge(Flags, loaded[p], Env) /\ \A q \in Readers : q # p => settings'[q] = settings[q]
    BY <1>3, <2>1
  <2>4. Merged(p)'
    BY <1>1, <1>2, <1>4, <2>2, <2>3 DEF Merged
  <2>5. \A q \in Readers : q # p => Merged(q)'
    BY <1>1, <2>2, <2>3, MergedStays DEF SettingsInv
  <2> QED  BY <1>1, <2>4, <2>5 DEF SettingsInv
<1>5. CASE ~ Mergeable(Flags, loaded[p], Env)
  <2>1. Fail(p) /\ settings' = settings
    BY <1>5 DEF MergeSettings
  <2>2. /\ at'[p] = "merge"
        /\ \A q \in Readers : q # p => pc'[q] = pc[q] /\ at'[q] = at[q]
    BY <1>1, <2>1, FailIs DEF StartInv, Procs
  <2>3. Merged(p)'
    BY <1>1, <1>2, <1>5, <2>2 DEF Merged
  <2>4. \A q \in Readers : q # p => Merged(q)'
    BY <1>1, <2>1, <2>2, MergedStays DEF SettingsInv
  <2> QED  BY <1>1, <2>3, <2>4 DEF SettingsInv
<1> QED  BY <1>4, <1>5

\* A reader that is past its settings, and the other one, keep them.
LEMMA LaterKeeps ==
    ASSUME StartInv, SettingsInv, NEW p \in Readers, NEW step, step \notin {"failed", "absent", "off", "merge"},
           pc[p] \notin {"absent", "off", "merge", "failed", "none"},
           Go(p, step) \/ Fail(p) \/ UNCHANGED <<pc, at>>,
           world' = world, conf' = conf, loaded' = loaded, settings' = settings
    PROVE  SettingsInv'
<1>1. \A q \in Readers : q # p => pc'[q] = pc[q] /\ at'[q] = at[q]
  BY GoIs, FailIs DEF StartInv, Procs
<1>2. at[p] = "none"
  BY DEF StartInv, StepsOK, Procs
<1>3. at'[p] \notin {"off", "merge"}
  BY <1>2, GoIs, FailIs DEF StartInv
<1>4. Flags' = Flags /\ Env' = Env
  BY DEF Flags, Env
<1>5. Merged(p)'
  BY <1>2, <1>3, <1>4 DEF SettingsInv, Merged
<1>6. \A q \in Readers : q # p => Merged(q)'
  BY <1>1, MergedStays DEF SettingsInv
<1> QED  BY <1>5, <1>6 DEF SettingsInv

\* Every step keeps the invariant.
LEMMA SettingsStep == StartInv /\ SettingsInv /\ [Next]_vars => SettingsInv'
<1> SUFFICES ASSUME StartInv, SettingsInv, [Next]_vars PROVE SettingsInv'
  OBVIOUS
<1>1. CASE \E i \in Inits : InitBegin(i) \/ InitOpen(i) \/ InitWrite(i)
  BY <1>1, InitKeepsSettings
<1>2. CASE \E p \in Readers : Load(p)
  BY <1>2, LoadSettings
<1>3. CASE \E p \in Readers : MergeSettings(p)
  BY <1>3, MergeSettingsKeeps
<1>4. ASSUME NEW p \in Readers, SpawnRouter(p) PROVE SettingsInv'
  <2>1. /\ pc[p] = "router" /\ world' = world /\ conf' = conf /\ loaded' = loaded /\ settings' = settings
        /\ Go(p, "probe") \/ Go(p, "jsonl") \/ Fail(p)
    BY <1>4 DEF SpawnRouter, readers
  <2> QED  BY <2>1, LaterKeeps
<1>5. CASE Probe \/ ProbeGrpc \/ ProbeHttp \/ ProbeDrop
  <2>1. /\ pc["dry"] \in {"probe", "grpc", "http", "drop"}
        /\ world' = world /\ conf' = conf /\ loaded' = loaded /\ settings' = settings
        /\ Go("dry", "grpc") \/ Go("dry", "http") \/ Go("dry", "drop") \/ Go("dry", "ok") \/ Fail("dry")
           \/ UNCHANGED <<pc, at>>
    BY <1>5 DEF Probe, ProbeGrpc, ProbeHttp, ProbeDrop, Refused, readers
  <2> QED  BY <2>1, LaterKeeps DEF Readers
<1>6. CASE OpenJsonl \/ OpenPretty \/ \E l \in Listeners : Bind(l) /\ pc["serve"] = "bind"
  <2>1. /\ pc["serve"] \in {"jsonl", "pretty", "bind"}
        /\ world' = world /\ conf' = conf /\ loaded' = loaded /\ settings' = settings
        /\ Go("serve", "pretty") \/ Go("serve", "bind") \/ Go("serve", "running") \/ Fail("serve") \/ UNCHANGED <<pc, at>>
    BY <1>6 DEF OpenJsonl, OpenPretty, Bind, Refused, readers
  <2> QED  BY <2>1, LaterKeeps DEF Readers
<1>7. ASSUME world' = world, conf' = conf, loaded' = loaded, settings' = settings, pc' = pc, at' = at
      PROVE  SettingsInv'
  <2>1. \A p \in Readers : Merged(p)'
    BY <1>7, MergedStays DEF SettingsInv
  <2> QED  BY <1>7, <2>1 DEF SettingsInv
<1>8. ASSUME NEW l \in Listeners, Bind(l), pc["serve"] # "bind" PROVE SettingsInv'
  <2>1. pc["serve"] = "failed" /\ at["serve"] = "bind"
    BY <1>8 DEF Bind, StartInv, StepsOK, Procs, Readers
  <2>2. world' = world /\ conf' = conf /\ loaded' = loaded /\ settings' = settings
    BY <1>8 DEF Bind, readers
  <2>3. held'["serve"] # Listeners
    <3>1. PICK k \in tried \cap Listeners : k \notin held["serve"]
      BY <2>1 DEF StartInv, PortInv
    <3>2. held'["serve"] \subseteq held["serve"] \cup {l} /\ l \notin tried
      BY <1>8, <2>1, Distinct DEF Bind, Hold, Refused, StartInv, StepsOK
    <3> QED  BY <3>1, <3>2
  <2>4. pc' = pc /\ at' = at
    BY <1>8, <2>1, <2>3 DEF Bind
  <2> QED  BY <2>2, <2>4, <1>7
<1>9. CASE BeginLine \/ EndLine \/ (\E p \in Readers, l \in Listeners : Drop(p, l)) \/ UNCHANGED vars
  <2>1. /\ world' = world /\ conf' = conf /\ loaded' = loaded /\ settings' = settings
        /\ pc' = pc /\ at' = at
    BY <1>9 DEF BeginLine, EndLine, Drop, vars, readers
  <2> QED  BY <2>1, <1>7
<1> QED  BY <1>1, <1>2, <1>3, <1>4, <1>5, <1>6, <1>8, <1>9 DEF Next

\* Every reader has the settings that its flags, its variables and the file it
\* loaded give, whatever the inits do to that file afterwards.
THEOREM SettingsInvariant == Spec => []SettingsInv
BY InitSettings, SettingsStep, StartInvariant, PTL DEF Spec

\* What flags or variables override in the file has no effect on the settings or
\* on whether there are any, for all flags, variables and files, the headers of
\* a vendor in all spellings included.
THEOREM OverriddenTheorem == Spec => []OverriddenIsInert
<1>1. SettingsInv => OverriddenIsInert
  <2> SUFFICES ASSUME SettingsInv, NEW p \in Readers,
                      pc[p] \notin {"absent", "off", "merge"}, at[p] # "off"
               PROVE  LET env == [k \in {k \in DOMAIN world.env : k \in Options => Given(world.env, k)} |-> world.env[k]]
                          cli == Or(world.flags, [k \in DOMAIN env \cap Options |-> env[k]])
                          rest == WithoutOverridden(cli, loaded[p])
                      IN  IF at[p] = "merge" THEN ~ Mergeable(cli, rest, env)
                          ELSE Mergeable(cli, rest, env) /\ settings[p] = Merge(cli, rest, env)
    BY DEF OverriddenIsInert
  <2> DEFINE env == [k \in {k \in DOMAIN world.env : k \in Options => Given(world.env, k)} |-> world.env[k]]
             cli == Or(world.flags, [k \in DOMAIN env \cap Options |-> env[k]])
             rest == WithoutOverridden(cli, loaded[p])
  <2>1. env = Env
    <3>1. {k \in DOMAIN world.env : k \in Options => Given(world.env, k)}
             = DOMAIN world.env \ {o \in Options : ~ Given(world.env, o)}
      OBVIOUS
    <3> QED  BY <3>1 DEF Env, ClearEmptyEnv
  <2> HIDE DEF env
  <2>2. cli = Flags
    <3>1. DOMAIN env \cap Options = Options \cap DOMAIN env
      OBVIOUS
    <3> QED  BY <2>1, <3>1 DEF Flags, Cli
  <2> HIDE DEF cli
  <2>3. DOMAIN cli \subseteq Options /\ IsConfig(loaded[p])
    BY <2>2, FlagsAreOptions DEF SettingsInv
  <2>4. /\ Mergeable(cli, rest, env) <=> Mergeable(cli, loaded[p], env)
        /\ Mergeable(cli, loaded[p], env) => Merge(cli, rest, env) = Merge(cli, loaded[p], env)
    BY <2>3, MergeKept
  <2> HIDE DEF rest
  <2>5. IF at[p] = "merge" THEN ~ Mergeable(cli, loaded[p], env)
        ELSE Mergeable(cli, loaded[p], env) /\ settings[p] = Merge(cli, loaded[p], env)
    BY <2>1, <2>2 DEF SettingsInv, Merged
  <2>6. IF at[p] = "merge" THEN ~ Mergeable(cli, rest, env)
        ELSE Mergeable(cli, rest, env) /\ settings[p] = Merge(cli, rest, env)
    BY <2>4, <2>5
  <2> QED  BY <2>6 DEF env, cli, rest
<1> QED  BY <1>1, SettingsInvariant, PTL

\* A list that is not empty has a first member.
LEMMA HasFirst == ASSUME NEW S, NEW s \in Seq(S), s # << >> PROVE 1 \in DOMAIN s
<1>1. Len(s) \in Nat /\ Len(s) # 0 /\ DOMAIN s = 1..Len(s)
  OBVIOUS
<1> QED  BY <1>1

\* The routes that Settings::merge has passed claim every service once, and
\* each has one.
LEMMA LanesAre ==
    ASSUME NEW cli, NEW config, NEW env, IsConfig(config), Mergeable(cli, config, env),
           Merge(cli, config, env).proxy # << >>
    PROVE  LET lanes == Merge(cli, config, env).proxy.routes
           IN  ClaimsUnique(lanes) /\ \A n \in DOMAIN lanes : 1 \in DOMAIN lanes[n].service_names
<1> DEFINE routes == ConfigRoutes(config)
           lanes == ProxyRoutes(cli, config, env)
<1>1. Merge(cli, config, env).proxy = IF lanes = << >> THEN << >> ELSE ProxySettings(cli, config, env)
  <2> HIDE DEF lanes
  <2> QED  BY DEF Merge, Or, Defaults, lanes
<1>2. lanes # << >> /\ Merge(cli, config, env).proxy.routes = lanes
  BY <1>1 DEF ProxySettings
<1>3. ProxyOk(cli, config, env)
  BY DEF Mergeable
<1>4. ClaimsUnique(lanes)
  BY <1>2, <1>3 DEF ProxyOk
<1>5. NamesUnique(routes) /\ \A i \in CustomRoutes(routes) : CustomOk(routes[i], env)
  BY <1>3 DEF ProxyOk
<1>6. \A i \in DOMAIN routes : routes[i].service_names \in Seq(Services(routes[i]))
  BY DEF IsConfig
<1>7. DOMAIN lanes = {v \in Vendors : VendorPresent(cli, routes, v)} \cup {routes[i].name : i \in CustomRoutes(routes)}
  BY DEF ProxyRoutes
<1>8. \A n \in DOMAIN lanes : lanes[n] = IF n \in Vendors THEN BuildVendorRoute(cli, routes, n, env)
                                         ELSE BuildCustomRoute(RouteNamed(routes, n), env)
  BY <1>7 DEF ProxyRoutes
<1> HIDE DEF lanes, routes
<1>9. ASSUME NEW n \in DOMAIN lanes PROVE 1 \in DOMAIN lanes[n].service_names
  <2>1. CASE n \in Vendors
    <3> DEFINE names == VendorBase(routes, n).service_names
    <3>1. lanes[n].service_names = NormalizeServiceNames(names, n)
      BY <1>8, <2>1 DEF BuildVendorRoute
    <3>2. names = << >> \/ 1 \in DOMAIN names
      <4>1. CASE HasRoute(routes, n)
        <5>1. PICK i \in DOMAIN routes : routes[i].name = n
          BY <4>1 DEF HasRoute
        <5>2. names = routes[i].service_names
          BY <1>5, <4>1, <5>1, RouteNamedIs DEF VendorBase
        <5> QED  BY <1>6, <5>2, HasFirst
      <4>2. CASE ~ HasRoute(routes, n)
        BY <4>2 DEF VendorBase
      <4> QED  BY <4>1, <4>2
    <3>3. 1 \in DOMAIN DefaultServices[n]
      <4>1. n = "anthropic" \/ n = "openai"
        BY <2>1 DEF Vendors, DefaultServices
      <4>2. DefaultServices["anthropic"] = <<"claude-code">>
        BY DEF DefaultServices
      <4>3. DefaultServices["openai"] = <<"codex_cli_rs", "codex_exec", "codex-app-server", "codex_mcp_server",
                                         "Codex Desktop", "codex-exec-server">>
        BY DEF DefaultServices
      <4>4. 1 \in DOMAIN <<"claude-code">>
        OBVIOUS
      <4>5. 1 \in DOMAIN <<"codex_cli_rs", "codex_exec", "codex-app-server", "codex_mcp_server",
                            "Codex Desktop", "codex-exec-server">>
        OBVIOUS
      <4>6. CASE n = "anthropic"
        BY ONLY <4>2, <4>4, <4>6
      <4>7. CASE n = "openai"
        BY ONLY <4>3, <4>5, <4>7
      <4> QED  BY ONLY <4>1, <4>6, <4>7
    <3> HIDE DEF names
    <3> QED  BY <3>1, <3>2, <3>3 DEF NormalizeServiceNames
  <2>2. CASE n \notin Vendors
    <3>1. PICK i \in CustomRoutes(routes) : routes[i].name = n
      BY <1>7, <2>2
    <3>2. i \in DOMAIN routes
      BY DEF CustomRoutes
    <3>3. RouteNamed(routes, n) = routes[i]
      BY <1>5, <3>1, <3>2, RouteNamedIs
    <3>4. lanes[n].service_names = routes[i].service_names
      BY <1>8, <2>2, <3>3 DEF BuildCustomRoute
    <3>5. routes[i].service_names # << >>
      BY <1>5 DEF CustomOk
    <3> QED  BY <1>6, <3>2, <3>4, <3>5, HasFirst
  <2> QED  BY <2>1, <2>2
<1> QED  BY <1>2, <1>4, <1>9

\* The matcher sends a resource to the lane that lists its service.
LEMMA MatchesLaneIs ==
    ASSUME NEW lanes, ClaimsUnique(lanes), \A n \in DOMAIN lanes : 1 \in DOMAIN lanes[n].service_names
    PROVE  /\ \A m, n \in DOMAIN lanes : \A s : s \in Services(lanes[m]) /\ s \in Services(lanes[n]) => m = n
           /\ \A n \in DOMAIN lanes : EmptyText \notin Services(lanes[n])
           /\ \A n \in DOMAIN lanes : \A r :
                 MatchesLane(lanes, n, r) <=> ExtractServiceName(r) \in Services(lanes[n])
<1>1. ASSUME NEW m \in DOMAIN lanes, NEW n \in DOMAIN lanes, NEW s, s \in Services(lanes[m]), s \in Services(lanes[n])
      PROVE  m = n
  <2>1. PICK i \in DOMAIN lanes[m].service_names : lanes[m].service_names[i] = s
    BY <1>1 DEF Services
  <2>2. PICK j \in DOMAIN lanes[n].service_names : lanes[n].service_names[j] = s
    BY <1>1 DEF Services
  <2> QED  BY <2>1, <2>2 DEF ClaimsUnique
<1>2. ASSUME NEW n \in DOMAIN lanes PROVE EmptyText \notin Services(lanes[n])
  BY DEF ClaimsUnique, Services
<1> DEFINE known == UNION {Services(lanes[n]) : n \in DOMAIN lanes}
<1>3. DOMAIN Matcher(lanes) = known
  BY DEF Matcher
<1>4. ASSUME NEW n \in DOMAIN lanes, NEW s \in Services(lanes[n])
      PROVE  s \in known /\ Matcher(lanes)[s] = n
  <2> DEFINE m == CHOOSE m \in DOMAIN lanes : s \in Services(lanes[m])
  <2>1. s \in known
    OBVIOUS
  <2>2. Matcher(lanes)[s] = m
    BY <2>1 DEF Matcher
  <2>3. m \in DOMAIN lanes /\ s \in Services(lanes[m])
    OBVIOUS
  <2> HIDE DEF m
  <2> QED  BY <1>1, <2>1, <2>2, <2>3
<1>5. ASSUME NEW n \in DOMAIN lanes PROVE LaneIndex(lanes, n) = n
  <2>1. lanes[n].service_names[1] \in Services(lanes[n])
    BY DEF Services
  <2> QED  BY <1>4, <2>1 DEF LaneIndex
<1>6. ASSUME NEW n \in DOMAIN lanes, NEW r
      PROVE  MatchesLane(lanes, n, r) <=> ExtractServiceName(r) \in Services(lanes[n])
  <2> DEFINE s == ExtractServiceName(r)
  <2>1. MatchesLane(lanes, n, r) <=> s \in known /\ Matcher(lanes)[s] = n
    BY <1>3, <1>5 DEF MatchesLane
  <2> HIDE DEF s
  <2>2. ASSUME s \in known, Matcher(lanes)[s] = n PROVE s \in Services(lanes[n])
    <3>1. PICK m \in DOMAIN lanes : s \in Services(lanes[m])
      BY <2>2
    <3> QED  BY <1>4, <2>2, <3>1
  <2>3. s \in Services(lanes[n]) => s \in known /\ Matcher(lanes)[s] = n
    BY <1>4
  <2> QED  BY <2>1, <2>2, <2>3 DEF s
<1> QED  BY <1>1, <1>2, <1>6

\* ProxyRouter sends every resource to the one route that lists its service: no
\* two routes can claim it, whatever flags, vendors and custom routes there are.
THEOREM RoutedTheorem == Spec => []ServiceRoutedOnce
<1>1. StartInv /\ SettingsInv => ServiceRoutedOnce
  <2> SUFFICES ASSUME StartInv, SettingsInv, settings["serve"] # << >>, settings["serve"].proxy # << >>
               PROVE  LET known == UNION {Services(Lanes[n]) : n \in DOMAIN Lanes}
                      IN  /\ \A s \in known \cup {"unlisted"} :
                                {n \in DOMAIN Lanes : MatchesLane(Lanes, n, <<<<"string", s>>>>)}
                                    = {n \in DOMAIN Lanes : s \in Services(Lanes[n])}
                          /\ \A s \in known : Cardinality({n \in DOMAIN Lanes : s \in Services(Lanes[n])}) = 1
                          /\ \A n \in DOMAIN Lanes, r \in {<<>>, <<<<"other">>>>, <<<<"string", EmptyText>>>>} :
                                Filtered(Lanes, n, "logs", <<r>>) = {}
    BY DEF ServiceRoutedOnce
  <2> DEFINE known == UNION {Services(Lanes[n]) : n \in DOMAIN Lanes}
  <2>1. "serve" \in Readers
    BY DEF Readers
  <2>2. pc["serve"] \notin {"absent", "off", "merge"} /\ at["serve"] \notin {"off", "merge"}
    BY <2>1 DEF StartInv, PassInv
  <2>3. /\ Mergeable(Flags, loaded["serve"], Env) /\ IsConfig(loaded["serve"])
        /\ settings["serve"] = Merge(Flags, loaded["serve"], Env)
    BY <2>1, <2>2 DEF SettingsInv, Merged
  <2>4. ClaimsUnique(Lanes) /\ \A n \in DOMAIN Lanes : 1 \in DOMAIN Lanes[n].service_names
    BY <2>3, LanesAre DEF Lanes
  <2> HIDE DEF Lanes
  <2>5. /\ \A m, n \in DOMAIN Lanes : \A s : s \in Services(Lanes[m]) /\ s \in Services(Lanes[n]) => m = n
        /\ \A n \in DOMAIN Lanes : EmptyText \notin Services(Lanes[n])
        /\ \A n \in DOMAIN Lanes : \A r :
              MatchesLane(Lanes, n, r) <=> ExtractServiceName(r) \in Services(Lanes[n])
    BY <2>4, MatchesLaneIs
  <2>6. ASSUME NEW s
        PROVE  {n \in DOMAIN Lanes : MatchesLane(Lanes, n, <<<<"string", s>>>>)}
                  = {n \in DOMAIN Lanes : s \in Services(Lanes[n])}
    <3>1. ExtractServiceName(<<<<"string", s>>>>) = s
      BY DEF ExtractServiceName
    <3> QED  BY <2>5, <3>1
  <2>7. ASSUME NEW s \in known PROVE Cardinality({n \in DOMAIN Lanes : s \in Services(Lanes[n])}) = 1
    <3>1. PICK m \in DOMAIN Lanes : s \in Services(Lanes[m])
      OBVIOUS
    <3>2. {n \in DOMAIN Lanes : s \in Services(Lanes[n])} = {m}
      BY <2>5, <3>1
    <3> QED  BY <3>2, FS_Singleton
  <2>8. ASSUME NEW n \in DOMAIN Lanes, NEW r \in {<<>>, <<<<"other">>>>, <<<<"string", EmptyText>>>>}
        PROVE  Filtered(Lanes, n, "logs", <<r>>) = {}
    <3>1. ExtractServiceName(r) = EmptyText
      BY DEF ExtractServiceName
    <3>2. ~ MatchesLane(Lanes, n, r)
      BY <2>5, <3>1
    <3>3. DOMAIN <<r>> = {1} /\ <<r>>[1] = r
      OBVIOUS
    <3> QED  BY <3>2, <3>3 DEF Filtered
  <2> QED  BY <2>6, <2>7, <2>8
<1> QED  BY <1>1, StartInvariant, SettingsInvariant, PTL
-----------------------------------------------------------------------------
(***************************************************************************)
(* A batch is kept for its days, for every number of writers, every length *)
(* of a day in ticks, every setting and every calendar, provided that no   *)
(* local date lasts longer than 24 hours. MCRetentionLongDay shows that    *)
(* the provision is needed.                                                *)
(***************************************************************************)
\* A local date is over 24 hours after it began, at the latest.
ShortDays ==
    \A s, t \in 0..MaxTime : s <= t /\ LocalDate[s] = LocalDate[t] => t - s <= Hours24

\* How long a batch is to be kept.
Keep == KeepDays * Hours24

\* The date d is over for good.
Past(d) == \A s \in now..MaxTime : LocalDate[s] # d

\* A file was last written on its date, and not before what it holds.
FilesOK ==
    /\ \A d \in exists : mtime[d] <= now /\ LocalDate[mtime[d]] = d
    /\ \A d \in Dates \ exists : content[d] = {}
    /\ \A d \in Dates : \A b \in content[d] : b \in 1..Len(wrote) /\ wrote[b] <= mtime[d]

\* What a cleanup is about to remove is past, and holds nothing that is to be
\* kept; so is a file that was removed while it was open.
CleanupOK ==
    /\ \A t \in Writers : cutoff[t] = 0 \/ cutoff[t] + Keep <= now
    /\ \A t \in Writers : \A d \in victim[t] :
          Past(d) /\ \A b \in content[d] : wrote[b] + Keep < now
    /\ orphan => Past(date)

\* A batch is in a file or need not be kept any more.
KeptOK ==
    \A b \in 1..Len(wrote) :
        /\ wrote[b] <= now
        /\ wrote[b] + Keep < now \/ \E d \in exists : b \in content[d]

RetentionInv == RetentionTypeOK /\ FilesOK /\ CleanupOK /\ KeptOK
-----------------------------------------------------------------------------
LEMMA KeepIs == Keep \in Nat /\ Hours24 \in Nat \ {0} /\ Hours24 <= Keep
<1>1. KeepDays \in Nat /\ KeepDays >= 1 /\ Hours24 \in Nat \ {0}
  BY RetentionAssumption DEF KeepDays
<1>2. \A k, h \in Nat : k >= 1 => k * h \in Nat /\ h <= k * h  OBVIOUS
<1> QED  BY <1>1, <1>2 DEF Keep

LEMMA CutoffIs ==
    ASSUME now \in Nat
    PROVE  Cutoff \in Nat /\ (Cutoff = 0 \/ Cutoff + Keep <= now)
BY KeepIs DEF Cutoff, Keep

LEMMA DatesAre ==
    /\ MaxTime \in Nat
    /\ \A t \in 0..MaxTime : LocalDate[t] \in Dates
BY RetentionAssumption DEF Dates

\* A file that is old enough to go is past, and so is all that it holds.
LEMMA OldIsPast ==
    ASSUME ShortDays, RetentionTypeOK, FilesOK, NEW d \in exists, NEW c \in Nat,
           c + Keep <= now, mtime[d] < c
    PROVE  Past(d) /\ \A b \in content[d] : wrote[b] + Keep < now
<1>1. d \in Dates /\ mtime[d] \in Nat /\ now \in 0..MaxTime /\ wrote \in Seq(Nat)
  BY DEF RetentionTypeOK
<1>2. MaxTime \in Nat /\ Keep \in Nat /\ Hours24 \in Nat /\ Hours24 <= Keep  BY KeepIs, DatesAre
<1>3. mtime[d] <= now /\ LocalDate[mtime[d]] = d  BY DEF FilesOK
<1>4. ASSUME NEW s \in now..MaxTime  PROVE LocalDate[s] # d
  <2>1. s \in 0..MaxTime /\ mtime[d] \in 0..MaxTime /\ mtime[d] <= s /\ s - mtime[d] > Hours24
    BY <1>1, <1>2, <1>3
  <2> QED  BY <1>3, <2>1, <1>2 DEF ShortDays
<1>5. ASSUME NEW b \in content[d]  PROVE wrote[b] + Keep < now
  <2>1. b \in 1..Len(wrote) /\ wrote[b] <= mtime[d]  BY <1>1 DEF FilesOK
  <2>2. wrote[b] \in Nat  BY <1>1, <2>1
  <2> QED  BY <1>1, <1>2, <2>1, <2>2
<1> QED  BY <1>4, <1>5 DEF Past

LEMMA PastStays ==
    ASSUME now' \in Nat, now \in Nat, now' >= now, NEW d, Past(d)
    PROVE  Past(d)'
<1>1. \A s \in now'..MaxTime : s \in now..MaxTime  BY DatesAre
<1> QED  BY <1>1 DEF Past

LEMMA StartRetention == RetentionInit => RetentionInv
<1> SUFFICES ASSUME RetentionInit  PROVE RetentionInv
  OBVIOUS
<1>1. MaxTime \in Nat /\ 0 \in 0..MaxTime /\ LocalDate[0] \in Dates  BY DatesAre
<1>2. UtcDate(0) \in Nat  BY KeepIs DEF UtcDate
<1>3. RetentionTypeOK
  <2>1. wrote \in Seq(Nat)  BY DEF RetentionInit
  <2>2. orphan \in BOOLEAN  BY DEF RetentionInit
  <2> QED  BY <1>1, <1>2, <2>1, <2>2 DEF RetentionInit, RetentionTypeOK
<1>4. FilesOK  BY <1>1 DEF RetentionInit, FilesOK
<1>5. CleanupOK  BY DEF RetentionInit, CleanupOK
<1>6. KeptOK  BY DEF RetentionInit, KeptOK
<1> QED  BY <1>3, <1>4, <1>5, <1>6 DEF RetentionInv

LEMMA TickStep ==
    ASSUME RetentionInv, Tick
    PROVE  RetentionInv'
<1>0. RetentionTypeOK /\ FilesOK /\ CleanupOK /\ KeptOK  BY DEF RetentionInv
<1>1. now \in Nat /\ now' = now + 1 /\ now' \in 0..MaxTime /\ now' \in Nat /\ Keep \in Nat
  BY <1>0, DatesAre, KeepIs DEF RetentionTypeOK, Tick
<1>2. UNCHANGED <<exists, mtime, content, date, orphan, lastDay, phase, cutoff, todo, victim, wrote>>
  BY DEF Tick, files, thread
<1>3. RetentionTypeOK'  BY <1>0, <1>1, <1>2 DEF RetentionTypeOK, Dates
<1>4. FilesOK'
  <2>1. \A d \in exists : mtime[d] <= now'  BY <1>0, <1>1 DEF FilesOK, RetentionTypeOK
  <2> QED  BY <1>0, <1>2, <2>1 DEF FilesOK, Dates
<1>5. CleanupOK'
  <2>1. \A d : Past(d) => Past(d)'  BY <1>1, PastStays
  <2>2. \A t \in Writers : cutoff[t] = 0 \/ cutoff[t] + Keep <= now'
    BY <1>0, <1>1 DEF CleanupOK, RetentionTypeOK
  <2>3. ASSUME NEW t \in Writers, NEW d \in victim[t], NEW b \in content[d]
        PROVE  wrote[b] + Keep < now'
    <3>1. d \in Dates /\ wrote \in Seq(Nat)  BY <1>0 DEF RetentionTypeOK
    <3>2. b \in 1..Len(wrote) /\ wrote[b] \in Nat  BY <1>0, <3>1 DEF FilesOK
    <3>3. wrote[b] + Keep < now  BY <1>0 DEF CleanupOK
    <3> QED  BY <1>1, <3>2, <3>3
  <2> QED  BY <1>0, <1>2, <2>1, <2>2, <2>3 DEF CleanupOK, Keep, KeepDays
<1>6. KeptOK'
  <2>1. \A b \in 1..Len(wrote) : wrote[b] \in Nat  BY <1>0 DEF RetentionTypeOK
  <2>2. \A b \in 1..Len(wrote) :
           wrote[b] <= now' /\ (wrote[b] + Keep < now' \/ \E d \in exists : b \in content[d])
    BY <1>0, <1>1, <2>1 DEF KeptOK
  <2> QED  BY <1>2, <2>2 DEF KeptOK, Keep, KeepDays
<1> QED  BY <1>3, <1>4, <1>5, <1>6 DEF RetentionInv

\* A step of a writer before it appends: the clock and the batches stay.
LEMMA ScanSteps ==
    ASSUME ShortDays, RetentionInv, NEW t \in Writers,
           CheckDay(t) \/ (\E d \in Dates : Stat(t, d)) \/ ScanEnd(t)
    PROVE  RetentionInv'
<1>0. RetentionTypeOK /\ FilesOK /\ CleanupOK /\ KeptOK /\ now \in Nat
  BY DEF RetentionInv, RetentionTypeOK
<1>1. UNCHANGED <<now, exists, mtime, content, date, orphan, wrote>>
  BY DEF CheckDay, Stat, ScanEnd, files
<1>2. FilesOK' /\ KeptOK'  BY <1>0, <1>1 DEF FilesOK, KeptOK, Dates, Keep, KeepDays
<1>3. UtcDate(now) \in Nat /\ lastDay' \in Nat
  <2>1. UtcDate(now) \in Nat  BY <1>0, KeepIs DEF UtcDate
  <2> QED  BY <1>0, <2>1 DEF CheckDay, Stat, ScanEnd, RetentionTypeOK
<1>4. /\ phase' \in [Writers -> {"idle", "scan", "append"}]
      /\ cutoff' \in [Writers -> Nat]
      /\ todo' \in [Writers -> SUBSET Dates]
      /\ victim' \in [Writers -> SUBSET Dates]
  <2>1. Cutoff \in Nat  BY <1>0, CutoffIs
  <2>2. CASE CheckDay(t)  BY <1>0, <2>1, <2>2 DEF CheckDay, RetentionTypeOK
  <2>3. CASE \E d \in Dates : Stat(t, d)  BY <1>0, <2>3 DEF Stat, RetentionTypeOK
  <2>4. CASE ScanEnd(t)  BY <1>0, <2>4 DEF ScanEnd, RetentionTypeOK
  <2> QED  BY <2>2, <2>3, <2>4
<1>5. RetentionTypeOK'  BY <1>0, <1>1, <1>3, <1>4 DEF RetentionTypeOK, Dates
<1>6. \A u \in Writers : cutoff'[u] = 0 \/ cutoff'[u] + Keep <= now
  <2>1. Cutoff \in Nat /\ (Cutoff = 0 \/ Cutoff + Keep <= now)  BY <1>0, CutoffIs
  <2>2. \A u \in Writers : cutoff'[u] = cutoff[u] \/ cutoff'[u] = 0 \/ cutoff'[u] = Cutoff
    BY <1>0 DEF CheckDay, Stat, ScanEnd, RetentionTypeOK
  <2> QED  BY <1>0, <2>1, <2>2 DEF CleanupOK
<1>7. ASSUME NEW u \in Writers, NEW d \in victim'[u]
      PROVE  Past(d) /\ \A b \in content[d] : wrote[b] + Keep < now
  <2>1. CASE d \in victim[u]  BY <1>0, <2>1 DEF CleanupOK
  <2>2. CASE d \notin victim[u]
    <3>1. d \in exists /\ mtime[d] < cutoff[t] /\ cutoff[t] \in Nat /\ mtime[d] \in Nat
      BY <1>0, <1>7, <2>2 DEF CheckDay, Stat, ScanEnd, RetentionTypeOK
    <3>2. cutoff[t] + Keep <= now  BY <1>0, <3>1 DEF CleanupOK
    <3> QED  BY <1>0, <3>1, <3>2, OldIsPast
  <2> QED  BY <2>1, <2>2
<1>8. CleanupOK'  BY <1>0, <1>1, <1>6, <1>7 DEF CleanupOK, Past, Keep, KeepDays
<1> QED  BY <1>2, <1>5, <1>8 DEF RetentionInv

LEMMA RemoveStep ==
    ASSUME RetentionInv, NEW t \in Writers, Remove(t)
    PROVE  RetentionInv'
<1>0. RetentionTypeOK /\ FilesOK /\ CleanupOK /\ KeptOK  BY DEF RetentionInv
<1>1. PICK d \in victim[t] :
          /\ exists' = exists \ {d} /\ mtime' = [mtime EXCEPT ![d] = 0]
          /\ content' = [content EXCEPT ![d] = {}] /\ orphan' = (orphan \/ d = date)
  BY DEF Remove
<1>2. /\ victim' = [victim EXCEPT ![t] = {}]
      /\ UNCHANGED <<now, date, lastDay, phase, cutoff, todo, wrote>>
  BY DEF Remove
<1>3. d \in Dates /\ Past(d) /\ \A b \in content[d] : wrote[b] + Keep < now
  BY <1>0 DEF CleanupOK, RetentionTypeOK
<1>4. /\ content'[d] = {} /\ \A x \in Dates \ {d} : content'[x] = content[x] /\ mtime'[x] = mtime[x]
      /\ victim'[t] = {} /\ \A u \in Writers \ {t} : victim'[u] = victim[u]
  BY <1>0, <1>1, <1>2, <1>3 DEF RetentionTypeOK
<1>5. RetentionTypeOK'
  <2>1. orphan' \in BOOLEAN  BY <1>1
  <2>2. /\ exists' \in SUBSET Dates /\ mtime' \in [Dates -> Nat]
        /\ content' \in [Dates -> SUBSET (1..MaxBatches)] /\ victim' \in [Writers -> SUBSET Dates]
    BY <1>0, <1>1, <1>2 DEF RetentionTypeOK
  <2> QED  BY <1>0, <1>2, <2>1, <2>2 DEF RetentionTypeOK, Dates
<1>6. FilesOK'
  <2>1. \A x \in exists' : mtime'[x] <= now /\ LocalDate[mtime'[x]] = x
    BY <1>0, <1>1, <1>4 DEF FilesOK, RetentionTypeOK
  <2>2. \A x \in Dates \ exists' : content'[x] = {}  BY <1>0, <1>1, <1>4 DEF FilesOK
  <2>3. \A x \in Dates : \A b \in content'[x] : b \in 1..Len(wrote) /\ wrote[b] <= mtime'[x]
    BY <1>0, <1>4 DEF FilesOK
  <2> QED  BY <1>2, <2>1, <2>2, <2>3 DEF FilesOK, Dates
<1>7. CleanupOK'
  <2>1. \A u \in Writers : \A x \in victim'[u] : Past(x) /\ \A b \in content'[x] : wrote[b] + Keep < now
    <3> SUFFICES ASSUME NEW u \in Writers, NEW x \in victim'[u]
                 PROVE  Past(x) /\ \A b \in content'[x] : wrote[b] + Keep < now
      OBVIOUS
    <3>1. x \in victim[u] /\ x \in Dates  BY <1>0, <1>4 DEF RetentionTypeOK
    <3>2. content'[x] \subseteq content[x]  BY <1>4, <3>1
    <3> QED  BY <1>0, <3>1, <3>2 DEF CleanupOK
  <2>2. orphan' => Past(date)  BY <1>0, <1>1, <1>3 DEF CleanupOK
  <2> QED  BY <1>0, <1>2, <2>1, <2>2 DEF CleanupOK, Past, Keep, KeepDays
<1>8. KeptOK'
  <2>1. ASSUME NEW b \in 1..Len(wrote)
        PROVE  wrote[b] <= now /\ (wrote[b] + Keep < now \/ \E x \in exists' : b \in content'[x])
    <3>1. wrote[b] <= now /\ (wrote[b] + Keep < now \/ \E x \in exists : b \in content[x])
      BY <1>0 DEF KeptOK
    <3>2. ASSUME NEW x \in exists, b \in content[x], x # d  PROVE x \in exists' /\ b \in content'[x]
      BY <1>0, <1>1, <1>4, <3>2 DEF RetentionTypeOK
    <3> QED  BY <1>3, <3>1, <3>2
  <2> QED  BY <1>2, <2>1 DEF KeptOK, Keep, KeepDays
<1> QED  BY <1>5, <1>6, <1>7, <1>8 DEF RetentionInv

LEMMA AppendStep ==
    ASSUME RetentionInv, NEW t \in Writers, AppendLine(t)
    PROVE  RetentionInv'
<1> DEFINE today == LocalDate[now]
           n == Len(wrote) + 1
<1>0. /\ RetentionTypeOK /\ FilesOK /\ CleanupOK /\ KeptOK /\ now \in 0..MaxTime /\ now \in Nat
      /\ wrote \in Seq(Nat) /\ MaxTime \in Nat /\ MaxBatches \in Nat
  BY RetentionAssumption DEF RetentionInv, RetentionTypeOK
<1>1. today \in Dates  BY <1>0, DatesAre
<1>2. ~ (orphan /\ today = date)
  <2>1. now \in now..MaxTime  BY <1>0
  <2> QED  BY <1>0, <2>1 DEF CleanupOK, Past
<1>3. /\ date' = today /\ orphan' = FALSE /\ exists' = exists \cup {today}
      /\ mtime' = [mtime EXCEPT ![today] = now]
      /\ content' = [content EXCEPT ![today] = @ \cup {n}]
      /\ wrote' = Append(wrote, now) /\ Len(wrote) < MaxBatches
      /\ phase' = [phase EXCEPT ![t] = "idle"]
      /\ UNCHANGED <<now, lastDay, cutoff, todo, victim>>
  BY <1>2 DEF AppendLine
<1> HIDE DEF today
<1>4. /\ content'[today] = content[today] \cup {n} /\ mtime'[today] = now
      /\ \A x \in Dates \ {today} : content'[x] = content[x] /\ mtime'[x] = mtime[x]
  BY <1>0, <1>1, <1>3 DEF RetentionTypeOK
<1>5. /\ wrote' \in Seq(Nat) /\ Len(wrote') = n /\ wrote'[n] = now /\ Len(wrote) \in Nat
      /\ \A b \in 1..Len(wrote) : wrote'[b] = wrote[b] /\ wrote[b] \in Nat /\ b \in 1..n
      /\ n \in 1..n /\ n \in 1..MaxBatches
      /\ \A b \in 1..n : b \in 1..Len(wrote) \/ b = n
  BY <1>0, <1>3
<1> HIDE DEF n
<1>6. RetentionTypeOK'
  <2>1. orphan' \in BOOLEAN  BY <1>3
  <2>2. /\ exists' \in SUBSET Dates /\ mtime' \in [Dates -> Nat]
        /\ content' \in [Dates -> SUBSET (1..MaxBatches)]
        /\ phase' \in [Writers -> {"idle", "scan", "append"}]
    BY <1>0, <1>1, <1>3, <1>5 DEF RetentionTypeOK
  <2> QED  BY <1>0, <1>1, <1>3, <1>5, <2>1, <2>2 DEF RetentionTypeOK, Dates
<1>7. FilesOK'
  <2>1. \A x \in exists' : mtime'[x] <= now /\ LocalDate[mtime'[x]] = x
    <3>1. LocalDate[now] = today  BY DEF today
    <3> QED  BY <1>0, <1>3, <1>4, <3>1 DEF FilesOK, RetentionTypeOK
  <2>2. \A x \in Dates \ exists' : content'[x] = {}  BY <1>0, <1>3, <1>4 DEF FilesOK
  <2>3. ASSUME NEW x \in Dates, NEW b \in content'[x]
        PROVE  b \in 1..Len(wrote') /\ wrote'[b] <= mtime'[x]
    <3>1. CASE b \in content[x]
      <4>1. b \in 1..Len(wrote) /\ wrote[b] <= mtime[x]  BY <1>0, <3>1 DEF FilesOK
      <4>2. wrote[b] <= now  BY <1>0, <4>1 DEF KeptOK
      <4> QED  BY <1>4, <1>5, <4>1, <4>2
    <3>2. CASE b = n /\ x = today  BY <1>0, <1>4, <1>5, <3>2
    <3> QED  BY <1>4, <2>3, <3>1, <3>2
  <2> QED  BY <1>3, <2>1, <2>2, <2>3 DEF FilesOK, Dates
<1>8. CleanupOK'
  <2>1. \A u \in Writers : \A x \in victim[u] : Past(x) /\ \A b \in content'[x] : wrote'[b] + Keep < now
    <3> SUFFICES ASSUME NEW u \in Writers, NEW x \in victim[u]
                 PROVE  Past(x) /\ \A b \in content'[x] : wrote'[b] + Keep < now
      OBVIOUS
    <3>1. x \in Dates /\ Past(x) /\ \A b \in content[x] : wrote[b] + Keep < now
      BY <1>0 DEF CleanupOK, RetentionTypeOK
    <3>2. x # today
      <4>1. now \in now..MaxTime  BY <1>0
      <4> QED  BY <3>1, <4>1 DEF Past, today
    <3>3. content'[x] = content[x]  BY <1>4, <3>1, <3>2
    <3>4. \A b \in content[x] : wrote'[b] = wrote[b]  BY <1>0, <1>5, <3>1 DEF FilesOK
    <3> QED  BY <3>1, <3>3, <3>4
  <2>2. ~ orphan'  BY <1>3
  <2> QED  BY <1>0, <1>3, <2>1, <2>2 DEF CleanupOK, Past, Keep, KeepDays
<1>9. KeptOK'
  <2>1. ASSUME NEW b \in 1..n
        PROVE  wrote'[b] <= now /\ (wrote'[b] + Keep < now \/ \E x \in exists' : b \in content'[x])
    <3>1. CASE b \in 1..Len(wrote)
      <4>1. wrote[b] <= now /\ (wrote[b] + Keep < now \/ \E x \in exists : b \in content[x])
        BY <1>0, <3>1 DEF KeptOK
      <4>2. wrote'[b] = wrote[b]  BY <1>5, <3>1
      <4>3. \A x \in exists : x \in exists' /\ content[x] \subseteq content'[x]
        BY <1>0, <1>3, <1>4 DEF RetentionTypeOK
      <4> QED  BY <4>1, <4>2, <4>3
    <3>2. CASE b = n  BY <1>0, <1>3, <1>4, <1>5, <3>2
    <3> QED  BY <1>5, <3>1, <3>2
  <2> QED  BY <1>3, <1>5, <2>1 DEF KeptOK, Keep, KeepDays
<1> QED  BY <1>6, <1>7, <1>8, <1>9 DEF RetentionInv

LEMMA RestartStep ==
    ASSUME ShortDays, RetentionInv, Restart
    PROVE  RetentionInv'
<1> DEFINE today == LocalDate[now]
           old == {d \in exists : mtime[d] < Cutoff}
<1>0. /\ RetentionTypeOK /\ FilesOK /\ CleanupOK /\ KeptOK /\ now \in 0..MaxTime /\ now \in Nat
      /\ exists \in SUBSET Dates /\ mtime \in [Dates -> Nat]
      /\ content \in [Dates -> SUBSET (1..MaxBatches)]
  BY DatesAre DEF RetentionInv, RetentionTypeOK
<1>1. today \in Dates  BY <1>0, DatesAre
<1>2. /\ exists' = (exists \ old) \cup {today}
      /\ content' = [d \in Dates |-> IF d \in old THEN {} ELSE content[d]]
      /\ mtime' = [d \in Dates |-> IF d = today /\ d \notin exists \ old THEN now
                                  ELSE IF d \in old THEN 0 ELSE mtime[d]]
      /\ date' = today /\ orphan' = FALSE /\ lastDay' = UtcDate(now)
      /\ phase' = [u \in Writers |-> "idle"] /\ cutoff' = [u \in Writers |-> 0]
      /\ todo' = [u \in Writers |-> {}] /\ victim' = [u \in Writers |-> {}]
      /\ UNCHANGED <<now, wrote>>
  BY DEF Restart
<1>3. ASSUME NEW d \in old  PROVE d \in Dates /\ \A b \in content[d] : wrote[b] + Keep < now
  <2>1. Cutoff \in Nat /\ (Cutoff = 0 \/ Cutoff + Keep <= now)  BY <1>0, CutoffIs
  <2>2. d \in exists /\ d \in Dates /\ mtime[d] \in Nat /\ mtime[d] < Cutoff  BY <1>0
  <2>3. Cutoff + Keep <= now  BY <2>1, <2>2
  <2> QED  BY <1>0, <2>1, <2>2, <2>3, OldIsPast
<1>4. old \subseteq exists  OBVIOUS
<1> HIDE DEF old
<1>5. RetentionTypeOK'
  <2>1. orphan' \in BOOLEAN  BY <1>2
  <2>2. UtcDate(now) \in Nat  BY <1>0, KeepIs DEF UtcDate
  <2>3. /\ exists' \in SUBSET Dates /\ mtime' \in [Dates -> Nat]
        /\ content' \in [Dates -> SUBSET (1..MaxBatches)]
    BY <1>0, <1>1, <1>2
  <2>4. /\ phase' \in [Writers -> {"idle", "scan", "append"}] /\ cutoff' \in [Writers -> Nat]
        /\ todo' \in [Writers -> SUBSET Dates] /\ victim' \in [Writers -> SUBSET Dates]
    BY <1>2
  <2> QED  BY <1>0, <1>1, <1>2, <2>1, <2>2, <2>3, <2>4 DEF RetentionTypeOK, Dates
<1> HIDE DEF today
<1>6. FilesOK'
  <2>1. ASSUME NEW x \in exists'  PROVE mtime'[x] <= now /\ LocalDate[mtime'[x]] = x
    <3>1. x \in Dates  BY <1>0, <1>1, <1>2
    <3>2. CASE x \in exists \ old  BY <1>0, <1>2, <3>1, <3>2 DEF FilesOK
    <3>3. CASE x \notin exists \ old
      <4>1. x = today /\ mtime'[x] = now  BY <1>2, <2>1, <3>1, <3>3
      <4> QED  BY <1>0, <4>1 DEF today
    <3> QED  BY <3>2, <3>3
  <2>2. \A x \in Dates \ exists' : content'[x] = {}  BY <1>0, <1>2 DEF FilesOK
  <2>3. ASSUME NEW x \in Dates, NEW b \in content'[x]
        PROVE  b \in 1..Len(wrote) /\ wrote[b] <= mtime'[x]
    <3>1. x \notin old /\ b \in content[x]  BY <1>2, <2>3
    <3>2. b \in 1..Len(wrote) /\ wrote[b] <= mtime[x]  BY <1>0, <3>1 DEF FilesOK
    <3>3. x \in exists  BY <1>0, <3>1 DEF FilesOK
    <3> QED  BY <1>2, <3>1, <3>2, <3>3
  <2>4. now' = now /\ wrote' = wrote  BY <1>2
  <2> QED  BY ONLY <2>1, <2>2, <2>3, <2>4 DEF FilesOK, Dates
<1>7. CleanupOK'  BY <1>2 DEF CleanupOK
<1>8. KeptOK'
  <2>1. ASSUME NEW b \in 1..Len(wrote)
        PROVE  wrote[b] <= now /\ (wrote[b] + Keep < now \/ \E x \in exists' : b \in content'[x])
    <3>1. wrote[b] <= now /\ (wrote[b] + Keep < now \/ \E x \in exists : b \in content[x])
      BY <1>0 DEF KeptOK
    <3>2. ASSUME NEW x \in exists, b \in content[x], x \notin old
          PROVE  x \in exists' /\ b \in content'[x]
      BY <1>0, <1>2, <3>2
    <3> QED  BY <1>3, <3>1, <3>2
  <2> QED  BY <1>2, <2>1 DEF KeptOK, Keep, KeepDays
<1> QED  BY <1>5, <1>6, <1>7, <1>8 DEF RetentionInv

LEMMA RetentionStutter ==
    ASSUME RetentionInv, UNCHANGED retentionVars
    PROVE  RetentionInv'
BY DEF RetentionInv, retentionVars, files, thread, RetentionTypeOK, FilesOK, CleanupOK, KeptOK, Past, Keep, KeepDays, Dates

LEMMA RetentionStep ==
    ASSUME ShortDays
    PROVE  RetentionInv /\ [RetentionNext]_retentionVars => RetentionInv'
<1> SUFFICES ASSUME RetentionInv, [RetentionNext]_retentionVars  PROVE RetentionInv'
  OBVIOUS
<1>1. ASSUME NEW t \in Writers,
             CheckDay(t) \/ (\E d \in Dates : Stat(t, d)) \/ Remove(t) \/ ScanEnd(t) \/ AppendLine(t)
      PROVE  RetentionInv'
  BY <1>1, ScanSteps, RemoveStep, AppendStep
<1> QED  BY <1>1, TickStep, RestartStep, RetentionStutter DEF RetentionNext

\* If no local date lasts longer than 24 hours, an acknowledged batch is in a
\* file of the directory until log-keep-days days have passed, although a file
\* may be removed long after the cleanup found it to be old: by then its date is
\* past, so that nobody has written to it since or will write to it again.
THEOREM RetainedTheorem ==
    ASSUME ShortDays
    PROVE  RetentionSpec => []Retained
<1>1. RetentionInit => RetentionInv  BY StartRetention
<1>2. RetentionInv /\ [RetentionNext]_retentionVars => RetentionInv'  BY RetentionStep
<1>3. RetentionInv => Retained
  <2> SUFFICES ASSUME RetentionInv, NEW b \in 1..Len(wrote), now - wrote[b] <= Keep
               PROVE  b \in Stored
    BY DEF Retained, Keep
  <2>1. now \in Nat /\ wrote \in Seq(Nat) /\ Keep \in Nat  BY KeepIs DEF RetentionInv, RetentionTypeOK
  <2>2. wrote[b] \in Nat  BY <2>1
  <2>3. ~ (wrote[b] + Keep < now)  BY <2>1, <2>2
  <2>4. \E d \in exists : b \in content[d]  BY <2>3 DEF RetentionInv, KeptOK
  <2> QED  BY <2>4 DEF Stored
<1> QED  BY <1>1, <1>2, <1>3, PTL DEF RetentionSpec
=============================================================================
