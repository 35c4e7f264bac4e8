------------------------------ MODULE Routing ------------------------------
(***************************************************************************)
(* What main builds from the proxy settings before anything is received:   *)
(* spawn_router (src/src/forward/mod.rs) with one client per route         *)
(* (src/src/forward/client.rs), and the matcher of ProxyRouter             *)
(* (src/src/forward/router.rs) that splits a batch among the routes.       *)
(***************************************************************************)
EXTENDS Settings

CONSTANTS BinaryKeys,      \* header names that end in -bin
          NonAsciiTexts,   \* texts that neither kind of header may carry
          GrpcTimeoutMax   \* the longest timeout grpc-timeout can express

\* What validate_proxy_endpoint tells apart of a URL; a text that is no URL
\* has no scheme. The empty text is no URL either.
Endpoint(scheme, host, extra) == [scheme |-> scheme, host |-> host, extra |-> extra]

ValidProxyEndpoint(e) ==
    /\ e # EmptyText
    /\ e.scheme \in {"http", "https"} /\ e.host
    /\ e.extra \cap {"query", "fragment", "credentials"} = {}

\* build_grpc_endpoint and GrpcClient::connect. The connection itself is lazy.
GrpcClientOk(route, timeout) ==
    /\ ValidProxyEndpoint(route.endpoint)
    /\ timeout <= GrpcTimeoutMax
    /\ \A k \in DOMAIN route.headers : k \notin BinaryKeys /\ route.headers[k] \notin NonAsciiTexts

\* HttpClient::build
HttpClientOk(route) ==
    /\ ValidProxyEndpoint(route.endpoint)
    /\ \A k \in DOMAIN route.headers : route.headers[k] \notin NonAsciiTexts

ClientOk(route, timeout) ==
    IF route.transport = "grpc" THEN GrpcClientOk(route, timeout) ELSE HttpClientOk(route)

\* spawn_router returns a handle.
SpawnRouterOk(proxy) ==
    /\ proxy.queue_capacity <= MaxPermits
    /\ \A n \in DOMAIN proxy.routes : ClientOk(proxy.routes[n], proxy.timeout_ms)
-----------------------------------------------------------------------------
(***************************************************************************)
(* Matching. A resource is the sequence of its service.name values, of     *)
(* which the first counts: <<"string", s>> or <<"other">>.                 *)
(***************************************************************************)
Services(lane) == {lane.service_names[i] : i \in DOMAIN lane.service_names}

\* RouterInner.matcher; settings give every service to one lane.
Matcher(lanes) ==
    [s \in UNION {Services(lanes[n]) : n \in DOMAIN lanes} |->
        CHOOSE n \in DOMAIN lanes : s \in Services(lanes[n])]

ExtractServiceName(resource) ==
    IF resource # <<>> /\ resource[1][1] = "string" THEN resource[1][2] ELSE EmptyText

\* lane_index: where the matcher sends the first service of the lane.
LaneIndex(lanes, n) == Matcher(lanes)[lanes[n].service_names[1]]

\* service_name_matches_lane
MatchesLane(lanes, n, resource) ==
    LET s == ExtractServiceName(resource)
    IN  s \in DOMAIN Matcher(lanes) /\ Matcher(lanes)[s] = LaneIndex(lanes, n)

\* The resources of a batch that notify offers to lane n, by their position, in
\* the order they came: filter_logs, filter_traces and filter_metrics. Nothing
\* is sent when there are none.
Filtered(lanes, n, signal, resources) ==
    {i \in DOMAIN resources :
        signal \in lanes[n].signals /\ MatchesLane(lanes, n, resources[i])}
=============================================================================
