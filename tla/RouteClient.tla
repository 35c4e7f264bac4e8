---------------------------- MODULE RouteClient ----------------------------
(***************************************************************************)
(* One export of RouteClient (src/src/forward/client.rs): how it may end,  *)
(* and what retry_delay makes of a failure. Of a delay only this is kept:  *)
(* "zero" (the worker waits its own backoff) or "asked" (at least what the *)
(* upstream asked for); durations carry no clock in Proxy.                 *)
(***************************************************************************)

\* What an upstream may say of the time to wait: in the header Retry-After a
\* date that is over, seconds or a date, or something else; in a RetryInfo no
\* delay or one. A delay may be negative or too long for the clock.
Hints == {"absent", "unreadable", "past", "noDelay", "delay", "badDelay"}

\* parse_retry_after
ParseRetryAfter(hint) ==
    CASE hint = "past" -> "zero"
      [] hint = "delay" -> "asked"
      [] OTHER -> "none"

\* RpcStatus, RpcAny, RpcRetryInfo and RpcDuration as grpc_retry_info reads them.
GrpcRetryInfo(hint) ==
    CASE hint = "noDelay" -> "zero"
      [] hint = "delay" -> "asked"
      [] OTHER -> "none"

\* HttpClient::export: an HttpExportFailure for any status but 2xx, redirects
\* included, for they are not followed (400 and 500 stand for every status that
\* is not listed), or a reqwest::Error when the request is refused, broken or
\* late before the response headers. Once they have come the status decides
\* alone: the body is not read.
HttpFailures ==
    [by : {"status"}, status : {307, 400, 429, 500, 502, 503, 504},
     hint : {"absent", "unreadable", "past", "delay", "badDelay"}]
    \cup [by : {"send"}]

Codes == {"Cancelled", "Unknown", "InvalidArgument", "DeadlineExceeded", "NotFound",
          "AlreadyExists", "PermissionDenied", "ResourceExhausted", "FailedPrecondition",
          "Aborted", "OutOfRange", "Unimplemented", "Internal", "Unavailable",
          "DataLoss", "Unauthenticated"}

\* GrpcClient::export: a tonic::Status, one that the upstream sent, one that
\* tonic made of a failure of the channel before the response headers (it has
\* that as its source), or one it made of a response that broke off.
GrpcFailures ==
    [by : {"upstream"}, code : Codes, hint : {"absent", "noDelay", "delay", "badDelay"}]
    \cup [by : {"channel", "response"}, hint : {"absent"},
          code : {"Unknown", "Internal", "Unavailable", "DeadlineExceeded", "Cancelled"}]

\* RouteClient::export. A route has one transport; the worker does not look at
\* it, so the failures of both are put together.
Failures == HttpFailures \cup GrpcFailures

\* is_grpc_transport_failure: nobody but the channel has answered.
IsGrpcTransportFailure(f) == f.by = "channel"

OrZero(delay) == IF delay = "none" THEN "zero" ELSE delay

\* retry_delay: "none" where OTLP forbids to send again.
RetryDelay(f) ==
    IF f.by = "status"
    THEN IF f.status \in {429, 502, 503, 504} THEN OrZero(ParseRetryAfter(f.hint)) ELSE "none"
    ELSE IF f.by = "send" THEN "zero"
    ELSE CASE f.code \in {"Cancelled", "DeadlineExceeded", "Aborted", "OutOfRange",
                          "Unavailable", "DataLoss"} -> OrZero(GrpcRetryInfo(f.hint))
           [] f.code = "ResourceExhausted" -> GrpcRetryInfo(f.hint)
           [] f.code \in {"Unknown", "Internal"} /\ IsGrpcTransportFailure(f) -> "zero"
           [] OTHER -> "none"

Retryable(f) == RetryDelay(f) # "none"
=============================================================================
