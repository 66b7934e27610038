-------------------------- MODULE SlayerDispatch --------------------------
(***************************************************************************)
(* Routing of a fully read request: the decisions of                       *)
(* slayer_http_request_dispatch, abstracted to the tests it makes.         *)
(*                                                                         *)
(* A request is a record                                                   *)
(*   path  - the class of uri.path ("none": apr_uri_parse found no path;   *)
(*           "service": one of the service map's urls, /db and /dbform;    *)
(*           "stats": /stats, /stats/log, /stats/error and /stats/args;    *)
(*           "file": anything else, answered by the file server);          *)
(*   auth  - whether the Authorization header is absent or malformed,      *)
(*           carries another token, or carries the configured token;       *)
(*   local - whether the peer address equals the local address.            *)
(***************************************************************************)

CONSTANT
    AuthConfigured   \* TRUE iff server->auth_token is not NULL

ASSUME AuthAssumption == AuthConfigured \in BOOLEAN

Paths == {"none", "/health", "/metrics", "service", "/shutdown", "stats",
          "file"}

AllRequests ==
    [path : Paths, auth : {"missing", "wrong", "match"}, local : BOOLEAN]

(***************************************************************************)
(* What dispatch does with the connection: "drop" closes it unanswered,    *)
(* "respond" queues exactly one response, "shutdown" takes the branch that *)
(* answers "going down" and returns APR_EOF.                               *)
(***************************************************************************)
Unauthorized(r) == AuthConfigured /\ r.auth # "match"

Drops(r) == r.path = "none"

ShutsDown(r) == r.path = "/shutdown" /\ ~Unauthorized(r) /\ r.local

Route(r) ==
    IF Drops(r) THEN "drop" ELSE IF ShutsDown(r) THEN "shutdown" ELSE "respond"
============================================================================
