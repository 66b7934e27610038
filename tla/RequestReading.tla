--------------------------- MODULE RequestReading ---------------------------
(***************************************************************************)
(* How a listener reads one request: request_parse of                      *)
(* common/slayer_http_server.c, called each time poll reports the socket   *)
(* readable, the parser of HttpParse, and slayer_tls_recv. The client      *)
(* sends the encoding of a request in pieces of any size.                  *)
(***************************************************************************)
EXTENDS HttpParse, FiniteSets

CONSTANTS
    Requests,     \* what clients send, before it is encoded
    Pieces,       \* the sizes of TCP segments or TLS records
    Tls           \* the connection is one of the TLS listener

ASSUME ReadingAssumption == Tls \in BOOLEAN /\ Pieces \subseteq Nat \ {0}

(* A request is a method, a URI and a version, gaps between them, headers    *)
(* with the separator before and the blanks after the value, and what follows *)
(* the empty line.                                                            *)
EncodeHeader(f) == f.name \o f.sep \o f.value \o f.trail \o f.eol
Flat(seqs) == FoldSeq(LAMBDA x, rest : x \o rest, <<>>, seqs)
EncodeHeaders(r) == Flat([n \in DOMAIN r.headers |-> EncodeHeader(r.headers[n])]) \o r.eol
EncodeLine(r) ==
    r.method \o r.gap \o r.uri \o r.gap \o <<"H", "T", "T", "P", "/", "1", ".">>
             \o <<r.version>> \o r.eol
Encode(r) == EncodeLine(r) \o EncodeHeaders(r) \o r.body

\* What the parser should make of it.
Meaning(r) ==
    [method |-> r.method, uri |-> r.uri, version |-> r.version,
     headers |-> [n \in DOMAIN r.headers |->
                    [name |-> r.headers[n].name, value |-> r.headers[n].value]]]

\* The requests it should take: GET or POST, a URI without blanks, sizes within
\* the limits.
HeaderFits(f) ==
    /\ f.name # <<>> /\ ToSet(f.name) \subseteq HeaderChar
    /\ Len(f.name) <= UriSize /\ Len(f.value \o f.trail) <= UriSize
    /\ f.eol \in {<<"LF">>, <<"CR", "LF">>}
WellFormed(r) ==
    /\ r.method \in {GET, POST} /\ r.version \in {"0", "1"}
    /\ Head(r.uri) = "/" /\ "NUL" \notin ToSet(r.uri) /\ Len(r.uri) < UriSize
    /\ \A n \in DOMAIN r.headers : HeaderFits(r.headers[n])
    /\ Len(EncodeHeaders(r)) <= MaxHeaderBytes

VARIABLES
    req, sent,      \* what the client sends, and how much of it it has sent
    kernel,         \* pieces in the socket's receive buffer
    pending,        \* bytes of a TLS record that SSL has read and not returned
    taken,          \* bytes returned by recv so far
    pc, parse       \* of the listener, for this connection

vars == <<req, sent, kernel, pending, taken, pc, parse>>
wireVars == <<req, sent, kernel, pending, taken>>

Init ==
    /\ req \in Requests
    /\ sent = 0 /\ kernel = <<>> /\ pending = 0 /\ taken = 0
    /\ pc = "poll" /\ parse = ParseInit

----------------------------------------------------------------------------
(* The client *)

Least(S) == CHOOSE n \in S : \A m \in S : n <= m

\* A TCP stream keeps no boundaries; TLS records do.
Arrive(n) ==
    /\ pc \notin {"failed", "ready", "closed"}
    /\ sent < Len(Encode(req))
    /\ LET k == Least({n, Len(Encode(req)) - sent}) IN
         /\ sent' = sent + k
         /\ kernel' = IF Tls THEN Append(kernel, k)
                      ELSE IF kernel = <<>> THEN <<k>> ELSE <<kernel[1] + k>>
    /\ UNCHANGED <<req, pending, taken, pc, parse>>

\* The client gives up before the end: recv returns nothing.
HangUp ==
    /\ pc = "poll" /\ kernel = <<>> /\ sent < Len(Encode(req))
    /\ pc' = "closed"
    /\ UNCHANGED <<wireVars, parse>>

----------------------------------------------------------------------------
(* request_parse *)

Exhausted(s) == s.marker >= s.buffer_size

\* apr_socket_recv takes what there is, slayer_tls_recv what is left of a
\* record, both at most buffer_size, which becomes what was received.
Available == IF Tls /\ pending > 0 THEN pending ELSE Head(kernel)

Received == Least({parse.buffer_size, Available})

Recv(n) ==
    LET left == Available - n IN
    /\ taken' = taken + n
    /\ pending' = IF Tls THEN left ELSE 0
    /\ kernel' = IF Tls THEN (IF pending > 0 THEN kernel ELSE Tail(kernel))
                 ELSE IF left = 0 THEN <<>> ELSE <<left>>
    /\ parse' = [parse EXCEPT !.buffer = SubSeq(Encode(req), taken + 1, taken + n),
                              !.buffer_size = n, !.marker = 0,
                              !.header_bytes_read = IF parse.request_state = "DONE" THEN @ ELSE 0]

Parsing(s) == IF s.request_state = "DONE" THEN "headers" ELSE "line"

\* poll reports the socket, and only the socket, readable.
Readable ==
    /\ pc = "poll" /\ kernel # <<>>
    /\ pc' = Parsing(parse)
    /\ IF Exhausted(parse) THEN Recv(Received)
       ELSE UNCHANGED <<kernel, pending, taken, parse>>
    /\ UNCHANGED <<req, sent>>

Here == parse.buffer[parse.marker + 1]

\* One iteration of the loop of slayer_http_request_line_parse.
ParseLine ==
    /\ pc = "line" /\ ~Exhausted(parse)
    /\ LET s == LineStep(parse, Here) IN
         /\ parse' = [s EXCEPT !.marker = @ + 1]
         /\ pc' = CASE s.request_state = "INVALID" -> "failed"
                    [] s.request_state = "DONE" -> "headers"
                    [] OTHER -> "line"
    /\ UNCHANGED wireVars

ParseHeaderOnce ==
    /\ pc = "headers" /\ ~Exhausted(parse)
    /\ LET s == HeaderStep(parse, Here) IN
         /\ parse' = IF s.header_state = "DONE" THEN s ELSE [s EXCEPT !.marker = @ + 1]
         /\ pc' = CASE s.header_state = "INVALID" -> "failed"
                    [] s.header_state = "DONE" -> "ready"
                    [] OTHER -> "headers"
    /\ UNCHANGED wireVars

\* One iteration of the loop of slayer_http_request_header_parse, which is
\* called again after each header.
ParseHeader ==
    /\ pc = "headers" /\ ~Exhausted(parse)
    /\ LET s == HeaderStep(parse, Here) IN
         /\ parse' = [s EXCEPT !.marker = @ + 1]
         /\ pc' = CASE s.header_state = "INVALID" -> "failed"
                    [] s.header_state = "DONE" -> "ready"
                    [] OTHER -> "headers"
    /\ UNCHANGED wireVars

NeedMoreForgetting ==
    /\ pc \in {"line", "headers"} /\ Exhausted(parse)
    /\ pc' = "poll"
    /\ parse' = [parse EXCEPT !.header_state = IF pc = "headers" THEN "START" ELSE @]
    /\ UNCHANGED wireVars

\* The buffer is used up: back to poll.
NeedMore ==
    /\ pc \in {"line", "headers"} /\ Exhausted(parse)
    /\ pc' = "poll"
    /\ UNCHANGED <<wireVars, parse>>

Stopped == pc \in {"failed", "ready", "closed"} /\ UNCHANGED vars

Listener == Readable \/ ParseLine \/ ParseHeader \/ NeedMore

Next == (\E n \in Pieces : Arrive(n)) \/ HangUp \/ Listener \/ Stopped

Spec == Init /\ [][Next]_vars

\* The listener's loop goes on as long as poll reports something.
FairSpec == Spec /\ WF_vars(Listener)

----------------------------------------------------------------------------
(* What reading a request promises *)

\* Types: no write behind the end of the method, the URI, a header's name or
\* its value, and buffer_marker never past the end of the buffer (README, F10).
TypeOK ==
    /\ pc \in {"poll", "line", "headers", "failed", "ready", "closed"}
    /\ Len(parse.method) <= MethodSize
    /\ Len(parse.uri) <= UriSize /\ Len(parse.name) <= UriSize /\ Len(parse.value) <= UriSize
    /\ parse.buffer_size \in 1 .. UriSize /\ parse.marker \in 0 .. parse.buffer_size
    /\ parse.header_bytes_read \in 0 .. MaxHeaderBytes + 1
    /\ pending \in Nat /\ taken \in 0 .. sent

Parsed == [method |-> parse.method, uri |-> parse.uri, version |-> parse.version,
           headers |-> parse.headers]

\* Whatever pieces a request arrives in, a well-formed one is understood as
\* what the client meant and never refused, and only a well-formed one is
\* taken.
Understood ==
    /\ pc = "ready" => WellFormed(req) /\ Parsed = Meaning(req)
    /\ pc = "failed" => ~WellFormed(req)

\* The parser stops right behind the empty line: what was taken of the stream,
\* less what is left in the buffer, is the request line and the headers.
StopsAtBody ==
    pc = "ready" => taken - (parse.buffer_size - parse.marker)
                       = Len(EncodeLine(req)) + Len(EncodeHeaders(req))

\* A well-formed request that has arrived completely is handed on.
ReadToTheEnd ==
    (WellFormed(req) /\ sent = Len(Encode(req))) ~> pc = "ready"

\* Repository claim (slayer_http_server.c:300: the socket is left blocking so
\* that SSL_read can finish the record): when all has arrived, a record that SSL
\* has begun to return is read to its end, or the request is decided without it.
RecordFinished ==
    (pending > 0 /\ sent = Len(Encode(req)))
       ~> (pending = 0 \/ pc \in {"ready", "failed", "closed"})
=============================================================================
