----------------------------- MODULE HttpParse -----------------------------
(***************************************************************************)
(* The two loops of common/slayer_http_parse.c, a character at a time:     *)
(* LineStep is one iteration of slayer_http_request_line_parse, HeaderStep *)
(* one of slayer_http_request_header_parse. A parser that gave up has the  *)
(* state "INVALID".                                                        *)
(***************************************************************************)
EXTENDS Integers, Sequences, SequencesExt

CONSTANTS
    UriSize,          \* uri_data_size, and the size of every buffer
    MaxHeaderBytes    \* MAX_HEADER_BYTES, 32768

ASSUME ParseAssumption == UriSize \in Nat \ {0} /\ MaxHeaderBytes \in Nat

\* The characters that the parser tells apart; "x" is any other one.
Blank == {"SP", "TAB"}
HeaderChar == {"G", "E", "T", "P", "O", "S", "H", "0", "1", ".", "a", "b"}
Char == HeaderChar \cup Blank \cup {"CR", "LF", "NUL", ":", "/", "x"}

MethodSize == 6    \* sizeof(method_string)

GET == <<"G", "E", "T">>
POST == <<"P", "O", "S", "T">>

\* slayer_http_request_parse_init: buffer_marker is NULL, here as if the buffer
\* had been used up.
ParseInit ==
    [request_state |-> "START", method |-> <<>>, uri |-> <<>>, version |-> "0",
     header_state |-> "START", name |-> <<>>, value |-> <<>>, headers |-> <<>>,
     header_bytes_read |-> 0, buffer |-> <<>>, buffer_size |-> UriSize, marker |-> UriSize]

----------------------------------------------------------------------------
(* The request line *)

\* The states that expect one character of "HTTP/1.", in their order.
Protocol == <<"HT", "HTT", "HTTP", "SLASH", "MAJOR", "DOT">>
ProtocolChar == <<"T", "T", "P", "/", "1", ".">>
AfterProtocol == Append(Tail(Protocol), "MINOR")

Line(s, state) == [s EXCEPT !.request_state = state]

MethodStep(s, c) ==
    IF Len(s.method) > MethodSize - 1 THEN Line(s, "INVALID")
    ELSE IF c # "SP" THEN [s EXCEPT !.method = Append(@, c)]
    ELSE Line(s, IF s.method \in {GET, POST} THEN "BEFORE_URI" ELSE "INVALID")

UriTooLate(s, c) ==
    IF Len(s.uri) > UriSize \/ c = "NUL" THEN Line(s, "INVALID")
    ELSE IF c = "SP" THEN Line(s, "BEFORE_PROTOCOL")
    ELSE [s EXCEPT !.uri = Append(@, c)]

\* The length is tested before the character is looked at.
UriStep(s, c) ==
    IF Len(s.uri) >= UriSize \/ c = "NUL" THEN Line(s, "INVALID")
    ELSE IF c = "SP" THEN Line(s, "BEFORE_PROTOCOL")
    ELSE [s EXCEPT !.uri = Append(@, c)]

LineStep(s, c) ==
    LET st == s.request_state IN
    CASE st = "START" -> IF c \in {"G", "P"} THEN [Line(s, "METHOD") EXCEPT !.method = <<c>>]
                         ELSE Line(s, "INVALID")
      [] st = "METHOD" -> MethodStep(s, c)
      [] st = "BEFORE_URI" -> IF c = "SP" THEN s
                              ELSE IF c = "/" THEN [Line(s, "URI") EXCEPT !.uri = <<c>>]
                              ELSE Line(s, "INVALID")
      [] st = "URI" -> UriStep(s, c)
      [] st = "BEFORE_PROTOCOL" -> IF c = "SP" THEN s ELSE Line(s, IF c = "H" THEN "HT" ELSE "INVALID")
      [] \E n \in DOMAIN Protocol : Protocol[n] = st ->
            LET n == CHOOSE k \in DOMAIN Protocol : Protocol[k] = st
            IN  Line(s, IF c = ProtocolChar[n] THEN AfterProtocol[n] ELSE "INVALID")
      [] st = "MINOR" -> IF c \in {"0", "1"} THEN [Line(s, "DONE_CR") EXCEPT !.version = c]
                         ELSE Line(s, "INVALID")
      [] st = "DONE_CR" -> Line(s, IF c = "LF" THEN "DONE" ELSE IF c = "CR" THEN "DONE_LF" ELSE "INVALID")
      [] st = "DONE_LF" -> Line(s, IF c = "LF" THEN "DONE" ELSE "INVALID")

----------------------------------------------------------------------------
(* The headers *)

Header(s, state) == [s EXCEPT !.header_state = state]

AddName(s, c) ==
    IF Len(s.name) >= UriSize THEN Header(s, "INVALID")
    ELSE [Header(s, "NAME") EXCEPT !.name = Append(@, c)]

AddValue(s, c, state) ==
    IF Len(s.value) >= UriSize THEN Header(s, "INVALID")
    ELSE [Header(s, state) EXCEPT !.value = Append(@, c)]

\* slayer_http_header_append: without the blanks at the end.
UntrimmedAppend(s) ==
    [s EXCEPT !.headers = Append(@, [name |-> s.name, value |-> s.value]),
              !.name = <<>>, !.value = <<>>]

Trimmed(v) ==
    SubSeq(v, 1, Max({0} \cup {n \in DOMAIN v : v[n] \notin Blank}))

HeaderAppend(s) ==
    [s EXCEPT !.headers = Append(@, [name |-> s.name, value |-> Trimmed(s.value)]),
              !.name = <<>>, !.value = <<>>]

\* CR or LF after a header: the header is complete.
EndOfHeader(s, c) == Header(HeaderAppend(s), IF c = "CR" THEN "DONE_LF" ELSE "START")

Counted(s) == [s EXCEPT !.header_bytes_read = @ + 1]

HeaderStepIn(s, c) ==
    LET st == s.header_state IN
    CASE st = "START" -> IF c = "CR" THEN Header(s, "START_LF")
                         ELSE IF c = "LF" THEN Header(s, "DONE")
                         ELSE IF c \in HeaderChar THEN AddName(s, c)
                         ELSE Header(s, "INVALID")
      [] st = "START_LF" -> Header(s, IF c = "LF" THEN "DONE" ELSE "INVALID")
      [] st = "NAME" -> IF c \in HeaderChar THEN AddName(s, c)
                        ELSE IF c = ":" THEN Header(s, "BEFORE_VALUE")
                        ELSE IF c \in {"CR", "LF"} THEN EndOfHeader(s, c)
                        ELSE Header(s, "INVALID")
      [] st = "BEFORE_VALUE" -> IF c \in Blank THEN s
                                ELSE IF c \in {"CR", "LF"} THEN EndOfHeader(s, c)
                                ELSE AddValue(s, c, "VALUE")
      [] st \in {"VALUE", "AFTER_VALUE"} ->
            IF c \in {"CR", "LF"} THEN EndOfHeader(s, c)
            ELSE AddValue(s, c, IF c \in Blank THEN "AFTER_VALUE" ELSE "VALUE")
      [] st = "DONE_LF" -> Header(s, IF c = "LF" THEN "START" ELSE "INVALID")

HeaderStepEarly(s, c) ==
    IF s.header_bytes_read + 1 >= MaxHeaderBytes THEN Header(Counted(s), "INVALID")
    ELSE HeaderStepIn(Counted(s), c)

HeaderStep(s, c) ==
    IF s.header_bytes_read >= MaxHeaderBytes THEN Header(Counted(s), "INVALID")
    ELSE HeaderStepIn(Counted(s), c)
============================================================================
