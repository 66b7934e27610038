----------------------------- MODULE MCReading -----------------------------
(***************************************************************************)
(* RequestReading with requests at the limits of a parser whose buffers    *)
(* hold four characters.                                                   *)
(***************************************************************************)
EXTENDS RequestReading

Crlf == <<"CR", "LF">>
Field(name, sep, value, trail) ==
    [name |-> name, sep |-> sep, value |-> value, trail |-> trail, eol |-> Crlf]
Plain == Field(<<"H">>, <<":", "SP">>, <<"a", "SP", "b">>, <<"SP">>)
NoValue == Field(<<"a", "b">>, <<>>, <<>>, <<>>)

Base == [method |-> GET, gap |-> <<"SP">>, uri |-> <<"/", "a">>, version |-> "1",
         eol |-> Crlf, headers |-> <<Plain>>, body |-> <<>>]

Methods == {POST, <<"P", "O", "S">>, <<"x">>, <<"G", "E", "T", "a", "a", "a">>,
            <<"G", "E", "T", "a", "a", "a", "a">>}
Uris == {<<"/">>, <<"/", "a", "b">>, <<"/", "a", "a", "b">>, <<"/", "NUL">>, <<"a">>,
         <<"/", "CR", "LF">>, <<"/", "a", "b", "a", "b", "a">>}
Fields == {Field(<<"a", "b", "a", "b">>, <<":">>, <<"b">>, <<>>),
           Field(<<"a", "b", "a", "b", "a">>, <<":">>, <<"b">>, <<>>),
           Field(<<"a">>, <<":", "TAB", "SP">>, <<"x", "x">>, <<"SP", "TAB">>),
           Field(<<"a">>, <<":">>, <<"x", "x", "x">>, <<"SP", "SP">>),
           Field(<<"a", "x">>, <<":">>, <<"b">>, <<>>),
           Field(<<>>, <<":">>, <<"b">>, <<>>),
           Field(<<"a">>, <<":">>, <<>>, <<>>),
           [NoValue EXCEPT !.eol = <<"LF">>],
           [Plain EXCEPT !.eol = <<"CR", "x">>]}

Small ==
    {[Base EXCEPT !.method = m] : m \in Methods}
    \cup {[Base EXCEPT !.uri = u] : u \in Uris}
    \cup {[Base EXCEPT !.headers = <<f>>] : f \in Fields}
    \cup {[Base EXCEPT !.headers = <<Plain, NoValue>>],
          [Base EXCEPT !.headers = <<NoValue, NoValue, NoValue>>],
          [Base EXCEPT !.headers = <<NoValue, NoValue, NoValue, NoValue>>],
          [Base EXCEPT !.headers = <<>>, !.eol = <<"LF">>, !.version = "0"],
          [Base EXCEPT !.gap = <<"SP", "SP">>, !.body = <<"x", "x">>],
          [Base EXCEPT !.version = "x"]}

OneRequest == {[Base EXCEPT !.headers = <<>>]}
============================================================================
