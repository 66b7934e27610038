-------------------------------- MODULE MCDb --------------------------------
(***************************************************************************)
(* Instances of DbAccess for model checking.                               *)
(***************************************************************************)
EXTENDS DbAccess, TLC

Symmetry == Permutations(Workers)

Ask(server, sql, rollback, flags) ==
    [server |-> server, sql |-> sql, rollback |-> rollback, flags |-> flags]

\* With -s: nothing asked, statements alone and in batches that fail at the
\* start, in the middle and not at all, in and out of a transaction.
Plain(sql, rollback) == Ask(NoServer, sql, rollback, {})
SingleRequests ==
    {Plain(<<>>, FALSE), Ask(NoServer, <<>>, FALSE, {"STAT"}), Ask(0, <<"rows">>, FALSE, {}),
     Ask(NoServer, <<"rows">>, FALSE, Flag), Plain(<<"bad">>, TRUE),
     Plain(<<"begin", "write">>, FALSE), Plain(<<"write", "bad">>, TRUE),
     Plain(<<"rows", "write", "rows">>, FALSE), Plain(<<"begin", "rows", "bad">>, TRUE),
     Plain(<<"rows", "rows">>, TRUE)}

\* With -m: either server, one that does not exist, none.
MultiRequests ==
    {Ask(0, <<"begin", "rows">>, FALSE, {"SERVER_NAME"}), Ask(1, <<"write", "bad">>, TRUE, {}),
     Ask(2, <<"rows">>, FALSE, {}), Plain(<<"rows">>, FALSE)}

OneWrite == {Plain(<<"write">>, FALSE)}
NamedRead == {Ask(NoServer, <<"rows">>, FALSE, {"SERVER_NAME"})}
=============================================================================
