------------------------------ MODULE DbAccess ------------------------------
(***************************************************************************)
(* The MySQL sessions of the workers: db_thread_init and dbjson_handler of *)
(* server/dbslayer_server.c, and db/dbaccess.c. A worker opens its         *)
(* sessions when it starts, runs the SQL of a request on one of them,      *)
(* reconnects and runs it again when the session was lost, and builds the  *)
(* response object. Servers are named by their position in the -s or -m    *)
(* list; a statement is what mysqld makes of it.                           *)
(***************************************************************************)
EXTENDS Integers, Sequences, FiniteSets, SequencesExt

CONSTANTS
    Workers,      \* worker threads
    Count,        \* server_count
    Multi,        \* started with -m: one session per server, chosen by SERVER
    Requests,     \* the JSON objects clients send
    MaxOutages,   \* bound on servers going down and sessions being dropped
    MayRunOut,    \* mysql_init may fail
    NoServer,     \* the request has no SERVER
    NoWorker

Servers == 0 .. Count - 1
Statement == {"rows", "write", "begin", "bad"}
Flag == {"STAT", "SERVER_NAME"}

ASSUME DbAssumption ==
    /\ Count \in Nat \ {0}
    /\ Multi \in BOOLEAN /\ MayRunOut \in BOOLEAN
    /\ MaxOutages \in Nat
    /\ NoWorker \notin Workers
    /\ \A r \in Requests : /\ r.server = NoServer \/ r.server \in Nat
                           /\ r.sql \in Seq(Statement)
                           /\ r.rollback \in BOOLEAN
                           /\ r.flags \subseteq Flag

\* With -s there is one session, dbhandle->db; with -m, dblookup has one per
\* server.
Handles == IF Multi THEN Servers ELSE {0}

VARIABLES
    up,                          \* servers that accept connections
    outages,                     \* number of outages so far
    dbcounter, dbcounter_mutex,  \* static variables of dbslayer_server.c
    mysql,                       \* mysql[w][k]: the session behind a MYSQL handle
    h                            \* h[w]: db_handle_t and the locals of worker w

dbVars == <<up, outages, dbcounter, dbcounter_mutex, mysql, h>>
envVars == <<up, outages>>
counterVars == <<dbcounter, dbcounter_mutex>>

\* What a MYSQL handle can be: absent, allocated, connected, dropped by the
\* server, or with results of a batch left unread.
Null == [state |-> "null", at |-> 0, tx |-> FALSE]
Unconnected == [state |-> "unconnected", at |-> 0, tx |-> FALSE]
Connected(s) == [state |-> "open", at |-> s, tx |-> FALSE]
Broken(c) == [c EXCEPT !.state = "broken", !.tx = FALSE]
OutOfSync(c) == [c EXCEPT !.state = "unread"]

NoRequest == [server |-> NoServer, sql |-> <<>>, rollback |-> FALSE, flags |-> {}]

\* Before a request: nothing in the response, nothing read.
Fresh(x) ==
    [x EXCEPT !.pc = "idle", !.req = NoRequest, !.key = 0, !.name = 0, !.pos = 0,
              !.out = <<>>, !.server = 0, !.said = 0, !.rolled = "none",
              !.sql_result = 0, !.all_result = <<>>,
              !.got = <<>>, !.failed = FALSE, !.gone = FALSE, !.stale = FALSE,
              !.applied = <<>>, !.tried = <<>>, !.ct = 0, !.lap = 1]

Init ==
    /\ up \in SUBSET Servers
    /\ outages = 0
    /\ dbcounter = 0 /\ dbcounter_mutex = NoWorker
    /\ mysql = [w \in Workers |-> [k \in Handles |-> Null]]
    /\ h = [w \in Workers |->
              [pc |-> "start", then |-> "init", id |-> 0, server_offset |-> 0,
               ct |-> 0, lap |-> 1, key |-> 0, name |-> 0, req |-> NoRequest,
               pos |-> 0, out |-> <<>>, server |-> 0, said |-> 0, rolled |-> "none",
               sql_result |-> 0, all_result |-> <<>>,
               tried |-> <<>>, got |-> <<>>, failed |-> FALSE, gone |-> FALSE,
               stale |-> FALSE, applied |-> <<>>]]

\* got, failed, gone, stale, applied and tried are history: the statements whose
\* results were stored, whether a call failed and left the session lost or was
\* reported from a closed MYSQL, how often mysqld may have committed each
\* write, and the servers tried by the last reattach.
Session(w) == mysql[w][h[w].key]
SetSession(w, c) == mysql' = [mysql EXCEPT ![w][h[w].key] = c]

----------------------------------------------------------------------------
(* The response object. json_object_add appends, so a key can be there     *)
(* twice; out is the sequence of keys.                                     *)

KeyIn(x, k) == \E n \in DOMAIN x.out : x.out[n] = k
Put(x, keys) == [x EXCEPT !.out = @ \o keys]

AddServerAgain(x) == [Put(x, <<"SERVER">>) EXCEPT !.server = x.name]

AddServer(x) ==
    IF KeyIn(x, "SERVER") THEN x ELSE [Put(x, <<"SERVER">>) EXCEPT !.server = x.name]

RollsBack(x) == ~KeyIn(x, "MYSQL_ERROR") /\ x.req.rollback

\* db_report_error; ok is the outcome of mysql_rollback.
ReportError(x, ok) ==
    IF KeyIn(x, "MYSQL_ERROR") THEN x
    ELSE LET y == AddServer(Put(x, <<"SUCCESS", "MYSQL_ERROR", "MYSQL_ERRNO">>))
         IN  IF ~x.req.rollback THEN y
             ELSE [Put(y, <<"ROLLBACK_ON_ERROR", "ROLLBACK_ON_ERROR_SUCCESS">>)
                       EXCEPT !.rolled = ok]

\* mysql_rollback works on a session that is connected.
Rolled(c) == IF c.state = "open" THEN "yes" ELSE "no"
RollbackLeftOut(x, c) == c

AfterRollback(x, c) ==
    IF RollsBack(x) /\ c.state = "open" THEN [c EXCEPT !.tx = FALSE] ELSE c

\* The name in the response after a failed query: with -s, the server at
\* server_offset.
Renamed(x) == IF Multi THEN x ELSE [x EXCEPT !.name = x.server_offset]

\* A failed query, reported on the session c it failed on.
QueryFailed(x, c) ==
    [ReportError(Renamed([x EXCEPT !.failed = TRUE]), Rolled(c)) EXCEPT !.pc = "return"]

----------------------------------------------------------------------------
(* Connecting: db_handle_reattach *)

ReattachAtOffset(x, k) ==
    [x EXCEPT !.pc = "connect", !.key = k, !.lap = 1, !.tried = <<>>, !.ct = x.server_offset]

Reattach(x, k) ==
    [x EXCEPT !.pc = "connect", !.key = k, !.lap = 1, !.tried = <<>>,
              !.ct = IF Multi THEN k ELSE x.server_offset]

\* db_handle_reattach returned: to db_handle_init, which goes on to the next
\* server of -m, or to dbexecute, which queries again or reports the error.
Reattached(x, ok) ==
    CASE x.then = "init" /\ Multi /\ x.key + 1 < Count -> Reattach(x, x.key + 1)
      [] x.then = "init" /\ ~(Multi /\ x.key + 1 < Count) -> Fresh([x EXCEPT !.then = "query"])
      [] x.then = "query" /\ ok -> [x EXCEPT !.pc = "requery"]
      [] x.then = "query" /\ ~ok -> [x EXCEPT !.pc = "closed"]

InRingLate(x) == x.ct <= IF x.lap = 1 THEN Count ELSE x.server_offset

InRing(x) == x.ct < IF x.lap = 1 THEN Count ELSE x.server_offset

\* One iteration of a loop of the ring: close, allocate, connect.
Tried(x) == [x EXCEPT !.tried = Append(@, x.ct)]

ConnectKeepingOffset(w) ==
    /\ h[w].pc = "connect" /\ (Multi \/ InRing(h[w])) /\ h[w].ct \in up
    /\ SetSession(w, Connected(h[w].ct))
    /\ h' = [h EXCEPT ![w] = Reattached(Tried(@), TRUE)]
    /\ UNCHANGED <<envVars, counterVars>>

ConnectOk(w) ==
    /\ h[w].pc = "connect" /\ (Multi \/ InRing(h[w])) /\ h[w].ct \in up
    /\ SetSession(w, Connected(h[w].ct))
    /\ h' = [h EXCEPT ![w] =
               Reattached([Tried(@) EXCEPT !.server_offset = IF Multi THEN @ ELSE h[w].ct], TRUE)]
    /\ UNCHANGED <<envVars, counterVars>>

ConnectAgain(w) ==
    /\ h[w].pc = "connect" /\ (Multi \/ InRing(h[w])) /\ h[w].ct \notin up
    /\ SetSession(w, Unconnected)
    /\ UNCHANGED <<envVars, counterVars, h>>

\* The server refuses, or mysql_init fails.
ConnectFails(w) ==
    /\ h[w].pc = "connect" /\ (Multi \/ InRing(h[w]))
    /\ \/ h[w].ct \notin up /\ SetSession(w, Unconnected)
       \/ MayRunOut /\ SetSession(w, Null)
    /\ h' = [h EXCEPT ![w] = IF Multi THEN Reattached(Tried(@), FALSE)
                             ELSE [Tried(@) EXCEPT !.ct = @ + 1]]
    /\ UNCHANGED <<envVars, counterVars>>

RingAgain(w) ==
    /\ h[w].pc = "connect" /\ ~Multi /\ ~InRing(h[w]) /\ h[w].lap = 1
    /\ h' = [h EXCEPT ![w].ct = 0]
    /\ UNCHANGED <<envVars, counterVars, mysql>>

SecondLoop(w) ==
    /\ h[w].pc = "connect" /\ ~Multi /\ ~InRing(h[w]) /\ h[w].lap = 1
    /\ h' = [h EXCEPT ![w].lap = 2, ![w].ct = 0]
    /\ UNCHANGED <<envVars, counterVars, mysql>>

GiveUp(w) ==
    /\ h[w].pc = "connect" /\ ~Multi /\ ~InRing(h[w]) /\ h[w].lap = 2
    /\ h' = [h EXCEPT ![w] = Reattached(@, FALSE)]
    /\ UNCHANGED <<envVars, counterVars, mysql>>

\* The error is read from the MYSQL that dbexecute had, closed and freed by
\* now: what is read, what a rollback returns, and whether the process survives
\* it, is up to the allocator.
ReportClosed(w) ==
    /\ h[w].pc = "closed"
    /\ \/ \E ok \in {"yes", "no"} :
             h' = [h EXCEPT ![w] = [ReportError(Renamed([@ EXCEPT !.failed = TRUE]), ok)
                                       EXCEPT !.pc = "return", !.stale = TRUE, !.gone = TRUE]]
       \/ h' = [h EXCEPT ![w].pc = "crashed"]
    /\ UNCHANGED <<envVars, counterVars, mysql>>

----------------------------------------------------------------------------
(* Starting a worker: db_thread_init, db_handle_init *)

StartUnlocked(w) ==
    /\ h[w].pc = "start"
    /\ h' = [h EXCEPT ![w].pc = "locked"]
    /\ UNCHANGED <<envVars, counterVars, mysql>>

LockCounter(w) ==
    /\ h[w].pc = "start" /\ dbcounter_mutex = NoWorker
    /\ dbcounter_mutex' = w
    /\ h' = [h EXCEPT ![w].pc = "locked"]
    /\ UNCHANGED <<envVars, dbcounter, mysql>>

ReadCounter(w) ==
    /\ h[w].pc = "locked"
    /\ h' = [h EXCEPT ![w].pc = "bump", ![w].id = dbcounter]
    /\ UNCHANGED <<envVars, counterVars, mysql>>

BumpCounter(w) ==
    /\ h[w].pc = "bump"
    /\ dbcounter' = dbcounter + 1
    /\ dbcounter_mutex' = NoWorker
    /\ h' = [h EXCEPT ![w] = Reattach([@ EXCEPT !.server_offset = h[w].id % Count], 0)]
    /\ UNCHANGED <<envVars, mysql>>

\* db_thread_destroy, when the server stops.
Destroy(w) ==
    /\ h[w].pc = "idle"
    /\ mysql' = [mysql EXCEPT ![w] = [k \in Handles |-> Null]]
    /\ h' = [h EXCEPT ![w].pc = "stopped"]
    /\ UNCHANGED <<envVars, counterVars>>

----------------------------------------------------------------------------
(* A request: dbexecute *)

\* Where the request goes: to a session, or back with an ERROR.
Target(x, r, known) ==
    CASE (r.server = NoServer) = Multi -> [Put(x, <<"ERROR">>) EXCEPT !.pc = "return"]
      [] ~((r.server = NoServer) = Multi) /\ Multi /\ ~known ->
            [Put(x, <<"ERROR", "SERVER">>) EXCEPT !.pc = "return", !.server = r.server]
      [] ~((r.server = NoServer) = Multi) /\ (Multi => known) ->
            [x EXCEPT !.pc = IF r.sql = <<>> THEN "meta" ELSE "query",
                      !.key = IF Multi THEN r.server ELSE 0,
                      !.name = IF Multi THEN r.server ELSE x.server_offset]

Request(w) ==
    /\ h[w].pc = "idle"
    /\ \E r \in Requests :
          LET known == r.server \in Handles /\ mysql[w][r.server].state # "null"
              x == [h[w] EXCEPT !.req = r, !.applied = [n \in DOMAIN r.sql |-> 0]]
          IN  h' = [h EXCEPT ![w] = Target(x, r, known)]
    /\ UNCHANGED <<envVars, counterVars, mysql>>

\* The query string is no JSON object: dbjson_handler answers by itself. (That
\* and every MYSQL_ERROR is also a line of the error log, see SlayerLog.)
NotAnObject(w) ==
    /\ h[w].pc = "idle"
    /\ h' = [h EXCEPT ![w] = [Put(@, <<"ERROR">>) EXCEPT !.pc = "return"]]
    /\ UNCHANGED <<envVars, counterVars, mysql>>

\* mysqld runs a batch up to its first error, whether or not the client reads
\* the results.
Runs(sql) == {n \in DOMAIN sql : \A m \in 1 .. n : sql[m] # "bad"}

\* Of the first n statements, the writes that are committed at once: no
\* transaction is open.
Committed(c, sql, n) ==
    {i \in 1 .. n : sql[i] = "write" /\ ~c.tx /\ \A m \in 1 .. i : sql[m] # "begin"}

Apply(x, c, n) ==
    [x EXCEPT !.applied = [i \in DOMAIN @ |->
                             @[i] + IF i \in Committed(c, x.req.sql, n) THEN 1 ELSE 0]]

AfterBatch(c, sql) == [c EXCEPT !.tx = @ \/ \E n \in Runs(sql) : sql[n] = "begin"]

Querying(w) == h[w].pc \in {"query", "requery"}

\* mysql_query returned 0: the first statement was run.
QueryOk(w) ==
    LET sql == h[w].req.sql IN
    /\ Querying(w) /\ Session(w).state = "open" /\ sql[1] # "bad"
    /\ h' = [h EXCEPT ![w] = [Apply(@, Session(w), Cardinality(Runs(sql)))
                                 EXCEPT !.pc = "store", !.pos = 1]]
    /\ SetSession(w, AfterBatch(Session(w), sql))
    /\ UNCHANGED <<envVars, counterVars>>

\* mysqld refused the first statement, or the client library the query:
\* CR_COMMANDS_OUT_OF_SYNC.
QueryRejected(w) ==
    /\ Querying(w)
    /\ \/ Session(w).state = "open" /\ h[w].req.sql[1] = "bad"
       \/ Session(w).state = "unread"
    /\ h' = [h EXCEPT ![w] = QueryFailed(@, Session(w))]
    /\ SetSession(w, AfterRollback(h[w], Session(w)))
    /\ UNCHANGED <<envVars, counterVars>>

\* The session is lost: once, it is opened again.
NeverReattached(x) == [QueryFailed(x, Unconnected) EXCEPT !.gone = TRUE]

Lost(x) ==
    IF x.pc = "query" THEN Reattach(x, x.key)
    ELSE [QueryFailed(x, Unconnected) EXCEPT !.gone = TRUE]

\* CR_SERVER_GONE_ERROR: the handle was not connected any more.
QueryGone(w) ==
    /\ Querying(w) /\ Session(w).state \in {"unconnected", "broken"}
    /\ h' = [h EXCEPT ![w] = Lost(@)]
    /\ UNCHANGED <<envVars, counterVars, mysql>>

\* CR_SERVER_LOST: no answer within the timeout, or the connection broke.
\* mysqld has run some of the statements, or none.
QueryLost(w) ==
    /\ Querying(w) /\ Session(w).state = "open" /\ outages < MaxOutages
    /\ outages' = outages + 1
    /\ \E n \in {0} \cup Runs(h[w].req.sql) :
          h' = [h EXCEPT ![w] = Lost(Apply(@, Session(w), n))]
    /\ SetSession(w, Broken(Session(w)))
    /\ UNCHANGED <<up, counterVars>>

\* mysql_query or mysql_stat on a NULL MYSQL.
NullSession(w) ==
    /\ \/ Querying(w)
       \/ h[w].pc = "meta" /\ "STAT" \in h[w].req.flags
    /\ Session(w).state = "null"
    /\ h' = [h EXCEPT ![w].pc = "crashed"]
    /\ UNCHANGED <<envVars, counterVars, mysql>>

----------------------------------------------------------------------------
(* The results of a batch: dbprocess_result and the loop of dbexecute *)

FoldLast(x, n) ==
    [x EXCEPT !.all_result = IF x.sql_result = 0 THEN @ ELSE Append(@, n),
              !.sql_result = IF x.sql_result = 0 \/ x.req.sql[n] # "rows" THEN n ELSE @]

\* The second result turns sql_result into the array all_result.
Fold(x, n) ==
    LET all == IF x.sql_result # 0 /\ x.all_result = <<>> THEN <<x.sql_result>> ELSE x.all_result
    IN  [x EXCEPT !.all_result = IF all = <<>> THEN all ELSE Append(all, n),
                  !.sql_result = IF x.sql_result = 0 \/ x.req.sql[n] # "rows" THEN n ELSE @]

\* RESULT is published when the array appears.
Publish(x, y) == IF x.all_result = <<>> /\ y.all_result # <<>> THEN Put(y, <<"RESULT">>) ELSE y

Store(w) ==
    /\ h[w].pc = "store"
    /\ h[w].req.sql[h[w].pos] = "rows" => Session(w).state = "open"
    /\ h' = [h EXCEPT ![w] = [Publish(@, Fold(@, h[w].pos))
                                 EXCEPT !.pc = "next", !.got = Append(@, h[w].pos)]]
    /\ UNCHANGED <<envVars, counterVars, mysql>>

\* An error in the loop, with session c after it, is reported and ends the loop.
Stop(w, c) ==
    /\ h' = [h EXCEPT ![w] = [ReportError([@ EXCEPT !.failed = TRUE, !.gone = c.state # "open"], Rolled(c))
                                 EXCEPT !.pc = "finish"]]
    /\ SetSession(w, AfterRollback(h[w], c))
    /\ UNCHANGED <<envVars, counterVars>>

More(w) == h[w].pos < Len(h[w].req.sql)

\* mysql_store_result has to read the rows and fails at it: the session was
\* lost, mysqld ended the query, or no memory was left for the rows, and then
\* the rest of the batch stays unread.
StoreFails(w) ==
    /\ h[w].pc = "store" /\ h[w].req.sql[h[w].pos] = "rows"
    /\ \/ Stop(w, Session(w))
       \/ MayRunOut /\ More(w) /\ Session(w).state = "open" /\ Stop(w, OutOfSync(Session(w)))

\* mysql_next_result: the next result arrives, the batch has failed or the
\* session is lost, or there are no more results.
NextOk(w) ==
    /\ h[w].pc = "next" /\ More(w)
    /\ Session(w).state = "open" /\ h[w].pos + 1 \in Runs(h[w].req.sql)
    /\ h' = [h EXCEPT ![w].pc = "store", ![w].pos = @ + 1]
    /\ UNCHANGED <<envVars, counterVars, mysql>>

NextFails(w) ==
    /\ h[w].pc = "next" /\ More(w)
    /\ Session(w).state # "open" \/ h[w].pos + 1 \notin Runs(h[w].req.sql)
    /\ Stop(w, Session(w))

NoMore(w) ==
    /\ h[w].pc = "next" /\ ~More(w)
    /\ h' = [h EXCEPT ![w].pc = "finish"]
    /\ UNCHANGED <<envVars, counterVars, mysql>>

PublishOne(x) ==
    IF x.sql_result # 0 /\ x.all_result = <<>> THEN Put(x, <<"RESULT">>) ELSE x

Finish(w) ==
    /\ h[w].pc = "finish"
    /\ h' = [h EXCEPT ![w] = [AddServer(PublishOne(@)) EXCEPT !.pc = "meta"]]
    /\ UNCHANGED <<envVars, counterVars, mysql>>

\* dbprocess_metadata, and the hint when nothing was asked.
Metadata(w) ==
    /\ h[w].pc = "meta"
    /\ ~("STAT" \in h[w].req.flags /\ Session(w).state = "null")
    /\ LET x == h[w]
           y == IF "STAT" \in x.req.flags THEN Put(x, <<"STAT">>) ELSE x
           z == IF "SERVER_NAME" \in x.req.flags
                THEN [Put(y, <<"SERVER_NAME">>) EXCEPT !.said = x.name] ELSE y
       IN  h' = [h EXCEPT ![w] = [IF z.out = <<>> THEN Put(z, <<"ERROR">>) ELSE z
                                     EXCEPT !.pc = "return"]]
    /\ UNCHANGED <<envVars, counterVars, mysql>>

\* dbjson_handler serializes the object and hands the response on.
Return(w) ==
    /\ h[w].pc = "return"
    /\ h' = [h EXCEPT ![w] = Fresh(@)]
    /\ UNCHANGED <<envVars, counterVars, mysql>>

----------------------------------------------------------------------------
(* The database servers *)

Outage == outages < MaxOutages /\ outages' = outages + 1

\* A server goes down with its sessions.
Down(s) ==
    /\ s \in up /\ Outage
    /\ up' = up \ {s}
    /\ mysql' = [w \in Workers |-> [k \in Handles |->
                   IF mysql[w][k].state = "open" /\ mysql[w][k].at = s
                   THEN Broken(mysql[w][k]) ELSE mysql[w][k]]]
    /\ UNCHANGED <<counterVars, h>>

Up(s) ==
    /\ s \notin up
    /\ up' = up \cup {s}
    /\ UNCHANGED <<outages, counterVars, mysql, h>>

\* A server ends one session, after wait_timeout for instance.
Drop(w, k) ==
    /\ mysql[w][k].state = "open" /\ Outage
    /\ mysql' = [mysql EXCEPT ![w][k] = Broken(@)]
    /\ UNCHANGED <<up, counterVars, h>>

----------------------------------------------------------------------------

WorkerNext(w) ==
    \/ LockCounter(w) \/ ReadCounter(w) \/ BumpCounter(w) \/ Destroy(w)
    \/ ConnectOk(w) \/ ConnectFails(w) \/ SecondLoop(w) \/ GiveUp(w) \/ ReportClosed(w)
    \/ Request(w) \/ NotAnObject(w) \/ QueryOk(w) \/ QueryRejected(w) \/ QueryGone(w) \/ QueryLost(w)
    \/ NullSession(w) \/ Store(w) \/ StoreFails(w) \/ NextOk(w) \/ NextFails(w)
    \/ NoMore(w) \/ Finish(w) \/ Metadata(w) \/ Return(w)

ServerNext ==
    \/ \E s \in Servers : Down(s) \/ Up(s)
    \/ \E w \in Workers, k \in Handles : Drop(w, k)

\* All workers have been stopped, or the process is gone.
Stopped ==
    /\ (\A w \in Workers : h[w].pc = "stopped") \/ (\E w \in Workers : h[w].pc = "crashed")
    /\ UNCHANGED dbVars

Next ==
    \/ (\A w \in Workers : h[w].pc # "crashed") /\ (ServerNext \/ \E w \in Workers : WorkerNext(w))
    \/ Stopped

Spec == Init /\ [][Next]_dbVars

\* A worker thread that can take a step of a request takes one.
Busy(w) == h[w].pc \notin {"idle", "stopped"}

LiveSpec == Spec /\ \A w \in Workers : WF_dbVars(Busy(w) /\ WorkerNext(w))

----------------------------------------------------------------------------
(* What the database access promises *)

Key == {"ERROR", "SUCCESS", "MYSQL_ERROR", "MYSQL_ERRNO", "SERVER", "RESULT", "STAT",
        "SERVER_NAME", "ROLLBACK_ON_ERROR", "ROLLBACK_ON_ERROR_SUCCESS"}

HandleOK(x) ==
    /\ x.pc \in {"start", "locked", "bump", "connect", "idle", "query", "requery", "closed",
                 "store", "next", "finish", "meta", "return", "stopped", "crashed"}
    /\ x.then \in {"init", "query"} /\ x.id \in 0 .. Cardinality(Workers) - 1
    /\ x.server_offset \in Servers /\ x.ct \in 0 .. Count /\ x.lap \in {1, 2}
    /\ x.key \in Handles /\ x.name \in Servers
    /\ x.req \in Requests \cup {NoRequest} /\ x.pos \in 0 .. Len(x.req.sql)
    /\ x.out \in Seq(Key) /\ x.rolled \in {"none", "yes", "no"}

\* Types: sessions, counters and the state of each worker stay within their
\* ranges; the ring's index never leaves the server list.
TypeOK ==
    /\ up \subseteq Servers /\ outages \in 0 .. MaxOutages
    /\ dbcounter \in 0 .. Cardinality(Workers)
    /\ dbcounter_mutex \in Workers \cup {NoWorker}
    /\ \A w \in Workers, k \in Handles :
          mysql[w][k] \in [state : {"null", "unconnected", "open", "broken", "unread"},
                           at : Servers, tx : BOOLEAN]
    /\ \A w \in Workers : HandleOK(h[w])

\* db_handle_reattach goes once around the ring of servers from server_offset:
\* it tries them in cyclic order, none twice, gives up only after all of them,
\* and leaves server_offset at the one that answered.
FailoverRing ==
    ~Multi => \A w \in Workers :
       LET x == h[w] IN
       /\ x.pc = "connect" => /\ Len(x.tried) <= Count
                              /\ \A n \in DOMAIN x.tried :
                                    x.tried[n] = (x.server_offset + n - 1) % Count
       /\ x.pc = "closed" => ToSet(x.tried) = Servers
       /\ x.pc = "requery" => Last(x.tried) = x.server_offset

\* An open session is one to the server that dbexecute will name: with -s the
\* one at server_offset, with -m the one it is looked up by; through failovers,
\* failed reconnects and outages.
SessionAt ==
    \A w \in Workers, k \in Handles :
       mysql[w][k].state = "open" => mysql[w][k].at = IF Multi THEN k ELSE h[w].server_offset

Answered(w) == h[w].pc = "return"
ResultOf(x) ==
    IF x.all_result # <<>> THEN x.all_result
    ELSE IF x.sql_result # 0 THEN <<x.sql_result>> ELSE <<>>

\* The response tells what happened to each statement of a batch: RESULT holds
\* the results that arrived, in order and none left out, MYSQL_ERROR is there
\* exactly when something failed, and without it every statement is accounted
\* for (README: errors in later statements are reported).
ResultsMatch ==
    \A w \in Workers :
       LET x == h[w] IN
       Answered(w) =>
          /\ ResultOf(x) = [n \in 1 .. Len(x.got) |-> n]
          /\ KeyIn(x, "RESULT") <=> x.got # <<>>
          /\ KeyIn(x, "MYSQL_ERROR") <=> x.failed
          /\ Len(x.got) = Len(x.req.sql) \/ x.failed \/ KeyIn(x, "ERROR")

\* No key is added to the response twice (comment of db_report_error), whichever
\* of the three error paths and whatever of the batch came before.
NoDuplicateKeys ==
    \A w \in Workers : IsInjective(h[w].out)

\* An error answered to a request with ROLLBACK_ON_ERROR has both rollback
\* fields, and when the rollback is reported done no transaction is left open
\* on the worker's session for the next request.
RollbackHonoured ==
    \A w \in Workers :
       Answered(w) /\ KeyIn(h[w], "MYSQL_ERROR") /\ h[w].req.rollback =>
          /\ KeyIn(h[w], "ROLLBACK_ON_ERROR") /\ KeyIn(h[w], "ROLLBACK_ON_ERROR_SUCCESS")
          /\ h[w].rolled = "yes" /\ ~h[w].stale => ~Session(w).tx

\* The workers' first servers are spread evenly over the list: when all have
\* read dbcounter, no server has two more of them than another.
StartsAt(s) == {w \in Workers : h[w].id % Count = s}
BalancedStart ==
    (\A w \in Workers : h[w].pc \notin {"start", "locked"}) =>
       \A s, t \in Servers : Cardinality(StartsAt(s)) <= Cardinality(StartsAt(t)) + 1

\* A worker that began to start, or took a request, gets back to waiting for
\* the next one, whatever the servers do, unless the process is gone.
RequestsReturn ==
    \A w \in Workers :
       Busy(w) ~> (h[w].pc = "idle" \/ \E v \in Workers : h[v].pc = "crashed")

\* Once all servers stay up, the workers find their way back: from some point
\* on no response reports a lost session.
Recovery ==
    <>[](up = Servers) => <>[](\A w \in Workers : Answered(w) => ~h[w].gone)

\* Repository claim (README, F13: retry queries only on connection loss, to
\* prevent a double write): no write is committed more than once.
AtMostOnce ==
    \A w \in Workers : \A n \in DOMAIN h[w].applied : h[w].applied[n] <= 1

\* Repository claim (SLAYER_HELP: SERVER_NAME returns the stanza that was used):
\* the response names the server whose session gave the results.
ServerNamed ==
    \A w \in Workers :
       Answered(w) /\ h[w].got # <<>> /\ KeyIn(h[w], "SERVER_NAME") =>
          h[w].said = Session(w).at
=============================================================================
