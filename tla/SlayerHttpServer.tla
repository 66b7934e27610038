------------------------- MODULE SlayerHttpServer -------------------------
(***************************************************************************)
(* The connection pipeline of dbslayer (common/slayer_http_server.c).      *)
(*                                                                         *)
(*   listener --in_queue--> worker --out_queue--> output thread            *)
(*                                                                         *)
(* Each listener (the main thread for plaintext, one more thread for TLS)  *)
(* accepts, reads and parks connections; a worker dispatches a request and *)
(* queues its response; the output thread writes responses and closes. A   *)
(* connection is a pointer into an APR pool: an element of Conns is such   *)
(* an address, and it is free for reuse once its pool is destroyed.        *)
(***************************************************************************)
EXTENDS Integers, Sequences, FiniteSets, SlayerDispatch

CONSTANTS
    Conns,           \* addresses a slayer_http_connection_t can have
    IPs,             \* remote addresses
    Listeners,       \* threads in handle_incoming_connections
    TlsListeners,    \* the listeners with a tls_ctx
    Workers,         \* threads in handle_running_request
    ListenerSlots,   \* length of the listener's connections[]
    OutputSlots,     \* length of the output thread's connections[]
    InCap, OutCap,   \* queue capacities: 2 * thread_count and thread_count
    MaxPerIP,        \* MAX_CONNECTIONS_PER_IP
    Requests,        \* the requests clients send
    NoConn, NoIP, NoReq,  \* null values
    Listen           \* the poll event of the listening socket

ASSUME ConstAssumption ==
    /\ IsFiniteSet(Conns)
    /\ TlsListeners \subseteq Listeners
    /\ Listeners \cap Workers = {}
    /\ (Listeners \cup Workers) \cap {"in_queue", "out_queue", "output"} = {}
    /\ ListenerSlots \in Nat \ {0} /\ OutputSlots \in Nat
    /\ InCap \in Nat /\ OutCap \in Nat /\ MaxPerIP \in Nat
    /\ Requests \subseteq AllRequests
    /\ NoConn \notin Conns /\ NoIP \notin IPs /\ NoReq \notin Requests
    /\ Listen \notin Conns

VARIABLES
    (* the connections *)
    remote_ip,          \* NoIP exactly while the address is not allocated
    counted,            \* connection_counted, which is also conn # NULL
    expired,            \* more than 10 s have passed since begin_request
    done, read_done, handoff_pending,
    (* the server *)
    connection_counts, active_connections,
    in_queue, in_term, out_queue, out_term, shutdown,
    (* each listener *)
    lpc,
    todo,               \* poll events to handle, then table slots to sweep
    accepting,          \* the connection between accept and its slot
    over_limit, connections, connections_count, pollset,
    (* each worker *)
    wpc, client, request,
    (* the output thread *)
    opc, otodo, oconnections, oconnection_count,
    (* history *)
    going_down,         \* a /shutdown request has been accepted
    fault               \* a thread has used a connection after its release

countVars == <<connection_counts, active_connections>>
connVars == <<remote_ip, counted, expired, done, read_done, handoff_pending,
              countVars>>
queueVars == <<in_queue, in_term, out_queue, out_term, shutdown>>
acceptVars == <<accepting, over_limit>>
tableVars == <<connections, connections_count, pollset>>
listenerVars == <<lpc, todo, acceptVars, tableVars>>
workerVars == <<wpc, client, request>>
otableVars == <<oconnections, oconnection_count>>
outputVars == <<opc, otodo, otableVars>>
histVars == <<going_down, fault>>
nonListener == <<workerVars, outputVars, histVars>>
nonWorker == <<listenerVars, outputVars, histVars>>
nonOutput == <<listenerVars, workerVars, histVars>>
vars == <<connVars, queueVars, listenerVars, nonListener>>

\* The places a connection can be held in, and what each one holds.
Places == Listeners \cup Workers \cup {"in_queue", "out_queue", "output"}

Holds(p, c) ==
    \/ p \in Listeners /\ (c \in connections[p] \/ accepting[p] = c)
    \/ p \in Workers /\ client[p] = c
    \/ p = "in_queue" /\ \E i \in DOMAIN in_queue : in_queue[i] = c
    \/ p = "out_queue" /\ \E i \in DOMAIN out_queue : out_queue[i] = c
    \/ p = "output" /\ c \in oconnections

Live(c) == remote_ip[c] # NoIP
Usable(c) == Live(c) /\ c \in counted

\* An address that can be allocated. An address that a thread still points to
\* is left alone: any use of that pointer is undefined, whether or not the
\* memory has been given out again.
Free(c) == ~Live(c) /\ \A p \in Places : ~Holds(p, c)

----------------------------------------------------------------------------
(* Closing and releasing a connection. The definitions whose comment says  *)
(* nothing of them, each before the one it varies, are faults that the     *)
(* properties below detect (PROJECT.json, "mutants").                      *)

CloseUncounted(c) == counted' = counted \ {c} /\ UNCHANGED countVars

\* slayer_http_connection_close
Close(c) ==
    /\ counted' = counted \ {c}
    /\ IF c \in counted
       THEN /\ connection_counts' =
                  [connection_counts EXCEPT ![remote_ip[c]] =
                      IF @ > 0 THEN @ - 1 ELSE @]
            /\ active_connections' = active_connections - 1
       ELSE UNCHANGED countVars

\* apr_pool_destroy(connection->mpool)
Destroy(c) ==
    /\ remote_ip' = [remote_ip EXCEPT ![c] = NoIP]
    /\ expired' = expired \ {c}
    /\ done' = done \ {c}
    /\ read_done' = read_done \ {c}
    /\ handoff_pending' = handoff_pending \ {c}

CloseAndDestroy(c) == Close(c) /\ Destroy(c)

\* slayer_http_connection_count_increment, on a connection just allocated
CountIncrement(c, ip) ==
    /\ remote_ip' = [remote_ip EXCEPT ![c] = ip]
    /\ counted' = counted \cup {c}
    /\ connection_counts' = [connection_counts EXCEPT ![ip] = @ + 1]
    /\ active_connections' = active_connections + 1

\* A thread dereferences a connection that has been closed or released. What
\* the process does from here on is undefined, so the model goes no further.
Fault ==
    /\ fault' = TRUE
    /\ UNCHANGED <<connVars, queueVars, listenerVars, workerVars, outputVars,
                   going_down>>

\* Time passes: the 10 s deadline of a connection goes by.
Expire(c) ==
    /\ Live(c) /\ c \notin expired
    /\ expired' = expired \cup {c}
    /\ UNCHANGED <<remote_ip, counted, done, read_done, handoff_pending,
                   countVars, queueVars, listenerVars, nonListener>>

----------------------------------------------------------------------------
(* The listener *)

OverLimitLate(ip) == connection_counts[ip] > MaxPerIP

\* The count including the new connection is over MAX_CONNECTIONS_PER_IP.
OverLimit(ip) == connection_counts[ip] + 1 > MaxPerIP

InRoomLate == ~in_term /\ Len(in_queue) <= InCap

\* apr_queue_trypush on in_queue succeeds, or returns APR_EAGAIN.
InRoom == ~in_term /\ Len(in_queue) < InCap

InFull == ~in_term /\ Len(in_queue) >= InCap

ReadyOrDone(c) == c \in read_done \cup done

\* The sweep offers c to in_queue.
Ready(c) == c \in read_done

ReapableUnlessReady(c) == ~Ready(c) /\ (c \in done \/ c \in expired)

\* The sweep gives c up: parked past its deadline, or not yet complete and
\* either finished or past its deadline.
Reapable(c) == IF Ready(c) THEN c \in expired ELSE c \in done \/ c \in expired

\* apr_pollset_poll returned and the shutdown flag is read
PollExit(l) ==
    /\ lpc[l] = "poll" /\ shutdown
    /\ lpc' = [lpc EXCEPT ![l] = "exit"]
    /\ UNCHANGED <<connVars, queueVars, todo, acceptVars, tableVars,
                   nonListener>>

\* Some descriptors are ready, or the poll timed out with connections open.
Poll(l) ==
    /\ lpc[l] = "poll" /\ ~shutdown
    /\ \E ready \in SUBSET (pollset[l] \cup {Listen}) :
          /\ ready # {} \/ connections_count[l] # 0
          /\ todo' = [todo EXCEPT ![l] = ready]
    /\ lpc' = [lpc EXCEPT ![l] = "events"]
    /\ UNCHANGED <<connVars, queueVars, acceptVars, tableVars, nonListener>>

\* The table is full, accept failed, or the peer has no address: nothing is
\* tracked.
AcceptNothing(l) ==
    /\ lpc[l] = "events" /\ Listen \in todo[l]
    /\ todo' = [todo EXCEPT ![l] = @ \ {Listen}]
    /\ UNCHANGED <<connVars, queueVars, lpc, acceptVars, tableVars,
                   nonListener>>

\* A connection is allocated, accepted and counted against its peer.
Accept(l) ==
    /\ lpc[l] = "events" /\ Listen \in todo[l]
    /\ connections_count[l] < ListenerSlots - 1
    /\ \E c \in Conns, ip \in IPs :
          /\ Free(c)
          /\ CountIncrement(c, ip)
          /\ accepting' = [accepting EXCEPT ![l] = c]
          /\ over_limit' = [over_limit EXCEPT ![l] = OverLimit(ip)]
    /\ todo' = [todo EXCEPT ![l] = @ \ {Listen}]
    /\ lpc' = [lpc EXCEPT ![l] = "admit"]
    /\ UNCHANGED <<expired, done, read_done, handoff_pending, queueVars,
                   tableVars, nonListener>>

\* Over the per-address limit, or the TLS handshake failed.
Reject(l) ==
    /\ lpc[l] = "admit"
    /\ over_limit[l] \/ l \in TlsListeners
    /\ CloseAndDestroy(accepting[l])
    /\ accepting' = [accepting EXCEPT ![l] = NoConn]
    /\ over_limit' = [over_limit EXCEPT ![l] = FALSE]
    /\ lpc' = [lpc EXCEPT ![l] = "events"]
    /\ UNCHANGED <<queueVars, todo, tableVars, nonListener>>

\* The connection takes a slot of the table and joins the poll set.
Admit(l) ==
    /\ lpc[l] = "admit" /\ ~over_limit[l]
    /\ connections' = [connections EXCEPT ![l] = @ \cup {accepting[l]}]
    /\ connections_count' = [connections_count EXCEPT ![l] = @ + 1]
    /\ pollset' = [pollset EXCEPT ![l] = @ \cup {accepting[l]}]
    /\ accepting' = [accepting EXCEPT ![l] = NoConn]
    /\ lpc' = [lpc EXCEPT ![l] = "events"]
    /\ UNCHANGED <<connVars, queueVars, todo, over_limit, nonListener>>

\* request_parse on a readable connection, or POLLERR/POLLHUP: the connection
\* is finished (done), its request is complete (read_done), or there is more
\* to read.
ClientEvent(l) ==
    /\ lpc[l] = "events"
    /\ \E c \in todo[l] \ {Listen} :
          /\ todo' = [todo EXCEPT ![l] = @ \ {c}]
          /\ \/ done' = done \cup {c} /\ UNCHANGED read_done
             \/ read_done' = read_done \cup {c} /\ UNCHANGED done
             \/ UNCHANGED <<done, read_done>>
    /\ UNCHANGED <<remote_ip, counted, expired, handoff_pending, countVars,
                   queueVars, lpc, acceptVars, tableVars, nonListener>>

\* All events are handled: the sweep visits every slot in use.
StartSweep(l) ==
    /\ lpc[l] = "events" /\ todo[l] = {}
    /\ todo' = [todo EXCEPT ![l] = connections[l]]
    /\ lpc' = [lpc EXCEPT ![l] = "sweep"]
    /\ UNCHANGED <<connVars, queueVars, acceptVars, tableVars, nonListener>>

StillPolled(l, c) == UNCHANGED pollset

\* apr_pollset_remove
Unpoll(l, c) == pollset' = [pollset EXCEPT ![l] = @ \ {c}]

SlotUncounted(l, c) ==
    /\ connections' = [connections EXCEPT ![l] = @ \ {c}]
    /\ UNCHANGED connections_count

SlotKept(l, c) ==
    /\ UNCHANGED connections
    /\ connections_count' = [connections_count EXCEPT ![l] = @ - 1]

\* The slot of c is cleared.
ClearSlot(l, c) ==
    /\ connections' = [connections EXCEPT ![l] = @ \ {c}]
    /\ connections_count' = [connections_count EXCEPT ![l] = @ - 1]

\* The sweep moves on from the slot of c.
Visit(l, c) ==
    /\ lpc[l] = "sweep" /\ c \in todo[l]
    /\ todo' = [todo EXCEPT ![l] = @ \ {c}]

\* The request of c is complete and in_queue takes it.
HandOff(l, c) ==
    /\ Visit(l, c) /\ Ready(c) /\ InRoom
    /\ in_queue' = Append(in_queue, c)
    /\ handoff_pending' = handoff_pending \cup {c}
    /\ Unpoll(l, c) /\ ClearSlot(l, c)
    /\ UNCHANGED <<remote_ip, counted, expired, done, read_done, countVars,
                   in_term, out_queue, out_term, shutdown, lpc, acceptVars,
                   nonListener>>

\* in_queue is full: c leaves the poll set and stays parked in its slot.
Park(l, c) ==
    /\ Visit(l, c) /\ Ready(c) /\ InFull /\ ~Reapable(c)
    /\ handoff_pending' = handoff_pending \cup {c}
    /\ Unpoll(l, c)
    /\ UNCHANGED <<remote_ip, counted, expired, done, read_done, countVars,
                   queueVars, lpc, acceptVars, connections, connections_count,
                   nonListener>>

Reap(l, c) ==
    /\ Visit(l, c) /\ (Ready(c) => InFull) /\ Reapable(c)
    /\ CloseAndDestroy(c)
    /\ Unpoll(l, c) /\ ClearSlot(l, c)
    /\ UNCHANGED <<queueVars, lpc, acceptVars, nonListener>>

\* c is still being read.
Keep(l, c) ==
    /\ Visit(l, c) /\ ~Ready(c) /\ ~Reapable(c)
    /\ UNCHANGED <<connVars, queueVars, lpc, acceptVars, tableVars,
                   nonListener>>

\* in_queue is terminated: the listener returns, with its table as it is.
HandOffEOF(l, c) ==
    /\ lpc[l] = "sweep" /\ c \in todo[l]
    /\ Ready(c) /\ in_term
    /\ handoff_pending' = handoff_pending \cup {c}
    /\ Unpoll(l, c)
    /\ lpc' = [lpc EXCEPT ![l] = "exit"]
    /\ UNCHANGED <<remote_ip, counted, expired, done, read_done, countVars,
                   queueVars, todo, acceptVars, connections, connections_count,
                   nonListener>>

EndSweep(l) ==
    /\ lpc[l] = "sweep" /\ todo[l] = {}
    /\ lpc' = [lpc EXCEPT ![l] = "poll"]
    /\ UNCHANGED <<connVars, queueVars, todo, acceptVars, tableVars,
                   nonListener>>

----------------------------------------------------------------------------
(* A worker *)

\* apr_queue_pop on in_queue. A terminated queue gives APR_EOF even when it
\* still holds requests.
Pop(w) ==
    /\ wpc[w] = "pop" /\ ~in_term /\ in_queue # <<>>
    /\ client' = [client EXCEPT ![w] = Head(in_queue)]
    /\ in_queue' = Tail(in_queue)
    /\ \E r \in Requests : request' = [request EXCEPT ![w] = r]
    /\ wpc' = [wpc EXCEPT ![w] = "dispatch"]
    /\ UNCHANGED <<connVars, in_term, out_queue, out_term, shutdown,
                   nonWorker>>

PopEOF(w) ==
    /\ wpc[w] = "pop" /\ in_term
    /\ wpc' = [wpc EXCEPT ![w] = "exit"]
    /\ UNCHANGED <<connVars, queueVars, nonWorker, client, request>>

\* slayer_http_request_dispatch up to the point where it answers.
Dispatch(w) ==
    /\ wpc[w] = "dispatch"
    /\ Route(request[w]) # "drop"
    /\ wpc' = [wpc EXCEPT ![w] = Route(request[w])]
    /\ going_down' = (going_down \/ Route(request[w]) = "shutdown")
    /\ request' = [request EXCEPT ![w] = NoReq]
    /\ UNCHANGED <<connVars, queueVars, listenerVars, client, outputVars,
                   fault>>

\* The request has no path: the connection is closed without an answer.
Drop(w) ==
    /\ wpc[w] = "dispatch"
    /\ Route(request[w]) = "drop"
    /\ CloseAndDestroy(client[w])
    /\ wpc' = [wpc EXCEPT ![w] = "pop"]
    /\ client' = [client EXCEPT ![w] = NoConn]
    /\ request' = [request EXCEPT ![w] = NoReq]
    /\ UNCHANGED <<queueVars, nonWorker>>

\* apr_queue_push on out_queue: blocks while it is full, and returns APR_EOF
\* once it is terminated. No caller looks at that status.
PushResponse(c) ==
    \/ /\ ~out_term /\ Len(out_queue) < OutCap
       /\ out_queue' = Append(out_queue, c)
    \/ /\ out_term
       /\ UNCHANGED out_queue

\* slayer_http_handle_response at the end of an ordinary request
Respond(w) ==
    /\ wpc[w] = "respond"
    /\ PushResponse(client[w])
    /\ wpc' = [wpc EXCEPT ![w] = "pop"]
    /\ client' = [client EXCEPT ![w] = NoConn]
    /\ UNCHANGED <<connVars, in_queue, in_term, out_term, shutdown, nonWorker,
                   request>>

\* The /shutdown branch: the answer is queued, the same connection is closed
\* and its pool destroyed.
ShutdownRespond(w) ==
    /\ wpc[w] = "shutdown"
    /\ PushResponse(client[w])
    /\ wpc' = [wpc EXCEPT ![w] = "close"]
    /\ UNCHANGED <<connVars, in_queue, in_term, out_term, shutdown, nonWorker,
                   client, request>>

ShutdownClose(w) ==
    /\ wpc[w] = "close" /\ Usable(client[w])
    /\ Close(client[w])
    /\ wpc' = [wpc EXCEPT ![w] = "destroy"]
    /\ UNCHANGED <<remote_ip, expired, done, read_done, handoff_pending,
                   queueVars, nonWorker, client, request>>

ShutdownDestroy(w) ==
    /\ wpc[w] = "destroy" /\ Live(client[w])
    /\ Destroy(client[w])
    /\ wpc' = [wpc EXCEPT ![w] = "term_out"]
    /\ client' = [client EXCEPT ![w] = NoConn]
    /\ UNCHANGED <<counted, countVars, queueVars, nonWorker, request>>

\* dispatch returned APR_EOF: terminate both queues, then set the flag.
TermOut(w) ==
    /\ wpc[w] = "term_out"
    /\ out_term' = TRUE
    /\ wpc' = [wpc EXCEPT ![w] = "term_in"]
    /\ UNCHANGED <<connVars, in_queue, in_term, out_queue, shutdown, nonWorker,
                   client, request>>

TermIn(w) ==
    /\ wpc[w] = "term_in"
    /\ in_term' = TRUE
    /\ wpc' = [wpc EXCEPT ![w] = "set_shutdown"]
    /\ UNCHANGED <<connVars, in_queue, out_queue, out_term, shutdown,
                   nonWorker, client, request>>

SetShutdown(w) ==
    /\ wpc[w] = "set_shutdown"
    /\ shutdown' = TRUE
    /\ wpc' = [wpc EXCEPT ![w] = "exit"]
    /\ UNCHANGED <<connVars, in_queue, in_term, out_queue, out_term, nonWorker,
                   client, request>>

\* The output thread was quicker and has released the connection.
WorkerFault(w) ==
    /\ \/ wpc[w] = "close" /\ ~Usable(client[w])
       \/ wpc[w] = "destroy" /\ ~Live(client[w])
    /\ Fault

----------------------------------------------------------------------------
(* The output thread *)

\* With responses in hand, wait up to 500 ms for writable sockets.
OutputPoll ==
    /\ opc = "top" /\ oconnection_count > 0
    /\ \E ready \in SUBSET oconnections : otodo' = ready
    /\ opc' = "events"
    /\ UNCHANGED <<connVars, queueVars, nonOutput, otableVars>>

\* The client is gone, the send failed, or the last byte is out: done.
\* Otherwise part of the message went out and the rest waits.
OutputEvent ==
    /\ opc = "events"
    /\ \E c \in otodo :
          /\ Usable(c)
          /\ otodo' = otodo \ {c}
          /\ done' = done \cup {c} \/ UNCHANGED done
    /\ UNCHANGED <<remote_ip, counted, expired, read_done, handoff_pending,
                   countVars, queueVars, nonOutput, opc, otableVars>>

OutputStartSweep ==
    /\ opc = "events" /\ otodo = {}
    /\ otodo' = oconnections
    /\ opc' = "sweep"
    /\ UNCHANGED <<connVars, queueVars, nonOutput, otableVars>>

FinishedWhenDone(c) == c \in done

\* The response is out, or there is no more time for it.
Finished(c) == c \in done \/ c \in expired

OutputSlotKept(c) ==
    UNCHANGED oconnections /\ oconnection_count' = oconnection_count - 1

ClearOutputSlot(c) ==
    /\ oconnections' = oconnections \ {c}
    /\ oconnection_count' = oconnection_count - 1

OutputVisit(c) ==
    /\ opc = "sweep" /\ c \in otodo /\ Usable(c)
    /\ otodo' = otodo \ {c}

OutputReap(c) ==
    /\ OutputVisit(c) /\ Finished(c)
    /\ CloseAndDestroy(c) /\ ClearOutputSlot(c)
    /\ UNCHANGED <<queueVars, nonOutput, opc>>

OutputKeep(c) ==
    /\ OutputVisit(c) /\ ~Finished(c)
    /\ UNCHANGED <<connVars, queueVars, nonOutput, opc, otableVars>>

OutputEndSweep ==
    /\ opc = "sweep" /\ otodo = {}
    /\ opc' = "trypop"
    /\ UNCHANGED <<connVars, queueVars, nonOutput, otodo, otableVars>>

\* Where the output thread asks out_queue for a response: apr_queue_pop with
\* an empty table, apr_queue_trypop after a sweep.
Fetching == opc = "trypop" \/ (opc = "top" /\ oconnection_count = 0)

FetchEOFRetries ==
    /\ Fetching /\ out_term
    /\ opc' = "top"
    /\ UNCHANGED <<connVars, queueVars, nonOutput, otodo, otableVars>>

FetchEOF ==
    /\ Fetching /\ out_term
    /\ opc' = "exit"
    /\ UNCHANGED <<connVars, queueVars, nonOutput, otodo, otableVars>>

\* apr_queue_trypop returned APR_EAGAIN
FetchNone ==
    /\ opc = "trypop" /\ ~out_term /\ out_queue = <<>>
    /\ opc' = "top"
    /\ UNCHANGED <<connVars, queueVars, nonOutput, otodo, otableVars>>

\* The response takes a free slot and joins the poll set.
Fetch ==
    /\ Fetching /\ ~out_term /\ out_queue # <<>> /\ Usable(Head(out_queue))
    /\ oconnection_count < OutputSlots
    /\ oconnections' = oconnections \cup {Head(out_queue)}
    /\ oconnection_count' = oconnection_count + 1
    /\ out_queue' = Tail(out_queue)
    /\ opc' = "top"
    /\ UNCHANGED <<connVars, in_queue, in_term, out_term, shutdown, nonOutput,
                   otodo>>

\* No slot is free: the connection is closed without its response.
FetchOverflow ==
    /\ Fetching /\ ~out_term /\ out_queue # <<>> /\ Usable(Head(out_queue))
    /\ oconnection_count >= OutputSlots
    /\ CloseAndDestroy(Head(out_queue))
    /\ out_queue' = Tail(out_queue)
    /\ opc' = "top"
    /\ UNCHANGED <<in_queue, in_term, out_term, shutdown, nonOutput, otodo,
                   otableVars>>

OutputFault ==
    /\ \/ opc \in {"events", "sweep"} /\ \E c \in otodo : ~Usable(c)
       \/ Fetching /\ ~out_term /\ out_queue # <<>> /\ ~Usable(Head(out_queue))
    /\ Fault

----------------------------------------------------------------------------
Init ==
    /\ remote_ip = [c \in Conns |-> NoIP]
    /\ counted = {} /\ expired = {} /\ done = {}
    /\ read_done = {} /\ handoff_pending = {}
    /\ connection_counts = [ip \in IPs |-> 0] /\ active_connections = 0
    /\ in_queue = <<>> /\ in_term = FALSE
    /\ out_queue = <<>> /\ out_term = FALSE /\ shutdown = FALSE
    /\ lpc = [l \in Listeners |-> "poll"]
    /\ todo = [l \in Listeners |-> {}]
    /\ accepting = [l \in Listeners |-> NoConn]
    /\ over_limit = [l \in Listeners |-> FALSE]
    /\ connections = [l \in Listeners |-> {}]
    /\ connections_count = [l \in Listeners |-> 0]
    /\ pollset = [l \in Listeners |-> {}]
    /\ wpc = [w \in Workers |-> "pop"]
    /\ client = [w \in Workers |-> NoConn]
    /\ request = [w \in Workers |-> NoReq]
    /\ opc = "top" /\ otodo = {}
    /\ oconnections = {} /\ oconnection_count = 0
    /\ going_down = FALSE /\ fault = FALSE

ListenerNext(l) ==
    /\ ~fault
    /\ \/ PollExit(l) \/ Poll(l)
       \/ AcceptNothing(l) \/ Accept(l) \/ Reject(l) \/ Admit(l)
       \/ ClientEvent(l) \/ StartSweep(l)
       \/ \E c \in Conns : \/ HandOff(l, c) \/ Park(l, c) \/ Reap(l, c)
                           \/ Keep(l, c) \/ HandOffEOF(l, c)
       \/ EndSweep(l)

WorkerNext(w) ==
    /\ ~fault
    /\ \/ Pop(w) \/ PopEOF(w) \/ Dispatch(w) \/ Drop(w) \/ Respond(w)
       \/ ShutdownRespond(w) \/ ShutdownClose(w) \/ ShutdownDestroy(w)
       \/ TermOut(w) \/ TermIn(w) \/ SetShutdown(w) \/ WorkerFault(w)

OutputNext ==
    /\ ~fault
    /\ \/ OutputPoll \/ OutputEvent \/ OutputStartSweep
       \/ \E c \in Conns : OutputReap(c) \/ OutputKeep(c)
       \/ OutputEndSweep \/ FetchEOF \/ FetchNone \/ Fetch \/ FetchOverflow
       \/ OutputFault

Tick == ~fault /\ \E c \in Conns : Expire(c)

AllExited ==
    /\ \A l \in Listeners : lpc[l] = "exit"
    /\ \A w \in Workers : wpc[w] = "exit"
    /\ opc = "exit"

\* slayer_server_run has joined every thread, or behaviour is undefined.
Stopped == (AllExited \/ fault) /\ UNCHANGED vars

Next ==
    \/ \E l \in Listeners : ListenerNext(l)
    \/ \E w \in Workers : WorkerNext(w)
    \/ OutputNext
    \/ Tick
    \/ Stopped

Spec == Init /\ [][Next]_vars

(***************************************************************************)
(* Fairness. The I/O threads never wait for another thread: their polls    *)
(* return after socket_timeout or 500 ms and they use the try forms of the *)
(* queue operations, except for the output thread's pop with nothing in    *)
(* hand. IOSpec gives progress to them and to time, and none to workers,   *)
(* who may be stuck in a query.                                            *)
(***************************************************************************)
IOSpec ==
    /\ Spec
    /\ \A l \in Listeners : WF_vars(ListenerNext(l))
    /\ WF_vars(OutputNext)
    /\ \A c \in Conns : WF_vars(~fault /\ Expire(c))

(***************************************************************************)
(* What some properties ask of the workers too: a handler returns because  *)
(* the MySQL client has read and write timeouts, and a push that finds     *)
(* room again and again is not passed over for ever (apr_queue_pop signals *)
(* a waiting pusher).                                                      *)
(***************************************************************************)
WorkersProgress ==
    \A w \in Workers :
        /\ WF_vars(WorkerNext(w))
        /\ SF_vars(~fault /\ (Respond(w) \/ ShutdownRespond(w)))

----------------------------------------------------------------------------
(* Properties *)

ConnTypeOK ==
    /\ remote_ip \in [Conns -> IPs \cup {NoIP}]
    /\ counted \subseteq Conns /\ expired \subseteq Conns /\ done \subseteq Conns
    /\ read_done \subseteq Conns /\ handoff_pending \subseteq Conns
    /\ connection_counts \in [IPs -> Nat] /\ active_connections \in Int

QueueTypeOK ==
    /\ in_queue \in Seq(Conns) /\ out_queue \in Seq(Conns)
    /\ Len(in_queue) <= InCap /\ Len(out_queue) <= OutCap
    /\ in_term \in BOOLEAN /\ out_term \in BOOLEAN /\ shutdown \in BOOLEAN

ListenerTypeOK ==
    /\ lpc \in [Listeners -> {"poll", "events", "admit", "sweep", "exit"}]
    /\ todo \in [Listeners -> SUBSET (Conns \cup {Listen})]
    /\ accepting \in [Listeners -> Conns \cup {NoConn}]
    /\ over_limit \in [Listeners -> BOOLEAN]
    /\ connections \in [Listeners -> SUBSET Conns]
    /\ connections_count \in [Listeners -> Int]
    /\ pollset \in [Listeners -> SUBSET Conns]

WorkerTypeOK ==
    /\ wpc \in [Workers -> {"pop", "dispatch", "respond", "shutdown", "close",
                            "destroy", "term_out", "term_in", "set_shutdown",
                            "exit"}]
    /\ client \in [Workers -> Conns \cup {NoConn}]
    /\ request \in [Workers -> Requests \cup {NoReq}]

OutputTypeOK ==
    /\ opc \in {"top", "events", "sweep", "trypop", "exit"}
    /\ otodo \subseteq Conns /\ oconnections \subseteq Conns
    /\ oconnection_count \in Int

\* The types of the variables, the capacities of the queues included
\* (slayer_http_server.c:839-840).
TypeOK ==
    /\ ConnTypeOK /\ QueueTypeOK
    /\ ListenerTypeOK /\ WorkerTypeOK /\ OutputTypeOK
    /\ going_down \in BOOLEAN /\ fault \in BOOLEAN

OneHolder ==
    \A c \in Conns : \A p, q \in Places : Holds(p, c) /\ Holds(q, c) => p = q

HeldOnce ==
    /\ \A i, j \in DOMAIN in_queue : in_queue[i] = in_queue[j] => i = j
    /\ \A i, j \in DOMAIN out_queue : out_queue[i] = out_queue[j] => i = j
    /\ \A l \in Listeners : accepting[l] \notin connections[l]

LiveIffHeld == \A c \in Conns : Live(c) <=> \E p \in Places : Holds(p, c)

\* Each connection is held in at most one place, once, so no two threads ever
\* work on it (the ownership rule stated at slayer_tls.c:14-17, for every
\* stage of slayer_http_server.c).
NeverShared == OneHolder /\ HeldOnce

\* Until a /shutdown is accepted, ownership is exact: nothing held has been
\* released (no stale pointer), nothing is shared, and nothing allocated is
\* forgotten by every thread (no leak).
SingleOwner == ~going_down => NeverShared /\ LiveIffHeld

\* Until a /shutdown is accepted no thread comes to a released connection.
NoFault == fault => going_down

\* The per-address counters agree with the connections that exist, through
\* every accept, rejection, hand-off and close of every thread.
CountsExact ==
    ~going_down =>
        /\ active_connections = Cardinality(counted)
        /\ \A ip \in IPs :
              connection_counts[ip] = Cardinality({c \in counted : remote_ip[c] = ip})

\* At most MaxPerIP connections of one address get past admission, although
\* the counter itself may exceed the limit while a rejection is under way.
PerIPLimit ==
    ~going_down =>
        \A ip \in IPs :
            Cardinality({c \in Conns : /\ remote_ip[c] = ip
                                       /\ \A l \in Listeners : accepting[l] # c})
                <= MaxPerIP

\* The poll set of a listener refers to its own open connections only, and a
\* connection waiting for in_queue is not polled, so no event can reach a
\* connection that has been released or handed to a worker.
PollsOwnConnections ==
    ~going_down =>
        \A l \in Listeners :
            /\ pollset[l] = connections[l] \ handoff_pending
            /\ lpc[l] \in {"events", "admit"} =>
                  todo[l] \ {Listen} \subseteq pollset[l]

CompleteDownstream ==
    \A p \in Workers \cup {"in_queue", "out_queue"}, c \in Conns :
        Holds(p, c) => c \in read_done /\ c \notin done

\* What a worker or the output thread is given is a complete request that the
\* listener had not already given up on.
OnlyCompleteRequests == ~going_down => CompleteDownstream

\* The slot counters agree with the tables, so an accepted connection always
\* finds a free slot, with one to spare.
SlotCounts ==
    ~going_down =>
        /\ \A l \in Listeners :
              /\ connections_count[l] = Cardinality(connections[l])
              /\ connections_count[l] < ListenerSlots
        /\ oconnection_count = Cardinality(oconnections)
        /\ oconnection_count <= OutputSlots

\* Until a /shutdown a listener holds on to no connection for ever, even when
\* every worker is stuck and in_queue stays full: the hand-off does not block
\* and the sweep reaps what is past its deadline
\* (slayer_http_server.c:342-380).
ReadingEnds ==
    \A l \in Listeners, c \in Conns : []<>(c \notin connections[l] \/ going_down)

\* Until a /shutdown a client that does not read its response cannot hold a
\* slot of the output thread for ever, whatever the workers do
\* (slayer_http_server.c:491-499).
SendingEnds == \A c \in Conns : []<>(c \notin oconnections \/ going_down)

\* With workers that make progress, every accepted connection is eventually
\* closed and its memory released, whatever its client does, unless the server
\* is told to go down.
EveryConnectionEnds ==
    WorkersProgress => \A c \in Conns : []<>(~Live(c) \/ going_down)

\* Once a /shutdown is accepted every thread that slayer_server_run joins
\* leaves its loop, wherever it was blocked.
ShutdownCompletes ==
    WorkersProgress => []<>(going_down => AllExited \/ fault)

\* The stage of a connection, as its holders show it.
Stage(c) ==
    IF ~Live(c) THEN "free"
    ELSE IF Holds("out_queue", c) \/ Holds("output", c) THEN "answering"
    ELSE IF \E w \in Workers : Holds(w, c) THEN "working"
    ELSE IF Holds("in_queue", c) THEN "queued"
    ELSE "reading"

Life == INSTANCE ConnectionLifecycle
            WITH stage <- [c \in Conns |-> Stage(c)], down <- going_down

\* The pipeline implements the life cycle of ConnectionLifecycle: every step
\* of every thread moves at most one connection, to a stage that follows its
\* own, until a /shutdown is accepted.
FollowsLifecycle == Life!LifeSpec

----------------------------------------------------------------------------
(***************************************************************************)
(* The inductive invariant behind SingleOwner, NoFault,                    *)
(* PollsOwnConnections and OnlyCompleteRequests.                           *)
(***************************************************************************)

\* A thread has a connection in hand exactly where its code does.
ListenerHand == \A l \in Listeners : lpc[l] = "admit" <=> accepting[l] # NoConn

WorkerHand ==
    \A w \in Workers :
        wpc[w] \in {"dispatch", "respond", "shutdown", "close", "destroy"}
            <=> client[w] # NoConn

\* Nothing on the way to termination has happened.
Running ==
    /\ ~in_term /\ ~out_term /\ ~shutdown /\ ~fault
    /\ \A w \in Workers : wpc[w] \in {"pop", "dispatch", "respond"}

\* What a listener is about to visit is its own, it polls a connection until
\* the request is complete, and it sweeps before it polls again.
ListenerInStep(l) ==
    /\ pollset[l] = connections[l] \ handoff_pending
    /\ accepting[l] \notin done \cup read_done
    /\ connections[l] \cap done \cap read_done = {}
    /\ lpc[l] = "poll" => pollset[l] \cap (done \cup read_done) = {}
    /\ lpc[l] \in {"events", "admit"} =>
          /\ todo[l] \ {Listen} \subseteq pollset[l]
          /\ todo[l] \cap (done \cup read_done) = {}
    /\ lpc[l] = "sweep" =>
          /\ todo[l] \subseteq connections[l]
          /\ (pollset[l] \ todo[l]) \cap (done \cup read_done) = {}

ListenersInStep ==
    /\ handoff_pending \subseteq read_done
    /\ \A l \in Listeners : ListenerInStep(l)

OutputInStep == opc \in {"events", "sweep"} => otodo \subseteq oconnections

\* The socket of an allocated connection is open, and flags belong to
\* allocated connections.
OpenWhileLive ==
    /\ counted = {c \in Conns : Live(c)}
    /\ \A c \in done \cup read_done \cup expired : Live(c)

Typed == TypeOK /\ ListenerHand /\ WorkerHand

Own ==
    /\ Running /\ ListenersInStep /\ OutputInStep /\ OpenWhileLive
    /\ CompleteDownstream /\ NeverShared /\ LiveIffHeld

OwnershipInv == Typed /\ (~going_down => Own)
============================================================================
