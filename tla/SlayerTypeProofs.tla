------------------------- MODULE SlayerTypeProofs -------------------------
(***************************************************************************)
(* Type correctness of SlayerHttpServer, for every value of its constants. *)
(* Typed also says where each thread has a connection in hand,     *)
(* because that is what makes client[w] and accepting[l] connections where *)
(* the code dereferences them.                                             *)
(***************************************************************************)
EXTENDS SlayerHttpServer, TLAPS

\* The parts of Typed that a step leaves alone.
LEMMA ConnKept == ConnTypeOK /\ UNCHANGED connVars => ConnTypeOK'
BY DEF ConnTypeOK, connVars, countVars

LEMMA QueueKept == QueueTypeOK /\ UNCHANGED queueVars => QueueTypeOK'
BY DEF QueueTypeOK, queueVars

LEMMA ListenerKept ==
    ListenerTypeOK /\ ListenerHand /\ UNCHANGED listenerVars => ListenerTypeOK' /\ ListenerHand'
BY DEF ListenerTypeOK, ListenerHand, listenerVars, acceptVars, tableVars

LEMMA WorkerKept ==
    WorkerTypeOK /\ WorkerHand /\ UNCHANGED workerVars => WorkerTypeOK' /\ WorkerHand'
BY DEF WorkerTypeOK, WorkerHand, workerVars

LEMMA OutputKept == OutputTypeOK /\ UNCHANGED outputVars => OutputTypeOK'
BY DEF OutputTypeOK, outputVars, otableVars

LEMMA HistKept ==
    going_down \in BOOLEAN /\ fault \in BOOLEAN /\ UNCHANGED histVars
        => going_down' \in BOOLEAN /\ fault' \in BOOLEAN
BY DEF histVars

LEMMA CloseType ==
    ASSUME ConnTypeOK, NEW c \in Conns, Close(c)
    PROVE  /\ counted' \subseteq Conns
           /\ connection_counts' \in [IPs -> Nat]
           /\ active_connections' \in Int
<1>1. CASE c \notin counted
  BY <1>1 DEF ConnTypeOK, Close, countVars
<1>2. CASE c \in counted /\ remote_ip[c] \in IPs
  <2> DEFINE n == connection_counts[remote_ip[c]]
  <2>1. n \in Nat /\ (IF n > 0 THEN n - 1 ELSE n) \in Nat
    BY <1>2 DEF ConnTypeOK
  <2>2. connection_counts' \in [IPs -> Nat]
    BY <1>2, <2>1 DEF ConnTypeOK, Close
  <2> QED
    BY <1>2, <2>2 DEF ConnTypeOK, Close
<1>3. CASE c \in counted /\ remote_ip[c] \notin IPs
  <2>1. connection_counts' = connection_counts
    BY <1>3 DEF ConnTypeOK, Close
  <2> QED
    BY <1>3, <2>1 DEF ConnTypeOK, Close
<1> QED
  BY <1>1, <1>2, <1>3

\* A connection is closed, released, or both.
LEMMA ReleaseType ==
    ASSUME ConnTypeOK, NEW c \in Conns, CloseAndDestroy(c)
    PROVE  ConnTypeOK'
<1>1. Close(c) /\ Destroy(c)
  BY DEF CloseAndDestroy
<1> QED
  BY <1>1, CloseType DEF Destroy, ConnTypeOK

\* Adding to a queue that has room, and taking from one that is not empty.
LEMMA AppendType ==
    ASSUME NEW q \in Seq(Conns), NEW c \in Conns, NEW n \in Nat, Len(q) < n
    PROVE  Append(q, c) \in Seq(Conns) /\ Len(Append(q, c)) <= n
OBVIOUS

LEMMA TailType ==
    ASSUME NEW q \in Seq(Conns), q # <<>>, NEW n \in Nat, Len(q) <= n
    PROVE  Head(q) \in Conns /\ Tail(q) \in Seq(Conns) /\ Len(Tail(q)) <= n
OBVIOUS

LEMMA PushType ==
    ASSUME QueueTypeOK, NEW c \in Conns, PushResponse(c),
           UNCHANGED <<in_queue, in_term, out_term, shutdown>>
    PROVE  QueueTypeOK'
<1>1. CASE UNCHANGED out_queue
  BY <1>1 DEF QueueTypeOK
<1>2. CASE Len(out_queue) < OutCap /\ out_queue' = Append(out_queue, c)
  <2>1. out_queue' \in Seq(Conns) /\ Len(out_queue') <= OutCap
    BY <1>2, AppendType, ConstAssumption DEF QueueTypeOK
  <2> QED
    BY <2>1 DEF QueueTypeOK
<1> QED
  BY <1>1, <1>2, Zenon DEF PushResponse

LEMMA InitTyped == Init => Typed
<1> SUFFICES ASSUME Init PROVE Typed
  OBVIOUS
<1> USE DEF Init
<1>1. ConnTypeOK
  BY DEF ConnTypeOK
<1>2. QueueTypeOK
  <2>1. << >> \in Seq(Conns) /\ Len(<< >>) = 0
    OBVIOUS
  <2>2. in_queue \in Seq(Conns) /\ out_queue \in Seq(Conns) /\ Len(in_queue) <= InCap /\ Len(out_queue) <= OutCap
    BY <2>1, ConstAssumption
  <2>3. in_term \in BOOLEAN /\ out_term \in BOOLEAN /\ shutdown \in BOOLEAN
    BY Zenon
  <2> QED
    BY <2>2, <2>3 DEF QueueTypeOK
<1>3. ListenerTypeOK /\ ListenerHand
  BY DEF ListenerTypeOK, ListenerHand
<1>4. WorkerTypeOK /\ WorkerHand
  BY DEF WorkerTypeOK, WorkerHand
<1>5. OutputTypeOK
  BY DEF OutputTypeOK
<1>6. going_down \in BOOLEAN /\ fault \in BOOLEAN
  BY Zenon
<1> QED
  BY <1>1, <1>2, <1>3, <1>4, <1>5, <1>6 DEF Typed, TypeOK

LEMMA ListenerTyped ==
    ASSUME Typed, NEW l \in Listeners, ListenerNext(l)
    PROVE  Typed'
<1> USE DEF Typed, TypeOK
<1>1. ASSUME UNCHANGED <<queueVars, nonListener>>, ConnTypeOK', ListenerTypeOK', ListenerHand'
      PROVE  Typed'
  BY <1>1, QueueKept, WorkerKept, OutputKept, HistKept DEF nonListener
<1>2. ASSUME UNCHANGED nonListener, ConnTypeOK', QueueTypeOK', ListenerTypeOK', ListenerHand'
      PROVE  Typed'
  BY <1>2, WorkerKept, OutputKept, HistKept DEF nonListener
<1>3. CASE PollExit(l)
  <2>1. UNCHANGED <<connVars, queueVars, nonListener>>
    BY <1>3 DEF PollExit
  <2>2. ListenerTypeOK' /\ ListenerHand'
    BY <1>3 DEF PollExit, ListenerTypeOK, ListenerHand, acceptVars, tableVars
  <2> QED
    BY <1>1, <2>1, <2>2, ConnKept
<1>4. CASE Poll(l)
  <2>1. UNCHANGED <<connVars, queueVars, nonListener>>
    BY <1>4 DEF Poll
  <2>2. ListenerTypeOK' /\ ListenerHand'
    BY <1>4 DEF Poll, ListenerTypeOK, ListenerHand, acceptVars, tableVars
  <2> QED
    BY <1>1, <2>1, <2>2, ConnKept
<1>5. CASE AcceptNothing(l)
  <2>1. UNCHANGED <<connVars, queueVars, nonListener>>
    BY <1>5 DEF AcceptNothing
  <2>2. ListenerTypeOK' /\ ListenerHand'
    BY <1>5 DEF AcceptNothing, ListenerTypeOK, ListenerHand, acceptVars, tableVars
  <2> QED
    BY <1>1, <2>1, <2>2, ConnKept
<1>6. CASE StartSweep(l)
  <2>1. UNCHANGED <<connVars, queueVars, nonListener>>
    BY <1>6 DEF StartSweep
  <2>2. ListenerTypeOK' /\ ListenerHand'
    BY <1>6 DEF StartSweep, ListenerTypeOK, ListenerHand, acceptVars, tableVars
  <2> QED
    BY <1>1, <2>1, <2>2, ConnKept
<1>7. CASE EndSweep(l)
  <2>1. UNCHANGED <<connVars, queueVars, nonListener>>
    BY <1>7 DEF EndSweep
  <2>2. ListenerTypeOK' /\ ListenerHand'
    BY <1>7 DEF EndSweep, ListenerTypeOK, ListenerHand, acceptVars, tableVars
  <2> QED
    BY <1>1, <2>1, <2>2, ConnKept
<1>8. CASE \E c \in Conns : Keep(l, c)
  <2>1. UNCHANGED <<connVars, queueVars, nonListener>>
    BY <1>8 DEF Keep
  <2>2. ListenerTypeOK' /\ ListenerHand'
    BY <1>8 DEF Keep, Visit, ListenerTypeOK, ListenerHand, acceptVars, tableVars
  <2> QED
    BY <1>1, <2>1, <2>2, ConnKept
<1>9. CASE Accept(l)
  <2>1. UNCHANGED <<queueVars, nonListener>>
    BY <1>9 DEF Accept
  <2>2. PICK c \in Conns, ip \in IPs :
            /\ CountIncrement(c, ip)
            /\ accepting' = [accepting EXCEPT ![l] = c]
            /\ over_limit' = [over_limit EXCEPT ![l] = OverLimit(ip)]
    BY <1>9 DEF Accept
  <2>3. ConnTypeOK'
    BY <1>9, <2>2 DEF Accept, CountIncrement, ConnTypeOK
  <2>4. ListenerTypeOK' /\ ListenerHand'
    BY <1>9, <2>2, ConstAssumption DEF Accept, OverLimit, ListenerTypeOK, ListenerHand, acceptVars, tableVars
  <2> QED
    BY <1>1, <2>1, <2>3, <2>4
<1>10. CASE Reject(l)
  <2>1. UNCHANGED <<queueVars, nonListener>>
    BY <1>10 DEF Reject
  <2>2. accepting[l] \in Conns /\ CloseAndDestroy(accepting[l])
    BY <1>10 DEF Reject, ListenerTypeOK, ListenerHand
  <2>3. ListenerTypeOK' /\ ListenerHand'
    BY <1>10 DEF Reject, ListenerTypeOK, ListenerHand, acceptVars, tableVars
  <2> QED
    BY <1>1, <2>1, <2>2, <2>3, ReleaseType
<1>11. CASE Admit(l)
  <2>1. UNCHANGED <<connVars, queueVars, nonListener>>
    BY <1>11 DEF Admit
  <2>2. ListenerTypeOK' /\ ListenerHand'
    BY <1>11 DEF Admit, ListenerTypeOK, ListenerHand, acceptVars, tableVars
  <2> QED
    BY <1>1, <2>1, <2>2, ConnKept
<1>12. CASE ClientEvent(l)
  <2>1. UNCHANGED <<queueVars, nonListener>>
    BY <1>12 DEF ClientEvent
  <2>2. PICK c \in todo[l] \ {Listen} :
            /\ todo' = [todo EXCEPT ![l] = @ \ {c}]
            /\ \/ done' = done \cup {c} /\ UNCHANGED read_done
               \/ read_done' = read_done \cup {c} /\ UNCHANGED done
               \/ UNCHANGED <<done, read_done>>
    BY <1>12 DEF ClientEvent
  <2>3. c \in Conns
    BY <2>2 DEF ListenerTypeOK
  <2>4. ConnTypeOK'
    BY <1>12, <2>2, <2>3 DEF ClientEvent, ConnTypeOK, countVars
  <2>5. ListenerTypeOK' /\ ListenerHand'
    BY <1>12, <2>2 DEF ClientEvent, ListenerTypeOK, ListenerHand, acceptVars, tableVars
  <2> QED
    BY <1>1, <2>1, <2>4, <2>5
<1>13. CASE \E c \in Conns : HandOff(l, c)
  <2>1. PICK c \in Conns : HandOff(l, c)
    BY <1>13
  <2>2. UNCHANGED nonListener
    BY <2>1 DEF HandOff
  <2>3. ConnTypeOK'
    BY <2>1 DEF HandOff, ConnTypeOK, countVars
  <2>4. in_queue' \in Seq(Conns) /\ Len(in_queue') <= InCap
    BY <2>1, AppendType, ConstAssumption DEF HandOff, InRoom, QueueTypeOK
  <2>5. QueueTypeOK'
    BY <2>1, <2>4 DEF HandOff, QueueTypeOK
  <2>6. ListenerTypeOK' /\ ListenerHand'
    BY <2>1 DEF HandOff, Visit, Unpoll, ClearSlot, ListenerTypeOK, ListenerHand, acceptVars, tableVars
  <2> QED
    BY <1>2, <2>2, <2>3, <2>5, <2>6
<1>14. CASE \E c \in Conns : Park(l, c)
  <2>1. PICK c \in Conns : Park(l, c)
    BY <1>14
  <2>2. UNCHANGED <<queueVars, nonListener>>
    BY <2>1 DEF Park
  <2>3. ConnTypeOK'
    BY <2>1 DEF Park, ConnTypeOK, countVars
  <2>4. ListenerTypeOK' /\ ListenerHand'
    BY <2>1 DEF Park, Visit, Unpoll, ListenerTypeOK, ListenerHand, acceptVars, tableVars
  <2> QED
    BY <1>1, <2>2, <2>3, <2>4
<1>15. CASE \E c \in Conns : HandOffEOF(l, c)
  <2>1. PICK c \in Conns : HandOffEOF(l, c)
    BY <1>15
  <2>2. UNCHANGED <<queueVars, nonListener>>
    BY <2>1 DEF HandOffEOF
  <2>3. ConnTypeOK'
    BY <2>1 DEF HandOffEOF, ConnTypeOK, countVars
  <2>4. ListenerTypeOK' /\ ListenerHand'
    BY <2>1 DEF HandOffEOF, Visit, Unpoll, ListenerTypeOK, ListenerHand, acceptVars, tableVars
  <2> QED
    BY <1>1, <2>2, <2>3, <2>4
<1>16. CASE \E c \in Conns : Reap(l, c)
  <2>1. PICK c \in Conns : Reap(l, c)
    BY <1>16
  <2>2. UNCHANGED <<queueVars, nonListener>> /\ CloseAndDestroy(c)
    BY <2>1 DEF Reap
  <2>3. ListenerTypeOK' /\ ListenerHand'
    BY <2>1 DEF Reap, Visit, Unpoll, ClearSlot, ListenerTypeOK, ListenerHand, acceptVars, tableVars
  <2> QED
    BY <1>1, <2>2, <2>3, ReleaseType
<1> QED
  BY <1>3, <1>4, <1>5, <1>6, <1>7, <1>8, <1>9, <1>10, <1>11, <1>12, <1>13, <1>14, <1>15, <1>16 DEF ListenerNext

LEMMA WorkerTyped ==
    ASSUME Typed, NEW w \in Workers, WorkerNext(w)
    PROVE  Typed'
<1> USE DEF Typed, TypeOK
<1>1. ASSUME UNCHANGED nonWorker, ConnTypeOK', QueueTypeOK', WorkerTypeOK', WorkerHand'
      PROVE  Typed'
  BY <1>1, ListenerKept, OutputKept, HistKept DEF nonWorker
<1>2. CASE Pop(w)
  <2>1. UNCHANGED <<connVars, nonWorker>>
    BY <1>2 DEF Pop
  <2>2. Head(in_queue) \in Conns /\ in_queue' \in Seq(Conns) /\ Len(in_queue') <= InCap
    BY <1>2, TailType, ConstAssumption DEF Pop, QueueTypeOK
  <2>3. QueueTypeOK'
    BY <1>2, <2>2 DEF Pop, QueueTypeOK
  <2>4. WorkerTypeOK' /\ WorkerHand'
    BY <1>2, <2>2, ConstAssumption DEF Pop, WorkerTypeOK, WorkerHand
  <2> QED
    BY <1>1, <2>1, <2>3, <2>4, ConnKept
<1>3. CASE PopEOF(w)
  <2>1. UNCHANGED <<connVars, queueVars, nonWorker>>
    BY <1>3 DEF PopEOF
  <2>2. WorkerTypeOK' /\ WorkerHand'
    BY <1>3 DEF PopEOF, WorkerTypeOK, WorkerHand
  <2> QED
    BY <1>1, <2>1, <2>2, ConnKept, QueueKept
<1>4. CASE Dispatch(w)
  <2>1. UNCHANGED <<connVars, queueVars, listenerVars, outputVars, fault>>
    BY <1>4 DEF Dispatch
  <2>2. Route(request[w]) \in {"shutdown", "respond"}
    BY <1>4 DEF Dispatch, Route
  <2>3. WorkerTypeOK' /\ WorkerHand'
    BY <1>4, <2>2 DEF Dispatch, WorkerTypeOK, WorkerHand
  <2>4. going_down' \in BOOLEAN /\ fault' \in BOOLEAN
    BY <1>4, <2>1, Zenon DEF Dispatch
  <2> QED
    BY <2>1, <2>3, <2>4, ConnKept, QueueKept, ListenerKept, OutputKept
<1>5. CASE Drop(w)
  <2>1. UNCHANGED <<queueVars, nonWorker>>
    BY <1>5 DEF Drop
  <2>2. client[w] \in Conns /\ CloseAndDestroy(client[w])
    BY <1>5 DEF Drop, WorkerTypeOK, WorkerHand
  <2>3. WorkerTypeOK' /\ WorkerHand'
    BY <1>5 DEF Drop, WorkerTypeOK, WorkerHand
  <2> QED
    BY <1>1, <2>1, <2>2, <2>3, ReleaseType, QueueKept
<1>6. CASE Respond(w)
  <2>1. /\ UNCHANGED <<connVars, nonWorker>> /\ client[w] \in Conns
        /\ PushResponse(client[w]) /\ UNCHANGED <<in_queue, in_term, out_term, shutdown>>
    BY <1>6 DEF Respond, WorkerTypeOK, WorkerHand
  <2>2. WorkerTypeOK' /\ WorkerHand'
    BY <1>6 DEF Respond, WorkerTypeOK, WorkerHand
  <2> QED
    BY <1>1, <2>1, <2>2, ConnKept, PushType
<1>7. CASE ShutdownRespond(w)
  <2>1. /\ UNCHANGED <<connVars, nonWorker>> /\ client[w] \in Conns
        /\ PushResponse(client[w]) /\ UNCHANGED <<in_queue, in_term, out_term, shutdown>>
    BY <1>7 DEF ShutdownRespond, WorkerTypeOK, WorkerHand
  <2>2. WorkerTypeOK' /\ WorkerHand'
    BY <1>7 DEF ShutdownRespond, WorkerTypeOK, WorkerHand
  <2> QED
    BY <1>1, <2>1, <2>2, ConnKept, PushType
<1>8. CASE ShutdownClose(w)
  <2>1. UNCHANGED <<queueVars, nonWorker>> /\ client[w] \in Conns /\ Close(client[w])
    BY <1>8 DEF ShutdownClose, WorkerTypeOK, WorkerHand
  <2>2. ConnTypeOK'
    BY <1>8, <2>1, CloseType DEF ShutdownClose, ConnTypeOK
  <2>3. WorkerTypeOK' /\ WorkerHand'
    BY <1>8 DEF ShutdownClose, WorkerTypeOK, WorkerHand
  <2> QED
    BY <1>1, <2>1, <2>2, <2>3, QueueKept
<1>9. CASE ShutdownDestroy(w)
  <2>1. UNCHANGED <<queueVars, nonWorker>> /\ client[w] \in Conns
    BY <1>9 DEF ShutdownDestroy, WorkerTypeOK, WorkerHand
  <2>2. ConnTypeOK'
    BY <1>9, <2>1 DEF ShutdownDestroy, Destroy, ConnTypeOK, countVars
  <2>3. WorkerTypeOK' /\ WorkerHand'
    BY <1>9 DEF ShutdownDestroy, WorkerTypeOK, WorkerHand
  <2> QED
    BY <1>1, <2>1, <2>2, <2>3, QueueKept
<1>10. CASE TermOut(w)
  <2>1. UNCHANGED <<connVars, nonWorker>>
    BY <1>10 DEF TermOut
  <2>2. WorkerTypeOK' /\ WorkerHand'
    BY <1>10 DEF TermOut, WorkerTypeOK, WorkerHand
  <2>3. QueueTypeOK'
    BY <1>10 DEF TermOut, QueueTypeOK
  <2> QED
    BY <1>1, <2>1, <2>2, <2>3, ConnKept
<1>11. CASE TermIn(w)
  <2>1. UNCHANGED <<connVars, nonWorker>>
    BY <1>11 DEF TermIn
  <2>2. WorkerTypeOK' /\ WorkerHand'
    BY <1>11 DEF TermIn, WorkerTypeOK, WorkerHand
  <2>3. QueueTypeOK'
    BY <1>11 DEF TermIn, QueueTypeOK
  <2> QED
    BY <1>1, <2>1, <2>2, <2>3, ConnKept
<1>12. CASE SetShutdown(w)
  <2>1. UNCHANGED <<connVars, nonWorker>>
    BY <1>12 DEF SetShutdown
  <2>2. WorkerTypeOK' /\ WorkerHand'
    BY <1>12 DEF SetShutdown, WorkerTypeOK, WorkerHand
  <2>3. QueueTypeOK'
    BY <1>12 DEF SetShutdown, QueueTypeOK
  <2> QED
    BY <1>1, <2>1, <2>2, <2>3, ConnKept
<1>13. CASE WorkerFault(w)
  <2>1. /\ UNCHANGED <<connVars, queueVars, listenerVars, workerVars, outputVars, going_down>>
        /\ fault' \in BOOLEAN
    BY <1>13 DEF WorkerFault, Fault
  <2> QED
    BY <2>1, ConnKept, QueueKept, ListenerKept, WorkerKept, OutputKept
<1> QED
  BY <1>2, <1>3, <1>4, <1>5, <1>6, <1>7, <1>8, <1>9, <1>10, <1>11, <1>12, <1>13 DEF WorkerNext

LEMMA OutputTyped ==
    ASSUME Typed, OutputNext
    PROVE  Typed'
<1> USE DEF Typed, TypeOK
<1>1. ASSUME UNCHANGED nonOutput, ConnTypeOK', QueueTypeOK', OutputTypeOK'
      PROVE  Typed'
  BY <1>1, ListenerKept, WorkerKept, HistKept DEF nonOutput
<1>2. CASE OutputPoll
  <2>1. UNCHANGED <<connVars, queueVars, nonOutput>>
    BY <1>2 DEF OutputPoll
  <2>2. OutputTypeOK'
    BY <1>2 DEF OutputPoll, OutputTypeOK, otableVars
  <2> QED
    BY <1>1, <2>1, <2>2, ConnKept, QueueKept
<1>3. CASE OutputStartSweep
  <2>1. UNCHANGED <<connVars, queueVars, nonOutput>>
    BY <1>3 DEF OutputStartSweep
  <2>2. OutputTypeOK'
    BY <1>3 DEF OutputStartSweep, OutputTypeOK, otableVars
  <2> QED
    BY <1>1, <2>1, <2>2, ConnKept, QueueKept
<1>4. CASE OutputEndSweep
  <2>1. UNCHANGED <<connVars, queueVars, nonOutput>>
    BY <1>4 DEF OutputEndSweep
  <2>2. OutputTypeOK'
    BY <1>4 DEF OutputEndSweep, OutputTypeOK, otableVars
  <2> QED
    BY <1>1, <2>1, <2>2, ConnKept, QueueKept
<1>5. CASE FetchEOF
  <2>1. UNCHANGED <<connVars, queueVars, nonOutput>>
    BY <1>5 DEF FetchEOF
  <2>2. OutputTypeOK'
    BY <1>5 DEF FetchEOF, OutputTypeOK, otableVars
  <2> QED
    BY <1>1, <2>1, <2>2, ConnKept, QueueKept
<1>6. CASE FetchNone
  <2>1. UNCHANGED <<connVars, queueVars, nonOutput>>
    BY <1>6 DEF FetchNone
  <2>2. OutputTypeOK'
    BY <1>6 DEF FetchNone, OutputTypeOK, otableVars
  <2> QED
    BY <1>1, <2>1, <2>2, ConnKept, QueueKept
<1>7. CASE OutputEvent
  <2>1. UNCHANGED <<queueVars, nonOutput>>
    BY <1>7 DEF OutputEvent
  <2>2. OutputTypeOK' /\ ConnTypeOK'
    BY <1>7 DEF OutputEvent, OutputTypeOK, ConnTypeOK, countVars, otableVars
  <2> QED
    BY <1>1, <2>1, <2>2, QueueKept
<1>8. CASE \E c \in Conns : OutputReap(c)
  <2>1. PICK c \in Conns : OutputReap(c)
    BY <1>8
  <2>2. UNCHANGED <<queueVars, nonOutput>> /\ CloseAndDestroy(c)
    BY <2>1 DEF OutputReap
  <2>3. OutputTypeOK'
    BY <2>1 DEF OutputReap, OutputVisit, ClearOutputSlot, OutputTypeOK
  <2> QED
    BY <1>1, <2>2, <2>3, ReleaseType, QueueKept
<1>9. CASE \E c \in Conns : OutputKeep(c)
  <2>1. UNCHANGED <<connVars, queueVars, nonOutput>>
    BY <1>9 DEF OutputKeep
  <2>2. OutputTypeOK'
    BY <1>9 DEF OutputKeep, OutputVisit, OutputTypeOK, otableVars
  <2> QED
    BY <1>1, <2>1, <2>2, ConnKept, QueueKept
<1>10. CASE Fetch
  <2>1. UNCHANGED <<connVars, nonOutput>>
    BY <1>10 DEF Fetch
  <2>2. Head(out_queue) \in Conns /\ out_queue' \in Seq(Conns) /\ Len(out_queue') <= OutCap
    BY <1>10, TailType, ConstAssumption DEF Fetch, QueueTypeOK
  <2>3. QueueTypeOK'
    BY <1>10, <2>2 DEF Fetch, QueueTypeOK
  <2>4. OutputTypeOK'
    BY <1>10, <2>2 DEF Fetch, OutputTypeOK
  <2> QED
    BY <1>1, <2>1, <2>3, <2>4, ConnKept
<1>11. CASE FetchOverflow
  <2>1. UNCHANGED nonOutput
    BY <1>11 DEF FetchOverflow
  <2>2. Head(out_queue) \in Conns /\ out_queue' \in Seq(Conns) /\ Len(out_queue') <= OutCap
    BY <1>11, TailType, ConstAssumption DEF FetchOverflow, QueueTypeOK
  <2>3. QueueTypeOK'
    BY <1>11, <2>2 DEF FetchOverflow, QueueTypeOK
  <2>4. OutputTypeOK'
    BY <1>11 DEF FetchOverflow, OutputTypeOK, otableVars
  <2>5. ConnTypeOK'
    BY <1>11, <2>2, ReleaseType DEF FetchOverflow
  <2> QED
    BY <1>1, <2>1, <2>3, <2>4, <2>5
<1>12. CASE OutputFault
  <2>1. /\ UNCHANGED <<connVars, queueVars, listenerVars, workerVars, outputVars, going_down>>
        /\ fault' \in BOOLEAN
    BY <1>12 DEF OutputFault, Fault
  <2> QED
    BY <2>1, ConnKept, QueueKept, ListenerKept, WorkerKept, OutputKept
<1> QED
  BY <1>2, <1>3, <1>4, <1>5, <1>6, <1>7, <1>8, <1>9, <1>10, <1>11, <1>12 DEF OutputNext

LEMMA NextTyped == Typed /\ [Next]_vars => Typed'
<1> SUFFICES ASSUME Typed, [Next]_vars PROVE Typed'
  OBVIOUS
<1>1. CASE Tick
  <2>1. UNCHANGED <<queueVars, listenerVars, nonListener>>
    BY <1>1 DEF Tick, Expire
  <2>2. ConnTypeOK'
    BY <1>1 DEF Tick, Expire, Typed, TypeOK, ConnTypeOK, countVars
  <2> QED
    BY <2>1, <2>2, QueueKept, ListenerKept, WorkerKept, OutputKept, HistKept
    DEF Typed, TypeOK, nonListener
<1>2. CASE UNCHANGED vars
  BY <1>2, ConnKept, QueueKept, ListenerKept, WorkerKept, OutputKept, HistKept
  DEF Typed, TypeOK, vars, nonListener
<1> QED
  BY <1>1, <1>2, ListenerTyped, WorkerTyped, OutputTyped DEF Next, Stopped

LEMMA TypedInvariant == Spec => []Typed
BY InitTyped, NextTyped, PTL DEF Spec

\* Every reachable state of the pipeline is well typed: the counters stay in
\* range and neither queue ever holds more than its capacity.
THEOREM TypeCorrect == Spec => []TypeOK
<1>1. Typed => TypeOK
  BY DEF Typed
<1> QED
  BY <1>1, TypedInvariant, PTL
============================================================================
