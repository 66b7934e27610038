---------------------- MODULE SlayerHttpServerProofs ----------------------
(***************************************************************************)
(* Ownership of connections in SlayerHttpServer, for every value of its    *)
(* constants: the steps of a listener put together, those of the output    *)
(* thread, and the theorems.                                               *)
(* OwnershipInv is an invariant, and SingleOwner, NoFault,                 *)
(* PollsOwnConnections and OnlyCompleteRequests follow from it.            *)
(***************************************************************************)
EXTENDS SlayerTypeProofs, SlayerListenerProofs, SlayerHandoffProofs

\* No step of a listener breaks Own.
LEMMA ListenerOwn ==
    ASSUME Typed, Own, NEW l \in Listeners, ListenerNext(l)
    PROVE  Own'
<1>1. /\ ~PollExit(l) /\ \A c \in Conns : ~HandOffEOF(l, c)
  BY Zenon DEF Own, Running, PollExit, HandOffEOF
<1> QED
  BY <1>1, PollOwn, AcceptNothingOwn, StartSweepOwn, EndSweepOwn, KeepOwn, ClientEventOwn, ParkOwn,
     AcceptOwn, RejectOwn, AdmitOwn, HandOffOwn, ReapOwn
  DEF ListenerNext

----------------------------------------------------------------------------
(* The output thread *)

\* A step of the output thread that moves nothing and changes no flag.
LEMMA OutputQuiet ==
    ASSUME Own, UNCHANGED connVars, UNCHANGED queueVars, UNCHANGED nonOutput,
           UNCHANGED otableVars, OutputInStep'
    PROVE  Own'
<1>1. Running' /\ OpenWhileLive' /\ CompleteDownstream' /\ NeverShared' /\ LiveIffHeld'
  BY Quiet
  DEF connVars, queueVars, nonOutput, listenerVars, acceptVars, tableVars, workerVars,
      otableVars, histVars
<1>2. ListenersInStep'
  BY InStepKept DEF Own, connVars, nonOutput, listenerVars, acceptVars, tableVars
<1> QED
  BY <1>1, <1>2 DEF Own

\* What the induction hypothesis says of the output thread.
LEMMA OutputFacts ==
    ASSUME Typed, Own
    PROVE  /\ OneHolder /\ HeldOnce /\ LiveIffHeld /\ OutputInStep
           /\ out_queue \in Seq(Conns) /\ oconnections \subseteq Conns
BY DEF Typed, TypeOK, QueueTypeOK, OutputTypeOK, Own, NeverShared

LEMMA HeldUsable ==
    ASSUME Own, NEW c \in Conns, NEW p \in Places, Holds(p, c)
    PROVE  Live(c) /\ Usable(c)
BY DEF Own, LiveIffHeld, OpenWhileLive, Usable

LEMMA TableUsable ==
    ASSUME Typed, Own
    PROVE  \A c \in oconnections : c \in Conns /\ Holds("output", c) /\ Live(c) /\ Usable(c)
<1>1. \A c \in oconnections : c \in Conns /\ Holds("output", c)
  BY OutputFacts, AtOutput
<1> QED
  BY HeldUsable, <1>1, DistinctPlaces

LEMMA HeadUsable ==
    ASSUME Typed, Own, out_queue # <<>>
    PROVE  /\ Head(out_queue) \in Conns /\ Holds("out_queue", Head(out_queue))
           /\ Usable(Head(out_queue))
<1>1. \A i, j \in DOMAIN out_queue : out_queue[i] = out_queue[j] => i = j
  BY OutputFacts DEF HeldOnce
<1>2. Head(out_queue) \in Conns /\ \E i \in DOMAIN out_queue : out_queue[i] = Head(out_queue)
  BY OutputFacts, <1>1, TailOnce, Zenon
<1>3. Holds("out_queue", Head(out_queue))
  BY <1>2, AtOutQueue
<1> QED
  BY HeldUsable, <1>2, <1>3, DistinctPlaces

LEMMA HolderAlone ==
    ASSUME Typed, Own, NEW q \in Places, q \notin Listeners, NEW c \in Conns, Holds(q, c)
    PROVE  /\ \A p \in Places : p # q => ~Holds(p, c)
           /\ \A m \in Listeners : c \notin connections[m] /\ accepting[m] # c
<1>1. \A p \in Places : p # q => ~Holds(p, c)
  BY OutputFacts DEF OneHolder
<1> QED
  BY <1>1, AtListener, DistinctPlaces

\* The output thread takes the head of the queue.
LEMMA HeadTaken ==
    ASSUME Typed, Own, out_queue # <<>>, out_queue' = Tail(out_queue)
    PROVE  /\ \A i, j \in DOMAIN out_queue' : out_queue'[i] = out_queue'[j] => i = j
           /\ \A x \in Conns : Holds("out_queue", x)' <=> x # Head(out_queue) /\ Holds("out_queue", x)
<1> DEFINE t == Tail(out_queue)
           h == Head(out_queue)
<1>1. /\ out_queue \in Seq(Conns) /\ out_queue # <<>>
      /\ \A i, j \in DOMAIN out_queue : out_queue[i] = out_queue[j] => i = j
  BY OutputFacts DEF HeldOnce
<1>2. /\ \A i, j \in DOMAIN t : t[i] = t[j] => i = j
      /\ \A x : (\E i \in DOMAIN t : t[i] = x)
                    <=> (x # h /\ \E i \in DOMAIN out_queue : out_queue[i] = x)
  BY <1>1, TailOnce, Zenon
<1>3. out_queue' = t
  OBVIOUS
<1> HIDE DEF t, h
<1>4. \A i, j \in DOMAIN out_queue' : out_queue'[i] = out_queue'[j] => i = j
  BY <1>2, <1>3
<1>5. \A x \in Conns : Holds("out_queue", x)' <=> x # h /\ Holds("out_queue", x)
  BY <1>2, <1>3, AtOutQueue, Zenon
<1> QED
  BY <1>4, <1>5 DEF h

\* The output thread closes and releases a connection it holds.
LEMMA OutputReleases ==
    ASSUME Typed, Own, NEW c \in Conns, NEW q \in {"output", "out_queue"}, Holds(q, c),
           CloseAndDestroy(c),
           \A x \in Conns : Holds(q, x)' <=> Holds(q, x) /\ x # c,
           \A p \in Places, x \in Conns : p # q => (Holds(p, x)' <=> Holds(p, x)),
           UNCHANGED nonOutput, UNCHANGED <<in_term, out_term, shutdown>>,
           HeldOnce', OutputInStep'
    PROVE  Own'
<1>1. q \in Places /\ q \notin Listeners
  BY DistinctPlaces
<1>2. /\ \A p \in Places : p # q => ~Holds(p, c)
      /\ \A m \in Listeners : c \notin connections[m] /\ accepting[m] # c
  BY HolderAlone, <1>1
<1>3. \A p \in Places, x \in Conns : Holds(p, x)' <=> (Holds(p, x) /\ x # c)
  BY <1>2
<1>4. /\ OneHolder' /\ LiveIffHeld' /\ OpenWhileLive' /\ CompleteDownstream'
      /\ done' = done \ {c} /\ read_done' = read_done \ {c} /\ handoff_pending' = handoff_pending \ {c}
  BY <1>3, Released
<1>5. /\ UNCHANGED <<lpc, todo, accepting, connections, pollset>> /\ UNCHANGED <<fault, wpc>>
  BY DEF nonOutput, listenerVars, acceptVars, tableVars, workerVars, histVars
<1>6. ListenersInStep'
  <2>1. FlagsBut(c)
    BY <1>4 DEF FlagsBut
  <2> QED
    BY <1>2, <1>5, <2>1, FlagsElsewhere DEF Own
<1>7. Running'
  BY <1>5, RunningKept DEF Own
<1> QED
  BY <1>4, <1>6, <1>7 DEF Own, NeverShared

LEMMA OutputEventOwn ==
    ASSUME Typed, Own, OutputEvent
    PROVE  Own'
<1>1. PICK c \in otodo : otodo' = otodo \ {c} /\ (done' = done \cup {c} \/ UNCHANGED done)
  BY DEF OutputEvent
<1>2. /\ opc = "events"
      /\ UNCHANGED <<remote_ip, connections, accepting, client, in_queue, out_queue, oconnections>>
      /\ UNCHANGED <<counted, expired, read_done, handoff_pending>>
      /\ UNCHANGED <<lpc, todo, pollset>> /\ UNCHANGED <<in_term, out_term, shutdown, fault, wpc>>
      /\ opc' = opc
  BY
  DEF OutputEvent, queueVars, nonOutput, listenerVars, acceptVars, tableVars, workerVars,
      otableVars, histVars
<1>3. c \in oconnections /\ c \in Conns /\ Live(c) /\ Holds("output", c)
  BY OutputFacts, TableUsable, <1>1, <1>2 DEF OutputInStep
<1>4. /\ \A p \in Places : p # "output" => ~Holds(p, c)
      /\ \A m \in Listeners : c \notin connections[m] /\ accepting[m] # c
  BY HolderAlone, <1>3, DistinctPlaces
<1>5. NeverShared' /\ LiveIffHeld'
  BY <1>2, NothingMoved DEF Own
<1>6. Running'
  BY <1>2, RunningKept DEF Own
<1>7. OpenWhileLive'
  BY <1>1, <1>2, <1>3, Zenon DEF Own, OpenWhileLive, Live
<1>8. CompleteDownstream'
  <2>1. \A p \in Places, x \in Conns : Holds(p, x)' <=> Holds(p, x)
    BY <1>2 DEF Holds
  <2> QED
    BY <1>1, <1>2, <1>4, <2>1, DistinctPlaces DEF Own, CompleteDownstream
<1>9. ListenersInStep'
  <2>1. FlagsBut(c)
    BY <1>1, <1>2 DEF FlagsBut, Own, ListenersInStep
  <2> QED
    BY <1>2, <1>3, <1>4, <2>1, FlagsElsewhere, Zenon DEF Own
<1>10. OutputInStep'
  BY OutputFacts, <1>1, <1>2 DEF OutputInStep
<1> QED
  BY <1>5, <1>6, <1>7, <1>8, <1>9, <1>10 DEF Own

LEMMA OutputReapOwn ==
    ASSUME Typed, Own, \E c \in Conns : OutputReap(c)
    PROVE  Own'
<1>1. PICK c \in Conns : OutputReap(c)
  OBVIOUS
<1>2. /\ opc = "sweep" /\ c \in otodo /\ CloseAndDestroy(c) /\ otodo' = otodo \ {c}
      /\ oconnections' = oconnections \ {c} /\ opc' = opc
      /\ UNCHANGED nonOutput /\ UNCHANGED <<in_term, out_term, shutdown>>
      /\ UNCHANGED <<in_queue, out_queue>>
  BY <1>1 DEF OutputReap, OutputVisit, ClearOutputSlot, queueVars
<1>3. UNCHANGED <<client, accepting, connections>>
  BY <1>2 DEF nonOutput, listenerVars, acceptVars, tableVars, workerVars
<1>4. c \in oconnections /\ Holds("output", c)
  BY OutputFacts, TableUsable, <1>2 DEF OutputInStep
<1>5. \A x \in Conns : Holds("output", x)' <=> Holds("output", x) /\ x # c
  BY <1>2, AtOutput
<1>6. \A p \in Places, x \in Conns : p # "output" => (Holds(p, x)' <=> Holds(p, x))
  BY <1>2, <1>3, Frame DEF Places
<1>7. HeldOnce'
  BY OutputFacts, <1>2, <1>3 DEF HeldOnce
<1>8. OutputInStep'
  BY OutputFacts, <1>2 DEF OutputInStep
<1> QED
  BY OutputReleases, <1>2, <1>4, <1>5, <1>6, <1>7, <1>8, Zenon

LEMMA FetchOwn ==
    ASSUME Typed, Own, Fetch
    PROVE  Own'
<1> DEFINE c == Head(out_queue)
<1>1. /\ out_queue # <<>> /\ out_queue' = Tail(out_queue) /\ oconnections' = oconnections \cup {c}
      /\ opc' = "top" /\ UNCHANGED connVars /\ UNCHANGED nonOutput
      /\ UNCHANGED <<in_queue, in_term, out_term, shutdown>>
  BY DEF Fetch
<1>2. /\ UNCHANGED <<remote_ip, counted, expired, done, read_done, handoff_pending>>
      /\ UNCHANGED <<client, accepting, connections, lpc, todo, pollset>>
      /\ UNCHANGED <<fault, wpc>>
  BY <1>1 DEF connVars, nonOutput, listenerVars, acceptVars, tableVars, workerVars, histVars
<1>3. /\ c \in Conns /\ Holds("out_queue", c)
      /\ \A p \in Places : p # "out_queue" => ~Holds(p, c)
  BY HeadUsable, HolderAlone, <1>1, DistinctPlaces
<1>4. /\ \A x \in Conns : Holds("out_queue", x)' <=> x # c /\ Holds("out_queue", x)
      /\ \A i, j \in DOMAIN out_queue' : out_queue'[i] = out_queue'[j] => i = j
  BY HeadTaken, <1>1, Zenon
<1> HIDE DEF c
<1>5. \A p \in Places, x \in Conns : Holds(p, x)' <=> IF x = c THEN p = "output" ELSE Holds(p, x)
  <2>1. \A p \in Listeners \cup Workers \cup {"in_queue"}, x \in Conns : Holds(p, x)' <=> Holds(p, x)
    BY <1>1, <1>2, Frame
  <2>2. \A x \in Conns : Holds("output", x)' <=> Holds("output", x) \/ x = c
    BY <1>1, AtOutput
  <2> QED
    BY <1>3, <1>4, <2>1, <2>2, DistinctPlaces DEF Places
<1>6. OneHolder' /\ LiveIffHeld'
  BY OutputFacts, <1>2, <1>3, <1>5, HolderMoved, DistinctPlaces
<1>7. HeldOnce'
  BY OutputFacts, <1>1, <1>2, <1>4 DEF HeldOnce
<1>8. Running' /\ OpenWhileLive' /\ ListenersInStep'
  BY <1>1, <1>2, RunningKept, OpenKept, InStepKept DEF Own
<1>9. OutputInStep'
  BY <1>1 DEF OutputInStep
<1>10. CompleteDownstream'
  BY <1>2, <1>5, DistinctPlaces DEF Own, CompleteDownstream
<1> QED
  BY <1>6, <1>7, <1>8, <1>9, <1>10 DEF Own, NeverShared

LEMMA FetchOverflowOwn ==
    ASSUME Typed, Own, FetchOverflow
    PROVE  Own'
<1> DEFINE c == Head(out_queue)
<1>1. /\ out_queue # <<>> /\ out_queue' = Tail(out_queue) /\ CloseAndDestroy(c)
      /\ opc' = "top" /\ UNCHANGED nonOutput /\ UNCHANGED <<in_term, out_term, shutdown>>
      /\ UNCHANGED <<in_queue, oconnections>>
  BY DEF FetchOverflow, otableVars
<1>2. UNCHANGED <<client, accepting, connections>>
  BY <1>1 DEF nonOutput, listenerVars, acceptVars, tableVars, workerVars
<1>3. c \in Conns /\ Holds("out_queue", c)
  BY HeadUsable, <1>1
<1>4. /\ \A x \in Conns : Holds("out_queue", x)' <=> Holds("out_queue", x) /\ x # c
      /\ \A i, j \in DOMAIN out_queue' : out_queue'[i] = out_queue'[j] => i = j
  BY HeadTaken, <1>1
<1> HIDE DEF c
<1>5. \A p \in Places, x \in Conns : p # "out_queue" => (Holds(p, x)' <=> Holds(p, x))
  BY <1>1, <1>2, Frame, Zenon DEF Places
<1>6. HeldOnce'
  BY OutputFacts, <1>1, <1>2, <1>4 DEF HeldOnce
<1>7. OutputInStep'
  BY <1>1 DEF OutputInStep
<1> QED
  BY OutputReleases, <1>1, <1>3, <1>4, <1>5, <1>6, <1>7

LEMMA OutputOwn ==
    ASSUME Typed, Own, OutputNext
    PROVE  Own'
<1>1. ~FetchEOF /\ ~OutputFault
  <2>1. ~out_term
    BY Zenon DEF Own, Running
  <2>2. opc \in {"events", "sweep"} => \A c \in otodo : Usable(c)
    BY OutputFacts, TableUsable DEF OutputInStep
  <2> QED
    BY HeadUsable, <2>1, <2>2 DEF FetchEOF, OutputFault
<1>2. CASE OutputPoll
  BY <1>2, OutputQuiet DEF OutputPoll, OutputInStep, otableVars
<1>3. CASE OutputStartSweep
  BY <1>3, OutputQuiet DEF OutputStartSweep, OutputInStep, otableVars
<1>4. CASE \E c \in Conns : OutputKeep(c)
  BY OutputFacts, <1>4, OutputQuiet DEF OutputKeep, OutputVisit, OutputInStep, otableVars
<1>5. CASE OutputEndSweep
  BY <1>5, OutputQuiet DEF OutputEndSweep, OutputInStep
<1>6. CASE FetchNone
  BY <1>6, OutputQuiet DEF FetchNone, OutputInStep
<1> QED
  BY <1>1, <1>2, <1>3, <1>4, <1>5, <1>6, OutputEventOwn, OutputReapOwn, FetchOwn, FetchOverflowOwn
  DEF OutputNext

----------------------------------------------------------------------------
(* The theorems *)

LEMMA InitOwn == Init => Own
<1> SUFFICES ASSUME Init PROVE Own
  BY Zenon
<1>1. \A p \in Places, c \in Conns : ~Holds(p, c)
  BY ConstAssumption DEF Init, Holds
<1>2. \A c \in Conns : ~Live(c)
  BY DEF Init, Live
<1>3. NeverShared /\ LiveIffHeld /\ CompleteDownstream
  <2>1. HeldOnce
    BY DEF Init, HeldOnce
  <2> QED
    BY <1>1, <1>2, <2>1, DistinctPlaces, Zenon
    DEF NeverShared, OneHolder, LiveIffHeld, CompleteDownstream
<1>4. OpenWhileLive
  BY <1>2 DEF Init, OpenWhileLive
<1>5. Running
  BY Zenon DEF Init, Running
<1>6. ListenersInStep /\ OutputInStep
  BY DEF Init, ListenersInStep, ListenerInStep, OutputInStep
<1> QED
  BY <1>3, <1>4, <1>5, <1>6 DEF Own

\* A /shutdown cannot be taken back.
LEMMA DownForGood ==
    ASSUME going_down, [Next]_vars
    PROVE  going_down'
<1>1. ASSUME NEW l \in Listeners, ListenerNext(l) PROVE UNCHANGED going_down
  <2>1. UNCHANGED nonListener
    BY <1>1, Zenon
    DEF ListenerNext, PollExit, Poll, AcceptNothing, Accept, Reject, Admit, ClientEvent,
        StartSweep, HandOff, Park, Reap, Keep, HandOffEOF, EndSweep
  <2> QED
    BY <2>1, Zenon DEF nonListener, histVars
<1>2. ASSUME NEW w \in Workers, WorkerNext(w) PROVE UNCHANGED going_down \/ Dispatch(w)
  <2>1. UNCHANGED nonWorker \/ Fault \/ Dispatch(w)
    BY <1>2
    DEF WorkerNext, Pop, PopEOF, Drop, Respond, ShutdownRespond, ShutdownClose,
        ShutdownDestroy, TermOut, TermIn, SetShutdown, WorkerFault
  <2> QED
    BY <2>1, Zenon DEF nonWorker, histVars, Fault
<1>3. ASSUME OutputNext PROVE UNCHANGED going_down
  <2>1. UNCHANGED nonOutput \/ Fault
    BY <1>3
    DEF OutputNext, OutputPoll, OutputEvent, OutputStartSweep, OutputReap, OutputKeep,
        OutputEndSweep, FetchEOF, FetchNone, Fetch, FetchOverflow, OutputFault
  <2> QED
    BY <2>1, Zenon DEF nonOutput, histVars, Fault
<1>4. ASSUME NEW w \in Workers, Dispatch(w) PROVE going_down'
  BY <1>4, Zenon DEF Dispatch
<1>5. ASSUME Tick \/ UNCHANGED vars PROVE UNCHANGED going_down
  BY <1>5, Zenon DEF Tick, Expire, vars, nonListener, histVars
<1>6. UNCHANGED going_down \/ \E w \in Workers : Dispatch(w)
  BY <1>1, <1>2, <1>3, <1>5, Zenon DEF Next, Stopped
<1> QED
  BY <1>4, <1>6, Zenon

LEMMA TickOwn ==
    ASSUME Own, Tick
    PROVE  Own'
<1>1. PICK c \in Conns : Expire(c)
  BY DEF Tick
<1>2. /\ UNCHANGED <<remote_ip, connections, accepting, client, in_queue, out_queue, oconnections>>
      /\ UNCHANGED <<counted, done, read_done, handoff_pending>>
      /\ UNCHANGED <<lpc, todo, pollset>> /\ UNCHANGED <<in_term, out_term, shutdown, fault, wpc>>
      /\ UNCHANGED <<opc, otodo>> /\ Live(c) /\ expired' = expired \cup {c}
  BY <1>1
  DEF Expire, queueVars, listenerVars, acceptVars, tableVars, nonListener, workerVars,
      outputVars, otableVars, histVars
<1>3. NeverShared' /\ LiveIffHeld'
  BY <1>2, NothingMoved, Zenon DEF Own
<1>4. \A p \in Places, x \in Conns : Holds(p, x)' <=> Holds(p, x)
  BY <1>2 DEF Holds
<1>5. Running' /\ ListenersInStep' /\ CompleteDownstream'
  BY <1>2, <1>4, RunningKept, InStepKept, DownstreamKept, Zenon DEF Own
<1>6. OpenWhileLive'
  BY <1>2 DEF Own, OpenWhileLive, Live
<1>7. OutputInStep'
  BY <1>2 DEF Own, OutputInStep
<1> QED
  BY <1>3, <1>5, <1>6, <1>7 DEF Own

LEMMA StutterOwn ==
    ASSUME Own, UNCHANGED vars
    PROVE  Own'
<1>1. OutputInStep'
  BY DEF Own, OutputInStep, vars, nonListener, outputVars, otableVars
<1>2. /\ UNCHANGED connVars /\ UNCHANGED queueVars /\ UNCHANGED nonOutput
      /\ UNCHANGED otableVars
  BY DEF vars, nonListener, nonOutput, outputVars
<1> QED
  BY <1>1, <1>2, OutputQuiet

LEMMA NextOwn ==
    ASSUME Typed, going_down \/ Own, [Next]_vars
    PROVE  going_down' \/ Own'
<1>1. CASE going_down
  BY <1>1, DownForGood
<1>2. CASE ~going_down
  BY <1>2, ListenerOwn, WorkerOwn, OutputOwn, TickOwn, StutterOwn DEF Next, Stopped
<1> QED
  BY <1>1, <1>2

LEMMA Invariance == Spec => [](Typed /\ (going_down \/ Own))
<1>1. Typed /\ (going_down \/ Own) /\ [Next]_vars => (Typed /\ (going_down \/ Own))'
  BY NextTyped, NextOwn
<1> QED
  BY <1>1, InitTyped, InitOwn, PTL DEF Spec

\* The inductive invariant of SlayerHttpServer is an invariant: it holds of
\* slayer_server_run when the threads start, and every step of every thread
\* preserves it.
THEOREM OwnershipInvariant == Spec => []OwnershipInv
<1>1. Typed /\ (going_down \/ Own) => OwnershipInv
  BY DEF OwnershipInv
<1> QED
  BY <1>1, Invariance, PTL

\* Every connection has exactly one holder from accept to release, however the
\* listeners, the workers and the output thread interleave, until a /shutdown
\* is accepted: no sharing, no stale pointer, no leak.
THEOREM SingleOwnership == Spec => []SingleOwner
<1>1. OwnershipInv => SingleOwner
  BY DEF OwnershipInv, Own, SingleOwner
<1> QED
  BY <1>1, OwnershipInvariant, PTL

\* No thread uses a released connection unless a /shutdown was accepted.
THEOREM NoStaleUse == Spec => []NoFault
<1>1. OwnershipInv => NoFault
  BY Zenon DEF OwnershipInv, Own, NoFault, Running
<1> QED
  BY <1>1, OwnershipInvariant, PTL

\* A listener polls exactly its own connections that still have to be read
\* (apr_pollset_add and apr_pollset_remove in handle_incoming_connections).
THEOREM PollSetExact == Spec => []PollsOwnConnections
<1>1. OwnershipInv => PollsOwnConnections
  BY DEF OwnershipInv, Own, PollsOwnConnections, ListenersInStep, ListenerInStep
<1> QED
  BY <1>1, OwnershipInvariant, PTL

\* Workers and the output thread are given complete requests only.
THEOREM CompleteRequests == Spec => []OnlyCompleteRequests
<1>1. OwnershipInv => OnlyCompleteRequests
  BY DEF OwnershipInv, Own, OnlyCompleteRequests
<1> QED
  BY <1>1, OwnershipInvariant, PTL
============================================================================
