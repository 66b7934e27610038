------------------------ MODULE SlayerHandoffProofs ------------------------
(***************************************************************************)
(* The handoffs of SlayerHttpServer preserve Own: from a listener to the   *)
(* workers, or out of the listener's table, and from there through a       *)
(* worker to the output thread.                                            *)
(***************************************************************************)
EXTENDS SlayerHolderProofs

LEMMA HandOffOwn ==
    ASSUME Typed, Own, NEW l \in Listeners, \E c \in Conns : HandOff(l, c)
    PROVE  Own'
<1>1. PICK c \in Conns : HandOff(l, c)
  OBVIOUS
<1>2. /\ lpc[l] = "sweep" /\ c \in todo[l] /\ c \in read_done
      /\ UNCHANGED <<lpc, accepting, done, read_done, remote_ip, counted, expired>>
      /\ handoff_pending' = handoff_pending \cup {c}
      /\ todo'[l] = todo[l] \ {c} /\ pollset'[l] = pollset[l] \ {c}
      /\ connections'[l] = connections[l] \ {c}
      /\ \A m \in Listeners : m # l => /\ todo'[m] = todo[m] /\ pollset'[m] = pollset[m]
                                      /\ connections'[m] = connections[m]
  BY ListenerFacts, <1>1 DEF HandOff, Visit, Ready, Unpoll, ClearSlot, ListenerTypeOK, acceptVars
<1>3. /\ in_queue' = Append(in_queue, c) /\ UNCHANGED <<client, out_queue, oconnections>>
      /\ UNCHANGED nonListener /\ UNCHANGED <<in_term, out_term, shutdown>>
  BY <1>1, Zenon DEF HandOff, nonListener, workerVars, outputVars, otableVars
<1>4. c \in connections[l] /\ c \notin done /\ accepting[l] # c
  BY ListenerFacts, <1>2 DEF ListenerInStep, HeldOnce
<1>5. /\ Holds(l, c) /\ l \in Places
      /\ \A m \in Listeners : m # l => c \notin connections[m] /\ accepting[m] # c
      /\ ~ \E i \in DOMAIN in_queue : in_queue[i] = c
  BY ListenerFacts, <1>4, ListenerAlone
<1>6. /\ \A i, j \in DOMAIN in_queue' : in_queue'[i] = in_queue'[j] => i = j
      /\ \A x : (\E i \in DOMAIN in_queue' : in_queue'[i] = x)
                    <=> (x = c \/ \E i \in DOMAIN in_queue : in_queue[i] = x)
  <2>1. /\ in_queue \in Seq(Conns)
        /\ \A i, j \in DOMAIN in_queue : in_queue[i] = in_queue[j] => i = j
    BY ListenerFacts DEF Typed, TypeOK, QueueTypeOK, HeldOnce
  <2> QED
    BY <1>3, <1>5, <2>1, AppendOnce
<1>7. \A p \in Places, x \in Conns :
          Holds(p, x)' <=> IF x = c THEN p = "in_queue" ELSE Holds(p, x)
  <2>1. \A m \in Listeners, x \in Conns : Holds(m, x)' <=> x # c /\ Holds(m, x)
    BY <1>2, <1>4, <1>5, AtListener
  <2>2. \A x \in Conns : Holds("in_queue", x)' <=> x = c \/ Holds("in_queue", x)
    BY <1>6, AtInQueue
  <2>3. \A p \in Workers \cup {"out_queue", "output"}, x \in Conns : Holds(p, x)' <=> Holds(p, x)
    BY <1>3, Frame
  <2>4. \A p \in Places : p # l => ~Holds(p, c)
    BY ListenerFacts, <1>5, Zenon DEF OneHolder
  <2> QED
    BY <2>1, <2>2, <2>3, <2>4, DistinctPlaces DEF Places
<1>8. OneHolder' /\ LiveIffHeld'
  BY ListenerFacts, <1>2, <1>5, <1>7, HolderMoved, DistinctPlaces
<1>9. HeldOnce'
  BY ListenerFacts, <1>2, <1>3, <1>6, Zenon DEF HeldOnce
<1>10. OpenWhileLive'
  BY <1>2, OpenKept DEF Own
<1>11. CompleteDownstream'
  BY <1>2, <1>4, <1>7, DistinctPlaces, Zenon DEF Own, CompleteDownstream
<1>12. FlagsBut(c)
  BY <1>2, Zenon DEF FlagsBut
<1>13. ListenerInStep(l)'
  BY ListenerFacts, <1>2, <1>4, Zenon DEF ListenerInStep
<1>14. \A m \in Listeners : m # l => Idle(m)
  BY <1>2, Zenon DEF Idle
<1> QED
  BY RestKept, OneInStep, <1>3, <1>5, <1>8, <1>9, <1>10, <1>11, <1>12, <1>13, <1>14 DEF Own, NeverShared

LEMMA ReapOwn ==
    ASSUME Typed, Own, NEW l \in Listeners, \E c \in Conns : Reap(l, c)
    PROVE  Own'
<1>1. PICK c \in Conns : Reap(l, c)
  OBVIOUS
<1>2. /\ lpc[l] = "sweep" /\ c \in todo[l] /\ UNCHANGED <<lpc, accepting>>
      /\ todo'[l] = todo[l] \ {c} /\ pollset'[l] = pollset[l] \ {c}
      /\ connections'[l] = connections[l] \ {c}
      /\ \A m \in Listeners : m # l => /\ todo'[m] = todo[m] /\ pollset'[m] = pollset[m]
                                      /\ connections'[m] = connections[m]
  BY ListenerFacts, <1>1 DEF Reap, Visit, Unpoll, ClearSlot, ListenerTypeOK, acceptVars
<1>3. /\ CloseAndDestroy(c) /\ UNCHANGED <<client, in_queue, out_queue, oconnections>>
      /\ UNCHANGED nonListener /\ UNCHANGED <<in_term, out_term, shutdown>>
  BY <1>1 DEF Reap, queueVars, nonListener, workerVars, outputVars, otableVars
<1>4. c \in connections[l] /\ accepting[l] # c
  BY ListenerFacts, <1>2 DEF ListenerInStep, HeldOnce
<1>5. /\ Holds(l, c) /\ l \in Places
      /\ \A m \in Listeners : m # l => c \notin connections[m] /\ accepting[m] # c
  BY ListenerFacts, <1>4, ListenerAlone
<1>6. \A p \in Places, x \in Conns : Holds(p, x)' <=> (Holds(p, x) /\ x # c)
  <2>1. \A m \in Listeners, x \in Conns : Holds(m, x)' <=> Holds(m, x) /\ x # c
    BY <1>2, <1>4, <1>5, AtListener
  <2>2. \A p \in Workers \cup {"in_queue", "out_queue", "output"}, x \in Conns : Holds(p, x)' <=> Holds(p, x)
    BY <1>3, Frame
  <2>3. \A p \in Places : p # l => ~Holds(p, c)
    BY ListenerFacts, <1>5 DEF OneHolder
  <2> QED
    BY <2>1, <2>2, <2>3, DistinctPlaces, Zenon DEF Places
<1>7. /\ OneHolder' /\ LiveIffHeld' /\ OpenWhileLive' /\ CompleteDownstream'
      /\ done' = done \ {c} /\ read_done' = read_done \ {c} /\ handoff_pending' = handoff_pending \ {c}
  BY <1>3, <1>6, Released
<1>8. HeldOnce'
  BY ListenerFacts, <1>2, <1>3 DEF HeldOnce
<1>9. FlagsBut(c)
  BY <1>7, Zenon DEF FlagsBut
<1>10. ListenerInStep(l)'
  BY ListenerFacts, <1>2, <1>4, <1>7 DEF ListenerInStep
<1>11. \A m \in Listeners : m # l => Idle(m)
  BY <1>2 DEF Idle
<1> QED
  BY RestKept, OneInStep, <1>3, <1>5, <1>7, <1>8, <1>9, <1>10, <1>11 DEF Own, NeverShared

\* A step that changes neither flags nor what the listeners and the output
\* thread work through.
LEMMA OthersKept ==
    ASSUME Own, UNCHANGED connVars, UNCHANGED nonWorker
    PROVE  OpenWhileLive' /\ ListenersInStep' /\ OutputInStep'
<1>1. OpenWhileLive'
  BY OpenKept DEF Own, connVars
<1>2. ListenersInStep'
  BY InStepKept DEF Own, connVars, nonWorker, listenerVars, acceptVars, tableVars
<1>3. OutputInStep'
  BY DEF Own, OutputInStep, nonWorker, outputVars, otableVars
<1> QED
  BY <1>1, <1>2, <1>3

----------------------------------------------------------------------------
(* A worker *)

\* What the induction hypothesis says of a worker.
LEMMA WorkerFacts ==
    ASSUME Typed, Own
    PROVE  /\ WorkerTypeOK /\ WorkerHand
           /\ NeverShared /\ OneHolder /\ HeldOnce /\ LiveIffHeld
           /\ in_queue \in Seq(Conns) /\ out_queue \in Seq(Conns)
BY DEF Typed, TypeOK, QueueTypeOK, Own, NeverShared

\* A worker moves on between the steps it takes before a /shutdown.
LEMMA WorkerRunning ==
    ASSUME Own, NEW w \in Workers, UNCHANGED <<in_term, out_term, shutdown, fault>>,
           \A v \in Workers : v # w => wpc'[v] = wpc[v],
           wpc'[w] \in {"pop", "dispatch", "respond"}
    PROVE  Running'
<1>1. \A v \in Workers : wpc'[v] \in {"pop", "dispatch", "respond"}
  BY DEF Own, Running
<1> QED
  BY <1>1, Zenon DEF Own, Running

LEMMA PopOwn ==
    ASSUME Typed, Own, NEW w \in Workers, Pop(w)
    PROVE  Own'
<1> DEFINE c == Head(in_queue)
<1>1. /\ in_queue # <<>> /\ in_queue' = Tail(in_queue) /\ client[w] = NoConn
      /\ client'[w] = c /\ wpc'[w] = "dispatch"
      /\ \A v \in Workers : v # w => client'[v] = client[v] /\ wpc'[v] = wpc[v]
  BY WorkerFacts, Zenon DEF Pop, WorkerTypeOK, WorkerHand
<1>2. /\ UNCHANGED <<remote_ip, out_queue, connections, accepting, oconnections>>
      /\ UNCHANGED <<in_term, out_term, shutdown, fault>>
      /\ UNCHANGED <<done, read_done>> /\ UNCHANGED connVars /\ UNCHANGED nonWorker
  BY
  DEF Pop, connVars, nonWorker, listenerVars, acceptVars, tableVars, outputVars,
      otableVars, histVars
<1>3. /\ c \in Conns /\ \E i \in DOMAIN in_queue : in_queue[i] = c
      /\ \A i, j \in DOMAIN in_queue' : in_queue'[i] = in_queue'[j] => i = j
      /\ \A x : (\E i \in DOMAIN in_queue' : in_queue'[i] = x)
                    <=> (x # c /\ \E i \in DOMAIN in_queue : in_queue[i] = x)
  <2> DEFINE t == Tail(in_queue)
  <2>1. /\ in_queue \in Seq(Conns) /\ in_queue # <<>> /\ in_queue' = t
        /\ \A i, j \in DOMAIN in_queue : in_queue[i] = in_queue[j] => i = j
    BY WorkerFacts, <1>1 DEF HeldOnce
  <2>2. /\ c \in Conns /\ \E i \in DOMAIN in_queue : in_queue[i] = c
        /\ \A i, j \in DOMAIN t : t[i] = t[j] => i = j
        /\ \A x : (\E i \in DOMAIN t : t[i] = x)
                      <=> (x # c /\ \E i \in DOMAIN in_queue : in_queue[i] = x)
    BY <2>1, TailOnce
  <2> HIDE DEF t, c
  <2> QED
    BY <2>1, <2>2
<1> HIDE DEF c
<1>4. /\ Holds("in_queue", c) /\ w \in Places
      /\ \A p \in Places : p # "in_queue" => ~Holds(p, c)
  <2>1. Holds("in_queue", c)
    BY <1>3, AtInQueue
  <2> QED
    BY WorkerFacts, <1>3, <2>1, DistinctPlaces DEF OneHolder
<1>5. \A p \in Places, x \in Conns : Holds(p, x)' <=> IF x = c THEN p = w ELSE Holds(p, x)
  <2>1. \A v \in Workers, x \in Conns : Holds(v, x)' <=> (v = w /\ x = c) \/ Holds(v, x)
    BY <1>1, <1>3, AtWorker, ConstAssumption
  <2>2. \A x \in Conns : Holds("in_queue", x)' <=> x # c /\ Holds("in_queue", x)
    BY <1>3, AtInQueue
  <2>3. \A p \in Listeners \cup {"out_queue", "output"}, x \in Conns : Holds(p, x)' <=> Holds(p, x)
    BY <1>2, Frame, Zenon
  <2> QED
    BY <1>4, <2>1, <2>2, <2>3, DistinctPlaces DEF Places
<1>6. OneHolder' /\ LiveIffHeld'
  BY WorkerFacts, <1>2, <1>3, <1>4, <1>5, HolderMoved, DistinctPlaces
<1>7. HeldOnce'
  BY WorkerFacts, <1>2, <1>3 DEF HeldOnce
<1>8. CompleteDownstream'
  BY <1>2, <1>4, <1>5, DistinctPlaces DEF Own, CompleteDownstream
<1> QED
  BY WorkerRunning, <1>1, <1>2, <1>6, <1>7, <1>8, OthersKept DEF Own, NeverShared

LEMMA DispatchOwn ==
    ASSUME Typed, Own, NEW w \in Workers, Dispatch(w), ~going_down'
    PROVE  Own'
<1>1. /\ wpc'[w] = "respond" /\ \A v \in Workers : v # w => wpc'[v] = wpc[v]
  <2>1. ~(Route(request[w]) = "shutdown")
    BY Zenon DEF Dispatch
  <2>2. Route(request[w]) = "respond"
    BY <2>1 DEF Dispatch, Route
  <2> QED
    BY WorkerFacts, <2>2 DEF Dispatch, WorkerTypeOK
<1>2. /\ UNCHANGED <<remote_ip, connections, accepting, client, in_queue, out_queue, oconnections>>
      /\ UNCHANGED <<in_term, out_term, shutdown, fault>> /\ UNCHANGED <<done, read_done>>
      /\ UNCHANGED <<connVars, listenerVars, outputVars>>
  BY
  DEF Dispatch, connVars, queueVars, listenerVars, acceptVars, tableVars, outputVars, otableVars
<1>3. NeverShared' /\ LiveIffHeld'
  BY WorkerFacts, <1>2, NothingMoved
<1>4. CompleteDownstream'
  <2>1. \A p \in Places, c \in Conns : Holds(p, c)' <=> Holds(p, c)
    BY <1>2 DEF Holds
  <2> QED
    BY <1>2, <2>1, DownstreamKept, Zenon DEF Own
<1>5. OpenWhileLive'
  BY <1>2, OpenKept DEF Own, connVars
<1>6. ListenersInStep'
  BY <1>2, InStepKept DEF Own, connVars, listenerVars, acceptVars, tableVars
<1>7. OutputInStep'
  BY <1>2, Zenon DEF Own, OutputInStep, outputVars, otableVars
<1> QED
  BY WorkerRunning, <1>1, <1>2, <1>3, <1>4, <1>5, <1>6, <1>7 DEF Own

LEMMA DropOwn ==
    ASSUME Typed, Own, NEW w \in Workers, Drop(w)
    PROVE  Own'
<1> DEFINE c == client[w]
<1>1. /\ c \in Conns /\ CloseAndDestroy(c) /\ client'[w] = NoConn /\ wpc'[w] = "pop"
      /\ \A v \in Workers : v # w => client'[v] = client[v] /\ wpc'[v] = wpc[v]
  BY WorkerFacts DEF Drop, WorkerTypeOK, WorkerHand
<1>2. /\ UNCHANGED <<in_queue, out_queue, oconnections>>
      /\ UNCHANGED <<lpc, todo, accepting, connections, pollset>>
      /\ UNCHANGED <<in_term, out_term, shutdown, fault>> /\ UNCHANGED <<opc, otodo>>
  BY Zenon
  DEF Drop, queueVars, nonWorker, listenerVars, acceptVars, tableVars, outputVars,
      otableVars, histVars
<1>3. Holds(w, c) /\ w \in Places
  BY <1>1, AtWorker, DistinctPlaces, Zenon
<1> HIDE DEF c
<1>4. /\ \A p \in Places : p # w => ~Holds(p, c)
      /\ \A m \in Listeners : c \notin connections[m] /\ accepting[m] # c
  <2>1. \A p \in Places : p # w => ~Holds(p, c)
    BY WorkerFacts, <1>1, <1>3, Zenon DEF OneHolder
  <2> QED
    BY <1>1, <2>1, AtListener, DistinctPlaces, Zenon
<1>5. \A p \in Places, x \in Conns : Holds(p, x)' <=> (Holds(p, x) /\ x # c)
  <2>1. \A v \in Workers, x \in Conns : Holds(v, x)' <=> Holds(v, x) /\ x # c
    <3>1. \A v \in Workers : v # w => ~Holds(v, c)
      BY <1>4, DistinctPlaces
    <3> QED
      BY <1>1, <3>1, AtWorker, ConstAssumption DEF c
  <2>2. \A p \in Listeners \cup {"in_queue", "out_queue", "output"}, x \in Conns :
            Holds(p, x)' <=> Holds(p, x)
    BY <1>2, Frame, Zenon
  <2> QED
    BY <1>4, <2>1, <2>2, DistinctPlaces DEF Places
<1>6. /\ OneHolder' /\ LiveIffHeld' /\ OpenWhileLive' /\ CompleteDownstream'
      /\ done' = done \ {c} /\ read_done' = read_done \ {c} /\ handoff_pending' = handoff_pending \ {c}
  BY <1>1, <1>5, Released, Zenon
<1>7. HeldOnce'
  BY WorkerFacts, <1>2, Zenon DEF HeldOnce
<1>8. ListenersInStep'
  <2>1. FlagsBut(c)
    BY <1>6 DEF FlagsBut
  <2> QED
    BY <1>1, <1>2, <1>4, <2>1, FlagsElsewhere DEF Own
<1>9. OutputInStep'
  BY <1>2 DEF Own, OutputInStep
<1> QED
  BY WorkerRunning, <1>1, <1>2, <1>6, <1>7, <1>8, <1>9, Zenon DEF Own, NeverShared

LEMMA RespondOwn ==
    ASSUME Typed, Own, NEW w \in Workers, Respond(w)
    PROVE  Own'
<1> DEFINE c == client[w]
<1>1. /\ c \in Conns /\ client'[w] = NoConn /\ wpc'[w] = "pop"
      /\ \A v \in Workers : v # w => client'[v] = client[v] /\ wpc'[v] = wpc[v]
  BY WorkerFacts DEF Respond, WorkerTypeOK, WorkerHand
<1>2. /\ UNCHANGED <<remote_ip, in_queue, connections, accepting, oconnections>>
      /\ UNCHANGED <<in_term, out_term, shutdown, fault>>
      /\ UNCHANGED <<done, read_done>> /\ UNCHANGED connVars /\ UNCHANGED nonWorker
  BY
  DEF Respond, connVars, nonWorker, listenerVars, acceptVars, tableVars, outputVars,
      otableVars, histVars
<1>3. out_queue' = Append(out_queue, c)
  BY Zenon DEF Respond, PushResponse, Own, Running
<1>4. Holds(w, c) /\ w \in Places
  BY <1>1, AtWorker, DistinctPlaces, Zenon
<1> HIDE DEF c
<1>5. \A p \in Places : p # w => ~Holds(p, c)
  BY WorkerFacts, <1>1, <1>4, Zenon DEF OneHolder
<1>6. /\ \A i, j \in DOMAIN out_queue' : out_queue'[i] = out_queue'[j] => i = j
      /\ \A x : (\E i \in DOMAIN out_queue' : out_queue'[i] = x)
                    <=> (x = c \/ \E i \in DOMAIN out_queue : out_queue[i] = x)
  <2>1. /\ out_queue \in Seq(Conns) /\ c \in Conns
        /\ \A i, j \in DOMAIN out_queue : out_queue[i] = out_queue[j] => i = j
    BY WorkerFacts, <1>1, Zenon DEF HeldOnce
  <2>2. ~ \E i \in DOMAIN out_queue : out_queue[i] = c
    BY <1>1, <1>5, AtOutQueue, DistinctPlaces, Zenon
  <2> QED
    BY <1>3, <2>1, <2>2, AppendOnce
<1>7. \A p \in Places, x \in Conns :
          Holds(p, x)' <=> IF x = c THEN p = "out_queue" ELSE Holds(p, x)
  <2>1. \A v \in Workers, x \in Conns : Holds(v, x)' <=> Holds(v, x) /\ x # c
    <3>1. \A v \in Workers : v # w => ~Holds(v, c)
      BY <1>5, DistinctPlaces
    <3> QED
      BY <1>1, <3>1, AtWorker, ConstAssumption DEF c
  <2>2. \A x \in Conns : Holds("out_queue", x)' <=> x = c \/ Holds("out_queue", x)
    BY <1>6, AtOutQueue
  <2>3. \A p \in Listeners \cup {"in_queue", "output"}, x \in Conns : Holds(p, x)' <=> Holds(p, x)
    BY <1>2, Frame, Zenon
  <2> QED
    BY <1>5, <2>1, <2>2, <2>3, DistinctPlaces DEF Places
<1>8. OneHolder' /\ LiveIffHeld'
  <2>1. /\ OneHolder /\ LiveIffHeld /\ UNCHANGED remote_ip
        /\ c \in Conns /\ "out_queue" \in Places
    BY WorkerFacts, <1>1, <1>2, DistinctPlaces, Zenon
  <2> QED
    BY <1>4, <1>7, <2>1, HolderMoved, Zenon
<1>9. HeldOnce'
  BY WorkerFacts, <1>2, <1>6 DEF HeldOnce
<1>10. CompleteDownstream'
  BY <1>1, <1>2, <1>4, <1>7, DistinctPlaces DEF Own, CompleteDownstream
<1> QED
  BY WorkerRunning, <1>1, <1>2, <1>8, <1>9, <1>10, OthersKept DEF Own, NeverShared

LEMMA WorkerOwn ==
    ASSUME Typed, Own, NEW w \in Workers, WorkerNext(w), ~going_down'
    PROVE  Own'
<1>1. ~in_term /\ wpc[w] \in {"pop", "dispatch", "respond"}
  BY Zenon DEF Own, Running
<1>2. /\ ~PopEOF(w) /\ ~ShutdownRespond(w) /\ ~ShutdownClose(w) /\ ~ShutdownDestroy(w)
      /\ ~TermOut(w) /\ ~TermIn(w) /\ ~SetShutdown(w) /\ ~WorkerFault(w)
  BY <1>1
  DEF PopEOF, ShutdownRespond, ShutdownClose, ShutdownDestroy, TermOut, TermIn,
      SetShutdown, WorkerFault
<1> QED
  BY <1>2, PopOwn, DispatchOwn, DropOwn, RespondOwn DEF WorkerNext
============================================================================
