----------------------- MODULE SlayerListenerProofs -----------------------
(***************************************************************************)
(* Steps of a listener of SlayerHttpServer that keep a connection with it, *)
(* or let it in, preserve Own.                                             *)
(***************************************************************************)
EXTENDS SlayerHolderProofs

LEMMA ClientEventOwn ==
    ASSUME Typed, Own, NEW l \in Listeners, ClientEvent(l)
    PROVE  Own'
<1>1. PICK c \in todo[l] \ {Listen} :
          /\ todo' = [todo EXCEPT ![l] = @ \ {c}]
          /\ \/ done' = done \cup {c} /\ UNCHANGED read_done
             \/ read_done' = read_done \cup {c} /\ UNCHANGED done
             \/ UNCHANGED <<done, read_done>>
  BY Zenon DEF ClientEvent
<1>2. /\ lpc[l] = "events" /\ UNCHANGED <<lpc, accepting, connections, pollset, handoff_pending>>
      /\ todo'[l] = todo[l] \ {c} /\ \A m \in Listeners : m # l => todo'[m] = todo[m]
  BY ListenerFacts, <1>1 DEF ClientEvent, ListenerTypeOK, acceptVars, tableVars
<1>3. /\ UNCHANGED <<remote_ip, counted, expired, client, in_queue, out_queue, oconnections>>
      /\ UNCHANGED nonListener /\ UNCHANGED <<in_term, out_term, shutdown>>
  BY DEF ClientEvent, queueVars, nonListener, workerVars, outputVars, otableVars
<1>4. c \in Conns /\ c \in connections[l] /\ c \in pollset[l] /\ c \notin done \cup read_done
  BY ListenerFacts, <1>1, <1>2, Zenon DEF ListenerInStep, ListenerTypeOK
<1>5. /\ accepting[l] # c /\ Holds(l, c) /\ l \in Places
      /\ \A m \in Listeners : m # l => c \notin connections[m] /\ accepting[m] # c
  BY ListenerFacts, <1>4, ListenerAlone DEF HeldOnce
<1>6. Live(c) /\ \A p \in Places : p # l => ~Holds(p, c)
  BY ListenerFacts, <1>4, <1>5 DEF OneHolder, LiveIffHeld
<1>7. NeverShared' /\ LiveIffHeld'
  BY ListenerFacts, <1>2, <1>3, NothingMoved
<1>8. OpenWhileLive'
  BY <1>1, <1>3, <1>6 DEF Own, OpenWhileLive, Live
<1>9. CompleteDownstream'
  <2>1. \A p \in Places, x \in Conns : Holds(p, x)' <=> Holds(p, x)
    BY <1>2, <1>3 DEF Holds
  <2> QED
    BY <1>1, <1>6, <2>1, DistinctPlaces DEF Own, CompleteDownstream
<1>10. FlagsBut(c)
  BY <1>1, <1>2, <1>4, Zenon DEF FlagsBut, Own, ListenersInStep
<1>11. ListenerInStep(l)'
  <2>1. /\ pollset'[l] = connections'[l] \ handoff_pending'
        /\ todo'[l] \ {Listen} \subseteq pollset'[l]
    BY ListenerFacts, <1>2, Zenon DEF ListenerInStep
  <2>2. /\ accepting'[l] \notin done' \cup read_done'
        /\ connections'[l] \cap done' \cap read_done' = {}
        /\ todo'[l] \cap (done' \cup read_done') = {}
    BY ListenerFacts, <1>1, <1>2, <1>4, <1>5 DEF ListenerInStep
  <2> QED
    BY <1>2, <2>1, <2>2, Zenon DEF ListenerInStep
<1>12. \A m \in Listeners : m # l => Idle(m)
  BY <1>2, Zenon DEF Idle
<1> QED
  BY RestKept, OneInStep, <1>3, <1>4, <1>5, <1>7, <1>8, <1>9, <1>10, <1>11, <1>12, Zenon DEF Own

LEMMA ParkOwn ==
    ASSUME Typed, Own, NEW l \in Listeners, \E c \in Conns : Park(l, c)
    PROVE  Own'
<1>1. PICK c \in Conns : Park(l, c)
  OBVIOUS
<1>2. /\ lpc[l] = "sweep" /\ c \in todo[l] /\ c \in read_done
      /\ UNCHANGED <<lpc, accepting, connections, done, read_done>>
      /\ handoff_pending' = handoff_pending \cup {c}
      /\ todo'[l] = todo[l] \ {c} /\ pollset'[l] = pollset[l] \ {c}
      /\ \A m \in Listeners : m # l => todo'[m] = todo[m] /\ pollset'[m] = pollset[m]
  BY ListenerFacts, <1>1 DEF Park, Visit, Ready, Unpoll, ListenerTypeOK, acceptVars
<1>3. /\ UNCHANGED <<remote_ip, counted, expired, client, in_queue, out_queue, oconnections>>
      /\ UNCHANGED nonListener /\ UNCHANGED <<in_term, out_term, shutdown, fault, wpc>>
  BY <1>1, Zenon DEF Park, queueVars, nonListener, workerVars, outputVars, otableVars, histVars
<1>4. c \in connections[l] /\ \A m \in Listeners : m # l => c \notin connections[m] /\ accepting[m] # c
  BY ListenerFacts, <1>2, ListenerAlone DEF ListenerInStep
<1>5. OpenWhileLive' /\ CompleteDownstream' /\ NeverShared' /\ LiveIffHeld'
  BY <1>2, <1>3, Quiet
<1>6. FlagsBut(c)
  BY <1>2, Zenon DEF FlagsBut
<1>7. ListenerInStep(l)'
  BY ListenerFacts, <1>2, <1>4, Zenon DEF ListenerInStep
<1>8. \A m \in Listeners : m # l => Idle(m)
  BY <1>2 DEF Idle
<1> QED
  BY RestKept, OneInStep, <1>3, <1>4, <1>5, <1>6, <1>7, <1>8 DEF Own

LEMMA AcceptOwn ==
    ASSUME Typed, Own, NEW l \in Listeners, Accept(l)
    PROVE  Own'
<1>1. PICK c \in Conns, ip \in IPs :
          /\ Free(c) /\ CountIncrement(c, ip)
          /\ accepting' = [accepting EXCEPT ![l] = c]
  BY Zenon DEF Accept
<1>2. /\ lpc[l] = "events" /\ lpc'[l] = "admit" /\ todo'[l] = todo[l] \ {Listen}
      /\ accepting'[l] = c /\ accepting[l] = NoConn
      /\ \A m \in Listeners : m # l => /\ accepting'[m] = accepting[m]
                                      /\ lpc'[m] = lpc[m] /\ todo'[m] = todo[m]
  BY ListenerFacts, <1>1 DEF Accept, ListenerTypeOK, ListenerHand
<1>3. /\ UNCHANGED <<expired, done, read_done, handoff_pending, connections, pollset>>
      /\ UNCHANGED <<client, in_queue, out_queue, oconnections>>
      /\ UNCHANGED nonListener /\ UNCHANGED <<in_term, out_term, shutdown>>
  BY Zenon DEF Accept, queueVars, tableVars, nonListener, workerVars, outputVars, otableVars
<1>4. c # NoConn /\ ~Live(c) /\ l \in Places /\ \A p \in Places : ~Holds(p, c)
  BY <1>1, ConstAssumption, DistinctPlaces DEF Free
<1>5. /\ counted' = counted \cup {c}
      /\ \A x \in Conns : Live(x)' <=> (Live(x) \/ x = c)
  BY ListenerFacts, <1>1, ConstAssumption DEF CountIncrement, Live, ConnTypeOK
<1>6. \A p \in Places, x \in Conns : Holds(p, x)' <=> (Holds(p, x) \/ (p = l /\ x = c))
  <2>1. \A m \in Listeners, x \in Conns : Holds(m, x)' <=> (Holds(m, x) \/ (m = l /\ x = c))
    BY <1>2, <1>3, AtListener, ConstAssumption
  <2>2. \A p \in Workers \cup {"in_queue", "out_queue", "output"}, x \in Conns : Holds(p, x)' <=> Holds(p, x)
    BY <1>3, Frame
  <2> QED
    BY <2>1, <2>2, DistinctPlaces, Zenon DEF Places
<1>7. OneHolder' /\ LiveIffHeld'
  BY ListenerFacts, <1>4, <1>5, <1>6, HolderGained
<1>8. HeldOnce'
  <2>1. c \notin connections[l]
    BY <1>4, AtListener
  <2> QED
    BY ListenerFacts, <1>2, <1>3, <2>1, Zenon DEF HeldOnce
<1>9. OpenWhileLive'
  <2>1. \A x \in counted \cup done \cup read_done \cup expired : x \in Conns
    BY ListenerFacts DEF ConnTypeOK
  <2> QED
    BY <1>3, <1>5, <2>1 DEF Own, OpenWhileLive
<1>10. CompleteDownstream'
  BY <1>3, <1>6, DistinctPlaces DEF Own, CompleteDownstream
<1>11. ListenersInStep'
  <2>1. c \notin done \cup read_done
    BY <1>4, Zenon DEF Own, OpenWhileLive
  <2>2. ListenerInStep(l)'
    BY ListenerFacts, <1>2, <1>3, <2>1, Zenon DEF ListenerInStep
  <2>3. \A m \in Listeners : m # l => Idle(m)
    BY <1>2, <1>3, Zenon DEF Idle
  <2> QED
    BY <1>3, <2>2, <2>3, IdleInStepAlways DEF Own, ListenersInStep
<1> QED
  BY RestKept, <1>3, <1>7, <1>8, <1>9, <1>10, <1>11 DEF Own, NeverShared

LEMMA RejectOwn ==
    ASSUME Typed, Own, NEW l \in Listeners, Reject(l)
    PROVE  Own'
<1> DEFINE c == accepting[l]
<1>1. /\ lpc[l] = "admit" /\ c \in Conns /\ c \notin connections[l] /\ CloseAndDestroy(c)
  BY ListenerFacts DEF Reject, ListenerTypeOK, ListenerHand, HeldOnce
<1>2. /\ lpc'[l] = "events" /\ accepting'[l] = NoConn
      /\ UNCHANGED <<todo, connections, pollset, client, in_queue, out_queue, oconnections>>
      /\ \A m \in Listeners : m # l => accepting'[m] = accepting[m] /\ lpc'[m] = lpc[m]
  BY ListenerFacts
  DEF Reject, ListenerTypeOK, tableVars, queueVars, nonListener, workerVars, outputVars, otableVars
<1>3. UNCHANGED nonListener /\ UNCHANGED <<in_term, out_term, shutdown>>
  BY Zenon DEF Reject, queueVars
<1> HIDE DEF c
<1>4. /\ l \in Places /\ Holds(l, c)
      /\ \A m \in Listeners : m # l => c \notin connections[m] /\ accepting[m] # c
  BY ListenerFacts, <1>1, ListenerAlone DEF c
<1>5. \A p \in Places, x \in Conns : Holds(p, x)' <=> (Holds(p, x) /\ x # c)
  <2>1. \A m \in Listeners, x \in Conns : Holds(m, x)' <=> Holds(m, x) /\ x # c
    BY <1>1, <1>2, <1>4, AtListener, ConstAssumption DEF c
  <2>2. \A p \in Workers \cup {"in_queue", "out_queue", "output"}, x \in Conns : Holds(p, x)' <=> Holds(p, x)
    BY <1>2, Frame, Zenon
  <2>3. \A p \in Places : p # l => ~Holds(p, c)
    BY ListenerFacts, <1>1, <1>4, Zenon DEF OneHolder
  <2> QED
    BY <2>1, <2>2, <2>3, DistinctPlaces DEF Places
<1>6. /\ OneHolder' /\ LiveIffHeld' /\ OpenWhileLive' /\ CompleteDownstream'
      /\ done' = done \ {c} /\ read_done' = read_done \ {c} /\ handoff_pending' = handoff_pending \ {c}
  BY <1>1, <1>5, Released, Zenon
<1>7. HeldOnce'
  BY ListenerFacts, <1>2, ConstAssumption DEF HeldOnce, ListenerTypeOK
<1>8. FlagsBut(c)
  BY <1>6, Zenon DEF FlagsBut
<1>9. ListenerInStep(l)'
  <2>1. NoConn \notin done' \cup read_done'
    BY ListenerFacts, <1>6, ConstAssumption, Zenon DEF ConnTypeOK
  <2>2. c \notin pollset[l] /\ c \notin connections[l]
    BY ListenerFacts, <1>1, Zenon DEF ListenerInStep
  <2> QED
    BY ListenerFacts, <1>1, <1>2, <1>6, <2>1, <2>2 DEF ListenerInStep
<1>10. \A m \in Listeners : m # l => Idle(m)
  BY <1>2 DEF Idle
<1> QED
  BY RestKept, OneInStep, <1>1, <1>3, <1>4, <1>6, <1>7, <1>8, <1>9, <1>10 DEF Own, NeverShared

LEMMA AdmitOwn ==
    ASSUME Typed, Own, NEW l \in Listeners, Admit(l)
    PROVE  Own'
<1> DEFINE c == accepting[l]
<1>1. /\ lpc[l] = "admit" /\ c \in Conns /\ c \notin connections[l]
      /\ c \notin done \cup read_done \cup handoff_pending
  BY ListenerFacts DEF Admit, ListenerTypeOK, ListenerHand, HeldOnce, ListenerInStep, Own, ListenersInStep
<1>2. /\ lpc'[l] = "events" /\ accepting'[l] = NoConn /\ todo' = todo
      /\ connections'[l] = connections[l] \cup {c} /\ pollset'[l] = pollset[l] \cup {c}
      /\ \A m \in Listeners : m # l => /\ accepting'[m] = accepting[m] /\ lpc'[m] = lpc[m]
                                      /\ connections'[m] = connections[m] /\ pollset'[m] = pollset[m]
  BY ListenerFacts, Zenon DEF Admit, ListenerTypeOK
<1>3. /\ UNCHANGED <<remote_ip, counted, expired, done, read_done, handoff_pending>>
      /\ UNCHANGED <<client, in_queue, out_queue, oconnections>>
      /\ UNCHANGED nonListener /\ UNCHANGED <<in_term, out_term, shutdown>>
  BY DEF Admit, connVars, queueVars, nonListener, workerVars, outputVars, otableVars
<1> HIDE DEF c
<1>4. \A p \in Places, x \in Conns : Holds(p, x)' <=> Holds(p, x)
  <2>1. \A m \in Listeners, x \in Conns : Holds(m, x)' <=> Holds(m, x)
    BY <1>1, <1>2, AtListener, ConstAssumption DEF c
  <2>2. \A p \in Workers \cup {"in_queue", "out_queue", "output"}, x \in Conns : Holds(p, x)' <=> Holds(p, x)
    BY <1>3, Frame
  <2> QED
    BY <2>1, <2>2, Zenon DEF Places
<1>5. OneHolder' /\ LiveIffHeld'
  BY ListenerFacts, <1>3, <1>4, HoldersStay, Zenon
<1>6. HeldOnce'
  BY ListenerFacts, <1>1, <1>2, <1>3, ConstAssumption DEF HeldOnce, ListenerTypeOK
<1>7. OpenWhileLive' /\ CompleteDownstream'
  BY <1>3, <1>4, OpenKept, DownstreamKept, Zenon DEF Own
<1>8. ListenersInStep'
  <2>1. NoConn \notin done \cup read_done
    BY ListenerFacts, ConstAssumption, Zenon DEF ConnTypeOK
  <2>2. ListenerInStep(l)'
    <3>1. /\ pollset'[l] = connections'[l] \ handoff_pending'
          /\ todo'[l] \ {Listen} \subseteq pollset'[l]
      BY ListenerFacts, <1>1, <1>2, <1>3 DEF ListenerInStep
    <3>2. /\ accepting'[l] \notin done' \cup read_done'
          /\ connections'[l] \cap done' \cap read_done' = {}
          /\ todo'[l] \cap (done' \cup read_done') = {}
      BY ListenerFacts, <1>1, <1>2, <1>3, <2>1 DEF ListenerInStep
    <3> QED
      BY <1>2, <3>1, <3>2 DEF ListenerInStep
  <2>3. \A m \in Listeners : m # l => Idle(m)
    BY <1>2 DEF Idle
  <2> QED
    BY <1>3, <2>2, <2>3, IdleInStepAlways DEF Own, ListenersInStep
<1> QED
  BY RestKept, <1>3, <1>5, <1>6, <1>7, <1>8, Zenon DEF Own, NeverShared
============================================================================
