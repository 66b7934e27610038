------------------------ MODULE SlayerHolderProofs ------------------------
(***************************************************************************)
(* Lemmas about who holds a connection in SlayerHttpServer, for every      *)
(* value of its constants: how the conjuncts of Own fare in the few kinds  *)
(* of steps there are.                                                     *)
(***************************************************************************)
EXTENDS SlayerHttpServer, TLAPS

(***************************************************************************)
(* Every step leaves the holders as they are, or moves one connection: to  *)
(* its first holder, to another holder, or out. The lemmas below carry the *)
(* parts of Own over such a step; what remains for an action is to say     *)
(* which kind of step it is.                                               *)
(***************************************************************************)
LEMMA HoldersStay ==
    ASSUME OneHolder, LiveIffHeld, UNCHANGED remote_ip,
           \A p \in Places, c \in Conns : Holds(p, c)' <=> Holds(p, c)
    PROVE  OneHolder' /\ LiveIffHeld'
BY DEF OneHolder, LiveIffHeld, Live

LEMMA HolderGained ==
    ASSUME OneHolder, LiveIffHeld, NEW c0 \in Conns, ~Live(c0), NEW q \in Places,
           \A c \in Conns : Live(c)' <=> (Live(c) \/ c = c0),
           \A p \in Places, c \in Conns : Holds(p, c)' <=> (Holds(p, c) \/ (p = q /\ c = c0))
    PROVE  OneHolder' /\ LiveIffHeld'
BY DEF OneHolder, LiveIffHeld

LEMMA HolderLost ==
    ASSUME OneHolder, LiveIffHeld, NEW c0 \in Conns,
           \A c \in Conns : Live(c)' <=> (Live(c) /\ c # c0),
           \A p \in Places, c \in Conns : Holds(p, c)' <=> (Holds(p, c) /\ c # c0)
    PROVE  OneHolder' /\ LiveIffHeld'
BY DEF OneHolder, LiveIffHeld

LEMMA HolderMoved ==
    ASSUME OneHolder, LiveIffHeld, NEW c0 \in Conns, NEW q0 \in Places,
           Holds(q0, c0), NEW q \in Places, UNCHANGED remote_ip,
           \A p \in Places, c \in Conns :
               Holds(p, c)' <=> IF c = c0 THEN p = q ELSE Holds(p, c)
    PROVE  OneHolder' /\ LiveIffHeld'
BY DEF OneHolder, LiveIffHeld, Live

\* A queue without duplicates stays one when a new element is added or the
\* head is taken.
LEMMA AppendOnce ==
    ASSUME NEW S, NEW s \in Seq(S), NEW e \in S,
           \A i, j \in DOMAIN s : s[i] = s[j] => i = j,
           ~ \E i \in DOMAIN s : s[i] = e,
           NEW t, t = Append(s, e)
    PROVE  /\ \A i, j \in DOMAIN t : t[i] = t[j] => i = j
           /\ \A x : (\E i \in DOMAIN t : t[i] = x)
                      <=> (x = e \/ \E i \in DOMAIN s : s[i] = x)
<1>1. /\ DOMAIN s = 1 .. Len(s) /\ DOMAIN t = 1 .. (Len(s) + 1) /\ Len(s) \in Nat
      /\ \A i \in 1 .. Len(s) : t[i] = s[i]
      /\ t[Len(s) + 1] = e
  OBVIOUS
<1>2. \A i, j \in DOMAIN t : t[i] = t[j] => i = j
  BY <1>1
<1>3. \A x : (\E i \in DOMAIN t : t[i] = x) <=> (x = e \/ \E i \in DOMAIN s : s[i] = x)
  BY <1>1
<1> QED
  BY <1>2, <1>3

LEMMA TailOnce ==
    ASSUME NEW S, NEW s \in Seq(S), s # <<>>,
           \A i, j \in DOMAIN s : s[i] = s[j] => i = j
    PROVE  LET t == Tail(s)
           IN  /\ Head(s) \in S /\ \E i \in DOMAIN s : s[i] = Head(s)
               /\ \A i, j \in DOMAIN t : t[i] = t[j] => i = j
               /\ \A x : (\E i \in DOMAIN t : t[i] = x)
                          <=> (x # Head(s) /\ \E i \in DOMAIN s : s[i] = x)
<1> DEFINE t == Tail(s)
<1>1. /\ DOMAIN s = 1 .. Len(s) /\ DOMAIN t = 1 .. (Len(s) - 1) /\ Len(s) \in Nat \ {0}
      /\ \A i \in 1 .. (Len(s) - 1) : t[i] = s[i + 1]
      /\ s[1] = Head(s) /\ Head(s) \in S
  OBVIOUS
<1> HIDE DEF t
<1>2. \A i, j \in DOMAIN t : t[i] = t[j] => i = j
  <2> SUFFICES ASSUME NEW i \in DOMAIN t, NEW j \in DOMAIN t, t[i] = t[j] PROVE i = j
    OBVIOUS
  <2>1. i \in Int /\ j \in Int /\ i + 1 \in DOMAIN s /\ j + 1 \in DOMAIN s /\ s[i + 1] = s[j + 1]
    BY <1>1
  <2>2. i + 1 = j + 1
    BY <2>1
  <2> QED
    BY <2>1, <2>2
<1>3. \A x : (\E i \in DOMAIN t : t[i] = x) <=> (x # Head(s) /\ \E i \in DOMAIN s : s[i] = x)
  <2> TAKE x
  <2>1. ASSUME NEW i \in DOMAIN t, t[i] = x
        PROVE  x # Head(s) /\ \E j \in DOMAIN s : s[j] = x
    <3>1. i + 1 \in DOMAIN s /\ s[i + 1] = x /\ 1 \in DOMAIN s /\ i + 1 # 1
      BY <1>1, <2>1
    <3> QED
      BY <3>1, <1>1
  <2>2. ASSUME x # Head(s), NEW i \in DOMAIN s, s[i] = x
        PROVE  \E j \in DOMAIN t : t[j] = x
    <3>1. i - 1 \in DOMAIN t /\ t[i - 1] = x
      BY <1>1, <2>2
    <3> QED
      BY <3>1
  <2> QED
    BY <2>1, <2>2
<1>4. \E i \in DOMAIN s : s[i] = Head(s)
  BY <1>1
<1> QED
  BY <1>1, <1>2, <1>3, <1>4 DEF t

LEMMA NothingMoved ==
    ASSUME NeverShared, LiveIffHeld,
           UNCHANGED <<remote_ip, connections, accepting, client, in_queue,
                       out_queue, oconnections>>
    PROVE  NeverShared' /\ LiveIffHeld'
<1>1. \A p \in Places, c \in Conns : Holds(p, c)' <=> Holds(p, c)
  BY DEF Holds
<1>2. HeldOnce'
  BY DEF NeverShared, HeldOnce
<1> QED
  BY <1>1, <1>2, HoldersStay DEF NeverShared

\* No thread is a queue, and no listener is a worker.
LEMMA DistinctPlaces ==
    /\ \A l \in Listeners : /\ l \in Places /\ l \notin Workers
                            /\ l # "in_queue" /\ l # "out_queue" /\ l # "output"
    /\ \A w \in Workers : /\ w \in Places /\ w \notin Listeners
                          /\ w # "in_queue" /\ w # "out_queue" /\ w # "output"
    /\ "in_queue" \in Places /\ "out_queue" \in Places /\ "output" \in Places
BY ConstAssumption DEF Places

\* Holds, place by place, before and after a step.
LEMMA AtListener ==
    ASSUME NEW l \in Listeners, NEW c \in Conns
    PROVE  /\ Holds(l, c) <=> (c \in connections[l] \/ accepting[l] = c)
           /\ Holds(l, c)' <=> (c \in connections'[l] \/ accepting'[l] = c)
BY DistinctPlaces DEF Holds

LEMMA AtWorker ==
    ASSUME NEW w \in Workers, NEW c \in Conns
    PROVE  (Holds(w, c) <=> client[w] = c) /\ (Holds(w, c)' <=> client'[w] = c)
BY DistinctPlaces DEF Holds

LEMMA AtInQueue ==
    ASSUME NEW c \in Conns
    PROVE  /\ Holds("in_queue", c) <=> \E i \in DOMAIN in_queue : in_queue[i] = c
           /\ Holds("in_queue", c)' <=> \E i \in DOMAIN in_queue' : in_queue'[i] = c
BY DistinctPlaces DEF Holds

LEMMA AtOutQueue ==
    ASSUME NEW c \in Conns
    PROVE  /\ Holds("out_queue", c) <=> \E i \in DOMAIN out_queue : out_queue[i] = c
           /\ Holds("out_queue", c)' <=> \E i \in DOMAIN out_queue' : out_queue'[i] = c
BY DistinctPlaces DEF Holds

LEMMA AtOutput ==
    ASSUME NEW c \in Conns
    PROVE  (Holds("output", c) <=> c \in oconnections) /\ (Holds("output", c)' <=> c \in oconnections')
BY DistinctPlaces DEF Holds

\* A place whose variables do not change holds what it held.
LEMMA Frame ==
    /\ UNCHANGED <<connections, accepting>> =>
          \A l \in Listeners, c \in Conns : Holds(l, c)' <=> Holds(l, c)
    /\ UNCHANGED client => \A w \in Workers, c \in Conns : Holds(w, c)' <=> Holds(w, c)
    /\ UNCHANGED in_queue => \A c \in Conns : Holds("in_queue", c)' <=> Holds("in_queue", c)
    /\ UNCHANGED out_queue => \A c \in Conns : Holds("out_queue", c)' <=> Holds("out_queue", c)
    /\ UNCHANGED oconnections => \A c \in Conns : Holds("output", c)' <=> Holds("output", c)
<1>1. UNCHANGED <<connections, accepting>> =>
          \A l \in Listeners, c \in Conns : Holds(l, c)' <=> Holds(l, c)
  BY AtListener
<1>2. UNCHANGED client => \A w \in Workers, c \in Conns : Holds(w, c)' <=> Holds(w, c)
  BY AtWorker
<1>3. UNCHANGED in_queue => \A c \in Conns : Holds("in_queue", c)' <=> Holds("in_queue", c)
  BY AtInQueue
<1>4. UNCHANGED out_queue => \A c \in Conns : Holds("out_queue", c)' <=> Holds("out_queue", c)
  BY AtOutQueue
<1>5. UNCHANGED oconnections => \A c \in Conns : Holds("output", c)' <=> Holds("output", c)
  BY AtOutput
<1> QED
  BY <1>1, <1>2, <1>3, <1>4, <1>5

\* What NeverShared says of a connection with a known holder.
LEMMA SoleHolder ==
    ASSUME NeverShared, NEW q \in Places, NEW c \in Conns, Holds(q, c)
    PROVE  /\ \A m \in Listeners : m # q => c \notin connections[m] /\ accepting[m] # c
           /\ \A w \in Workers : w # q => client[w] # c
           /\ q # "in_queue" => ~ \E i \in DOMAIN in_queue : in_queue[i] = c
           /\ q # "out_queue" => ~ \E i \in DOMAIN out_queue : out_queue[i] = c
           /\ q # "output" => c \notin oconnections
BY DEF NeverShared, OneHolder, Holds, Places

\* A connection held by a listener is held by nobody else.
LEMMA ListenerAlone ==
    ASSUME NeverShared, NEW l \in Listeners, NEW c \in Conns,
           c \in connections[l] \/ accepting[l] = c
    PROVE  /\ Holds(l, c) /\ l \in Places
           /\ \A m \in Listeners : m # l => c \notin connections[m] /\ accepting[m] # c
           /\ \A w \in Workers : client[w] # c
           /\ ~ \E i \in DOMAIN in_queue : in_queue[i] = c
           /\ ~ \E i \in DOMAIN out_queue : out_queue[i] = c
           /\ c \notin oconnections
<1>1. /\ l \in Places /\ l \notin Workers
      /\ l # "in_queue" /\ l # "out_queue" /\ l # "output"
  BY ConstAssumption DEF Places
<1>2. Holds(l, c)
  BY DEF Holds
<1> QED
  BY <1>1, <1>2, SoleHolder

\* A connection is closed and released by its holder.
LEMMA Released ==
    ASSUME Typed, Own, NEW c0 \in Conns, CloseAndDestroy(c0),
           \A p \in Places, c \in Conns : Holds(p, c)' <=> (Holds(p, c) /\ c # c0)
    PROVE  /\ OneHolder' /\ LiveIffHeld' /\ OpenWhileLive' /\ CompleteDownstream'
           /\ done' = done \ {c0} /\ read_done' = read_done \ {c0}
           /\ handoff_pending' = handoff_pending \ {c0}
<1>1. /\ counted' = counted \ {c0} /\ remote_ip' = [remote_ip EXCEPT ![c0] = NoIP]
      /\ done' = done \ {c0} /\ read_done' = read_done \ {c0} /\ expired' = expired \ {c0}
      /\ handoff_pending' = handoff_pending \ {c0}
  BY DEF CloseAndDestroy, Close, Destroy
<1>2. \A c \in Conns : Live(c)' <=> (Live(c) /\ c # c0)
  BY <1>1 DEF Live, Typed, TypeOK, ConnTypeOK
<1>3. OneHolder' /\ LiveIffHeld'
  BY <1>2, HolderLost DEF Own, NeverShared
<1>4. OpenWhileLive'
  <2>1. \A c \in counted \cup done \cup read_done \cup expired : c \in Conns
    BY DEF Typed, TypeOK, ConnTypeOK
  <2> QED
    BY <1>1, <1>2, <2>1 DEF Own, OpenWhileLive
<1>5. CompleteDownstream'
  BY <1>1, DistinctPlaces DEF Own, CompleteDownstream
<1> QED
  BY <1>1, <1>3, <1>4, <1>5

LEMMA RunningKept ==
    ASSUME Running, UNCHANGED <<in_term, out_term, shutdown, fault, wpc>>
    PROVE  Running'
BY Zenon DEF Running

LEMMA OpenKept ==
    ASSUME OpenWhileLive, UNCHANGED <<remote_ip, counted, expired, done, read_done>>
    PROVE  OpenWhileLive'
BY DEF OpenWhileLive, Live

LEMMA DownstreamKept ==
    ASSUME CompleteDownstream, UNCHANGED <<done, read_done>>,
           \A p \in Places, c \in Conns : Holds(p, c)' <=> Holds(p, c)
    PROVE  CompleteDownstream'
BY DistinctPlaces DEF CompleteDownstream

\* Nothing is moved, opened, closed or terminated.
LEMMA Quiet ==
    ASSUME Own,
           UNCHANGED <<remote_ip, counted, expired, done, read_done>>,
           UNCHANGED <<connections, accepting, client, in_queue, out_queue, oconnections>>,
           UNCHANGED <<in_term, out_term, shutdown, fault, wpc>>
    PROVE  Running' /\ OpenWhileLive' /\ CompleteDownstream' /\ NeverShared' /\ LiveIffHeld'
<1>1. \A p \in Places, c \in Conns : Holds(p, c)' <=> Holds(p, c)
  BY DEF Holds
<1>2. NeverShared' /\ LiveIffHeld'
  BY NothingMoved DEF Own
<1> QED
  BY <1>1, <1>2, RunningKept, OpenKept, DownstreamKept DEF Own

LEMMA InStepKept ==
    ASSUME ListenersInStep,
           UNCHANGED <<lpc, todo, connections, accepting, pollset, done, read_done, handoff_pending>>
    PROVE  ListenersInStep'
BY DEF ListenersInStep, ListenerInStep

\* The flags of every connection but c0 are as they were.
FlagsBut(c0) ==
    /\ \A x : x # c0 => /\ x \in done' <=> x \in done
                        /\ x \in read_done' <=> x \in read_done
                        /\ x \in handoff_pending' <=> x \in handoff_pending
    /\ c0 \in handoff_pending' => c0 \in read_done'

\* Listener m takes no step, and does not hold the connection that changes.
Idle(m) ==
    /\ lpc'[m] = lpc[m] /\ todo'[m] = todo[m] /\ accepting'[m] = accepting[m]
    /\ connections'[m] = connections[m] /\ pollset'[m] = pollset[m]

LEMMA IdleInStep ==
    ASSUME NEW m \in Listeners, ListenerInStep(m), Idle(m), NEW c0 \in Conns,
           FlagsBut(c0), c0 \notin connections[m], accepting[m] # c0
    PROVE  ListenerInStep(m)'
<1>1. /\ c0 \notin pollset[m] /\ c0 # Listen
      /\ lpc[m] \in {"events", "admit", "sweep"} => c0 \notin todo[m]
  BY ConstAssumption DEF ListenerInStep
<1>2. pollset'[m] = connections'[m] \ handoff_pending'
  BY DEF ListenerInStep, Idle, FlagsBut
<1> QED
  BY <1>1, <1>2 DEF ListenerInStep, Idle, FlagsBut

\* A step that does not touch flags.
LEMMA IdleInStepAlways ==
    ASSUME NEW m \in Listeners, ListenerInStep(m), Idle(m),
           UNCHANGED <<done, read_done, handoff_pending>>
    PROVE  ListenerInStep(m)'
BY DEF ListenerInStep, Idle

LEMMA HandoffRead ==
    ASSUME NEW c0, handoff_pending \subseteq read_done, FlagsBut(c0)
    PROVE  handoff_pending' \subseteq read_done'
BY DEF FlagsBut

\* A step of another thread on a connection that no listener holds.
LEMMA FlagsElsewhere ==
    ASSUME ListenersInStep, NEW c \in Conns, FlagsBut(c),
           \A m \in Listeners : c \notin connections[m] /\ accepting[m] # c,
           UNCHANGED <<lpc, todo, accepting, connections, pollset>>
    PROVE  ListenersInStep'
<1>1. \A m \in Listeners : Idle(m)
  BY DEF Idle
<1> QED
  BY <1>1, IdleInStep, HandoffRead DEF ListenersInStep

\* What the induction hypothesis says of a listener.
LEMMA ListenerFacts ==
    ASSUME Typed, Own, NEW l \in Listeners
    PROVE  /\ ListenerTypeOK /\ ListenerHand /\ ConnTypeOK /\ ListenerInStep(l)
           /\ NeverShared /\ OneHolder /\ HeldOnce /\ LiveIffHeld
BY DEF Typed, TypeOK, Own, ListenersInStep, NeverShared

LEMMA RestKept ==
    ASSUME Own, UNCHANGED nonListener, UNCHANGED <<in_term, out_term, shutdown>>
    PROVE  OutputInStep' /\ Running'
<1>1. Running'
  BY RunningKept DEF nonListener, workerVars, histVars, Own
<1>2. OutputInStep'
  BY DEF nonListener, outputVars, otableVars, Own, OutputInStep
<1> QED
  BY <1>1, <1>2

\* Listener l changes the flags of c, which no other listener holds.
LEMMA OneInStep ==
    ASSUME Own, NEW l \in Listeners, NEW c \in Conns, FlagsBut(c), ListenerInStep(l)',
           \A m \in Listeners : m # l => Idle(m) /\ c \notin connections[m] /\ accepting[m] # c
    PROVE  ListenersInStep'
<1>1. \A m \in Listeners : ListenerInStep(m)'
  BY IdleInStep DEF Own, ListenersInStep
<1> QED
  BY <1>1, HandoffRead DEF Own, ListenersInStep

----------------------------------------------------------------------------
(* Steps of a listener that leave every connection where it is *)

\* Listener l moves on without touching a connection.
LEMMA ListenerQuiet ==
    ASSUME Own, NEW l \in Listeners,
           UNCHANGED <<connVars, queueVars, acceptVars, tableVars, nonListener>>,
           \A m \in Listeners : m # l => lpc'[m] = lpc[m] /\ todo'[m] = todo[m],
           ListenerInStep(l)'
    PROVE  Own'
<1>1. Running' /\ OpenWhileLive' /\ CompleteDownstream' /\ NeverShared' /\ LiveIffHeld'
  BY Quiet
  DEF connVars, queueVars, acceptVars, tableVars, nonListener, workerVars, outputVars,
      otableVars, histVars
<1>2. \A m \in Listeners : m # l => Idle(m)
  BY DEF Idle, acceptVars, tableVars
<1>3. ListenersInStep'
  BY <1>2, IdleInStepAlways DEF Own, ListenersInStep, connVars
<1>4. OutputInStep'
  BY DEF Own, OutputInStep, nonListener, outputVars, otableVars
<1> QED
  BY <1>1, <1>3, <1>4 DEF Own

LEMMA PollOwn ==
    ASSUME Typed, Own, NEW l \in Listeners, Poll(l)
    PROVE  Own'
<1>1. /\ UNCHANGED <<connVars, queueVars, acceptVars, tableVars, nonListener>>
      /\ \A m \in Listeners : m # l => lpc'[m] = lpc[m] /\ todo'[m] = todo[m]
  BY ListenerFacts DEF Poll, ListenerTypeOK
<1>2. lpc[l] = "poll" /\ lpc'[l] = "events" /\ todo'[l] \subseteq pollset[l] \cup {Listen}
  BY ListenerFacts, Zenon DEF Poll, ListenerTypeOK
<1>3. ListenerInStep(l)'
  BY ListenerFacts, <1>1, <1>2, ConstAssumption DEF ListenerInStep, connVars, acceptVars, tableVars, ConnTypeOK
<1> QED
  BY ListenerQuiet, <1>1, <1>3

LEMMA AcceptNothingOwn ==
    ASSUME Typed, Own, NEW l \in Listeners, AcceptNothing(l)
    PROVE  Own'
<1>1. /\ UNCHANGED <<connVars, queueVars, acceptVars, tableVars, nonListener>>
      /\ \A m \in Listeners : m # l => lpc'[m] = lpc[m] /\ todo'[m] = todo[m]
  BY ListenerFacts DEF AcceptNothing, ListenerTypeOK
<1>2. lpc[l] = "events" /\ lpc'[l] = lpc[l] /\ todo'[l] = todo[l] \ {Listen}
  BY ListenerFacts DEF AcceptNothing, ListenerTypeOK
<1>3. ListenerInStep(l)'
  BY ListenerFacts, <1>1, <1>2 DEF ListenerInStep, connVars, acceptVars, tableVars
<1> QED
  BY ListenerQuiet, <1>1, <1>3

LEMMA StartSweepOwn ==
    ASSUME Typed, Own, NEW l \in Listeners, StartSweep(l)
    PROVE  Own'
<1>1. /\ UNCHANGED <<connVars, queueVars, acceptVars, tableVars, nonListener>>
      /\ \A m \in Listeners : m # l => lpc'[m] = lpc[m] /\ todo'[m] = todo[m]
  BY ListenerFacts DEF StartSweep, ListenerTypeOK
<1>2. lpc[l] = "events" /\ todo[l] = {} /\ lpc'[l] = "sweep" /\ todo'[l] = connections[l]
  BY ListenerFacts, Zenon DEF StartSweep, ListenerTypeOK
<1>3. ListenerInStep(l)'
  BY ListenerFacts, <1>1, <1>2 DEF ListenerInStep, connVars, acceptVars, tableVars
<1> QED
  BY ListenerQuiet, <1>1, <1>3

LEMMA EndSweepOwn ==
    ASSUME Typed, Own, NEW l \in Listeners, EndSweep(l)
    PROVE  Own'
<1>1. /\ UNCHANGED <<connVars, queueVars, acceptVars, tableVars, nonListener>>
      /\ \A m \in Listeners : m # l => lpc'[m] = lpc[m] /\ todo'[m] = todo[m]
  BY ListenerFacts DEF EndSweep, ListenerTypeOK
<1>2. lpc[l] = "sweep" /\ todo[l] = {} /\ lpc'[l] = "poll" /\ todo'[l] = todo[l]
  BY ListenerFacts, Zenon DEF EndSweep, ListenerTypeOK
<1>3. ListenerInStep(l)'
  BY ListenerFacts, <1>1, <1>2 DEF ListenerInStep, connVars, acceptVars, tableVars
<1> QED
  BY ListenerQuiet, <1>1, <1>3

LEMMA KeepOwn ==
    ASSUME Typed, Own, NEW l \in Listeners, \E c \in Conns : Keep(l, c)
    PROVE  Own'
<1>1. PICK c \in Conns : Keep(l, c)
  OBVIOUS
<1>2. /\ UNCHANGED <<connVars, queueVars, acceptVars, tableVars, nonListener>>
      /\ \A m \in Listeners : m # l => lpc'[m] = lpc[m] /\ todo'[m] = todo[m]
      /\ lpc[l] = "sweep" /\ lpc'[l] = lpc[l] /\ todo'[l] = todo[l] \ {c}
  BY ListenerFacts, <1>1 DEF Keep, Visit, ListenerTypeOK
<1>3. c \notin done /\ c \notin read_done
  BY <1>1, Zenon DEF Keep, Ready, Reapable
<1>4. ListenerInStep(l)'
  BY ListenerFacts, <1>2, <1>3 DEF ListenerInStep, connVars, acceptVars, tableVars
<1> QED
  BY ListenerQuiet, <1>2, <1>4
============================================================================
