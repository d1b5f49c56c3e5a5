---------------------------- MODULE RuntimeProofs -----------------------------
(****************************************************************************)
(* Proofs about the runtime, for any hosts, any bounds on attempts, mailbox *)
(* and channels, and any overflow policy: a tracked host always has its     *)
(* next attempt under way, a Disconnect halts the attempts, and the peers   *)
(* that the runtime and the protocol know are those with a session.         *)
(****************************************************************************)
EXTENDS Runtime, TLAPS, SequenceTheorems
------------------------------------------------------------------------------
(* Which steps touch which part of the state. *)

\* Which steps touch what the session handler keeps.
LEMMA LayerSteps ==
  ASSUME [Next]_vars
  PROVE  \/ \E h \in Host : \/ HandshakeEnds(h) \/ DialLost(h) \/ InboundArrives(h)
                            \/ InboundLost(h) \/ MessageArrives(h) \/ SendFails(h)
                            \/ ConnectServed(h) \/ DisconnectServed(h)
                            \/ CallbackConnects(h)
         \/ emitEvent \/ TakeMessage \/ dispatchSessionEvent
         \/ UNCHANGED layerVars
<1>1. ASSUME NEW h \in Host, calls(h) \/ SendServed(h) \/ TimerFires(h) \/ stillTracked(h)
      PROVE  UNCHANGED layerVars
  BY <1>1 DEF calls, Connect, connectWithRetry, disconnect, sendMessage, SendServed,
              TimerFires, stillTracked
<1>2. CASE returns \/ Deliver \/ fanoutSessionEvent \/ processMessage
  BY <1>2 DEF returns, CallAborted, LoopbackEnqueued, Deliver, fanoutSessionEvent,
              processMessage
<1>3. CASE Cancel \/ teardown \/ UNCHANGED vars
           \/ \E g \in {"handler", "pump", "dispatcher", "loop"} : Exits(g)
  BY <1>3 DEF Cancel, teardown, CancelLayers, retryTeardown, Stopped, Exits, vars
<1> QED
  BY <1>1, <1>2, <1>3 DEF Next, layer, served, retry, faults, sessionPump,
                          messageDispatcher

\* Which steps touch the schedules and their timers.
LEMMA RetrySteps ==
  ASSUME [Next]_vars
  PROVE  \/ \E h \in Host : \/ connectWithRetry(h) \/ disconnect(h)
                            \/ TimerFires(h) \/ stillTracked(h) \/ CallbackConnects(h)
         \/ dispatchSessionEvent \/ retryTeardown
         \/ UNCHANGED retryVars
<1>1. ASSUME NEW h \in Host,
             layer(h) \/ served(h) \/ faults(h) \/ InboundArrives(h) \/ MessageArrives(h)
      PROVE  UNCHANGED retryVars
  BY <1>1 DEF layer, served, faults, HandshakeEnds, DialLost, InboundArrives, InboundLost,
              MessageArrives, SendFails, ConnectServed, DisconnectServed, SendServed
<1>2. ASSUME NEW h \in Host, Connect(h) \/ sendMessage(h) \/ sendMessage(Self)
      PROVE  UNCHANGED retryVars
  BY <1>2 DEF Connect, sendMessage
<1>3. CASE emitEvent \/ returns \/ Deliver \/ fanoutSessionEvent \/ messageDispatcher
  BY <1>3 DEF emitEvent, returns, CallAborted, LoopbackEnqueued, Deliver,
              fanoutSessionEvent, messageDispatcher, TakeMessage, processMessage
<1>4. CASE Cancel \/ CancelLayers \/ Stopped \/ UNCHANGED vars
           \/ \E g \in {"handler", "pump", "dispatcher", "loop"} : Exits(g)
  BY <1>4 DEF Cancel, CancelLayers, Stopped, Exits, vars
<1> QED
  BY <1>1, <1>2, <1>3, <1>4 DEF Next, calls, retry, sessionPump, teardown

\* Which steps touch what the pump and the dispatcher keep.
LEMMA PumpSteps ==
  ASSUME [Next]_vars
  PROVE  \/ dispatchSessionEvent \/ fanoutSessionEvent \/ TakeMessage \/ processMessage
         \/ UNCHANGED pumpVars
<1>1. ASSUME NEW h \in Host,
             layer(h) \/ served(h) \/ faults(h) \/ InboundArrives(h) \/ MessageArrives(h)
      PROVE  UNCHANGED pumpVars
  BY <1>1 DEF layer, served, faults, HandshakeEnds, DialLost, InboundArrives, InboundLost,
              MessageArrives, SendFails, ConnectServed, DisconnectServed, SendServed
<1>2. ASSUME NEW h \in Host, calls(h) \/ retry(h)
      PROVE  UNCHANGED pumpVars
  BY <1>2 DEF calls, Connect, connectWithRetry, disconnect, sendMessage, retry,
              TimerFires, stillTracked, CallbackConnects
<1>3. CASE emitEvent \/ returns \/ Deliver
  BY <1>3 DEF emitEvent, returns, CallAborted, LoopbackEnqueued, Deliver
<1>4. CASE Cancel \/ teardown \/ UNCHANGED vars
           \/ \E g \in {"handler", "pump", "dispatcher", "loop"} : Exits(g)
  BY <1>4 DEF Cancel, teardown, CancelLayers, retryTeardown, Stopped, Exits, vars
<1> QED
  BY <1>1, <1>2, <1>3, <1>4 DEF Next, sessionPump, messageDispatcher

\* Which steps touch the mailbox, the call and what the protocol was told.
LEMMA ProtoSteps ==
  ASSUME [Next]_vars
  PROVE  \/ \E h \in Host : calls(h) \/ served(h) \/ SendFails(h)
         \/ returns \/ Deliver \/ fanoutSessionEvent \/ processMessage
         \/ UNCHANGED protoVars
<1>1. ASSUME NEW h \in Host,
             layer(h) \/ DialLost(h) \/ InboundLost(h) \/ InboundArrives(h) \/ MessageArrives(h)
      PROVE  UNCHANGED protoVars
  BY <1>1 DEF layer, HandshakeEnds, DialLost, InboundArrives, InboundLost, MessageArrives
<1>2. ASSUME NEW h \in Host, retry(h)
      PROVE  UNCHANGED protoVars
  BY <1>2 DEF retry, TimerFires, stillTracked, CallbackConnects
<1>3. CASE emitEvent \/ dispatchSessionEvent \/ TakeMessage
  BY <1>3 DEF emitEvent, dispatchSessionEvent, TakeMessage
<1>4. CASE Cancel \/ teardown \/ UNCHANGED vars
           \/ \E g \in {"handler", "pump", "dispatcher", "loop"} : Exits(g)
  BY <1>4 DEF Cancel, teardown, CancelLayers, retryTeardown, Stopped, Exits, vars
<1> QED
  BY <1>1, <1>2, <1>3, <1>4 DEF Next, faults, sessionPump, messageDispatcher

\* Which steps touch the rest.
LEMMA RestSteps ==
  ASSUME [Next]_vars
  PROVE  \/ \E h \in Host : Connect(h) \/ connectWithRetry(h) \/ disconnect(h)
         \/ Deliver \/ fanoutSessionEvent \/ Cancel \/ teardown
         \/ \E g \in {"handler", "pump", "dispatcher", "loop"} : Exits(g)
         \/ UNCHANGED <<policy, stopVars, history>>
<1>1. ASSUME NEW h \in Host,
             layer(h) \/ served(h) \/ faults(h) \/ InboundArrives(h) \/ MessageArrives(h)
      PROVE  UNCHANGED <<policy, stopVars, history>>
  BY <1>1 DEF layer, served, faults, HandshakeEnds, DialLost, InboundArrives, InboundLost,
              MessageArrives, SendFails, ConnectServed, DisconnectServed, SendServed
<1>2. ASSUME NEW h \in Host, sendMessage(h) \/ sendMessage(Self) \/ retry(h)
      PROVE  UNCHANGED <<policy, stopVars, history>>
  BY <1>2 DEF sendMessage, retry, TimerFires, stillTracked, CallbackConnects
<1>3. CASE emitEvent \/ returns \/ dispatchSessionEvent \/ messageDispatcher \/ UNCHANGED vars
  BY <1>3 DEF emitEvent, returns, CallAborted, LoopbackEnqueued, dispatchSessionEvent,
              messageDispatcher, TakeMessage, processMessage, vars
<1> QED
  BY <1>1, <1>2, <1>3 DEF Next, calls, sessionPump
------------------------------------------------------------------------------
(* Types. *)

\* What is left of a sequence, and what is added, keep its type.
LEMMA SeqTypes ==
  ASSUME NEW E, NEW q \in Seq(E)
  PROVE  /\ <<>> \in Seq(E)
         /\ q # <<>> => Tail(q) \in Seq(E) /\ Head(q) \in E
         /\ \A e \in E : Append(q, e) \in Seq(E)
OBVIOUS

\* What an enqueue leaves in the mailbox is made of what was there and of the
\* new event.
LEMMA EnqueueType ==
  ASSUME NEW E, NEW q \in Seq(E), NEW e \in E, NEW pol
  PROVE  enqueueLocked(pol, q, e) \in Seq(E)
<1>1. Append(q, e) \in Seq(E)
  OBVIOUS
<1>2. CASE Full(pol, q)
  <2>1. Len(q) >= Capacity
    BY <1>2 DEF Full
  <2>2. q # <<>>
    BY <2>1, CapacityAssumption
  <2>3. Append(Tail(q), e) \in Seq(E)
    BY <2>2
  <2> QED  BY <1>1, <1>2, <2>3 DEF enqueueLocked
<1> QED  BY <1>1, <1>2 DEF enqueueLocked

\* The conjuncts of the type invariant, by the part of the state they are about.
LayerTypes ==
    /\ dial \in [Host -> {"Idle", "Handshaking", "Established"}]
    /\ inbound \in [Host -> BOOLEAN]
    /\ hung \in [Host -> SUBSET {"dial", "inbound"}]
    /\ route \in [Host -> {"none", "dial", "inbound"}]
    /\ handler \in SessionEvent \cup SessionMessage \cup {None}
    /\ events \in Seq(SessionEvent) /\ messages \in Seq(SessionMessage)

RetryTypes ==
    /\ retries \in [Host -> RetryState \cup {None}]
    /\ fired \in [Host -> Nat] /\ passed \in [Host -> Nat]

PumpTypes ==
    /\ established \subseteq Host
    /\ pump \in Seq(ProtoEvent)
    /\ dispatcher \in SessionMessage \cup {None}

ProtoTypes ==
    /\ mail \in Seq(ProtoEvent)
    /\ call \in {Idle} \cup [op : {"connect", "disconnect", "send"}, host : Host]
             \cup [op : {"loopback"}, host : {Self}]
    /\ view \subseteq Host

RestTypes ==
    /\ policy \in Policies
    /\ late \in [Host -> Nat]
    /\ shutdown \in {"running", "ctx", "layers", "torn", "stopped"}
    /\ alive \subseteq {"handler", "pump", "dispatcher", "loop"}
    /\ awaiting \subseteq Host /\ halted \subseteq Host

\* What the session handler does.
LEMMA LayerStep ==
  ASSUME TypeOK, [Next]_vars
  PROVE  LayerTypes'
<1> USE DEF LayerTypes, TypeOK
<1>1. ASSUME NEW h \in Host, HandshakeEnds(h) PROVE LayerTypes'
  <2>1. handler' \in SessionEvent
    BY <1>1 DEF HandshakeEnds, Puts, SessionEvent
  <2>2. \/ /\ dial' = [dial EXCEPT ![h] = "Established"]
           /\ route' = [route EXCEPT ![h] = "dial"]
           /\ UNCHANGED hung
        \/ /\ dial' = [dial EXCEPT ![h] = "Idle"]
           /\ hung' = [hung EXCEPT ![h] = @ \ {"dial"}]
           /\ UNCHANGED route
    BY <1>1 DEF HandshakeEnds, Reroute
  <2>3. UNCHANGED <<inbound, events, messages>>
    BY <1>1 DEF HandshakeEnds
  <2>4. dial' \in [Host -> {"Idle", "Handshaking", "Established"}]
    BY <2>2
  <2>5. hung' \in [Host -> SUBSET {"dial", "inbound"}]
    <3>1. hung \in [Host -> SUBSET {"dial", "inbound"}]
      OBVIOUS
    <3> HIDE DEF LayerTypes, TypeOK
    <3> QED  BY <2>2, <3>1
  <2>6. route' \in [Host -> {"none", "dial", "inbound"}]
    BY <2>2
  <2> QED  BY <2>1, <2>3, <2>4, <2>5, <2>6
<1>2. ASSUME NEW h \in Host, DialLost(h) PROVE LayerTypes'
  BY <1>2 DEF DialLost, Puts, Reroute, SessionEvent
<1>3. ASSUME NEW h \in Host, InboundArrives(h) PROVE LayerTypes'
  <2>1. handler' \in SessionEvent
    BY <1>3 DEF InboundArrives, Puts, SessionEvent
  <2>2. \/ /\ inbound' = [inbound EXCEPT ![h] = TRUE]
           /\ route' = [route EXCEPT ![h] = "inbound"]
        \/ UNCHANGED <<inbound, route>>
    BY <1>3 DEF InboundArrives, Reroute
  <2>3. UNCHANGED <<dial, hung, events, messages>>
    BY <1>3 DEF InboundArrives
  <2> QED  BY <2>1, <2>2, <2>3
<1>4. ASSUME NEW h \in Host, InboundLost(h) PROVE LayerTypes'
  BY <1>4 DEF InboundLost, Puts, Reroute, SessionEvent
<1>5. ASSUME NEW h \in Host, MessageArrives(h) PROVE LayerTypes'
  BY <1>5 DEF MessageArrives, Puts, SessionMessage
<1>6. CASE emitEvent
  <2>1. handler.type # "Message" => handler \in SessionEvent
    BY <1>6 DEF emitEvent, SessionMessage
  <2>2. handler.type = "Message" => handler \in SessionMessage
    BY <1>6 DEF emitEvent, SessionEvent
  <2>3. events' = events \/ (events' = Append(events, handler) /\ handler \in SessionEvent)
    BY <1>6, <2>1 DEF emitEvent
  <2>4. events' \in Seq(SessionEvent)
    <3>1. events \in Seq(SessionEvent)
      OBVIOUS
    <3> HIDE DEF LayerTypes, TypeOK
    <3> QED  BY <2>3, <3>1, SeqTypes
  <2>5. messages' = messages
        \/ (messages' = Append(messages, handler) /\ handler \in SessionMessage)
    BY <1>6, <2>2 DEF emitEvent
  <2>6. messages' \in Seq(SessionMessage)
    <3>1. messages \in Seq(SessionMessage)
      OBVIOUS
    <3> HIDE DEF LayerTypes, TypeOK
    <3> QED  BY <2>5, <3>1, SeqTypes
  <2>7. handler' = None /\ UNCHANGED <<dial, inbound, hung, route>>
    BY <1>6 DEF emitEvent
  <2> QED  BY <2>4, <2>6, <2>7
<1>7. ASSUME NEW h \in Host, connectClient(h) PROVE LayerTypes'
  BY <1>7 DEF connectClient
<1>8. ASSUME NEW h \in Host, Disconnects(h) PROVE LayerTypes'
  BY <1>8 DEF Disconnects, Reroute
<1>9. ASSUME NEW h \in Host, SendFails(h) PROVE LayerTypes'
  BY <1>9 DEF SendFails, Puts, Reroute, SessionEvent
<1>10. CASE TakeMessage
  BY <1>10 DEF TakeMessage
<1>11. CASE dispatchSessionEvent
  BY <1>11 DEF dispatchSessionEvent
<1>12. CASE UNCHANGED layerVars
  BY <1>12 DEF layerVars
<1> QED
  BY <1>1, <1>2, <1>3, <1>4, <1>5, <1>6, <1>7, <1>8, <1>9, <1>10, <1>11, <1>12, LayerSteps
  DEF ConnectServed, DisconnectServed, CallbackConnects

\* What the schedules become.
LEMMA RetryStep ==
  ASSUME TypeOK, [Next]_vars
  PROVE  RetryTypes'
<1> USE DEF RetryTypes, TypeOK
<1>0. MaxAttempts \in Nat \ {0}
  BY RuntimeAssumption
<1>1. ASSUME NEW h \in Host, connectWithRetry(h) PROVE RetryTypes'
  <2>1. [attempt |-> 0, timer |-> "none"] \in RetryState
    BY <1>0 DEF RetryState
  <2>2. UNCHANGED retries \/ retries' = [retries EXCEPT ![h] = [attempt |-> 0, timer |-> "none"]]
    BY <1>1 DEF connectWithRetry
  <2>3. retries' \in [Host -> RetryState \cup {None}]
    BY <2>1, <2>2
  <2> QED  BY <1>1, <2>3 DEF connectWithRetry
<1>2. ASSUME NEW h \in Host, disconnect(h) PROVE RetryTypes'
  BY <1>2 DEF disconnect, stopRetryFor
<1>3. ASSUME NEW h \in Host, TimerFires(h) PROVE RetryTypes'
  BY <1>3, SMTT(30) DEF TimerFires, Tracked, RetryState
<1>4. ASSUME NEW h \in Host, stillTracked(h) PROVE RetryTypes'
  BY <1>4 DEF stillTracked
<1>5. ASSUME NEW h \in Host, CallbackConnects(h) PROVE RetryTypes'
  BY <1>5 DEF CallbackConnects
<1>6. CASE dispatchSessionEvent
  <2> DEFINE h == Head(events).host
  <2>1. CASE UNCHANGED retryVars
    BY <2>1 DEF retryVars
  <2>2. CASE Tracked(h) /\ (stopRetryFor(h) \/ onSessionDownForRetry(h)) /\ UNCHANGED <<fired, passed>>
    <3>1. h \in Host /\ retries[h] \in RetryState
      BY <2>2 DEF Tracked
    <3>2. CASE stopRetryFor(h)
      BY <2>2, <3>2 DEF stopRetryFor
    <3>3. CASE onSessionDownForRetry(h)
      <4>1. retries[h].attempt + 1 >= MaxAttempts
            \/ [attempt |-> retries[h].attempt + 1, timer |-> "armed"] \in RetryState
        BY <1>0, <3>1 DEF RetryState
      <4> QED  BY <2>2, <3>1, <3>3, <4>1 DEF onSessionDownForRetry
    <3> QED  BY <2>2, <3>2, <3>3
  <2> QED
    BY <1>6, <2>1, <2>2 DEF dispatchSessionEvent, onConnected, onDisconnected,
         onSessionFailedEvent, onVersionMismatch, Books, retryVars, onSessionDownForRetry
<1>7. CASE retryTeardown
  BY <1>7 DEF retryTeardown
<1>8. CASE UNCHANGED retryVars
  BY <1>8 DEF retryVars
<1> QED
  BY <1>1, <1>2, <1>3, <1>4, <1>5, <1>6, <1>7, <1>8, RetrySteps

\* What the pump and the dispatcher are left with.
LEMMA PumpStep ==
  ASSUME TypeOK, [Next]_vars
  PROVE  PumpTypes'
<1> USE DEF PumpTypes, TypeOK
<1>1. CASE dispatchSessionEvent
  <2> DEFINE e == Head(events)
  <2>1. e \in SessionEvent
    BY <1>1 DEF dispatchSessionEvent
  <2>2. e.host \in Host \/ (e.host = Address /\ e.type \in {"Disconnected", "MismatchInbound"})
    BY <2>1 DEF SessionEvent
  <2>3. \A t \in {"Connected", "Disconnected", "Failed", "GivenUp"} :
          e.host \in Host => Fanout(t, e.host) \in Seq(ProtoEvent)
    BY DEF Fanout, ProtoEvent
  <2>4. Fanout("Disconnected", e.host) \in Seq(ProtoEvent) \/ e.type # "Disconnected"
    BY <2>2 DEF Fanout, ProtoEvent
  <2>5. ~Tracked(e.host) \/ e.host \in Host
    BY DEF Tracked
  <2> HIDE DEF e
  <2>6. CASE e.type = "Connected" /\ onConnected(e.host)
    BY <1>1, <2>2, <2>3, <2>6 DEF onConnected, markEstablished, dispatchSessionEvent
  <2>7. CASE e.type = "Disconnected" /\ onDisconnected(e.host)
    <3>1. (IF GivesUp(e.host) THEN Fanout("GivenUp", e.host) ELSE <<>>) \in Seq(ProtoEvent)
      BY <2>3, <2>5 DEF GivesUp
    <3> DEFINE p == IF GivesUp(e.host) THEN Fanout("GivenUp", e.host) ELSE <<>>
               d == Fanout("Disconnected", e.host)
    <3>2. pump' = p \o d /\ p \in Seq(ProtoEvent) /\ d \in Seq(ProtoEvent)
      BY <2>4, <2>7, <3>1 DEF onDisconnected
    <3> HIDE DEF p, d
    <3>3. pump' \in Seq(ProtoEvent)
      BY <3>2
    <3> QED  BY <1>1, <2>7, <3>3 DEF onDisconnected, markDisconnected, dispatchSessionEvent
  <2>8. CASE e.type = "Failed" /\ onSessionFailedEvent(e.host)
    BY <1>1, <2>2, <2>3, <2>8 DEF onSessionFailedEvent, dispatchSessionEvent
  <2>9. CASE e.type = "Mismatch" /\ onVersionMismatch(e.host)
    BY <1>1, <2>2, <2>3, <2>9 DEF onVersionMismatch, dispatchSessionEvent
  <2>10. CASE UNCHANGED <<established, pump>>
    BY <1>1, <2>10 DEF dispatchSessionEvent
  <2> QED  BY <1>1, <2>6, <2>7, <2>8, <2>9, <2>10 DEF dispatchSessionEvent, e
<1>2. CASE fanoutSessionEvent
  <2>1. pump # <<>> /\ UNCHANGED <<established, dispatcher>>
    BY <1>2 DEF fanoutSessionEvent
  <2>2. pump' = Tail(pump) \/ pump' = <<>>
    BY <1>2 DEF fanoutSessionEvent
  <2>3. pump' \in Seq(ProtoEvent)
    <3>1. pump \in Seq(ProtoEvent)
      OBVIOUS
    <3> HIDE DEF PumpTypes, TypeOK
    <3> QED  BY <2>1, <2>2, <3>1, SeqTypes
  <2> QED  BY <2>1, <2>3
<1>3. CASE TakeMessage
  BY <1>3 DEF TakeMessage
<1>4. CASE processMessage
  BY <1>4 DEF processMessage
<1>5. CASE UNCHANGED pumpVars
  BY <1>5 DEF pumpVars
<1> QED  BY <1>1, <1>2, <1>3, <1>4, <1>5, PumpSteps

\* What the protocol is told and calls.
LEMMA ProtoStep ==
  ASSUME TypeOK, [Next]_vars
  PROVE  ProtoTypes'
<1> USE DEF ProtoTypes, TypeOK
<1>1. ASSUME NEW h \in Host, calls(h) PROVE ProtoTypes'
  <2>1. UNCHANGED <<mail, view>>
    BY <1>1 DEF calls, Connect, connectWithRetry, disconnect, sendMessage
  <2>2. \/ UNCHANGED call
        \/ call' \in [op : {"connect", "disconnect", "send"}, host : Host]
                    \cup [op : {"loopback"}, host : {Self}]
    BY <1>1, RuntimeAssumption DEF calls, Connect, connectWithRetry, disconnect,
       sendMessage, Calls
  <2> QED  BY <2>1, <2>2
<1>2. ASSUME NEW h \in Host, served(h) \/ SendFails(h) PROVE ProtoTypes'
  BY <1>2 DEF served, ConnectServed, DisconnectServed, SendServed, SendFails, Returns
<1>3. CASE returns
  <2>1. [type |-> "Message", host |-> Self] \in ProtoEvent
    BY DEF ProtoEvent
  <2>2. mail' \in Seq(ProtoEvent)
    BY <1>3, <2>1, EnqueueType DEF returns, CallAborted, LoopbackEnqueued, Enqueues
  <2> QED  BY <1>3, <2>2 DEF returns, CallAborted, LoopbackEnqueued, Returns
<1>4. CASE Deliver
  <2>1. mail # <<>> /\ mail' = Tail(mail) /\ UNCHANGED call
    BY <1>4 DEF Deliver
  <2>2. Head(mail) \in ProtoEvent
    BY <2>1
  <2>3. Head(mail).type = "Connected" => Head(mail).host \in Host
    BY <2>2 DEF ProtoEvent
  <2>4. view' \subseteq Host
    BY <1>4, <2>3 DEF Deliver
  <2> QED  BY <2>1, <2>4
<1>5. CASE fanoutSessionEvent
  <2>1. Head(pump) \in ProtoEvent
    BY <1>5 DEF fanoutSessionEvent
  <2> QED  BY <1>5, <2>1, EnqueueType DEF fanoutSessionEvent, Enqueues
<1>6. CASE processMessage
  <2>1. dispatcher \in ProtoEvent
    BY <1>6 DEF processMessage, SessionMessage, ProtoEvent
  <2> QED  BY <1>6, <2>1, EnqueueType DEF processMessage, Enqueues
<1>7. CASE UNCHANGED protoVars
  BY <1>7 DEF protoVars
<1> QED  BY <1>1, <1>2, <1>3, <1>4, <1>5, <1>6, <1>7, ProtoSteps

\* What is left of the runtime.
LEMMA RestStep ==
  ASSUME TypeOK, [Next]_vars
  PROVE  RestTypes'
<1> USE DEF RestTypes, TypeOK
<1>1. ASSUME NEW h \in Host, Connect(h) \/ connectWithRetry(h) \/ disconnect(h)
      PROVE  RestTypes'
  BY <1>1, ZenonT(40) DEF Connect, connectWithRetry, disconnect, Reached, stopVars
<1>2. CASE Deliver
  BY <1>2 DEF Deliver, stopVars
<1>3. CASE fanoutSessionEvent
  BY <1>3 DEF fanoutSessionEvent, history
<1>4. CASE Cancel \/ teardown
  BY <1>4 DEF Cancel, teardown, CancelLayers, retryTeardown, Stopped, history
<1>5. ASSUME NEW g, Exits(g) PROVE RestTypes'
  BY <1>5 DEF Exits, history
<1>6. CASE UNCHANGED <<policy, stopVars, history>>
  BY <1>6 DEF stopVars, history
<1> QED  BY <1>1, <1>2, <1>3, <1>4, <1>5, <1>6, RestSteps

\* Every variable keeps its type.
LEMMA TypeInvariance == Spec => []TypeOK
<1>1. Init => TypeOK
  BY RuntimeAssumption DEF Init, TypeOK, Idle
<1>2. TypeOK /\ [Next]_vars => TypeOK'
  <2> SUFFICES ASSUME TypeOK, [Next]_vars PROVE TypeOK'
    OBVIOUS
  <2>1. LayerTypes' /\ RetryTypes' /\ PumpTypes' /\ ProtoTypes' /\ RestTypes'
    BY LayerStep, RetryStep, PumpStep, ProtoStep, RestStep
  <2> QED  BY <2>1 DEF TypeOK, LayerTypes, RetryTypes, PumpTypes, ProtoTypes, RestTypes
<1> QED  BY <1>1, <1>2, PTL DEF Spec
------------------------------------------------------------------------------
(* A tracked host always has its next attempt under way. *)

\* A report about h is on its way to the pump.
Reported(h) ==
    \/ handler # None /\ handler.host = h /\ handler.type # "Message"
    \/ \E i \in 1 .. Len(events) : events[i].host = h

TimerMoves(h) ==
    \/ retries[h].timer = "armed"
    \/ fired[h] > 0
    \/ passed[h] > 0

ToConnect(h) == call = [op |-> "connect", host |-> h]

Underway == ~Cancelled => \A h \in Host : Tracked(h) => Moving(h)

\* What is under way is a timer, a call, a session or a report.
LEMMA MovingParts ==
  TypeOK => \A h \in Host :
    Moving(h) <=> TimerMoves(h) \/ ToConnect(h) \/ dial[h] # "Idle" \/ Reported(h)
<1> SUFFICES ASSUME TypeOK, NEW h \in Host
             PROVE  Moving(h)
                      <=> TimerMoves(h) \/ ToConnect(h) \/ dial[h] # "Idle" \/ Reported(h)
  OBVIOUS
<1>1. events \in Seq(SessionEvent)
  BY DEF TypeOK
<1>2. Range(events) = {events[i] : i \in 1 .. Len(events)}
  BY <1>1 DEF Range
<1>3. \A i \in 1 .. Len(events) : events[i] \in SessionEvent
  BY <1>1
<1>4. \A e \in SessionEvent : e # None /\ e.type # "Message"
  BY RuntimeAssumption DEF SessionEvent
<1> QED  BY <1>2, <1>3, <1>4 DEF Moving, TimerMoves, ToConnect, Reported

\* The same, of the state after a step.
LEMMA MovingPartsNext ==
  (TypeOK => \A h \in Host :
     Moving(h) <=> TimerMoves(h) \/ ToConnect(h) \/ dial[h] # "Idle" \/ Reported(h))'
<1>1. TypeOK => \A h \in Host :
        Moving(h) <=> TimerMoves(h) \/ ToConnect(h) \/ dial[h] # "Idle" \/ Reported(h)
  BY MovingParts
<1> QED  BY <1>1, PTL

\* The runtime, once cancelled, stays cancelled.
LEMMA CancelledBefore ==
  ASSUME [Next]_vars, ~Cancelled'
  PROVE  ~Cancelled /\ ~LayersCancelled
<1>1. shutdown' = shutdown \/ shutdown' # "running"
  BY RestSteps DEF Connect, connectWithRetry, disconnect, Deliver, fanoutSessionEvent,
     Cancel, teardown, CancelLayers, retryTeardown, Stopped, Exits, stopVars
<1> QED  BY <1>1 DEF Cancelled, LayersCancelled

\* A call of Connect that is under way stays so until the host is dialed.
LEMMA CallKept ==
  ASSUME TypeOK, [Next]_vars, ~LayersCancelled, NEW h \in Host, ToConnect(h)
  PROVE  ToConnect(h)' \/ dial'[h] # "Idle"
<1>0. call # Idle /\ call.op = "connect" /\ call.host = h
  BY DEF ToConnect, Idle
<1>1. ASSUME NEW k \in Host, calls(k) PROVE FALSE
  BY <1>0, <1>1 DEF calls, Connect, connectWithRetry, disconnect, sendMessage, LoopIdle
<1>2. ASSUME NEW k \in Host, ConnectServed(k) PROVE dial'[h] # "Idle"
  <2>1. k = h
    BY <1>0, <1>2 DEF ConnectServed
  <2> QED  BY <1>2, <2>1 DEF ConnectServed, connectClient, TypeOK
<1>3. ASSUME NEW k \in Host, DisconnectServed(k) \/ SendServed(k) \/ SendFails(k)
      PROVE  FALSE
  BY <1>0, <1>3 DEF DisconnectServed, SendServed, SendFails
<1>4. CASE returns
  BY <1>0, <1>4 DEF returns, CallAborted, LoopbackEnqueued
<1>5. CASE Deliver \/ fanoutSessionEvent \/ processMessage \/ UNCHANGED protoVars
  BY <1>5 DEF Deliver, fanoutSessionEvent, processMessage, protoVars, ToConnect
<1> QED  BY <1>1, <1>2, <1>3, <1>4, <1>5, ProtoSteps DEF served

\* A dial or a session of this node's ends with a report.
LEMMA DialKept ==
  ASSUME TypeOK, [Next]_vars, NEW h \in Host, dial[h] # "Idle"
  PROVE  dial'[h] # "Idle" \/ Reported(h)'
<1>0. dial \in [Host -> {"Idle", "Handshaking", "Established"}]
  BY DEF TypeOK
<1>1. ASSUME NEW k \in Host, \/ HandshakeEnds(k) \/ DialLost(k) \/ SendFails(k)
      PROVE  dial'[h] # "Idle" \/ Reported(h)'
  <2>1. CASE k = h
    <3>1. dial'[h] = "Idle" =>
            \E t \in {"Failed", "Mismatch", "Disconnected"} :
                handler' = [type |-> t, host |-> h]
      BY <1>0, <1>1, <2>1 DEF HandshakeEnds, DialLost, SendFails, Puts
    <3>2. \A t \in {"Failed", "Mismatch", "Disconnected"} :
            [type |-> t, host |-> h] \in SessionEvent
      BY DEF SessionEvent
    <3>3. None \notin SessionEvent
      BY RuntimeAssumption
    <3> QED  BY <3>1, <3>2, <3>3 DEF Reported
  <2>2. CASE k # h
    BY <1>0, <1>1, <2>2 DEF HandshakeEnds, DialLost, SendFails
  <2> QED  BY <2>1, <2>2
<1>2. ASSUME NEW k \in Host, connectClient(k) PROVE dial'[h] # "Idle"
  BY <1>0, <1>2 DEF connectClient
<1>3. ASSUME NEW k \in Host,
             \/ InboundArrives(k) \/ InboundLost(k) \/ MessageArrives(k) \/ Disconnects(k)
      PROVE  dial'[h] # "Idle"
  BY <1>3 DEF InboundArrives, InboundLost, MessageArrives, Disconnects
<1>4. CASE emitEvent \/ TakeMessage \/ dispatchSessionEvent \/ UNCHANGED layerVars
  BY <1>4 DEF emitEvent, TakeMessage, dispatchSessionEvent, layerVars
<1> QED
  BY <1>1, <1>2, <1>3, <1>4, LayerSteps
  DEF ConnectServed, DisconnectServed, CallbackConnects

\* A report stays on its way until the pump takes it.
LEMMA ReportKept ==
  ASSUME TypeOK, [Next]_vars, ~LayersCancelled, NEW h \in Host, Reported(h)
  PROVE  Reported(h)' \/ (dispatchSessionEvent /\ Head(events).host = h)
<1>0. events \in Seq(SessionEvent)
  BY DEF TypeOK
<1>1. ASSUME NEW k \in Host,
             \/ HandshakeEnds(k) \/ DialLost(k) \/ SendFails(k) \/ InboundArrives(k)
             \/ InboundLost(k) \/ MessageArrives(k) \/ Disconnects(k) \/ connectClient(k)
      PROVE  Reported(h)'
  <2>1. HandlerFree /\ UNCHANGED events
    BY <1>1 DEF HandshakeEnds, DialLost, SendFails, InboundArrives, InboundLost,
                MessageArrives, Disconnects, connectClient
  <2> QED  BY <2>1 DEF Reported, HandlerFree
<1>2. CASE emitEvent
  <2>1. CASE events' = events
    BY <1>2, <2>1 DEF emitEvent, Reported
  <2>2. CASE events' = Append(events, handler)
    <3>1. /\ Len(events') = Len(events) + 1
          /\ events'[Len(events) + 1] = handler
          /\ \A i \in 1 .. Len(events) : events'[i] = events[i]
      BY <1>0, <2>2
    <3>2. Len(events) \in Nat
      BY <1>0
    <3> QED  BY <3>1, <3>2 DEF Reported
  <2> QED  BY <1>2, <2>1, <2>2 DEF emitEvent
<1>3. CASE TakeMessage \/ UNCHANGED layerVars
  BY <1>3 DEF TakeMessage, layerVars, Reported
<1>4. CASE dispatchSessionEvent
  <2>1. events # <<>> /\ events' = Tail(events) /\ UNCHANGED handler
    BY <1>4 DEF dispatchSessionEvent
  <2>2. CASE handler # None /\ handler.host = h /\ handler.type # "Message"
    BY <2>1, <2>2 DEF Reported
  <2>3. ASSUME NEW i \in 1 .. Len(events), events[i].host = h
        PROVE  Reported(h)' \/ Head(events).host = h
    <3>1. CASE i = 1
      BY <2>3, <3>1
    <3>2. CASE i # 1
      <4>1. i - 1 \in 1 .. Len(events') /\ events'[i - 1] = events[i]
        BY <1>0, <2>1, <3>2
      <4> QED  BY <2>3, <4>1 DEF Reported
    <3> QED  BY <3>1, <3>2
  <2> QED  BY <1>4, <2>2, <2>3 DEF Reported
<1> QED
  BY <1>1, <1>2, <1>3, <1>4, LayerSteps
  DEF ConnectServed, DisconnectServed, CallbackConnects

\* A report of h that the pump takes leaves h untracked or its timer armed.
LEMMA ReportTaken ==
  ASSUME TypeOK, dispatchSessionEvent, NEW h \in Host, Head(events).host = h,
         Tracked(h)'
  PROVE  retries'[h].timer = "armed"
<1>0. retries \in [Host -> RetryState \cup {None}]
  BY DEF TypeOK
<1>1. Head(events) \in SessionEvent
  BY DEF TypeOK, dispatchSessionEvent
<1>2. Head(events).type # "MismatchInbound"
  BY <1>1, RuntimeAssumption DEF SessionEvent
<1>3. retries'[h] # None
  BY DEF Tracked
<1>4. ASSUME stopRetryFor(h) PROVE FALSE
  BY <1>0, <1>3, <1>4 DEF stopRetryFor
<1>5. CASE onSessionDownForRetry(h)
  BY <1>0, <1>3, <1>5 DEF onSessionDownForRetry
<1>6. CASE UNCHANGED retries /\ ~Tracked(h)
  BY <1>3, <1>6 DEF Tracked
<1> QED
  BY <1>2, <1>4, <1>5, <1>6 DEF dispatchSessionEvent, onConnected, onDisconnected,
     onSessionFailedEvent, onVersionMismatch, Books, retryVars

\* A report of another host leaves h as it was.
LEMMA ReportOfAnother ==
  ASSUME TypeOK, dispatchSessionEvent, NEW h \in Host, Head(events).host # h
  PROVE  retries'[h] = retries[h] /\ UNCHANGED <<fired, passed>>
<1>0. retries \in [Host -> RetryState \cup {None}]
  BY DEF TypeOK
<1> DEFINE k == Head(events).host
<1>1. \/ UNCHANGED retryVars
      \/ (stopRetryFor(k) \/ onSessionDownForRetry(k)) /\ UNCHANGED <<fired, passed>>
  BY DEF dispatchSessionEvent, onConnected, onDisconnected, onSessionFailedEvent,
         onVersionMismatch, Books, retryVars, onSessionDownForRetry
<1> QED  BY <1>0, <1>1 DEF retryVars, stopRetryFor, onSessionDownForRetry

\* A schedule that is kept keeps its timer, or its callback dials.
LEMMA TimerKept ==
  ASSUME TypeOK, [Next]_vars, ~Cancelled', NEW h \in Host, Tracked(h), Tracked(h)',
         TimerMoves(h)
  PROVE  TimerMoves(h)' \/ dial'[h] # "Idle"
<1>0. /\ retries \in [Host -> RetryState \cup {None}]
      /\ fired \in [Host -> Nat] /\ passed \in [Host -> Nat]
      /\ dial \in [Host -> {"Idle", "Handshaking", "Established"}]
  BY DEF TypeOK
<1>1. ~Cancelled /\ ~LayersCancelled
  BY CancelledBefore
<1>2. retries[h] # None /\ retries'[h] # None
  BY DEF Tracked
<1>3. ASSUME NEW k \in Host, connectWithRetry(k) \/ disconnect(k)
      PROVE  TimerMoves(h)'
  <2>1. UNCHANGED <<fired, passed>>
    BY <1>3 DEF connectWithRetry, disconnect
  <2>2. retries'[h] = retries[h]
    BY <1>0, <1>2, <1>3 DEF connectWithRetry, disconnect, stopRetryFor
  <2> QED  BY <2>1, <2>2 DEF TimerMoves
<1>4. ASSUME NEW k \in Host, TimerFires(k) PROVE TimerMoves(h)'
  BY <1>0, <1>4 DEF TimerFires, TimerMoves
<1>5. ASSUME NEW k \in Host, stillTracked(k) PROVE TimerMoves(h)'
  <2>1. CASE k = h
    BY <1>0, <1>1, <1>5, <2>1 DEF stillTracked, TimerMoves
  <2>2. CASE k # h
    BY <1>0, <1>5, <2>2 DEF stillTracked, TimerMoves
  <2> QED  BY <2>1, <2>2
<1>6. ASSUME NEW k \in Host, CallbackConnects(k) PROVE TimerMoves(h)' \/ dial'[h] # "Idle"
  <2>1. CASE k = h
    BY <1>0, <1>1, <1>6, <2>1 DEF CallbackConnects, connectClient
  <2>2. CASE k # h
    BY <1>0, <1>6, <2>2 DEF CallbackConnects, TimerMoves
  <2> QED  BY <2>1, <2>2
<1>7. CASE dispatchSessionEvent
  BY <1>7, ReportTaken, ReportOfAnother DEF TimerMoves
<1>8. CASE retryTeardown
  BY <1>1, <1>8 DEF retryTeardown, Cancelled
<1>9. CASE UNCHANGED retryVars
  BY <1>9 DEF retryVars, TimerMoves
<1> QED
  BY <1>3, <1>4, <1>5, <1>6, <1>7, <1>8, <1>9, RetrySteps

\* A schedule begins with a call of Connect.
LEMMA ScheduleOpens ==
  ASSUME TypeOK, [Next]_vars, ~Cancelled', NEW h \in Host, ~Tracked(h), Tracked(h)'
  PROVE  ToConnect(h)'
<1>0. retries \in [Host -> RetryState \cup {None}]
  BY DEF TypeOK
<1>1. ~Cancelled
  BY CancelledBefore
<1>2. retries[h] = None /\ retries'[h] # None
  BY DEF Tracked
<1>3. ASSUME NEW k \in Host, connectWithRetry(k) PROVE ToConnect(h)'
  BY <1>0, <1>1, <1>2, <1>3 DEF connectWithRetry, Calls, ToConnect
<1>4. ASSUME NEW k \in Host, disconnect(k) PROVE FALSE
  BY <1>0, <1>2, <1>4 DEF disconnect, stopRetryFor
<1>5. ASSUME NEW k \in Host, TimerFires(k) \/ stillTracked(k) \/ CallbackConnects(k)
      PROVE  FALSE
  BY <1>0, <1>2, <1>5 DEF TimerFires, stillTracked, CallbackConnects, Tracked
<1>6. CASE dispatchSessionEvent
  <2> DEFINE k == Head(events).host
  <2>1. UNCHANGED retries \/ stopRetryFor(k) \/ (onSessionDownForRetry(k) /\ Tracked(k))
    BY <1>6 DEF dispatchSessionEvent, onConnected, onDisconnected, onSessionFailedEvent,
           onVersionMismatch, Books, retryVars
  <2> QED
    BY <1>0, <1>2, <2>1 DEF stopRetryFor, onSessionDownForRetry, Tracked
<1>7. CASE retryTeardown \/ UNCHANGED retryVars
  BY <1>2, <1>7 DEF retryTeardown, retryVars
<1> QED  BY <1>3, <1>4, <1>5, <1>6, <1>7, RetrySteps

\* A step of any goroutine leaves every scheduled host something that moves it.
LEMMA UnderwayStep ==
  ASSUME TypeOK, TypeOK', Underway, [Next]_vars
  PROVE  Underway'
<1> SUFFICES ASSUME ~Cancelled', NEW h \in Host, Tracked(h)'
             PROVE  Moving(h)'
  BY DEF Underway
<1>1. ~Cancelled /\ ~LayersCancelled
  BY CancelledBefore
<1>2. TimerMoves(h)' \/ ToConnect(h)' \/ dial'[h] # "Idle" \/ Reported(h)' => Moving(h)'
  BY MovingPartsNext
<1>3. CASE ~Tracked(h)
  BY <1>2, <1>3, ScheduleOpens
<1>4. CASE Tracked(h)
  <2>1. Moving(h)
    BY <1>1, <1>4 DEF Underway
  <2>2. CASE TimerMoves(h)
    BY <1>2, <1>4, <2>2, TimerKept
  <2>3. CASE ToConnect(h)
    BY <1>1, <1>2, <2>3, CallKept
  <2>4. CASE dial[h] # "Idle"
    BY <1>2, <2>4, DialKept
  <2>5. CASE Reported(h)
    <3>1. Reported(h)' \/ TimerMoves(h)'
      BY <1>1, <2>5, ReportKept, ReportTaken DEF TimerMoves
    <3> QED  BY <1>2, <3>1
  <2> QED  BY <2>1, <2>2, <2>3, <2>4, <2>5, MovingParts
<1> QED  BY <1>3, <1>4

\* NoStrandedRetry of Runtime: whatever the order of reports, timers, calls and
\* disconnects, while the runtime runs a host with a schedule has an armed
\* timer, a callback, a Connect call, a dial, a session or a report under way.
THEOREM RetriesGoOn == Spec => []NoStrandedRetry
<1>1. Init => Underway
  BY DEF Init, Underway, Tracked
<1>2. TypeOK /\ TypeOK' /\ Underway /\ [Next]_vars => Underway'
  BY UnderwayStep
<1>3. TypeOK /\ Underway => NoStrandedRetry
  BY DEF Underway, NoStrandedRetry
<1> QED  BY <1>1, <1>2, <1>3, TypeInvariance, PTL DEF Spec
------------------------------------------------------------------------------
(* A Disconnect halts the attempts. *)

\* After the last call for a host was Disconnect, nothing is left that dials it
\* but the callbacks that were past their check then.
HaltInv ==
    \A h \in halted :
        /\ retries[h] = None
        /\ ~ToConnect(h)
        /\ passed[h] <= late[h]

\* No step dials a host that Disconnect halted, but for the callbacks past
\* their check.
LEMMA HaltStep ==
  ASSUME TypeOK, HaltInv, [Next]_vars
  PROVE  HaltInv'
<1>0. /\ retries \in [Host -> RetryState \cup {None}]
      /\ fired \in [Host -> Nat] /\ passed \in [Host -> Nat] /\ late \in [Host -> Nat]
      /\ halted \subseteq Host
  BY DEF TypeOK
<1>1. CASE \E k \in Host : disconnect(k)
  <2> PICK k \in Host : disconnect(k)
    BY <1>1
  <2>1. /\ halted' = halted \cup {k}
        /\ late' = [late EXCEPT ![k] = passed[k]]
        /\ retries' = [retries EXCEPT ![k] = None]
        /\ UNCHANGED passed
        /\ \A h \in Host : ~ToConnect(h)'
    BY DEF disconnect, stopRetryFor, Calls, LoopIdle, ToConnect, Idle
  <2> QED  BY <1>0, <2>1 DEF HaltInv
<1>2. CASE ~\E k \in Host : disconnect(k)
  <2> SUFFICES ASSUME NEW h \in halted'
               PROVE  retries'[h] = None /\ ~ToConnect(h)' /\ passed'[h] <= late'[h]
    BY DEF HaltInv
  <2>1. halted' \subseteq halted /\ UNCHANGED late
    BY <1>2, RestSteps DEF Connect, connectWithRetry, Reached, Deliver, fanoutSessionEvent,
       Cancel, teardown, CancelLayers, retryTeardown, Stopped, Exits, history
  <2>2. h \in Host /\ retries[h] = None /\ ~ToConnect(h) /\ passed[h] <= late[h]
    BY <1>0, <2>1 DEF HaltInv
  <2>3. ASSUME NEW k \in Host, connectWithRetry(k) \/ Connect(k) PROVE h # k
    BY <2>3 DEF connectWithRetry, Connect, Reached
  <2>4. retries'[h] = None /\ passed'[h] <= passed[h]
    <3>1. ASSUME NEW k \in Host, connectWithRetry(k) PROVE retries'[h] = None /\ UNCHANGED passed
      BY <1>0, <2>2, <2>3, <3>1 DEF connectWithRetry
    <3>2. ASSUME NEW k \in Host, TimerFires(k) \/ stillTracked(k) \/ CallbackConnects(k)
          PROVE  retries'[h] = None /\ passed'[h] <= passed[h]
      BY <1>0, <2>2, <3>2 DEF TimerFires, stillTracked, CallbackConnects, Tracked
    <3>3. CASE dispatchSessionEvent
      <4> DEFINE k == Head(events).host
      <4>1. /\ UNCHANGED passed
            /\ UNCHANGED retries \/ stopRetryFor(k) \/ (onSessionDownForRetry(k) /\ Tracked(k))
        BY <3>3 DEF dispatchSessionEvent, onConnected, onDisconnected, onSessionFailedEvent,
               onVersionMismatch, Books, retryVars, onSessionDownForRetry
      <4> QED
        BY <1>0, <2>2, <4>1 DEF stopRetryFor, onSessionDownForRetry, Tracked
    <3>4. CASE retryTeardown \/ UNCHANGED retryVars
      BY <1>0, <2>2, <3>4 DEF retryTeardown, retryVars
    <3> QED  BY <1>0, <1>2, <2>2, <3>1, <3>2, <3>3, <3>4, RetrySteps
  <2>5. ~ToConnect(h)'
    <3>1. ASSUME NEW k \in Host, calls(k) PROVE ~ToConnect(h)'
      <4>1. CASE Connect(k) \/ connectWithRetry(k)
        BY <2>2, <2>3, <4>1 DEF Connect, connectWithRetry, Calls, ToConnect
      <4>2. CASE sendMessage(k) \/ sendMessage(Self)
        BY <4>2 DEF sendMessage, Calls, ToConnect
      <4> QED  BY <1>2, <3>1, <4>1, <4>2 DEF calls
    <3>2. ASSUME NEW k \in Host, served(k) \/ SendFails(k) PROVE ~ToConnect(h)'
      BY <3>2 DEF served, ConnectServed, DisconnectServed, SendServed, SendFails, Returns,
                  ToConnect, Idle
    <3>3. CASE returns
      BY <3>3 DEF returns, CallAborted, LoopbackEnqueued, Returns, ToConnect, Idle
    <3>4. CASE Deliver \/ fanoutSessionEvent \/ processMessage \/ UNCHANGED protoVars
      BY <2>2, <3>4 DEF Deliver, fanoutSessionEvent, processMessage, protoVars, ToConnect
    <3> QED  BY <3>1, <3>2, <3>3, <3>4, ProtoSteps
  <2> QED
    <3>1. passed'[h] \in Nat /\ passed[h] \in Nat /\ late[h] \in Nat
      <4>1. passed' \in [Host -> Nat]
        BY RetryStep DEF RetryTypes
      <4> QED  BY <1>0, <2>2, <4>1
    <3> QED  BY <2>1, <2>2, <2>4, <2>5, <3>1
<1> QED  BY <1>1, <1>2

\* DisconnectHalts of Runtime: "a user-initiated disconnect halts further
\* reconnect attempts" (retry.go), but for the callbacks already past their
\* check of the table.
THEOREM DisconnectsHalt == Spec => DisconnectHalts
<1>1. Init => HaltInv
  BY DEF Init, HaltInv
<1>2. TypeOK /\ HaltInv /\ [Next]_vars => HaltInv'
  BY HaltStep
<1>3. ASSUME TypeOK, HaltInv, [Next]_vars
      PROVE  \A h \in halted : late[h] = 0 => ~(dial[h] = "Idle" /\ dial'[h] # "Idle")
  <2> SUFFICES ASSUME NEW h \in halted, late[h] = 0, dial[h] = "Idle", dial'[h] # "Idle"
               PROVE  FALSE
    OBVIOUS
  <2>1. /\ h \in Host /\ ~ToConnect(h) /\ passed[h] = 0
        /\ dial \in [Host -> {"Idle", "Handshaking", "Established"}]
    BY <1>3 DEF TypeOK, HaltInv
  <2>2. ASSUME NEW k \in Host, \/ HandshakeEnds(k) \/ DialLost(k) \/ SendFails(k)
                               \/ InboundArrives(k) \/ InboundLost(k) \/ MessageArrives(k)
                               \/ DisconnectServed(k)
        PROVE  FALSE
    BY <2>1, <2>2 DEF HandshakeEnds, DialLost, SendFails, InboundArrives, InboundLost,
       MessageArrives, DisconnectServed, Disconnects
  <2>3. ASSUME NEW k \in Host, ConnectServed(k) \/ CallbackConnects(k) PROVE FALSE
    <3>1. k = h
      BY <2>1, <2>3 DEF ConnectServed, CallbackConnects, connectClient, layerVars
    <3> QED  BY <2>1, <2>3, <3>1 DEF ConnectServed, CallbackConnects, ToConnect
  <2>4. CASE emitEvent \/ TakeMessage \/ dispatchSessionEvent \/ UNCHANGED layerVars
    BY <2>4 DEF emitEvent, TakeMessage, dispatchSessionEvent, layerVars
  <2> QED  BY <1>3, <2>2, <2>3, <2>4, LayerSteps
<1> QED  BY <1>1, <1>2, <1>3, TypeInvariance, PTL DEF Spec, DisconnectHalts
------------------------------------------------------------------------------
(* The table and the view follow the sessions. *)

\* An event that reports a session, or the end of one, of h.
Says(e, h) == e.type \in {"Connected", "Disconnected"} /\ e.host = h

\* The hosts of B, once e is taken in as far as it is about h.
After(e, h, B) ==
    IF ~Says(e, h) THEN B ELSE IF e.type = "Connected" THEN B \cup {h} ELSE B \ {h}

\* Who takes in the events of q, in their order, goes from B to R, as far as h is
\* concerned: the last event about h decides.
Leads(q, h, B, R) ==
    \/ /\ \A i \in 1 .. Len(q) : ~Says(q[i], h)
       /\ h \in B <=> h \in R
    \/ \E i \in 1 .. Len(q) :
          /\ Says(q[i], h)
          /\ q[i].type = "Connected" <=> h \in R
          /\ \A j \in 1 .. Len(q) : j > i => ~Says(q[j], h)

\* Without events nothing changes.
LEMMA LeadsNowhere == \A h, B, R : Leads(<<>>, h, B, R) <=> (h \in B <=> h \in R)
BY DEF Leads

\* The first event is taken in.
LEMMA LeadsTail ==
  ASSUME NEW E, NEW q \in Seq(E), q # <<>>, NEW h, NEW B, NEW R, Leads(q, h, B, R)
  PROVE  Leads(Tail(q), h, After(Head(q), h, B), R)
<1>1. /\ Len(q) \in Nat \ {0} /\ Head(q) = q[1] /\ Len(Tail(q)) = Len(q) - 1
      /\ \A i \in 1 .. Len(Tail(q)) : Tail(q)[i] = q[i + 1]
  OBVIOUS
<1>2. CASE \A i \in 1 .. Len(q) : ~Says(q[i], h)
  <2>1. h \in B <=> h \in R
    BY <1>2 DEF Leads
  <2>2. ~Says(Head(q), h) /\ \A i \in 1 .. Len(Tail(q)) : ~Says(Tail(q)[i], h)
    BY <1>1, <1>2
  <2> QED  BY <2>1, <2>2 DEF Leads, After
<1>3. ASSUME NEW i \in 1 .. Len(q), Says(q[i], h), q[i].type = "Connected" <=> h \in R,
             \A j \in 1 .. Len(q) : j > i => ~Says(q[j], h)
      PROVE  Leads(Tail(q), h, After(Head(q), h, B), R)
  <2>1. CASE i = 1
    <3>1. \A j \in 1 .. Len(Tail(q)) : ~Says(Tail(q)[j], h)
      BY <1>1, <1>3, <2>1
    <3>2. h \in After(Head(q), h, B) <=> h \in R
      BY <1>1, <1>3, <2>1 DEF After
    <3> QED  BY <3>1, <3>2 DEF Leads
  <2>2. CASE i # 1
    <3>1. i - 1 \in 1 .. Len(Tail(q)) /\ Tail(q)[i - 1] = q[i]
      BY <1>1, <2>2
    <3>2. \A j \in 1 .. Len(Tail(q)) : j > i - 1 => ~Says(Tail(q)[j], h)
      BY <1>1, <1>3
    <3> QED  BY <1>3, <3>1, <3>2 DEF Leads
  <2> QED  BY <2>1, <2>2
<1> QED  BY <1>2, <1>3 DEF Leads

\* An event is added.
LEMMA LeadsAppend ==
  ASSUME NEW E, NEW q \in Seq(E), NEW e, NEW h, NEW B, NEW M, NEW R,
         Leads(q, h, B, M), h \in After(e, h, M) <=> h \in R
  PROVE  Leads(Append(q, e), h, B, R)
<1> DEFINE p == Append(q, e)
<1>1. /\ Len(q) \in Nat /\ Len(p) = Len(q) + 1 /\ p[Len(p)] = e
      /\ \A i \in 1 .. Len(q) : p[i] = q[i] /\ i \in 1 .. Len(p)
  OBVIOUS
<1>2. \A i \in 1 .. Len(p) : i = Len(p) \/ i \in 1 .. Len(q)
  BY <1>1
<1> HIDE DEF p
<1>3. CASE Says(e, h)
  <2>1. e.type = "Connected" <=> h \in R
    BY <1>3 DEF After, Says
  <2>2. Len(p) \in 1 .. Len(p) /\ \A j \in 1 .. Len(p) : ~(j > Len(p))
    BY <1>1
  <2>3. Leads(p, h, B, R)
    BY <1>1, <1>3, <2>1, <2>2 DEF Leads
  <2> QED  BY <2>3 DEF p
<1>4. CASE ~Says(e, h)
  <2>1. h \in M <=> h \in R
    BY <1>4 DEF After
  <2>2. CASE \A i \in 1 .. Len(q) : ~Says(q[i], h)
    <3>1. \A i \in 1 .. Len(p) : ~Says(p[i], h)
      BY <1>1, <1>2, <1>4, <2>2
    <3>2. Leads(p, h, B, R)
      BY <2>1, <2>2, <3>1 DEF Leads
    <3> QED  BY <3>2 DEF p
  <2>3. ASSUME NEW i \in 1 .. Len(q), Says(q[i], h), q[i].type = "Connected" <=> h \in M,
               \A j \in 1 .. Len(q) : j > i => ~Says(q[j], h)
        PROVE  Leads(p, h, B, R)
    <3>1. i \in 1 .. Len(p) /\ p[i] = q[i]
      BY <1>1
    <3>2. \A j \in 1 .. Len(p) : j > i => ~Says(p[j], h)
      BY <1>1, <1>2, <1>4, <2>3
    <3> QED  BY <2>1, <2>3, <3>1, <3>2 DEF Leads
  <2>4. CASE \E i \in 1 .. Len(q) : Says(q[i], h)
    <3>1. PICK i \in 1 .. Len(q) :
             /\ Says(q[i], h) /\ (q[i].type = "Connected" <=> h \in M)
             /\ \A j \in 1 .. Len(q) : j > i => ~Says(q[j], h)
      BY <2>4 DEF Leads
    <3> QED  BY <2>3, <3>1 DEF p
  <2> QED  BY <2>2, <2>4
<1> QED  BY <1>3, <1>4

\* What the handler waits to put out, as a queue.
Out == IF handler = None THEN <<>> ELSE <<handler>>

UpHosts == {h \in Host : SessionUp(h)}

\* The reports under way lead the table to the sessions.
LayerNews(h) ==
    \E M \in SUBSET Host : Leads(events, h, established, M) /\ Leads(Out, h, M, UpHosts)

\* The events under way lead the protocol's view to the table.
ProtoNews(h) ==
    \E M \in SUBSET Host : Leads(mail, h, view, M) /\ Leads(pump, h, M, established)

NewsInv ==
    ~Cancelled =>
        /\ \A h \in Host \ blurred : ~(dial[h] # "Idle" /\ inbound[h]) /\ LayerNews(h)
        /\ policy \in {"block", "unbounded"} => \A h \in Host : ProtoNews(h)

\* What a queue leads to depends on the host alone.
LEMMA LeadsSame ==
  \A q, h, B, C, R : (h \in B <=> h \in C) /\ Leads(q, h, B, R) => Leads(q, h, C, R)
BY DEF Leads

\* Under a mailbox that drops nothing an event goes to the end of the queue.
LEMMA EnqueueAppends ==
  ASSUME NEW q, NEW e, NEW pol \in {"block", "unbounded"}
  PROVE  enqueueLocked(pol, q, e) = Append(q, e)
BY DEF enqueueLocked, Full

\* The mailbox and the view, step by step.
LEMMA MailNext ==
  ASSUME TypeOK, [Next]_vars, ~Cancelled, policy \in {"block", "unbounded"}, NEW h \in Host
  PROVE  \/ UNCHANGED <<mail, view>>
         \/ fanoutSessionEvent
         \/ /\ \E e \in ProtoEvent : mail' = Append(mail, e) /\ ~Says(e, h)
            /\ UNCHANGED <<view, pump, established>>
         \/ /\ mail # <<>> /\ mail' = Tail(mail) /\ UNCHANGED <<pump, established>>
            /\ h \in view' <=> h \in After(Head(mail), h, view)
<1>1. ASSUME NEW k \in Host, calls(k) \/ served(k) \/ SendFails(k)
      PROVE  UNCHANGED <<mail, view>>
  BY <1>1 DEF calls, served, Connect, connectWithRetry, disconnect, sendMessage,
     ConnectServed, DisconnectServed, SendServed, SendFails
<1>2. CASE CallAborted
  BY <1>2 DEF CallAborted
<1>3. CASE LoopbackEnqueued
  <2>1. [type |-> "Message", host |-> Self] \in ProtoEvent
    BY DEF ProtoEvent
  <2>2. mail' = Append(mail, [type |-> "Message", host |-> Self])
    BY <1>3, EnqueueAppends DEF LoopbackEnqueued, Enqueues
  <2> QED  BY <1>3, <2>1, <2>2 DEF LoopbackEnqueued, Says, pumpVars
<1>4. CASE processMessage
  <2>1. dispatcher \in ProtoEvent /\ ~Says(dispatcher, h)
    BY <1>4 DEF processMessage, TypeOK, SessionMessage, ProtoEvent, Says
  <2>2. mail' = Append(mail, dispatcher)
    BY <1>4, EnqueueAppends DEF processMessage, Enqueues
  <2> QED  BY <1>4, <2>1, <2>2 DEF processMessage
<1>5. CASE Deliver
  <2>1. mail # <<>> /\ mail' = Tail(mail) /\ UNCHANGED <<pump, established>>
    BY <1>5 DEF Deliver, pumpVars
  <2>2. view' = CASE Head(mail).type = "Connected"    -> view \cup {Head(mail).host}
                  [] Head(mail).type = "Disconnected" -> view \ {Head(mail).host}
                  [] OTHER                            -> view
    BY <1>5 DEF Deliver
  <2>3. h \in view' <=> h \in After(Head(mail), h, view)
    BY <2>2 DEF After, Says
  <2> QED  BY <2>1, <2>3
<1> QED  BY <1>1, <1>2, <1>3, <1>4, <1>5, ProtoSteps DEF returns, protoVars

\* What the pump does with a report.
LEMMA Dispatched ==
  ASSUME TypeOK, dispatchSessionEvent, NEW h \in Host
  PROVE  /\ h \in established' <=> h \in After(Head(events), h, established)
         /\ Leads(pump', h, established, established')
<1> DEFINE e == Head(events)
           Same == h \in established' <=> h \in established
<1>0. pump = <<>>
  BY DEF dispatchSessionEvent
<1>1. \A t, k : Fanout(t, k) = <<[type |-> t, host |-> k]>>
  BY DEF Fanout
<1>2. ASSUME NEW t, NEW R, NEW B, h \in After([type |-> t, host |-> e.host], h, B) <=> h \in R
      PROVE  Leads(Fanout(t, e.host), h, B, R)
  <2> DEFINE x == [type |-> t, host |-> e.host]
  <2>1. Leads(<<>>, h, B, B) /\ <<>> \in Seq({})
    BY LeadsNowhere
  <2>2. Fanout(t, e.host) = Append(<<>>, x)
    BY <1>1
  <2> HIDE DEF x
  <2>3. Leads(Append(<<>>, x), h, B, R)
    BY <1>2, <2>1, LeadsAppend DEF x
  <2> QED  BY <2>2, <2>3
<1>3. ASSUME NEW t \in {"GivenUp", "Failed"}, Same
      PROVE  Leads(Fanout(t, e.host), h, established, established')
  <2>1. After([type |-> t, host |-> e.host], h, established) = established
    BY DEF After, Says
  <2> QED  BY <1>2, <1>3, <2>1
<1>4. CASE e.type = "Connected" /\ onConnected(e.host)
  <2>1. established' = established \cup {e.host} /\ pump' = Fanout("Connected", e.host)
    BY <1>4 DEF onConnected, markEstablished
  <2>2. h \in established' <=> h \in After(e, h, established)
    BY <1>4, <2>1 DEF After, Says
  <2>3. h \in established' <=> h \in After([type |-> "Connected", host |-> e.host], h, established)
    BY <2>1 DEF After, Says
  <2> QED  BY <1>2, <2>1, <2>2, <2>3
<1>5. CASE e.type = "Disconnected" /\ onDisconnected(e.host)
  <2> DEFINE p == IF GivesUp(e.host) THEN Fanout("GivenUp", e.host) ELSE <<>>
             x == [type |-> "Disconnected", host |-> e.host]
  <2>1. /\ established' = established \ {e.host}
        /\ pump' = p \o Fanout("Disconnected", e.host)
    BY <1>5 DEF onDisconnected, markDisconnected
  <2>2. h \in established' <=> h \in After(e, h, established)
    BY <1>5, <2>1 DEF After, Says
  <2>3. h \in established' <=> h \in After(x, h, established)
    BY <2>1 DEF After, Says
  <2>4. Leads(p, h, established, established)
    <3>1. Leads(<<>>, h, established, established)
      BY LeadsNowhere
    <3>2. After([type |-> "GivenUp", host |-> e.host], h, established) = established
      BY DEF After, Says
    <3> QED  BY <1>2, <3>1, <3>2
  <2>5. p = <<>> \/ p = <<[type |-> "GivenUp", host |-> e.host]>>
    BY <1>1
  <2>6. p \in Seq({[type |-> "GivenUp", host |-> e.host]}) /\ pump' = Append(p, x)
    <3>1. pump' = p \o <<x>>
      BY <1>1, <2>1
    <3> DEFINE g == [type |-> "GivenUp", host |-> e.host]
    <3>2. p = <<>> \/ p = <<g>>
      BY <2>5
    <3> HIDE DEF p, x, g
    <3>3. CASE p = <<>>
      <4>1. <<>> \in Seq({g}) /\ <<>> \o <<x>> = Append(<<>>, x)
        OBVIOUS
      <4> QED  BY <3>1, <3>3, <4>1 DEF g
    <3>4. CASE p = <<g>>
      <4>1. <<g>> \in Seq({g}) /\ <<g>> \o <<x>> = Append(<<g>>, x)
        OBVIOUS
      <4> QED  BY <3>1, <3>4, <4>1 DEF g
    <3> QED  BY <3>2, <3>3, <3>4
  <2> HIDE DEF p, x
  <2>7. Leads(pump', h, established, established')
    BY <2>3, <2>4, <2>6, LeadsAppend
  <2> QED  BY <2>2, <2>7
<1>6. CASE e.type = "Failed" /\ onSessionFailedEvent(e.host)
  <2>1. Same /\ After(e, h, established) = established
    BY <1>6 DEF onSessionFailedEvent, After, Says
  <2>2. Leads(<<>>, h, established, established')
    BY <2>1, LeadsNowhere
  <2> QED  BY <1>3, <1>6, <2>1, <2>2 DEF onSessionFailedEvent
<1>7. CASE e.type = "Mismatch" /\ onVersionMismatch(e.host)
  <2>1. Same /\ After(e, h, established) = established
    BY <1>7 DEF onVersionMismatch, After, Says
  <2> QED  BY <1>3, <1>7, <2>1 DEF onVersionMismatch
<1>8. CASE e.type = "MismatchInbound" /\ UNCHANGED <<established, pump>>
  <2>1. Same /\ After(e, h, established) = established
    BY <1>8 DEF After, Says
  <2>2. Leads(<<>>, h, established, established')
    BY <2>1, LeadsNowhere
  <2> QED  BY <1>0, <1>8, <2>1, <2>2
<1> QED  BY <1>4, <1>5, <1>6, <1>7, <1>8 DEF dispatchSessionEvent

\* ProtoNews is kept while the runtime runs.
LEMMA ProtoNewsStep ==
  ASSUME TypeOK, [Next]_vars, ~Cancelled, policy \in {"block", "unbounded"},
         NEW h \in Host, ProtoNews(h)
  PROVE  ProtoNews(h)'
<1>0. /\ mail \in Seq(ProtoEvent) /\ pump \in Seq(ProtoEvent)
      /\ view \subseteq Host /\ established \subseteq Host
  BY DEF TypeOK
<1>1. PICK M \in SUBSET Host : Leads(mail, h, view, M) /\ Leads(pump, h, M, established)
  BY DEF ProtoNews
<1>2. CASE fanoutSessionEvent
  <2> DEFINE N == After(Head(pump), h, M)
  <2>1. /\ pump # <<>> /\ pump' = Tail(pump) /\ mail' = Append(mail, Head(pump))
        /\ UNCHANGED <<view, established>>
    BY <1>2, EnqueueAppends DEF fanoutSessionEvent, Enqueues
  <2>2. N \in SUBSET Host
    BY DEF After
  <2>3. Leads(pump', h, N, established)
    BY <1>0, <1>1, <2>1, LeadsTail
  <2>4. Leads(mail', h, view, N)
    BY <1>0, <1>1, <2>1, LeadsAppend
  <2> HIDE DEF N
  <2> QED  BY <2>1, <2>2, <2>3, <2>4 DEF ProtoNews
<1>3. CASE dispatchSessionEvent
  <2>1. UNCHANGED <<mail, view>> /\ pump = <<>>
    BY <1>3 DEF dispatchSessionEvent, protoVars
  <2>2. h \in M <=> h \in established
    BY <1>1, <2>1, LeadsNowhere
  <2>3. Leads(pump', h, M, established')
    BY <1>3, <2>2, Dispatched, LeadsSame
  <2> QED  BY <1>1, <2>1, <2>3 DEF ProtoNews
<1>4. CASE UNCHANGED <<pump, established>>
  <2>1. CASE UNCHANGED <<mail, view>>
    BY <1>1, <1>4, <2>1 DEF ProtoNews
  <2>2. ASSUME NEW e \in ProtoEvent, mail' = Append(mail, e), ~Says(e, h), UNCHANGED view
        PROVE  ProtoNews(h)'
    <3>1. After(e, h, M) = M
      BY <2>2 DEF After
    <3>2. Leads(mail', h, view, M)
      BY <1>0, <1>1, <2>2, <3>1, LeadsAppend
    <3> QED  BY <1>1, <1>4, <2>2, <3>2 DEF ProtoNews
  <2>3. CASE /\ mail # <<>> /\ mail' = Tail(mail)
             /\ h \in view' <=> h \in After(Head(mail), h, view)
    <3>1. Leads(mail', h, After(Head(mail), h, view), M)
      BY <1>0, <1>1, <2>3, LeadsTail
    <3>2. Leads(mail', h, view', M)
      BY <2>3, <3>1, LeadsSame
    <3> QED  BY <1>1, <1>4, <3>2 DEF ProtoNews
  <2> QED  BY <1>2, <2>1, <2>2, <2>3, MailNext
<1>5. CASE TakeMessage \/ processMessage
  BY <1>4, <1>5 DEF TakeMessage, processMessage
<1> QED  BY <1>2, <1>3, <1>4, <1>5, PumpSteps DEF pumpVars

\* What the session layer puts out tells how many sessions of a host there are.
LEMMA LayerNext ==
  ASSUME TypeOK, [Next]_vars, [Blurs]_<<vars, blurred>>, ~LayersCancelled,
         NEW h \in Host \ blurred', ~(dial[h] # "Idle" /\ inbound[h])
  PROVE  /\ h \notin blurred /\ ~(dial'[h] # "Idle" /\ inbound'[h])
         /\ \/ /\ handler = None /\ handler' \in SessionEvent \cup SessionMessage
               /\ h \in UpHosts' <=> h \in After(handler', h, UpHosts)
               /\ UNCHANGED <<events, established>>
            \/ emitEvent
            \/ dispatchSessionEvent
            \/ UNCHANGED <<handler, events, established>> /\ (h \in UpHosts' <=> h \in UpHosts)
<1>0. /\ dial \in [Host -> {"Idle", "Handshaking", "Established"}]
      /\ inbound \in [Host -> BOOLEAN]
  BY DEF TypeOK
<1> DEFINE Told == /\ handler = None /\ handler' \in SessionEvent \cup SessionMessage
                   /\ h \in UpHosts' <=> h \in After(handler', h, UpHosts)
                   /\ UNCHANGED <<events, established>>
           Quiet == UNCHANGED <<handler, events, established>>
                    /\ (h \in UpHosts' <=> h \in UpHosts)
<1>1. /\ h \notin blurred /\ ~(dial'[h] # "Idle" /\ inbound'[h])
      /\ Ended(h) => handler' = [type |-> "Disconnected", host |-> h]
  <2>1. CASE Blurs
    BY <2>1 DEF Blurs
  <2>2. CASE UNCHANGED <<vars, blurred>>
    BY <2>2 DEF vars, layerVars, Ended
  <2> QED  BY <2>1, <2>2
<1>2. /\ h \in UpHosts <=> dial[h] = "Established" \/ inbound[h]
      /\ h \in UpHosts' <=> dial'[h] = "Established" \/ inbound'[h]
  BY DEF UpHosts, SessionUp
<1>3. ASSUME NEW k \in Host, HandshakeEnds(k) PROVE Told
  <2>0. handler = None /\ UNCHANGED <<events, established, inbound>>
    BY <1>3 DEF HandshakeEnds, HandlerFree, pumpVars
  <2>1. CASE dial'= [dial EXCEPT ![k] = "Established"] /\ Puts("Connected", k)
    <3>1. handler' \in SessionEvent
      BY <2>1 DEF Puts, SessionEvent
    <3>2. h \in UpHosts' <=> h \in After(handler', h, UpHosts)
      BY <1>0, <1>2, <2>0, <2>1 DEF Puts, After, Says
    <3> QED  BY <2>0, <3>1, <3>2
  <2>2. ASSUME dial'= [dial EXCEPT ![k] = "Idle"], NEW t \in {"Failed", "Mismatch"}, Puts(t, k),
               dial[k] = "Handshaking"
        PROVE  Told
    <3>1. handler' \in SessionEvent
      BY <2>2 DEF Puts, SessionEvent
    <3>2. h \in UpHosts' <=> h \in After(handler', h, UpHosts)
      BY <1>0, <1>2, <2>0, <2>2 DEF Puts, After, Says
    <3> QED  BY <2>0, <3>1, <3>2
  <2> QED  BY <1>3, <2>1, <2>2 DEF HandshakeEnds
<1>4. ASSUME NEW k \in Host, DialLost(k) PROVE Told
  <2>1. /\ handler = None /\ UNCHANGED <<events, established, inbound>>
        /\ dial[k] # "Idle" /\ dial' = [dial EXCEPT ![k] = "Idle"]
        /\ handler' = [type |-> "Disconnected", host |-> k]
    BY <1>4 DEF DialLost, HandlerFree, pumpVars, Puts
  <2>2. handler' \in SessionEvent
    BY <2>1 DEF SessionEvent
  <2>3. h \in UpHosts' <=> h \in After(handler', h, UpHosts)
    <3>1. CASE k = h
      <4>1. ~inbound[h] /\ ~inbound'[h] /\ dial'[h] = "Idle"
        BY <1>0, <2>1, <3>1
      <4>2. h \notin After(handler', h, UpHosts)
        BY <2>1, <3>1 DEF After, Says
      <4> QED  BY <1>2, <4>1, <4>2
    <3>2. CASE k # h
      <4>1. dial'[h] = dial[h] /\ After(handler', h, UpHosts) = UpHosts
        BY <1>0, <2>1, <3>2 DEF After, Says
      <4> QED  BY <1>2, <2>1, <4>1
    <3> QED  BY <3>1, <3>2
  <2> QED  BY <2>1, <2>2, <2>3
<1>5. ASSUME NEW k \in Host, InboundArrives(k) PROVE Told
  <2>0. handler = None /\ UNCHANGED <<events, established, dial>>
    BY <1>5 DEF InboundArrives, HandlerFree, pumpVars
  <2>1. CASE /\ inbound' = [inbound EXCEPT ![k] = TRUE]
             /\ handler' = [type |-> "Connected", host |-> k]
    <3>1. handler' \in SessionEvent
      BY <2>1 DEF SessionEvent
    <3>2. h \in UpHosts' <=> h \in After(handler', h, UpHosts)
      <4>1. CASE k = h
        BY <1>0, <1>2, <2>1, <4>1 DEF After, Says
      <4>2. CASE k # h
        BY <1>0, <1>2, <2>0, <2>1, <4>2 DEF After, Says
      <4> QED  BY <4>1, <4>2
    <3> QED  BY <2>0, <3>1, <3>2
  <2>2. CASE UNCHANGED inbound /\ handler' = [type |-> "MismatchInbound", host |-> Address]
    <3>1. handler' \in SessionEvent
      BY <2>2 DEF SessionEvent
    <3>2. After(handler', h, UpHosts) = UpHosts
      BY <2>2 DEF After, Says
    <3> QED  BY <1>2, <2>0, <2>2, <3>1, <3>2
  <2> QED  BY <1>5, <2>1, <2>2 DEF InboundArrives, Puts
<1>6. ASSUME NEW k \in Host, InboundLost(k) PROVE Told
  <2>1. /\ handler = None /\ UNCHANGED <<events, established, dial>>
        /\ inbound[k] /\ inbound' = [inbound EXCEPT ![k] = FALSE]
        /\ handler'.type = "Disconnected" /\ handler'.host \in {Address, k}
        /\ handler' \in SessionEvent
    BY <1>6 DEF InboundLost, HandlerFree, pumpVars, Puts, SessionEvent
  <2>2. h \in UpHosts' <=> h \in After(handler', h, UpHosts)
    <3>1. CASE k = h
      <4>1. Ended(h)
        BY <1>0, <2>1, <3>1 DEF Ended
      <4>2. handler' = [type |-> "Disconnected", host |-> h]
        BY <1>1, <4>1
      <4>3. dial'[h] = "Idle" /\ ~inbound'[h]
        BY <1>0, <2>1, <3>1
      <4>4. h \notin After(handler', h, UpHosts)
        BY <4>2 DEF After, Says
      <4> QED  BY <1>2, <4>3, <4>4
    <3>2. CASE k # h
      <4>1. inbound'[h] = inbound[h] /\ handler'.host # h
        BY <1>0, <2>1, <3>2, RuntimeAssumption
      <4>2. After(handler', h, UpHosts) = UpHosts
        BY <4>1 DEF After, Says
      <4> QED  BY <1>2, <2>1, <4>1, <4>2
    <3> QED  BY <3>1, <3>2
  <2> QED  BY <2>1, <2>2
<1>7. ASSUME NEW k \in Host, MessageArrives(k) PROVE Told
  <2>1. /\ handler = None /\ UNCHANGED <<events, established, dial, inbound>>
        /\ handler' = [type |-> "Message", host |-> k]
    BY <1>7 DEF MessageArrives, HandlerFree, pumpVars, Puts
  <2>2. handler' \in SessionMessage /\ After(handler', h, UpHosts) = UpHosts
    BY <2>1 DEF SessionMessage, After, Says
  <2> QED  BY <1>2, <2>1, <2>2
<1>8. ASSUME NEW k \in Host, SendFails(k) PROVE Told
  <2>1. /\ handler = None /\ UNCHANGED <<events, established>>
        /\ handler' = [type |-> "Failed", host |-> k]
        /\ \/ dial' = [dial EXCEPT ![k] = "Idle"] /\ UNCHANGED inbound
           \/ inbound' = [inbound EXCEPT ![k] = FALSE] /\ UNCHANGED dial
    BY <1>8 DEF SendFails, HandlerFree, pumpVars, Puts
  <2>2. handler' \in SessionEvent /\ After(handler', h, UpHosts) = UpHosts
    BY <2>1 DEF SessionEvent, After, Says
  <2>3. ~Ended(h)
    BY <1>1, <2>1
  <2>4. h \in UpHosts' <=> h \in UpHosts
    BY <1>0, <1>2, <2>1, <2>3 DEF Ended
  <2> QED  BY <2>1, <2>2, <2>4
<1>9. ASSUME NEW k \in Host, connectClient(k), UNCHANGED established PROVE Quiet
  <2>1. /\ dial' = [dial EXCEPT ![k] = IF @ = "Idle" THEN "Handshaking" ELSE @]
        /\ UNCHANGED <<inbound, handler, events>>
    BY <1>9 DEF connectClient
  <2>2. dial'[h] = "Established" <=> dial[h] = "Established"
    BY <1>0, <2>1
  <2> QED  BY <1>2, <1>9, <2>1, <2>2
<1>10. ASSUME UNCHANGED <<dial, inbound, handler, events, established>> PROVE Quiet
  BY <1>2, <1>10
<1>11. UNCHANGED established \/ dispatchSessionEvent
  BY PumpSteps DEF fanoutSessionEvent, TakeMessage, processMessage, pumpVars
<1>12. ASSUME NEW k \in Host, ConnectServed(k) \/ DisconnectServed(k) \/ CallbackConnects(k)
       PROVE  Quiet
  <2>1. UNCHANGED established
    BY <1>12 DEF ConnectServed, DisconnectServed, CallbackConnects, pumpVars
  <2>2. connectClient(k) \/ UNCHANGED <<dial, inbound, handler, events>>
    BY <1>12 DEF ConnectServed, DisconnectServed, CallbackConnects, Disconnects
  <2> HIDE DEF Quiet
  <2> QED  BY <1>9, <1>10, <2>1, <2>2
<1>13. ASSUME TakeMessage \/ (UNCHANGED layerVars /\ UNCHANGED established)
       PROVE  Quiet
  <2>1. UNCHANGED <<dial, inbound, handler, events, established>>
    BY <1>13 DEF TakeMessage, layerVars
  <2> HIDE DEF Quiet
  <2> QED  BY <1>10, <2>1
<1> HIDE DEF Told, Quiet
<1>14. Told \/ emitEvent \/ dispatchSessionEvent \/ Quiet
  BY <1>3, <1>4, <1>5, <1>6, <1>7, <1>8, <1>11, <1>12, <1>13, LayerSteps
<1> QED  BY <1>1, <1>14 DEF Told, Quiet

\* LayerNews is kept while the runtime runs.
LEMMA LayerNewsStep ==
  ASSUME TypeOK, [Next]_vars, [Blurs]_<<vars, blurred>>, ~LayersCancelled,
         NEW h \in Host \ blurred', ~(dial[h] # "Idle" /\ inbound[h]), LayerNews(h)
  PROVE  LayerNews(h)'
<1>0. /\ events \in Seq(SessionEvent) /\ established \subseteq Host
      /\ handler \in SessionEvent \cup SessionMessage \cup {None}
      /\ None \notin SessionEvent \cup SessionMessage /\ UpHosts' \in SUBSET Host
  BY RuntimeAssumption DEF TypeOK, UpHosts
<1>1. PICK M \in SUBSET Host : Leads(events, h, established, M) /\ Leads(Out, h, M, UpHosts)
  BY DEF LayerNews
<1>2. \A e : e # None => <<>> \in Seq({}) /\ <<e>> = Append(<<>>, e)
  OBVIOUS
<1>3. CASE /\ handler = None /\ handler' \in SessionEvent \cup SessionMessage
           /\ h \in UpHosts' <=> h \in After(handler', h, UpHosts)
           /\ UNCHANGED <<events, established>>
  <2>1. Leads(<<>>, h, M, UpHosts)
    BY <1>1, <1>3 DEF Out
  <2>2. Leads(Append(<<>>, handler'), h, M, UpHosts')
    <3>1. <<>> \in Seq({})
      OBVIOUS
    <3> QED  BY <1>3, <2>1, <3>1, LeadsAppend
  <2>3. Out' = Append(<<>>, handler')
    BY <1>0, <1>3 DEF Out
  <2> QED  BY <1>1, <1>3, <2>2, <2>3 DEF LayerNews
<1>4. CASE emitEvent
  <2> DEFINE N == After(handler, h, M)
  <2>1. /\ handler # None /\ handler' = None /\ UNCHANGED <<dial, inbound, established>>
        /\ \/ handler.type = "Message" /\ UNCHANGED events
           \/ handler.type # "Message" /\ events' = Append(events, handler)
    BY <1>4 DEF emitEvent, pumpVars
  <2>2. N \in SUBSET Host /\ (handler.type = "Message" => N = M)
    BY DEF After, Says
  <2>3. UpHosts' = UpHosts
    BY <2>1 DEF UpHosts, SessionUp
  <2>4. Leads(Out', h, N, UpHosts)
    <3>1. Out = <<handler>> /\ <<handler>> \in Seq({handler}) /\ <<handler>> # <<>>
      BY <2>1 DEF Out
    <3>2. Head(<<handler>>) = handler /\ Tail(<<handler>>) = <<>>
      OBVIOUS
    <3>3. Leads(<<handler>>, h, M, UpHosts)
      BY <1>1, <3>1
    <3>4. Leads(Tail(<<handler>>), h, After(Head(<<handler>>), h, M), UpHosts)
      BY <3>1, <3>3, LeadsTail
    <3> QED  BY <2>1, <3>2, <3>4 DEF Out
  <2>5. Leads(events', h, established, N)
    <3>1. CASE handler.type = "Message"
      BY <1>1, <2>1, <2>2, <3>1
    <3>2. CASE handler.type # "Message"
      <4>1. Leads(Append(events, handler), h, established, N)
        BY <1>0, <1>1, LeadsAppend
      <4> QED  BY <2>1, <3>2, <4>1
    <3> QED  BY <3>1, <3>2
  <2> HIDE DEF N
  <2> QED  BY <2>1, <2>2, <2>3, <2>4, <2>5 DEF LayerNews
<1>5. CASE dispatchSessionEvent
  <2>1. events # <<>> /\ events' = Tail(events) /\ UNCHANGED <<dial, inbound, handler>>
    BY <1>5 DEF dispatchSessionEvent
  <2>2. Leads(events', h, After(Head(events), h, established), M)
    BY <1>0, <1>1, <2>1, LeadsTail
  <2>3. Leads(events', h, established', M)
    BY <1>5, <2>2, Dispatched, LeadsSame
  <2>4. Out' = Out /\ UpHosts' = UpHosts
    BY <2>1 DEF Out, UpHosts, SessionUp
  <2> QED  BY <1>1, <2>3, <2>4 DEF LayerNews
<1>6. CASE UNCHANGED <<handler, events, established>> /\ (h \in UpHosts' <=> h \in UpHosts)
  <2>1. Out' = Out
    BY <1>6 DEF Out
  <2>2. Leads(Out, h, M, UpHosts')
    BY <1>1, <1>6 DEF Leads
  <2> QED  BY <1>1, <1>6, <2>1, <2>2 DEF LayerNews
<1> QED  BY <1>3, <1>4, <1>5, <1>6, LayerNext

\* onConnected, onDisconnected and deliverSessionEvent: the runtime's table of
\* peers and the protocol's view follow the sessions, whatever the order of
\* dials, calls, losses and deliveries, unless a host's reports are ambiguous.
THEOREM PeersAreKnown == RecordedSpec => []PeersKnown
<1>1. Init /\ blurred = {} => NewsInv
  <2> SUFFICES ASSUME Init, blurred = {} PROVE NewsInv
    OBVIOUS
  <2>1. ASSUME NEW h \in Host
        PROVE  /\ ~(dial[h] # "Idle" /\ inbound[h])
               /\ h \notin UpHosts /\ h \notin established /\ h \notin view
    BY <2>1 DEF Init, UpHosts, SessionUp
  <2>2. events = <<>> /\ mail = <<>> /\ pump = <<>> /\ Out = <<>>
    BY DEF Init, Out
  <2>3. ASSUME NEW h \in Host PROVE LayerNews(h) /\ ProtoNews(h)
    <3>1. /\ Leads(<<>>, h, established, {}) /\ Leads(<<>>, h, {}, UpHosts)
          /\ Leads(<<>>, h, view, {}) /\ Leads(<<>>, h, {}, established)
      BY <2>1, LeadsNowhere
    <3> QED  BY <2>2, <3>1 DEF LayerNews, ProtoNews
  <2> QED  BY <2>1, <2>3 DEF NewsInv
<1>2. ASSUME TypeOK, NewsInv, [Next]_vars, [Blurs]_<<vars, blurred>>
      PROVE  NewsInv'
  <2> SUFFICES ASSUME ~Cancelled'
               PROVE  /\ \A h \in Host \ blurred' : ~(dial'[h] # "Idle" /\ inbound'[h]) /\ LayerNews(h)'
                      /\ policy' \in {"block", "unbounded"} => \A h \in Host : ProtoNews(h)'
    BY DEF NewsInv
  <2>1. ~Cancelled /\ ~LayersCancelled
    BY <1>2, CancelledBefore
  <2>2. ASSUME NEW h \in Host \ blurred'
        PROVE  ~(dial'[h] # "Idle" /\ inbound'[h]) /\ LayerNews(h)'
    <3>1. h \notin blurred
      BY <1>2 DEF Blurs
    <3>2. ~(dial[h] # "Idle" /\ inbound[h]) /\ LayerNews(h)
      BY <1>2, <2>1, <3>1 DEF NewsInv
    <3> QED  BY <1>2, <2>1, <3>2, LayerNext, LayerNewsStep
  <2>3. UNCHANGED policy
    BY <1>2, RestSteps DEF Connect, connectWithRetry, disconnect, Deliver, fanoutSessionEvent,
       Cancel, teardown, CancelLayers, retryTeardown, Stopped, Exits
  <2>4. ASSUME policy' \in {"block", "unbounded"}, NEW h \in Host PROVE ProtoNews(h)'
    <3>1. policy \in {"block", "unbounded"} /\ ProtoNews(h)
      BY <1>2, <2>1, <2>3, <2>4 DEF NewsInv
    <3> QED  BY <1>2, <2>1, <3>1, ProtoNewsStep
  <2> QED  BY <2>2, <2>4
<1>3. TypeOK /\ NewsInv => PeersKnown
  <2> SUFFICES ASSUME NewsInv, Settled, policy \in {"block", "unbounded"},
                      NEW h \in Host \ blurred
               PROVE  /\ h \in established <=> SessionUp(h)
                      /\ h \in view <=> SessionUp(h)
    BY DEF PeersKnown
  <2>1. LayerNews(h) /\ ProtoNews(h)
    BY DEF NewsInv, Settled
  <2>2. events = <<>> /\ mail = <<>> /\ pump = <<>> /\ Out = <<>>
    BY DEF Settled, Out
  <2>3. h \in established <=> h \in UpHosts
    BY <2>1, <2>2, LeadsNowhere DEF LayerNews
  <2>4. h \in view <=> h \in established
    BY <2>1, <2>2, LeadsNowhere DEF ProtoNews
  <2> QED  BY <2>3, <2>4 DEF UpHosts
<1> QED  BY <1>1, <1>2, <1>3, TypeInvariance, PTL DEF RecordedSpec, Spec
==============================================================================
