------------------------------- MODULE Runtime -------------------------------
(****************************************************************************)
(* What the runtime does with sessions (pkg/protorun/runtime.go, retry.go,  *)
(* message.go): a protocol's event loop calls Connect, ConnectWithRetry,    *)
(* Disconnect and Send; retry timers call Connect; the session pump books   *)
(* what the session layer reports and fans it out; the message dispatcher   *)
(* routes what peers send; a shutdown stops them.                           *)
(*                                                                          *)
(* The session layer is one goroutine (its handler) that serves requests    *)
(* handed over on unbuffered channels and puts events and messages into     *)
(* bounded ones, as seen through the Sessions interface of sessions.go; its *)
(* handshakes are modelled in SessionLayer.  One protocol is registered.    *)
(****************************************************************************)
EXTENDS Overflow, Functions

CONSTANTS
    Host,         \* the peers
    None,
    Policies,     \* overflow policies of the protocol's mailbox considered
    MaxAttempts,  \* RetryPolicy.MaxAttempts, not 0 (unbounded)
    EventsBuf,    \* buffer of outChannelEvents
    MsgsBuf       \* buffer of outMessages

\* An ephemeral address, which names no host.
Address == "address"

Self == "self"

SessionEvent ==
    [type : {"Connected", "Disconnected", "Failed", "Mismatch"}, host : Host]
        \cup [type : {"Disconnected", "MismatchInbound"}, host : {Address}]

SessionMessage == [type : {"Message"}, host : Host]

ProtoEvent ==
    [type : {"Connected", "Disconnected", "Failed", "GivenUp"}, host : Host]
        \cup [type : {"Disconnected"}, host : {Address}]
        \cup [type : {"Message"}, host : Host \cup {Self}]

RetryState ==
    [attempt : 0 .. MaxAttempts - 1, timer : {"none", "armed", "fired"}]

ASSUME RuntimeAssumption ==
    /\ Policies \subseteq OverflowPolicy
    /\ {MaxAttempts, EventsBuf, MsgsBuf} \subseteq Nat \ {0}
    /\ Host \cap {None, Address, Self} = {}
    /\ None \notin SessionEvent \cup SessionMessage \cup RetryState

VARIABLES
    policy,
    dial,         \* per host: the session this node dials
    inbound,      \* per host: whether a session the host dialed is up
    hung,         \* per host: the sessions the transport is told to drop
    route,        \* per host: the session that carries what is sent to it
    handler,      \* what the session handler waits to put out
    events, messages,   \* outChannelEvents, outMessages
    retries,      \* connectionRetries: failed attempts and the backoff timer
    fired, passed,      \* per host: timer callbacks before and after their check
    established,
    pump,         \* what the session pump has yet to enqueue
    dispatcher,   \* what the message dispatcher has yet to enqueue
    mail,
    call,         \* the call the event loop is in
    view,         \* the sessions the protocol was told of
    shutdown,     \* how far teardown has come
    alive,        \* the goroutines that run
    awaiting, halted, late  \* history: hosts whose ConnectWithRetry has no
                  \* outcome yet, whose last call was Disconnect, and how many
                  \* timer callbacks were past their check at that moment

layerVars == <<dial, inbound, hung, route, handler, events, messages>>
retryVars == <<retries, fired, passed>>
pumpVars  == <<established, pump, dispatcher>>
protoVars == <<mail, call, view>>
stopVars  == <<shutdown, alive>>
history   == <<awaiting, halted, late>>
vars == <<policy, layerVars, retryVars, pumpVars, protoVars, stopVars, history>>

Idle == [op |-> "idle", host |-> None]

Init ==
    /\ policy \in Policies
    /\ dial = [h \in Host |-> "Idle"]
    /\ inbound = [h \in Host |-> FALSE]
    /\ hung = [h \in Host |-> {}]
    /\ route = [h \in Host |-> "none"]
    /\ handler = None
    /\ events = <<>> /\ messages = <<>>
    /\ retries = [h \in Host |-> None]
    /\ fired = [h \in Host |-> 0]
    /\ passed = [h \in Host |-> 0]
    /\ established = {}
    /\ pump = <<>>
    /\ dispatcher = None
    /\ mail = <<>>
    /\ call = Idle
    /\ view = {}
    /\ shutdown = "running"
    /\ alive = {"handler", "pump", "dispatcher", "loop"}
    /\ awaiting = {}
    /\ halted = {}
    /\ late = [h \in Host |-> 0]
------------------------------------------------------------------------------
(* The session layer, as the runtime sees it. *)

\* r.ctx and the session layer's context are cancelled one after the other.
Cancelled == shutdown # "running"

LayersCancelled == shutdown \in {"layers", "torn", "stopped"}

HandlerFree == "handler" \in alive /\ handler = None

Puts(type, h) == handler' = [type |-> type, host |-> h]

SessionUp(h) == dial[h] = "Established" \/ inbound[h]

Reroute(h, r) == route' = [route EXCEPT ![h] = r]

\* connectClient: ignored unless the session is idle, failed or closing.
connectClient(h) ==
    /\ HandlerFree
    /\ dial' = [dial EXCEPT ![h] = IF @ = "Idle" THEN "Handshaking" ELSE @]
    /\ UNCHANGED <<inbound, hung, route, handler, events, messages>>

\* disconnect: the transport is told to drop the session the host is reached
\* by, and the binding of its address goes.
Disconnects(h) ==
    LET s == IF route[h] = "inbound" THEN "inbound" ELSE "dial" IN
    /\ HandlerFree
    /\ hung' = [hung EXCEPT ![h] =
                   IF s = "inbound" \/ dial[h] # "Idle" THEN @ \cup {s} ELSE @]
    /\ Reroute(h, "none")
    /\ UNCHANGED <<dial, inbound, handler, events, messages>>

\* The handshake of a dial ends: Ack, failure or timeout, Reject.
HandshakeEnds(h) ==
    /\ HandlerFree
    /\ dial[h] = "Handshaking"
    /\ \/ /\ dial' = [dial EXCEPT ![h] = "Established"]
          /\ Reroute(h, "dial")
          /\ Puts("Connected", h)
          /\ UNCHANGED hung
       \/ /\ dial' = [dial EXCEPT ![h] = "Idle"]
          /\ hung' = [hung EXCEPT ![h] = @ \ {"dial"}]
          /\ \E type \in {"Failed", "Mismatch"} : Puts(type, h)
          /\ UNCHANGED route
    /\ UNCHANGED <<inbound, events, messages, retryVars, pumpVars, protoVars,
                   stopVars, policy, history>>

\* The connection of a dialed session is gone.
DialLost(h) ==
    /\ HandlerFree
    /\ dial[h] # "Idle"
    /\ dial' = [dial EXCEPT ![h] = "Idle"]
    /\ hung' = [hung EXCEPT ![h] = @ \ {"dial"}]
    /\ IF route[h] = "dial" THEN Reroute(h, "none") ELSE UNCHANGED route
    /\ Puts("Disconnected", h)
    /\ UNCHANGED <<inbound, events, messages, retryVars, pumpVars, protoVars,
                   stopVars, policy, history>>

\* A host dials this node: its Hello is accepted, or its version is refused.
InboundArrives(h) ==
    /\ HandlerFree
    /\ ~inbound[h]
    /\ \/ /\ inbound' = [inbound EXCEPT ![h] = TRUE]
          /\ Reroute(h, "inbound")
          /\ Puts("Connected", h)
       \/ /\ Puts("MismatchInbound", Address)
          /\ UNCHANGED <<inbound, route>>
    /\ UNCHANGED <<dial, hung, events, messages, retryVars, pumpVars, protoVars,
                   stopVars, policy, history>>

\* Its connection is gone.  After a local disconnect the address is unbound,
\* and the report names the address.
InboundLost(h) ==
    /\ HandlerFree
    /\ inbound[h]
    /\ inbound' = [inbound EXCEPT ![h] = FALSE]
    /\ hung' = [hung EXCEPT ![h] = @ \ {"inbound"}]
    /\ IF route[h] = "inbound" THEN Reroute(h, "none") ELSE UNCHANGED route
    /\ Puts("Disconnected", IF "inbound" \in hung[h] THEN Address ELSE h)
    /\ UNCHANGED <<dial, events, messages, retryVars, pumpVars, protoVars,
                   stopVars, policy, history>>

\* A peer's application message arrives.
MessageArrives(h) ==
    /\ HandlerFree
    /\ SessionUp(h)
    /\ Puts("Message", h)
    /\ UNCHANGED <<dial, inbound, hung, route, events, messages, retryVars,
                   pumpVars, protoVars, stopVars, policy, history>>

\* emitEvent, and its counterpart for messages: wait for room, or give up when
\* the layer is cancelled.
emitEvent ==
    /\ "handler" \in alive
    /\ handler # None
    /\ handler' = None
    /\ \/ /\ handler.type = "Message"
          /\ Len(messages) < MsgsBuf
          /\ messages' = Append(messages, handler)
          /\ UNCHANGED events
       \/ /\ handler.type # "Message"
          /\ Len(events) < EventsBuf
          /\ events' = Append(events, handler)
          /\ UNCHANGED messages
       \/ /\ LayersCancelled
          /\ UNCHANGED <<events, messages>>
    /\ UNCHANGED <<dial, inbound, hung, route, retryVars, pumpVars, protoVars,
                   stopVars, policy, history>>
------------------------------------------------------------------------------
(* The protocol's calls. *)

Returns == call' = Idle

\* connect and disconnect return an error once the runtime is cancelled.
Calls(op, h) ==
    IF Cancelled /\ op \in {"connect", "disconnect"}
    THEN UNCHANGED call
    ELSE call' = [op |-> op, host |-> h]

Reached(h) == halted' = halted \ {h}

\* The loop is in a handler, which calls one thing.
LoopIdle == "loop" \in alive /\ call = Idle

Connect(h) ==
    /\ LoopIdle
    /\ Calls("connect", h)
    /\ Reached(h)
    /\ UNCHANGED <<policy, layerVars, retryVars, pumpVars, mail, view, stopVars,
                   awaiting, late>>

\* connectWithRetry: register the intent, unless there is one, then connect.
connectWithRetry(h) ==
    /\ LoopIdle
    /\ Reached(h)
    /\ IF retries[h] # None
       THEN UNCHANGED <<retries, call, awaiting>>
       ELSE /\ retries' = [retries EXCEPT ![h] = [attempt |-> 0, timer |-> "none"]]
            /\ Calls("connect", h)
            /\ awaiting' = awaiting \cup {h}
    /\ UNCHANGED <<policy, layerVars, fired, passed, pumpVars, mail, view, stopVars,
                   late>>

\* stopRetryFor, giveUpRetryNow and onSessionUpForRetry drop the schedule and
\* stop its timer; a timer that has fired cannot be stopped.
stopRetryFor(h) == retries' = [retries EXCEPT ![h] = None]

\* disconnect: drop the schedule, then the session.
disconnect(h) ==
    /\ LoopIdle
    /\ stopRetryFor(h)
    /\ Calls("disconnect", h)
    /\ halted' = halted \cup {h}
    /\ late' = [late EXCEPT ![h] = passed[h]]
    /\ awaiting' = awaiting \ {h}
    /\ UNCHANGED <<policy, layerVars, fired, passed, pumpVars, mail, view, stopVars>>

\* sendMessage: to a peer through the session layer, to the node itself
\* through processMessage.
sendMessage(to) ==
    /\ LoopIdle
    /\ Calls(IF to = Self THEN "loopback" ELSE "send", to)
    /\ UNCHANGED <<policy, layerVars, retryVars, pumpVars, mail, view, stopVars,
                   history>>

\* The handler takes the request: the call returns.
ConnectServed(h) ==
    /\ call = [op |-> "connect", host |-> h]
    /\ connectClient(h)
    /\ Returns
    /\ UNCHANGED <<policy, retryVars, pumpVars, mail, view, stopVars, history>>

DisconnectServed(h) ==
    /\ call = [op |-> "disconnect", host |-> h]
    /\ Disconnects(h)
    /\ Returns
    /\ UNCHANGED <<policy, retryVars, pumpVars, mail, view, stopVars, history>>

\* send: a message without a session is dropped.
SendServed(h) ==
    /\ call = [op |-> "send", host |-> h]
    /\ HandlerFree
    /\ Returns
    /\ UNCHANGED <<policy, layerVars, retryVars, pumpVars, mail, view, stopVars,
                   history>>

\* A write that fails ends the session it was for, reported as failed.
SendFails(h) ==
    /\ call = [op |-> "send", host |-> h]
    /\ HandlerFree
    /\ route[h] # "none"
    /\ IF route[h] = "dial"
       THEN dial' = [dial EXCEPT ![h] = "Idle"] /\ UNCHANGED inbound
       ELSE inbound' = [inbound EXCEPT ![h] = FALSE] /\ UNCHANGED dial
    /\ hung' = [hung EXCEPT ![h] = @ \ {route[h]}]
    /\ Reroute(h, "none")
    /\ Puts("Failed", h)
    /\ Returns
    /\ UNCHANGED <<policy, events, messages, retryVars, pumpVars, mail, view,
                   stopVars, history>>

\* A call that waits for the session layer returns when the layer is cancelled.
CallAborted ==
    /\ call.op \in {"connect", "disconnect", "send"}
    /\ LayersCancelled
    /\ Returns
    /\ UNCHANGED <<policy, layerVars, retryVars, pumpVars, mail, view, stopVars,
                   history>>
------------------------------------------------------------------------------
(* The mailbox. *)

\* Mutant: every policy waits for room.
HasRoomAlways == Len(mail) < Capacity

HasRoom == policy = "block" => Len(mail) < Capacity

Enqueues(e) == mail' = enqueueLocked(policy, mail, e)

\* enqueue of a loopback message: the loop waits for room that it alone makes.
LoopbackEnqueued ==
    /\ call.op = "loopback"
    /\ \/ /\ HasRoom
          /\ Enqueues([type |-> "Message", host |-> Self])
       \/ /\ policy = "block" /\ Cancelled
          /\ UNCHANGED mail
    /\ Returns
    /\ UNCHANGED <<policy, layerVars, retryVars, pumpVars, view, stopVars, history>>

\* deliverSessionEvent, or the handler of a message.
Deliver ==
    LET e == Head(mail) IN
    /\ LoopIdle
    /\ mail # <<>>
    /\ mail' = Tail(mail)
    /\ view' = CASE e.type = "Connected"    -> view \cup {e.host}
                 [] e.type = "Disconnected" -> view \ {e.host}
                 [] OTHER                   -> view
    /\ awaiting' = IF e.type \in {"Connected", "GivenUp"}
                   THEN awaiting \ {e.host} ELSE awaiting
    /\ UNCHANGED <<policy, layerVars, retryVars, pumpVars, call, stopVars, halted,
                   late>>
------------------------------------------------------------------------------
(* The session pump. *)

Fanout(type, h) == <<[type |-> type, host |-> h]>>

Tracked(h) == h \in Host /\ retries[h] # None

\* Mutant: the schedule is kept, but no timer is armed.
onSessionDownUnarmed(h) ==
    /\ retries' =
         [retries EXCEPT ![h] =
            IF @.attempt + 1 >= MaxAttempts
            THEN None
            ELSE [attempt |-> @.attempt + 1, timer |-> "none"]]
    /\ UNCHANGED <<fired, passed>>

\* Mutant: attempts are not counted.
onSessionDownUncounted(h) ==
    /\ retries' = [retries EXCEPT ![h] = [attempt |-> 0, timer |-> "armed"]]
    /\ UNCHANGED <<fired, passed>>

\* onSessionDownForRetry of a tracked host: one more attempt failed; give up,
\* or stop the old timer and arm the next.
onSessionDownForRetry(h) ==
    /\ retries' =
         [retries EXCEPT ![h] =
            IF @.attempt + 1 >= MaxAttempts
            THEN None
            ELSE [attempt |-> @.attempt + 1, timer |-> "armed"]]
    /\ UNCHANGED <<fired, passed>>

GivesUp(h) == Tracked(h) /\ retries[h].attempt + 1 >= MaxAttempts

Books(h) ==
    IF Tracked(h) THEN onSessionDownForRetry(h) ELSE UNCHANGED retryVars

markEstablished(h) == established' = established \cup {h}

\* Mutant: a lost session stays in the set.
markDisconnectedNot(h) == UNCHANGED established

markDisconnected(h) == established' = established \ {h}

onConnected(h) ==
    /\ markEstablished(h)
    /\ IF Tracked(h) THEN stopRetryFor(h) ELSE UNCHANGED retries
    /\ UNCHANGED <<fired, passed>>
    /\ pump' = Fanout("Connected", h)

onDisconnected(h) ==
    /\ markDisconnected(h)
    /\ Books(h)
    /\ pump' = (IF GivesUp(h) THEN Fanout("GivenUp", h) ELSE <<>>)
               \o Fanout("Disconnected", h)

\* onSessionFailedEvent: a failure under a schedule is the schedule's alone.
onSessionFailedEvent(h) ==
    /\ Books(h)
    /\ pump' = IF GivesUp(h) THEN Fanout("GivenUp", h)
               ELSE IF Tracked(h) THEN <<>>
               ELSE Fanout("Failed", h)
    /\ UNCHANGED established

\* A rejected dial ends the schedule at once; a rejected peer is logged.
onVersionMismatch(h) ==
    /\ IF Tracked(h) THEN stopRetryFor(h) ELSE UNCHANGED retries
    /\ pump' = Fanout("GivenUp", h)
    /\ UNCHANGED <<fired, passed, established>>

dispatchSessionEvent ==
    LET e == Head(events) IN
    /\ "pump" \in alive
    /\ pump = <<>>
    /\ events # <<>>
    /\ events' = Tail(events)
    /\ \/ e.type = "Connected" /\ onConnected(e.host)
       \/ e.type = "Disconnected" /\ onDisconnected(e.host)
       \/ e.type = "Failed" /\ onSessionFailedEvent(e.host)
       \/ e.type = "Mismatch" /\ onVersionMismatch(e.host)
       \/ e.type = "MismatchInbound" /\ UNCHANGED <<retryVars, established, pump>>
    /\ UNCHANGED <<policy, dial, inbound, hung, route, handler, messages, dispatcher,
                   protoVars, stopVars, history>>

\* fanoutSessionEvent: into the protocol's mailbox; a cancelled push ends the
\* pump.
fanoutSessionEvent ==
    /\ "pump" \in alive
    /\ pump # <<>>
    /\ \/ /\ HasRoom
          /\ Enqueues(Head(pump))
          /\ pump' = Tail(pump)
          /\ UNCHANGED alive
       \/ /\ policy = "block" /\ Cancelled
          /\ pump' = <<>>
          /\ alive' = alive \ {"pump"}
          /\ UNCHANGED mail
    /\ UNCHANGED <<policy, layerVars, retryVars, established, dispatcher, call, view,
                   shutdown, history>>
------------------------------------------------------------------------------
(* The message dispatcher. *)

TakeMessage ==
    /\ "dispatcher" \in alive
    /\ dispatcher = None
    /\ messages # <<>>
    /\ dispatcher' = Head(messages)
    /\ messages' = Tail(messages)
    /\ UNCHANGED <<policy, dial, inbound, hung, route, handler, events, retryVars,
                   established, pump, protoVars, stopVars, history>>

processMessage ==
    /\ "dispatcher" \in alive
    /\ dispatcher # None
    /\ \/ HasRoom /\ Enqueues(dispatcher)
       \/ policy = "block" /\ Cancelled /\ UNCHANGED mail
    /\ dispatcher' = None
    /\ UNCHANGED <<policy, layerVars, retryVars, established, pump, call, view,
                   stopVars, history>>
------------------------------------------------------------------------------
(* Retry timers. *)

TimerFires(h) ==
    /\ Tracked(h)
    /\ retries[h].timer = "armed"
    /\ retries' = [retries EXCEPT ![h].timer = "fired"]
    /\ fired' = [fired EXCEPT ![h] = @ + 1]
    /\ UNCHANGED <<policy, layerVars, passed, pumpVars, protoVars, stopVars, history>>

\* Mutant: the callback does not look at the table.
stillTrackedUnchecked(h) ==
    /\ fired[h] > 0
    /\ fired' = [fired EXCEPT ![h] = @ - 1]
    /\ passed' = [passed EXCEPT ![h] = IF ~Cancelled THEN @ + 1 ELSE @]
    /\ UNCHANGED <<policy, layerVars, retries, pumpVars, protoVars, stopVars, history>>

\* The callback goes on only while the host is tracked and the runtime runs.
stillTracked(h) ==
    /\ fired[h] > 0
    /\ fired' = [fired EXCEPT ![h] = @ - 1]
    /\ passed' = [passed EXCEPT ![h] = IF Tracked(h) /\ ~Cancelled THEN @ + 1 ELSE @]
    /\ UNCHANGED <<policy, layerVars, retries, pumpVars, protoVars, stopVars, history>>

\* connect: the handler takes the request, or the layer is cancelled.
CallbackConnects(h) ==
    /\ passed[h] > 0
    /\ passed' = [passed EXCEPT ![h] = @ - 1]
    /\ \/ connectClient(h)
       \/ LayersCancelled /\ UNCHANGED layerVars
    /\ UNCHANGED <<policy, retries, fired, pumpVars, protoVars, stopVars, history>>
------------------------------------------------------------------------------
(* teardown. *)

Cancel ==
    /\ shutdown = "running"
    /\ shutdown' = "ctx"
    /\ UNCHANGED <<policy, layerVars, retryVars, pumpVars, protoVars, alive, history>>

CancelLayers ==
    /\ shutdown = "ctx"
    /\ shutdown' = "layers"
    /\ UNCHANGED <<policy, layerVars, retryVars, pumpVars, protoVars, alive, history>>

retryTeardown ==
    /\ shutdown = "layers"
    /\ shutdown' = "torn"
    /\ retries' = [h \in Host |-> None]
    /\ UNCHANGED <<policy, layerVars, fired, passed, pumpVars, protoVars, alive,
                   history>>

\* wg.Wait covers the pump, the dispatcher and the event loop.
Stopped ==
    /\ shutdown = "torn"
    /\ alive \subseteq {"handler"}
    /\ shutdown' = "stopped"
    /\ UNCHANGED <<policy, layerVars, retryVars, pumpVars, protoVars, alive, history>>

\* A goroutine leaves from its select; a deque is emptied first.
Exits(g) ==
    /\ g \in alive
    /\ \/ g = "handler" /\ handler = None /\ LayersCancelled
       \/ g = "pump" /\ pump = <<>> /\ Cancelled
       \/ g = "dispatcher" /\ dispatcher = None /\ Cancelled
       \/ g = "loop" /\ call = Idle /\ Cancelled /\ (policy # "block" => mail = <<>>)
    /\ alive' = alive \ {g}
    /\ UNCHANGED <<policy, layerVars, retryVars, pumpVars, protoVars, shutdown, history>>

teardown == CancelLayers \/ retryTeardown \/ Stopped
------------------------------------------------------------------------------
\* What the handler serves, and where its dials lead by themselves.
layer(h) ==
    \/ HandshakeEnds(h)
    \/ "dial" \in hung[h] /\ DialLost(h)
    \/ "inbound" \in hung[h] /\ InboundLost(h)

calls(h) ==
    \/ Connect(h) \/ connectWithRetry(h) \/ disconnect(h)
    \/ sendMessage(h) \/ sendMessage(Self)

served(h) == ConnectServed(h) \/ DisconnectServed(h) \/ SendServed(h)

retry(h) == TimerFires(h) \/ stillTracked(h) \/ CallbackConnects(h)

faults(h) ==
    \/ {} = hung[h] \cap {"dial"} /\ DialLost(h)
    \/ {} = hung[h] \cap {"inbound"} /\ InboundLost(h)
    \/ SendFails(h)

sessionPump == dispatchSessionEvent \/ fanoutSessionEvent

messageDispatcher == TakeMessage \/ processMessage

returns == CallAborted \/ LoopbackEnqueued

Next ==
    \/ \E h \in Host : layer(h) \/ calls(h) \/ served(h) \/ retry(h) \/ faults(h)
    \/ \E h \in Host : InboundArrives(h) \/ MessageArrives(h)
    \/ emitEvent \/ returns \/ Deliver
    \/ sessionPump \/ messageDispatcher
    \/ Cancel \/ teardown
    \/ \E g \in {"handler", "pump", "dispatcher", "loop"} : Exits(g)

Spec == Init /\ [][Next]_vars

\* Goroutines are scheduled, timers fire and handshakes end (they are bounded
\* by a timeout); calls, faults, peers and shutdown are under no obligation.
Fairness ==
    /\ \A h \in Host :
        /\ WF_vars(layer(h)) /\ WF_vars(served(h))
        /\ WF_vars(TimerFires(h)) /\ WF_vars(stillTracked(h))
        /\ WF_vars(CallbackConnects(h))
    /\ WF_vars(emitEvent) /\ WF_vars(returns) /\ WF_vars(Deliver)
    /\ WF_vars(sessionPump) /\ WF_vars(messageDispatcher)
    /\ WF_vars(teardown)
    /\ \A g \in {"handler", "pump", "dispatcher", "loop"} : WF_vars(Exits(g))
------------------------------------------------------------------------------
(* A history, beside the state, of which hosts' reports tell how many sessions *)
(* there are.                                                                *)

VARIABLE blurred  \* hosts that had two connections at once, or a session whose
                  \* end was not reported as the loss of that host

Ended(h) ==
    \/ dial[h] = "Established" /\ dial'[h] # "Established"
    \/ inbound[h] /\ ~inbound'[h]

Blurs ==
    blurred' = blurred \cup
        {h \in Host :
            \/ dial'[h] # "Idle" /\ inbound'[h]
            \/ Ended(h) /\ handler' # [type |-> "Disconnected", host |-> h]}

RecordedSpec == Spec /\ blurred = {} /\ [][Blurs]_<<vars, blurred>>
------------------------------------------------------------------------------
TypeOK ==
    /\ policy \in Policies
    /\ dial \in [Host -> {"Idle", "Handshaking", "Established"}]
    /\ inbound \in [Host -> BOOLEAN]
    /\ hung \in [Host -> SUBSET {"dial", "inbound"}]
    /\ route \in [Host -> {"none", "dial", "inbound"}]
    /\ handler \in SessionEvent \cup SessionMessage \cup {None}
    /\ events \in Seq(SessionEvent) /\ messages \in Seq(SessionMessage)
    /\ retries \in [Host -> RetryState \cup {None}]
    /\ fired \in [Host -> Nat] /\ passed \in [Host -> Nat] /\ late \in [Host -> Nat]
    /\ established \subseteq Host
    /\ pump \in Seq(ProtoEvent) /\ mail \in Seq(ProtoEvent)
    /\ dispatcher \in SessionMessage \cup {None}
    /\ call \in {Idle} \cup [op : {"connect", "disconnect", "send"}, host : Host]
             \cup [op : {"loopback"}, host : {Self}]
    /\ view \subseteq Host
    /\ shutdown \in {"running", "ctx", "layers", "torn", "stopped"}
    /\ alive \subseteq {"handler", "pump", "dispatcher", "loop"}
    /\ awaiting \subseteq Host /\ halted \subseteq Host

\* Something will still move the schedule of h: a timer or its callback, the
\* call that opened it, a dial or a session whose end is reported, a report
\* on its way to the pump.
Moving(h) ==
    \/ retries[h].timer = "armed" \/ fired[h] > 0 \/ passed[h] > 0
    \/ call = [op |-> "connect", host |-> h]
    \/ dial[h] # "Idle"
    \/ \E e \in Range(events) \cup {handler} :
          e # None /\ e.host = h /\ e.type # "Message"

\* A schedule is never forgotten: whatever the order of reports, timers, calls
\* and disconnects, a tracked host has something under way that leads to the
\* next attempt, to the session or to giving up.
NoStrandedRetry == TypeOK /\ (~Cancelled => \A h \in Host : Tracked(h) => Moving(h))

Settled ==
    /\ ~Cancelled
    /\ handler = None /\ events = <<>> /\ pump = <<>> /\ mail = <<>>

\* The runtime's table of peers, which a restarted protocol is told from, and
\* what the protocol was told agree with the sessions there are, once every
\* report is delivered by a mailbox that drops nothing.
PeersKnown ==
    Settled /\ policy \in {"block", "unbounded"} =>
        \A h \in Host \ blurred :
            /\ h \in established <=> SessionUp(h)
            /\ h \in view <=> SessionUp(h)

\* "a user-initiated disconnect halts further reconnect attempts": after
\* Disconnect the runtime dials the host again only for a timer callback that
\* was already past its check.
DisconnectHalts ==
    [][\A h \in halted : late[h] = 0 =>
          ~(dial[h] = "Idle" /\ dial'[h] # "Idle")]_vars

\* A ConnectWithRetry has an outcome: the protocol is told of a session or of
\* giving up, unless it disconnects, the session was up all along, or the
\* mailbox may drop what it is told.
OutcomeTold ==
    \A h \in Host :
        h \in awaiting /\ policy = "unbounded"
            ~> h \notin awaiting \/ SessionUp(h) \/ Cancelled

\* A protocol's call returns, whatever else the runtime is doing.
CallsReturn == call # Idle ~> call = Idle

\* Nobody waits for ever: with the mailboxes that never make a producer wait a
\* call returns, and with any mailbox a shutdown ends, though the goroutines it
\* awaits may be waiting for each other.
NobodyWaits ==
    /\ policy # "block" /\ call # Idle ~> call = Idle
    /\ shutdown = "ctx" ~> shutdown = "stopped"
==============================================================================
