---------------------------- MODULE SessionLayer ----------------------------
(****************************************************************************)
(* The session layer of pkg/transport/session.go over either transport: a      *)
(* handshake binds the address of a connection to the logical host of the    *)
(* peer, and the runtime is told of sessions by logical host.                *)
(*                                                                          *)
(* One handler goroutine per node selects, in no fixed order, among frames,  *)
(* connection events, the runtime's requests and handshake timeouts; each    *)
(* action below is one such step.                                            *)
(****************************************************************************)
EXTENDS QUICLayer

CONSTANT Versions  \* the wire-format versions of the builds in use

VARIABLES
    version,      \* the ProtocolVersion of each node
    sessions,     \* per node and address: state and logical host of a session
    armed,        \* per node: addresses whose handshake timer can be stopped
    expired,      \* per node and address: timers that can no longer be stopped
    transportToLogical, logicalToTransport,
    reported,     \* per node: the hosts whose session was last reported up
    accepted      \* history: <<n, h>> when n has accepted a Hello of h

stateVars   == <<version, sessions>>
timerVars   == <<armed, expired>>
mappingVars == <<transportToLogical, logicalToTransport>>
vars == <<transport, tcpVars, stateVars, timerVars, mappingVars, reported, accepted>>

SessionFrame ==
    [type : {"Hello"}, version : Versions, host : Node]
    \cup [type : {"Reject"}, version : Versions]
    \cup [type : {"Ack", "Application"}]

\* The transports carry the frames of this layer.
ASSUME FrameAssumption == Frame = SessionFrame

State == {"Idle", "HandshakingClient", "HandshakingServer", "Established", "Failed",
          "Closing"}

Init ==
    /\ TCPInit
    /\ transport \in {"tcp", "quic"}
    /\ version \in [Node -> Versions]
    /\ sessions = [n \in Node |-> [a \in Address |-> [state |-> "Idle", host |-> None]]]
    /\ armed = [n \in Node |-> {}]
    /\ expired = [n \in Node |-> [a \in Address |-> 0]]
    /\ transportToLogical = [n \in Node |-> [a \in Address |-> None]]
    /\ logicalToTransport = [n \in Node |-> [h \in Node |-> None]]
    /\ reported = [n \in Node |-> {}]
    /\ accepted = {}
------------------------------------------------------------------------------
(* Pieces of the handlers. *)

In(n, a, states) == sessions[n][a].state \in states

\* withSession: an entry is created idle; a logical host, when given, is kept.
Moves(n, a, state) == sessions' = [sessions EXCEPT ![n][a].state = state]

Binds(n, a, state, h) ==
    sessions' = [sessions EXCEPT ![n][a] = [state |-> state, host |-> h]]

\* The transport is asked, in order.
Asks(n, cmds) == commands' = [commands EXCEPT ![n] = @ \o cmds]

Dial(a) == [op |-> "connect", peer |-> a]

Hangup(a) == [op |-> "disconnect", peer |-> a]

Sends(a, f) == [op |-> "send", peer |-> a, frame |-> f]

\* emitEvent, as far as the runtime then knows of a session with the host.
emitEvent(n, type, host) ==
    reported' = [reported EXCEPT ![n] =
                   IF type = "SessionConnected" THEN @ \cup {host} ELSE @ \ {host}]

logicalFor(n, a) == IF transportToLogical[n][a] # None THEN transportToLogical[n][a] ELSE a

resolveUnderlyingHost(n, h) ==
    IF logicalToTransport[n][h] # None THEN logicalToTransport[n][h] ELSE h

setServerMapping(n, a, h) ==
    /\ transportToLogical' = [transportToLogical EXCEPT ![n][a] = h]
    /\ logicalToTransport' = [logicalToTransport EXCEPT ![n][h] = a]

\* Mutant: the route of the host outlives the binding of the address.
cleanupBindingOnly(n, a) ==
    /\ transportToLogical' = [transportToLogical EXCEPT ![n][a] = None]
    /\ UNCHANGED logicalToTransport

cleanupServerMapping(n, a) ==
    LET h == transportToLogical[n][a] IN
    IF h = None
    THEN UNCHANGED mappingVars
    ELSE /\ transportToLogical' = [transportToLogical EXCEPT ![n][a] = None]
         /\ logicalToTransport' = [logicalToTransport EXCEPT ![n][h] = None]

stopHandshakeTimer(n, a) ==
    /\ armed' = [armed EXCEPT ![n] = @ \ {a}]
    /\ UNCHANGED expired

\* Mutant: the wait for the peer's answer is not bounded.
armNothing(n, a) == UNCHANGED <<armed, expired>>

\* A timer that is armed over another leaves that one running.
armHandshakeTimer(n, a) ==
    /\ armed' = [armed EXCEPT ![n] = @ \cup {a}]
    /\ expired' = [expired EXCEPT ![n][a] = IF a \in armed[n] THEN @ + 1 ELSE @]

\* The step leaves everything of the transport alone but its commands, and the
\* channel it was taken from.
EventTaken(n) ==
    /\ outEvents' = [outEvents EXCEPT ![n] = Tail(@)]
    /\ UNCHANGED <<dialed, open, backlog, active, reader, wire, outChannel>>

FrameTaken(n) ==
    /\ outChannel' = [outChannel EXCEPT ![n] = Tail(@)]
    /\ UNCHANGED <<dialed, open, backlog, active, reader, wire, outEvents>>

NothingTaken == UNCHANGED <<dialed, open, backlog, active, reader, wire, outChannel,
                            outEvents>>
------------------------------------------------------------------------------
(* Requests of the runtime. *)

\* Connect: ignored but in these states; the logical host is kept in any.
connectClient(n, h) ==
    /\ IF In(n, h, {"Idle", "Failed", "Closing"})
       THEN Binds(n, h, "HandshakingClient", h) /\ Asks(n, <<Dial(h)>>)
       ELSE Binds(n, h, sessions[n][h].state, h) /\ UNCHANGED commands
    /\ NothingTaken
    /\ UNCHANGED <<version, timerVars, mappingVars, reported, accepted>>

\* Disconnect: the mapping goes at once, the state when the transport reports.
disconnectHost(n, h) ==
    LET a == resolveUnderlyingHost(n, h) IN
    /\ Asks(n, <<Hangup(a)>>)
    /\ cleanupServerMapping(n, a)
    /\ NothingTaken
    /\ UNCHANGED <<stateVars, timerVars, reported, accepted>>

sendTo(n, h) ==
    /\ Asks(n, <<Sends(resolveUnderlyingHost(n, h), [type |-> "Application"])>>)
    /\ NothingTaken
    /\ UNCHANGED <<stateVars, timerVars, mappingVars, reported, accepted>>
------------------------------------------------------------------------------
(* Connection events. *)

Signalled(n, type) == outEvents[n] # <<>> /\ Head(outEvents[n]).type = type

\* Mutant: the dialer takes the session for established once its Hello is sent.
handleConnectedEagerly(n) ==
    LET a == Head(outEvents[n]).peer
        hello == [type |-> "Hello", version |-> version[n], host |-> n]
    IN  /\ Signalled(n, "Connected")
        /\ EventTaken(n)
        /\ IF In(n, a, {"HandshakingClient"})
           THEN Asks(n, <<Sends(a, hello)>>) /\ Moves(n, a, "Established")
           ELSE Moves(n, a, "HandshakingServer") /\ UNCHANGED commands
        /\ UNCHANGED <<version, timerVars, mappingVars, reported, accepted>>

\* A dialer sends its Hello and bounds the wait for the answer; on an idle
\* session the connection is an inbound one; in any other state it is a race.
handleConnected(n) ==
    LET a == Head(outEvents[n]).peer
        hello == [type |-> "Hello", version |-> version[n], host |-> n]
    IN  /\ Signalled(n, "Connected")
        /\ EventTaken(n)
        /\ \/ /\ In(n, a, {"HandshakingClient"})
              /\ Asks(n, <<Sends(a, hello)>>)
              /\ armHandshakeTimer(n, a)
              /\ UNCHANGED sessions
           \/ /\ In(n, a, {"Idle"})
              /\ Moves(n, a, "HandshakingServer")
              /\ UNCHANGED <<commands, timerVars>>
           \/ /\ In(n, a, State \ {"HandshakingClient", "Idle"})
              /\ UNCHANGED <<sessions, commands, timerVars>>
        /\ UNCHANGED <<version, mappingVars, reported, accepted>>

Live == {"Established", "HandshakingClient", "HandshakingServer"}

\* The loss of a live session is reported under the name the mapping has.
handleDisconnected(n) ==
    LET a == Head(outEvents[n]).peer IN
    /\ Signalled(n, "Disconnected")
    /\ EventTaken(n)
    /\ stopHandshakeTimer(n, a)
    /\ IF In(n, a, Live)
       THEN /\ Moves(n, a, "Closing")
            /\ emitEvent(n, "SessionDisconnected", logicalFor(n, a))
            /\ cleanupServerMapping(n, a)
       ELSE /\ Moves(n, a, "Failed")
            /\ UNCHANGED <<reported, mappingVars>>
    /\ UNCHANGED <<version, commands, accepted>>

handleFailed(n) ==
    LET a == Head(outEvents[n]).peer IN
    /\ Signalled(n, "Failed")
    /\ EventTaken(n)
    /\ stopHandshakeTimer(n, a)
    /\ emitEvent(n, "SessionFailed", logicalFor(n, a))
    /\ cleanupServerMapping(n, a)
    /\ Moves(n, a, "Failed")
    /\ UNCHANGED <<version, commands, accepted>>
------------------------------------------------------------------------------
(* Frames. *)

\* A handshake frame on an idle session starts the server's side of it, the
\* connection's own event being still on its way.
Handshakes(n, type, states) ==
    /\ outChannel[n] # <<>>
    /\ Head(outChannel[n]).frame.type = type
    /\ In(n, Head(outChannel[n]).peer,
          IF "HandshakingServer" \in states THEN states \cup {"Idle"} ELSE states)

SameVersion(n) == Head(outChannel[n]).frame.version = version[n]

\* handleServerHandshake: the Hello's host is bound and acknowledged.
handleServerHandshake(n) ==
    LET a == Head(outChannel[n]).peer
        h == Head(outChannel[n]).frame.host
    IN  /\ Handshakes(n, "Hello", {"HandshakingServer"})
        /\ SameVersion(n)
        /\ FrameTaken(n)
        /\ Asks(n, <<Sends(a, [type |-> "Ack"])>>)
        /\ Binds(n, a, "Established", h)
        /\ setServerMapping(n, a, h)
        /\ emitEvent(n, "SessionConnected", h)
        /\ accepted' = accepted \cup {<<n, h>>}
        /\ UNCHANGED <<version, timerVars>>

\* rejectHandshake: a Hello of another version, in whatever state.
rejectHandshake(n) ==
    LET a == Head(outChannel[n]).peer
        host == IF sessions[n][a].host # None THEN sessions[n][a].host ELSE a
    IN  /\ Handshakes(n, "Hello", State)
        /\ ~SameVersion(n)
        /\ FrameTaken(n)
        /\ Asks(n, <<Sends(a, [type |-> "Reject", version |-> version[n]]), Hangup(a)>>)
        /\ Moves(n, a, "Failed")
        /\ emitEvent(n, "SessionVersionMismatch", host)
        /\ UNCHANGED <<version, timerVars, mappingVars, accepted>>

\* handleClientHandshake, Ack: the session is established.
handleAck(n) ==
    LET a == Head(outChannel[n]).peer
        h == sessions[n][a].host
    IN  /\ Handshakes(n, "Ack", {"HandshakingClient"})
        /\ FrameTaken(n)
        /\ stopHandshakeTimer(n, a)
        /\ Moves(n, a, "Established")
        /\ setServerMapping(n, a, h)
        /\ emitEvent(n, "SessionConnected", h)
        /\ UNCHANGED <<version, commands, accepted>>

\* handleClientHandshake, Reject: the peer speaks another version.
handleReject(n) ==
    LET a == Head(outChannel[n]).peer
        h == sessions[n][a].host
    IN  /\ Handshakes(n, "Reject", {"HandshakingClient"})
        /\ FrameTaken(n)
        /\ stopHandshakeTimer(n, a)
        /\ Moves(n, a, "Failed")
        /\ emitEvent(n, "SessionVersionMismatch", h)
        /\ Asks(n, <<Hangup(a)>>)
        /\ UNCHANGED <<version, mappingVars, accepted>>

\* A handshake frame in any other state is dropped, and so is the runtime's
\* concern with an application frame here: it is handed over as it is.
handleUnexpected(n) ==
    LET m == Head(outChannel[n]) IN
    /\ outChannel[n] # <<>>
    /\ \/ m.frame.type = "Application"
       \/ m.frame.type = "Hello" /\ SameVersion(n)
            /\ ~In(n, m.peer, {"Idle", "HandshakingServer"})
       \/ m.frame.type \in {"Ack", "Reject"} /\ ~In(n, m.peer, {"HandshakingClient"})
    /\ FrameTaken(n)
    /\ IF m.frame.type # "Application" /\ In(n, m.peer, {"Idle"})
       THEN Moves(n, m.peer, "HandshakingServer")
       ELSE UNCHANGED sessions
    /\ UNCHANGED <<version, commands, timerVars, mappingVars, reported, accepted>>
------------------------------------------------------------------------------
(* Timers. *)

\* An armed timer fires: its callback waits for the handler, out of reach of
\* stopHandshakeTimer.
timerFires(n, a) ==
    /\ a \in armed[n]
    /\ armed' = [armed EXCEPT ![n] = @ \ {a}]
    /\ expired' = [expired EXCEPT ![n][a] = @ + 1]
    /\ UNCHANGED <<tcpVars, stateVars, mappingVars, reported, accepted>>

\* A timeout fails the handshake that runs at its address, be it a later one
\* than the one it was armed for; without one it does nothing.
dispatchHandshakeTimeout(n, a) ==
    /\ expired[n][a] > 0
    /\ expired' = [expired EXCEPT ![n][a] = @ - 1]
    /\ IF In(n, a, {"HandshakingClient"})
       THEN /\ armed' = [armed EXCEPT ![n] = @ \ {a}]
            /\ Moves(n, a, "Failed")
            /\ emitEvent(n, "SessionFailed", sessions[n][a].host)
            /\ Asks(n, <<Hangup(a)>>)
       ELSE UNCHANGED <<armed, sessions, reported, commands>>
    /\ NothingTaken
    /\ UNCHANGED <<version, mappingVars, accepted>>
------------------------------------------------------------------------------
Signal(n) == handleConnected(n) \/ handleDisconnected(n) \/ handleFailed(n)

Receive(n) ==
    \/ handleServerHandshake(n)
    \/ rejectHandshake(n)
    \/ handleAck(n)
    \/ handleReject(n)
    \/ handleUnexpected(n)

Timeout(n) == \E a \in Address : timerFires(n, a) \/ dispatchHandshakeTimeout(n, a)

Request(n) == \E h \in Node \ {n} : connectClient(n, h) \/ disconnectHost(n, h) \/ sendTo(n, h)

sessionVars == <<stateVars, timerVars, mappingVars, reported, accepted>>

TransportStep(n) ==
    /\ tcpStep(n) \/ quicStep(n)
    /\ UNCHANGED sessionVars

Reset == (\E c \in Conn : reset(c)) /\ UNCHANGED sessionVars

SessionStep(n) == Signal(n) \/ Receive(n) \/ Timeout(n)

Next ==
    /\ \/ \E n \in Node : SessionStep(n) \/ Request(n) \/ TransportStep(n)
       \/ Reset
    /\ UNCHANGED transport

Spec == Init /\ [][Next]_vars

\* A node's session layer and timers go on, and so does its transport.
Fairness(n) ==
    /\ WF_vars(SessionStep(n) /\ UNCHANGED transport)
    /\ WF_vars(TransportStep(n) /\ UNCHANGED transport)
------------------------------------------------------------------------------
TypeOK ==
    /\ TCPTypeOK
    /\ version \in [Node -> Versions]
    /\ sessions \in [Node -> [Address -> [state : State, host : Node \cup {None}]]]
    /\ armed \in [Node -> SUBSET Address]
    /\ expired \in [Node -> [Address -> Nat]]
    /\ transportToLogical \in [Node -> [Address -> Node \cup {None}]]
    /\ logicalToTransport \in [Node -> [Node -> Address \cup {None}]]
    /\ reported \in [Node -> SUBSET Address]
    /\ accepted \subseteq Node \X Node

\* However connections of one peer cross and go, a logical host is never routed
\* to an address that is bound to nobody or to another host, nor an address
\* bound to what is no host.
MappingsAgree ==
    /\ TypeOK
    /\ \A n, h \in Node :
        logicalToTransport[n][h] # None =>
            transportToLogical[n][logicalToTransport[n][h]] = h

\* "SessionConnected announces an Established session: both sides accepted the
\* handshake": a dialer's session is never up before its peer accepted a Hello
\* of the dialer, and never between builds of two versions.
BothAccepted ==
    \A n, h \in Node :
        sessions[n][h].state = "Established" => <<h, n>> \in accepted /\ version[n] = version[h]

\* Nothing is under way at a node.
Quiet(n) ==
    /\ commands[n] = <<>>
    /\ outEvents[n] = <<>>
    /\ outChannel[n] = <<>>
    /\ Waiting(n)
    /\ \A c \in Conn :
          /\ reader[<<n, c>>] # "emitting"
          /\ reader[<<n, c>>] = "reading" =>
                <<n, c>> \in open /\ <<Remote(n, c), c>> \in open /\ wire[<<n, c>>] = <<>>

\* The session layer is the failure detector: once a node has handled every
\* event, an Established session has an open connection under its address, though
\* events of an older connection to the address arrive after those of a newer
\* one; and the runtime has been told of it, unless the host had a second one.
EstablishedIsBacked ==
    \A n \in Node, a \in Address :
        Quiet(n) /\ sessions[n][a].state = "Established" =>
            /\ active[n][a] # None /\ <<n, active[n][a]>> \in open
            /\ \/ sessions[n][a].host \in reported[n]
               \/ \E b \in Address \ {a} : sessions[n][b].host = sessions[n][a].host
==============================================================================
