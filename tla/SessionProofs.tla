---------------------------- MODULE SessionProofs ----------------------------
(****************************************************************************)
(* Proofs about the session layer over either transport, for any nodes,     *)
(* versions and number of connections: the two mappings agree, a dialer's   *)
(* session is up only when its peer has accepted its Hello, and a session   *)
(* that is up once nothing is under way has an open connection and was      *)
(* reported.                                                                *)
(****************************************************************************)
EXTENDS SessionLayer, TLAPS, SequenceTheorems
------------------------------------------------------------------------------
(* The inductive invariant. *)

\* The host at the other end of the connections node n has under address a.
HostAt(n, a) == IF a \in Node THEN a ELSE dialed[a].dialer

\* Connection c is one of node n's under address a.
Link(n, a, c) ==
    /\ c \in 1 .. Len(dialed)
    /\ \/ dialed[c].dialer = n /\ dialed[c].acceptor = a
       \/ dialed[c].acceptor = n /\ a = c

\* An end of a dialed connection.
IsEnd(n, c) == c \in 1 .. Len(dialed) /\ n \in {dialed[c].dialer, dialed[c].acceptor}

\* An address that session events and frames of node n may name: of a host it
\* once dialed, or of a connection that was dialed to it.
Known(n, a) ==
    IF a \in Node THEN sessions[n][a].state # "Idle"
    ELSE a \in 1 .. Len(dialed) /\ dialed[a].acceptor = n

\* Node n has accepted a Hello of host h, of its own version.
Accepted(n, h) == <<n, h>> \in accepted /\ version[n] = version[h]

\* What node n sends to an address: a Hello names n and its version, an Ack
\* answers on a connection whose dialer's Hello n accepted.
GoodFrame(n, a, f) ==
    /\ f.type = "Hello" => f.host = n /\ f.version = version[n]
    /\ f.type = "Ack" => a \notin Node /\ Known(n, a) /\ Accepted(n, HostAt(n, a))

\* What node n is handed as coming from an address.
GoodArrival(n, m) ==
    /\ Known(n, m.peer)
    /\ m.frame.type = "Hello" => /\ m.frame.host = HostAt(n, m.peer)
                                 /\ m.frame.version = version[m.frame.host]
    /\ m.frame.type = "Ack" => m.peer \in Node /\ Accepted(m.peer, n)

GoodCommand(n, cmd) ==
    /\ cmd.op = "connect" => cmd.peer \in Node \ {n} /\ Known(n, cmd.peer)
    /\ cmd.op \in {"connected", "write"} => Link(n, cmd.peer, cmd.conn)
    /\ cmd.op \in {"send", "write"} => GoodFrame(n, cmd.peer, cmd.frame)

\* The same as sets, of what the queues of node n and the wires to it hold.
GoodCommands(n) == {cmd \in Command : GoodCommand(n, cmd)}

GoodFrames(n, c) ==
    {f \in Frame : IsEnd(n, c) /\ GoodFrame(Remote(n, c), AddressOf(Remote(n, c), c), f)}

GoodArrivals(n) == {m \in Message : GoodArrival(n, m)}

GoodEvents(n) == {e \in ConnEvent : Known(n, e.peer)}

GoodLinks(n) == {c \in Conn : Link(n, c, c)}

\* Dials, and what is registered, queued or read of them.
LinkInv ==
    /\ \A c \in 1 .. Len(dialed) :
          /\ dialed[c].dialer # dialed[c].acceptor
          /\ Known(dialed[c].dialer, dialed[c].acceptor)
    /\ \A n \in Node, a \in Address : active[n][a] # None => Link(n, a, active[n][a])
    /\ \A n \in Node : backlog[n] \in Seq(GoodLinks(n))
    /\ \A n \in Node, c \in Conn : reader[<<n, c>>] # "off" => IsEnd(n, c)

\* What is on its way between the layers and the nodes.
FrameInv ==
    /\ \A n \in Node : /\ commands[n] \in Seq(GoodCommands(n))
                      /\ outChannel[n] \in Seq(GoodArrivals(n))
                      /\ outEvents[n] \in Seq(GoodEvents(n))
    /\ \A n \in Node, c \in Conn : wire[<<n, c>>] \in Seq(GoodFrames(n, c))

\* Sessions and mappings.  Under the address of a host there is only ever a
\* dial of that host.
SessionInv ==
    /\ \A n, h \in Node : sessions[n][h].state # "HandshakingServer"
    /\ \A n, h \in Node : sessions[n][h].state = "Established" => Accepted(h, n)
    /\ \A n \in Node, a \in Address :
          sessions[n][a].state = "HandshakingClient" => a \in Node /\ sessions[n][a].host = a
    /\ \A n \in Node, a \in Address :
          transportToLogical[n][a] # None =>
              Known(n, a) /\ transportToLogical[n][a] = HostAt(n, a)
    /\ \A n, h \in Node :
          logicalToTransport[n][h] # None =>
              transportToLogical[n][logicalToTransport[n][h]] = h

Inv == TypeOK /\ LinkInv /\ FrameInv /\ SessionInv
------------------------------------------------------------------------------
(* Which steps there are, and what every one of them leaves as it was. *)

LEMMA Addresses ==
  /\ Node \subseteq Address /\ Conn \subseteq Address
  /\ Node \cap Conn = {} /\ None \notin Address
  /\ MaxConn \in Nat /\ Conn = 1 .. MaxConn
BY TCPAssumption DEF Address, Conn

\* A step of node n's session layer.
SessionAction(n) ==
    \/ Request(n) \/ Signal(n) \/ Receive(n)
    \/ \E a \in Address : timerFires(n, a) \/ dispatchHandshakeTimeout(n, a)

\* A step of its transport, whichever it is.
TransportAction(n) ==
    \/ connect(n) \/ connectEmits(n) \/ connectFails(n) \/ disconnect(n)
    \/ send(n) \/ write(n) \/ writeFails(n) \/ listenerHandler(n)
    \/ \E c \in Conn : \/ readFrames(n, c) \/ readError(n, c) \/ readerEmits(n, c)
                       \/ handleInbound(n, c) \/ handleInboundFails(n, c)
                       \/ closeDiscards(n, c)

\* Every step is one of the session handler, of a transport goroutine, which
\* leaves the handler's state alone, or a reset.
LEMMA Steps ==
  ASSUME [Next]_vars
  PROVE  \/ \E n \in Node : SessionAction(n)
         \/ \E n \in Node : TransportAction(n) /\ UNCHANGED sessionVars
         \/ \E c \in Conn : reset(c) /\ UNCHANGED sessionVars
         \/ UNCHANGED vars
<1>1. ASSUME NEW n \in Node, TransportStep(n)
      PROVE  TransportAction(n) /\ UNCHANGED sessionVars
  BY <1>1 DEF TransportStep, tcpStep, quicStep, handler, connectionHandler, quicConnect,
     quicConnectFails, quicDisconnect, quicSend, readPump, TransportAction
<1>2. ASSUME NEW n \in Node, SessionStep(n) \/ Request(n) PROVE SessionAction(n)
  BY <1>2 DEF SessionStep, SessionAction, Timeout
<1>3. CASE Reset
  BY <1>3 DEF Reset
<1> QED  BY <1>1, <1>2, <1>3 DEF Next

\* The session layer acts on the transport through its commands and channels.
LEMMA SessionFrames ==
  ASSUME NEW n, SessionAction(n)
  PROVE  /\ UNCHANGED <<dialed, open, backlog, active, reader, wire, version>>
         /\ UNCHANGED outChannel \/ FrameTaken(n)
         /\ UNCHANGED outEvents \/ EventTaken(n)
<1>1. CASE Request(n)
  BY <1>1 DEF Request, connectClient, disconnectHost, sendTo, NothingTaken, stateVars
<1>2. CASE Signal(n)
  BY <1>2 DEF Signal, handleConnected, handleDisconnected, handleFailed, EventTaken
<1>3. CASE Receive(n)
  BY <1>3 DEF Receive, handleServerHandshake, rejectHandshake, handleAck, handleReject,
     handleUnexpected, FrameTaken
<1>4. CASE \E a \in Address : timerFires(n, a) \/ dispatchHandshakeTimeout(n, a)
  BY <1>4 DEF timerFires, dispatchHandshakeTimeout, NothingTaken, tcpVars, stateVars
<1> QED  BY <1>1, <1>2, <1>3, <1>4 DEF SessionAction

\* The network resets connections, and that is all.
LEMMA ResetFrames ==
  ASSUME NEW c, reset(c)
  PROVE  UNCHANGED <<dialed, backlog, active, reader, wire, commands, outChannel, outEvents>>
BY DEF reset

\* What a transport step leaves as it was.
LEMMA TransportFrames ==
  ASSUME NEW n, TransportAction(n)
  PROVE  /\ UNCHANGED dialed \/ connect(n)
         /\ \/ UNCHANGED backlog
            \/ connect(n) \/ listenerHandler(n) \/ \E c \in Conn : Leaves(n, c)
         /\ \/ UNCHANGED active
            \/ connect(n) \/ listenerHandler(n)
            \/ \E a : Unregistered(n, a)
            \/ \E c \in Conn : handleInbound(n, c)
         /\ \/ UNCHANGED reader
            \/ connectEmits(n) \/ listenerHandler(n)
            \/ \E c \in Conn : readError(n, c) \/ readerEmits(n, c) \/ handleInbound(n, c)
         /\ \/ UNCHANGED wire
            \/ write(n) \/ \E c \in Conn : readFrames(n, c) \/ closeDiscards(n, c)
         /\ \/ UNCHANGED commands
            \/ connect(n) \/ connectEmits(n) \/ connectFails(n) \/ disconnect(n)
            \/ send(n) \/ write(n) \/ writeFails(n)
         /\ UNCHANGED outChannel \/ \E c \in Conn : readFrames(n, c)
         /\ \/ UNCHANGED outEvents
            \/ connectFails(n) \/ connectEmits(n) \/ disconnect(n) \/ writeFails(n)
            \/ listenerHandler(n) \/ \E c \in Conn : readerEmits(n, c) \/ handleInbound(n, c)
<1>1. CASE \/ connect(n) \/ connectEmits(n) \/ connectFails(n) \/ disconnect(n)
           \/ send(n) \/ write(n) \/ writeFails(n) \/ listenerHandler(n)
  BY <1>1 DEF connect, connectEmits, connectFails, disconnect, send, write, writeFails,
     listenerHandler
<1>2. ASSUME NEW c \in Conn, \/ readFrames(n, c) \/ readError(n, c) \/ readerEmits(n, c)
                             \/ handleInbound(n, c) \/ handleInboundFails(n, c)
                             \/ closeDiscards(n, c)
      PROVE  /\ UNCHANGED <<dialed, commands>>
             /\ UNCHANGED backlog \/ Leaves(n, c)
             /\ UNCHANGED active \/ (\E a : Unregistered(n, a)) \/ handleInbound(n, c)
             /\ UNCHANGED reader \/ readError(n, c) \/ readerEmits(n, c) \/ handleInbound(n, c)
             /\ UNCHANGED wire \/ readFrames(n, c) \/ closeDiscards(n, c)
             /\ UNCHANGED outChannel \/ readFrames(n, c)
             /\ UNCHANGED outEvents \/ readerEmits(n, c) \/ handleInbound(n, c)
  BY <1>2 DEF readFrames, readError, readerEmits, handleInbound, handleInboundFails,
     closeDiscards
<1> QED  BY <1>1, <1>2 DEF TransportAction
------------------------------------------------------------------------------
(* Nothing that was ever known is unlearnt. *)

Grows ==
    /\ version' = version
    /\ Len(dialed) <= Len(dialed')
    /\ \A c \in 1 .. Len(dialed) : dialed'[c] = dialed[c]
    /\ accepted \subseteq accepted'
    /\ \A n \in Node, a \in Address :
          sessions[n][a].state # "Idle" => sessions'[n][a].state # "Idle"

\* A handler moves at most one session, and never to idle.
LEMMA SessionMoves ==
  ASSUME NEW n \in Node, SessionAction(n)
  PROVE  \/ UNCHANGED sessions
         \/ \E a, s : s # "Idle" /\ (Moves(n, a, s) \/ \E h : Binds(n, a, s, h))
<1>1. CASE Request(n)
  <2>1. ASSUME NEW h, connectClient(n, h)
        PROVE  \E s : s # "Idle" /\ Binds(n, h, s, h)
    <3>1. In(n, h, {"Idle"}) => In(n, h, {"Idle", "Failed", "Closing"})
      BY DEF In
    <3> QED  BY <2>1, <3>1 DEF connectClient, In
  <2>2. ASSUME NEW h, disconnectHost(n, h) \/ sendTo(n, h) PROVE UNCHANGED sessions
    BY <2>2 DEF disconnectHost, sendTo, stateVars
  <2> QED  BY <1>1, <2>1, <2>2 DEF Request
<1>2. CASE Signal(n)
  <2>1. CASE handleConnected(n)
    BY <2>1 DEF handleConnected
  <2>2. CASE handleDisconnected(n)
    BY <2>2 DEF handleDisconnected
  <2>3. CASE handleFailed(n)
    BY <2>3 DEF handleFailed
  <2> QED  BY <1>2, <2>1, <2>2, <2>3 DEF Signal
<1>3. CASE Receive(n)
  <2>1. CASE handleServerHandshake(n)
    BY <2>1 DEF handleServerHandshake
  <2>2. CASE rejectHandshake(n)
    BY <2>2 DEF rejectHandshake
  <2>3. CASE handleAck(n)
    BY <2>3 DEF handleAck
  <2>4. CASE handleReject(n)
    BY <2>4 DEF handleReject
  <2>5. CASE handleUnexpected(n)
    BY <2>5 DEF handleUnexpected
  <2> QED  BY <1>3, <2>1, <2>2, <2>3, <2>4, <2>5 DEF Receive
<1>4. ASSUME NEW a, timerFires(n, a) \/ dispatchHandshakeTimeout(n, a)
      PROVE  UNCHANGED sessions \/ Moves(n, a, "Failed")
  BY <1>4 DEF timerFires, dispatchHandshakeTimeout, stateVars
<1> QED  BY <1>1, <1>2, <1>3, <1>4 DEF SessionAction

\* Sessions never become idle again, nor is an acceptance forgotten.
LEMMA SessionGrows ==
  ASSUME TypeOK, NEW n \in Node, SessionAction(n)
  PROVE  /\ accepted \subseteq accepted'
         /\ \A m \in Node, a \in Address :
               sessions[m][a].state # "Idle" => sessions'[m][a].state # "Idle"
<1>0. sessions \in [Node -> [Address -> [state : State, host : Node \cup {None}]]]
  BY DEF TypeOK
<1>1. ASSUME NEW m \in Node, NEW a \in Address, sessions[m][a].state # "Idle"
      PROVE  sessions'[m][a].state # "Idle"
  <2>1. ASSUME NEW b, NEW s, s # "Idle", Moves(n, b, s) PROVE sessions'[m][a].state # "Idle"
    BY <1>0, <1>1, <2>1 DEF Moves
  <2>2. ASSUME NEW b, NEW s, NEW h, s # "Idle", Binds(n, b, s, h)
        PROVE  sessions'[m][a].state # "Idle"
    BY <1>0, <1>1, <2>2 DEF Binds
  <2> QED  BY <1>1, <2>1, <2>2, SessionMoves
<1>2. CASE handleServerHandshake(n)
  BY <1>1, <1>2 DEF handleServerHandshake
<1>3. CASE ~handleServerHandshake(n)
  <2>1. UNCHANGED accepted
    BY <1>3 DEF SessionAction, Request, connectClient, disconnectHost, sendTo, Signal,
       handleConnected, handleDisconnected, handleFailed, Receive, rejectHandshake,
       handleAck, handleReject, handleUnexpected, timerFires, dispatchHandshakeTimeout
  <2> QED  BY <1>1, <2>1
<1> QED  BY <1>2, <1>3

\* No step takes back a dial, an acceptance or a version.
LEMMA Growth ==
  ASSUME TypeOK, [Next]_vars
  PROVE  Grows
<1>0. dialed \in Seq([dialer : Node, acceptor : Node])
  BY DEF TypeOK, TCPTypeOK
<1>1. ASSUME NEW n \in Node, SessionAction(n) PROVE Grows
  <2>1. UNCHANGED <<dialed, version>>
    BY <1>1, SessionFrames
  <2>2. Len(dialed) \in Nat
    BY <1>0
  <2> QED  BY <1>1, <2>1, <2>2, SessionGrows DEF Grows
<1>2. ASSUME NEW n \in Node, TransportAction(n), UNCHANGED sessionVars PROVE Grows
  <2>1. dialed' = dialed \/ \E x : dialed' = Append(dialed, x)
    BY <1>2, TransportFrames DEF connect
  <2>2. Len(dialed) <= Len(dialed') /\ \A c \in 1 .. Len(dialed) : dialed'[c] = dialed[c]
    BY <1>0, <2>1
  <2>3. UNCHANGED <<version, accepted, sessions>>
    BY <1>2 DEF sessionVars, stateVars
  <2> QED  BY <2>2, <2>3 DEF Grows
<1>3. CASE UNCHANGED <<dialed, version, accepted, sessions>>
  BY <1>0, <1>3 DEF Grows
<1>4. ASSUME NEW c, reset(c), UNCHANGED sessionVars PROVE UNCHANGED <<dialed, version, accepted, sessions>>
  BY <1>4 DEF reset, sessionVars, stateVars
<1> QED
  BY <1>1, <1>2, <1>3, <1>4, Steps DEF vars, tcpVars, stateVars

\* What was known, linked, accepted or good stays so.
LEMMA Stays ==
  ASSUME TypeOK, Grows
  PROVE  /\ \A n \in Node, a \in Address : Known(n, a) => Known(n, a)' /\ HostAt(n, a)' = HostAt(n, a)
         /\ \A n \in Node, a \in Address, c \in Conn : Link(n, a, c) => Link(n, a, c)'
         /\ \A n \in Node, c \in Conn :
               IsEnd(n, c) => /\ IsEnd(n, c)' /\ Remote(n, c)' = Remote(n, c)
                              /\ AddressOf(n, c)' = AddressOf(n, c)
         /\ \A n, h \in Node : Accepted(n, h) => Accepted(n, h)'
<1>0. Len(dialed) \in Nat
  BY DEF TypeOK, TCPTypeOK
<1>1. ASSUME NEW n \in Node, NEW a \in Address, Known(n, a)
      PROVE  Known(n, a)' /\ HostAt(n, a)' = HostAt(n, a)
  BY <1>0, <1>1 DEF Grows, Known, HostAt
<1>2. ASSUME NEW n \in Node, NEW a \in Address, NEW c \in Conn, Link(n, a, c)
      PROVE  Link(n, a, c)'
  BY <1>0, <1>2 DEF Grows, Link
<1>3. ASSUME NEW n \in Node, NEW c \in Conn, IsEnd(n, c)
      PROVE  /\ IsEnd(n, c)' /\ Remote(n, c)' = Remote(n, c)
             /\ AddressOf(n, c)' = AddressOf(n, c)
  BY <1>0, <1>3 DEF Grows, IsEnd, Remote, AddressOf
<1>4. ASSUME NEW n \in Node, NEW h \in Node, Accepted(n, h) PROVE Accepted(n, h)'
  BY <1>4 DEF Grows, Accepted
<1> QED  BY <1>1, <1>2, <1>3, <1>4

\* Connections are between nodes.
LEMMA DialTypes ==
  ASSUME TypeOK
  PROVE  /\ Len(dialed) \in Nat /\ Len(dialed) <= MaxConn
         /\ \A c \in 1 .. Len(dialed) : /\ c \in Conn
                                       /\ dialed[c].dialer \in Node
                                       /\ dialed[c].acceptor \in Node
<1>1. dialed \in Seq([dialer : Node, acceptor : Node]) /\ Len(dialed) <= MaxConn
  BY DEF TypeOK, TCPTypeOK
<1>2. \A c \in 1 .. Len(dialed) : dialed[c] \in [dialer : Node, acceptor : Node]
  BY <1>1, ElementOfSeq
<1>3. Len(dialed) \in Nat
  BY <1>1
<1> QED  BY <1>1, <1>2, <1>3, Addresses

\* So the sets of what the queues may hold only grow.
LEMMA GoodGrows ==
  ASSUME TypeOK, Grows
  PROVE  /\ \A n \in Node : /\ GoodCommands(n) \subseteq GoodCommands(n)'
                            /\ GoodArrivals(n) \subseteq GoodArrivals(n)'
                            /\ GoodEvents(n) \subseteq GoodEvents(n)'
                            /\ GoodLinks(n) \subseteq GoodLinks(n)'
         /\ \A n \in Node, c \in Conn : GoodFrames(n, c) \subseteq GoodFrames(n, c)'
<1>0. \A c \in 1 .. Len(dialed) : dialed[c].dialer \in Node /\ dialed[c].acceptor \in Node
  BY DialTypes
<1>1. ASSUME NEW n \in Node, NEW a \in Address, NEW f \in Frame, GoodFrame(n, a, f)
      PROVE  GoodFrame(n, a, f)'
  <2>1. CASE f.type = "Ack"
    <3>1. a \notin Node /\ Known(n, a) /\ Accepted(n, HostAt(n, a))
      BY <1>1, <2>1 DEF GoodFrame
    <3>2. HostAt(n, a) \in Node
      BY <1>0, <3>1 DEF HostAt, Known
    <3>3. Known(n, a)' /\ HostAt(n, a)' = HostAt(n, a) /\ Accepted(n, HostAt(n, a))'
      BY <3>1, <3>2, Stays
    <3> QED  BY <1>1, <2>1, <3>1, <3>3 DEF GoodFrame
  <2>2. CASE f.type # "Ack"
    BY <1>1, <2>2 DEF GoodFrame, Grows
  <2> QED  BY <2>1, <2>2
<1>2. ASSUME NEW n \in Node, NEW cmd \in GoodCommands(n) PROVE cmd \in GoodCommands(n)'
  <2>1. cmd \in Command /\ GoodCommand(n, cmd)
    BY DEF GoodCommands
  <2>2. cmd.op = "connect" => cmd.peer \in Node \ {n} /\ Known(n, cmd.peer)'
    BY <2>1, Stays, Addresses DEF GoodCommand
  <2>3. cmd.op \in {"connected", "write"} => Link(n, cmd.peer, cmd.conn)'
    <3>1. cmd.op \in {"connected", "write"} => cmd.peer \in Address /\ cmd.conn \in Conn
      BY <2>1 DEF Command
    <3> QED  BY <2>1, <3>1, Stays DEF GoodCommand
  <2>4. cmd.op \in {"send", "write"} => GoodFrame(n, cmd.peer, cmd.frame)'
    <3>1. cmd.op \in {"send", "write"} => cmd.peer \in Address /\ cmd.frame \in Frame
      BY <2>1 DEF Command
    <3> QED  BY <1>1, <2>1, <3>1 DEF GoodCommand
  <2> QED  BY <2>1, <2>2, <2>3, <2>4 DEF GoodCommands, GoodCommand
<1>3. ASSUME NEW n \in Node, NEW m \in GoodArrivals(n) PROVE m \in GoodArrivals(n)'
  <2>1. m \in Message /\ m.peer \in Address /\ m.frame \in Frame /\ GoodArrival(n, m)
    BY DEF GoodArrivals, Message
  <2>2. Known(n, m.peer)' /\ HostAt(n, m.peer)' = HostAt(n, m.peer)
    BY <2>1, Stays DEF GoodArrival
  <2>3. m.frame.type = "Ack" => m.peer \in Node /\ Accepted(m.peer, n)'
    BY <2>1, Stays DEF GoodArrival
  <2> QED  BY <2>1, <2>2, <2>3 DEF GoodArrivals, GoodArrival, Grows
<1>4. ASSUME NEW n \in Node, NEW e \in GoodEvents(n) PROVE e \in GoodEvents(n)'
  BY Stays DEF GoodEvents, ConnEvent
<1>5. ASSUME NEW n \in Node, NEW c \in GoodLinks(n) PROVE c \in GoodLinks(n)'
  BY Stays, Addresses DEF GoodLinks
<1>6. ASSUME NEW n \in Node, NEW c \in Conn, NEW f \in GoodFrames(n, c)
      PROVE  f \in GoodFrames(n, c)'
  <2>1. f \in Frame /\ IsEnd(n, c) /\ GoodFrame(Remote(n, c), AddressOf(Remote(n, c), c), f)
    BY DEF GoodFrames
  <2>2. Remote(n, c) \in Node /\ IsEnd(Remote(n, c), c)
    BY <1>0, <2>1 DEF IsEnd, Remote
  <2>3. PICK k \in Node : k = Remote(n, c)
    BY <2>2
  <2>4. IsEnd(k, c) /\ AddressOf(k, c) \in Address
    BY <1>0, <2>2, <2>3, Addresses DEF IsEnd, AddressOf
  <2>5. PICK a \in Address : a = AddressOf(k, c)
    BY <2>4
  <2>6. GoodFrame(k, a, f)'
    BY <1>1, <2>1, <2>3, <2>5
  <2>7. IsEnd(n, c)' /\ Remote(n, c)' = k
    BY <2>1, <2>3, Stays
  <2>8. AddressOf(k, c)' = a
    BY <2>4, <2>5, Stays
  <2>9. GoodFrame(Remote(n, c), AddressOf(Remote(n, c), c), f)'
    BY <2>6, <2>7, <2>8 DEF GoodFrame, Known, HostAt, Accepted
  <2> QED  BY <2>1, <2>7, <2>9 DEF GoodFrames
<1> QED  BY <1>2, <1>3, <1>4, <1>5, <1>6

\* What queues are made of.
LEMMA SeqParts ==
  ASSUME NEW S, NEW T, S \subseteq T, NEW q \in Seq(S)
  PROVE  /\ q \in Seq(T)
         /\ q # <<>> => Tail(q) \in Seq(T) /\ Head(q) \in S
         /\ \A e \in T : Append(q, e) \in Seq(T)
         /\ \A d \in Seq(T) : q \o d \in Seq(T)
         /\ \A e \in T : q # <<>> => <<e>> \o Tail(q) \in Seq(T)
         /\ \A i \in 1 .. Len(q) : RemoveAt(q, i) \in Seq(T)
<1>1. q \in Seq(T)
  BY ElementOfSeq, SeqDef
<1>2. q # <<>> => Tail(q) \in Seq(T) /\ Head(q) \in S
  BY <1>1
<1>3. ASSUME NEW i \in 1 .. Len(q) PROVE RemoveAt(q, i) \in Seq(T)
  <2>1. SubSeq(q, 1, i - 1) \in Seq(T) /\ SubSeq(q, i + 1, Len(q)) \in Seq(T)
    BY <1>1
  <2> QED  BY <2>1 DEF RemoveAt
<1>4. ASSUME NEW e \in T, q # <<>> PROVE <<e>> \o Tail(q) \in Seq(T)
  <2>1. <<e>> \in Seq(T)
    OBVIOUS
  <2> QED  BY <1>2, <1>4, <2>1
<1> QED  BY <1>1, <1>2, <1>3, <1>4
------------------------------------------------------------------------------
(* Commands. *)

\* Short sequences.
LEMMA Short ==
  ASSUME NEW S
  PROVE  /\ \A x \in S : <<x>> \in Seq(S)
         /\ \A x, y \in S : <<x, y>> \in Seq(S)
OBVIOUS

\* The first of what a queue holds, when it holds something.
LEMMA Heads ==
  ASSUME Inv, NEW n \in Node
  PROVE  /\ commands[n] # <<>> => Head(commands[n]) \in Command /\ GoodCommand(n, Head(commands[n]))
         /\ outChannel[n] # <<>> =>
               Head(outChannel[n]) \in Message /\ GoodArrival(n, Head(outChannel[n]))
         /\ outEvents[n] # <<>> =>
               /\ Head(outEvents[n]) \in ConnEvent
               /\ Known(n, Head(outEvents[n]).peer)
         /\ backlog[n] # <<>> => Head(backlog[n]) \in Conn /\ Link(n, Head(backlog[n]), Head(backlog[n]))
<1>1. /\ commands[n] \in Seq(GoodCommands(n))
      /\ outChannel[n] \in Seq(GoodArrivals(n))
      /\ outEvents[n] \in Seq(GoodEvents(n))
      /\ backlog[n] \in Seq(GoodLinks(n))
  BY DEF Inv, FrameInv, LinkInv
<1>2. /\ commands[n] # <<>> => Head(commands[n]) \in GoodCommands(n)
      /\ outChannel[n] # <<>> => Head(outChannel[n]) \in GoodArrivals(n)
      /\ outEvents[n] # <<>> => Head(outEvents[n]) \in GoodEvents(n)
      /\ backlog[n] # <<>> => Head(backlog[n]) \in GoodLinks(n)
  BY <1>1
<1> QED  BY <1>2 DEF GoodCommands, GoodArrivals, GoodEvents, GoodLinks

\* What a session layer asks of its transport is good.
LEMMA Asked ==
  ASSUME Inv, NEW n \in Node, SessionAction(n), Grows
  PROVE  UNCHANGED commands \/ \E d \in Seq(GoodCommands(n)') : Asks(n, d)
<1>0. /\ Node \subseteq Address /\ Frame = SessionFrame
      /\ version[n] \in Versions /\ version' = version
  BY Addresses, FrameAssumption DEF Inv, TypeOK, Grows
<1>1. ASSUME NEW a \in Address PROVE Hangup(a) \in GoodCommands(n)'
  BY DEF Hangup, GoodCommands, GoodCommand, Command
<1>2. ASSUME NEW h \in Node \ {n}, connectClient(n, h)
      PROVE  UNCHANGED commands \/ \E d \in Seq(GoodCommands(n)') : Asks(n, d)
  <2>1. CASE In(n, h, {"Idle", "Failed", "Closing"})
    <3>1. Binds(n, h, "HandshakingClient", h) /\ Asks(n, <<Dial(h)>>)
      BY <1>2, <2>1 DEF connectClient
    <3>2. sessions'[n][h].state # "Idle"
      BY <1>0, <3>1 DEF Binds, Inv, TypeOK
    <3>3. Dial(h) \in GoodCommands(n)'
      BY <1>0, <3>2 DEF Dial, GoodCommands, GoodCommand, Command, Known
    <3> QED  BY <3>1, <3>3, Short
  <2> QED  BY <1>2, <2>1 DEF connectClient
<1>3. ASSUME NEW a \in Address, NEW f \in Frame, f.type # "Ack",
             f.type = "Hello" => f.host = n /\ f.version = version[n]
      PROVE  Sends(a, f) \in GoodCommands(n)'
  BY <1>0, <1>3 DEF Sends, GoodCommands, GoodCommand, GoodFrame, Command
<1>4. ASSUME NEW h \in Node \ {n}, disconnectHost(n, h) \/ sendTo(n, h)
      PROVE  \E d \in Seq(GoodCommands(n)') : Asks(n, d)
  <2>1. resolveUnderlyingHost(n, h) \in Address
    BY <1>0 DEF resolveUnderlyingHost, Inv, TypeOK
  <2>2. [type |-> "Application"] \in Frame
    BY <1>0 DEF SessionFrame
  <2>3. /\ Hangup(resolveUnderlyingHost(n, h)) \in GoodCommands(n)'
        /\ Sends(resolveUnderlyingHost(n, h), [type |-> "Application"]) \in GoodCommands(n)'
    BY <1>1, <1>3, <2>1, <2>2
  <2> QED  BY <1>4, <2>3, Short DEF disconnectHost, sendTo
<1>5. CASE Signal(n)
  <2>1. CASE handleConnected(n)
    <3> DEFINE a == Head(outEvents[n]).peer
               hello == [type |-> "Hello", version |-> version[n], host |-> n]
    <3>1. UNCHANGED commands \/ Asks(n, <<Sends(a, hello)>>)
      BY <2>1 DEF handleConnected
    <3>2. a \in Address
      BY <2>1, Heads DEF handleConnected, Signalled, ConnEvent
    <3>3. hello \in Frame
      BY <1>0 DEF SessionFrame
    <3>4. Sends(a, hello) \in GoodCommands(n)'
      BY <1>3, <3>2, <3>3
    <3> QED  BY <3>1, <3>4, Short
  <2>2. CASE handleDisconnected(n) \/ handleFailed(n)
    BY <2>2 DEF handleDisconnected, handleFailed
  <2> QED  BY <1>5, <2>1, <2>2 DEF Signal
<1>6. CASE Receive(n)
  <2> DEFINE m == Head(outChannel[n])
             a == m.peer
  <2>1. m \in Message /\ GoodArrival(n, m) /\ a \in Address
    BY <1>6, Heads DEF Receive, handleServerHandshake, rejectHandshake, handleAck, handleReject,
       handleUnexpected, Handshakes, Message
  <2>2. CASE handleServerHandshake(n)
    <3>1. Asks(n, <<Sends(a, [type |-> "Ack"])>>)
      BY <2>2 DEF handleServerHandshake
    <3>2. sessions[n][a].state \in {"Idle", "HandshakingServer"}
      BY <2>2 DEF handleServerHandshake, Handshakes, In
    <3>3. a \notin Node
      BY <2>1, <3>2 DEF GoodArrival, Known, Inv, SessionInv
    <3>4. /\ m.frame.host = HostAt(n, a) /\ version[m.frame.host] = version[n]
          /\ <<n, m.frame.host>> \in accepted'
      BY <2>1, <2>2 DEF handleServerHandshake, Handshakes, SameVersion, GoodArrival
    <3>5. PICK b \in Address : b = a
      BY <2>1
    <3>6. Known(n, b)' /\ HostAt(n, b)' = HostAt(n, b)
      BY <2>1, <3>5, Stays DEF GoodArrival, Inv
    <3>7. Accepted(n, HostAt(n, b))'
      BY <1>0, <3>4, <3>5, <3>6 DEF Accepted
    <3>8. [type |-> "Ack"] \in Frame
      BY <1>0 DEF SessionFrame
    <3>9. Sends(b, [type |-> "Ack"]) \in GoodCommands(n)'
      BY <3>3, <3>5, <3>6, <3>7, <3>8 DEF Sends, GoodCommands, GoodCommand, GoodFrame, Command
    <3>10. <<Sends(b, [type |-> "Ack"])>> \in Seq(GoodCommands(n)')
      BY <3>9, Short
    <3> QED  BY <3>1, <3>5, <3>10
  <2>3. CASE rejectHandshake(n)
    <3> DEFINE reject == [type |-> "Reject", version |-> version[n]]
    <3>1. Asks(n, <<Sends(a, reject), Hangup(a)>>)
      BY <2>3 DEF rejectHandshake
    <3>2. reject \in Frame
      BY <1>0 DEF SessionFrame
    <3>3. Sends(a, reject) \in GoodCommands(n)' /\ Hangup(a) \in GoodCommands(n)'
      BY <1>1, <1>3, <2>1, <3>2
    <3> QED  BY <3>1, <3>3, Short
  <2>4. CASE handleReject(n)
    <3>1. Asks(n, <<Hangup(a)>>)
      BY <2>4 DEF handleReject
    <3> QED  BY <1>1, <2>1, <3>1, Short
  <2>5. CASE handleAck(n) \/ handleUnexpected(n)
    BY <2>5 DEF handleAck, handleUnexpected
  <2> QED  BY <1>6, <2>2, <2>3, <2>4, <2>5 DEF Receive
<1>7. ASSUME NEW a \in Address, timerFires(n, a) \/ dispatchHandshakeTimeout(n, a)
      PROVE  UNCHANGED commands \/ \E d \in Seq(GoodCommands(n)') : Asks(n, d)
  <2>1. UNCHANGED commands \/ Asks(n, <<Hangup(a)>>)
    BY <1>7 DEF timerFires, dispatchHandshakeTimeout, tcpVars
  <2> QED  BY <1>1, <2>1, Short
<1> QED  BY <1>2, <1>4, <1>5, <1>6, <1>7 DEF SessionAction, Request

\* The transport's handler takes a command, or leaves the rest of it.
LEMMA Executed ==
  ASSUME Inv, NEW n \in Node, TransportAction(n), Grows
  PROVE  \/ UNCHANGED commands
         \/ commands[n] # <<>> /\ CommandDone(n)
         \/ commands[n] # <<>> /\ \E rest \in GoodCommands(n)' : Continues(n, rest)
<1> DEFINE cmd == Head(commands[n])
<1>1. GoodCommands(n) \subseteq GoodCommands(n)'
  BY GoodGrows DEF Inv
<1>2. commands[n] # <<>> => cmd \in Command /\ GoodCommand(n, cmd)
  BY Heads
<1>3. CASE connect(n)
  <2> DEFINE c == Len(dialed) + 1
             rest == [op |-> "connected", peer |-> cmd.peer, conn |-> c]
  <2>1. commands[n] # <<>> /\ Continues(n, rest) /\ c \in Conn
    BY <1>3 DEF connect, Commanded
  <2>2. cmd.op = "connect" /\ cmd.peer \in Address
    BY <1>2, <1>3, <2>1 DEF connect, Commanded, Command
  <2>3. dialed \in Seq([dialer : Node, acceptor : Node])
    BY DEF Inv, TypeOK, TCPTypeOK
  <2>4. dialed' = Append(dialed, [dialer |-> n, acceptor |-> cmd.peer])
    BY <1>3 DEF connect
  <2>5. c \in 1 .. Len(dialed') /\ dialed'[c] = [dialer |-> n, acceptor |-> cmd.peer]
    BY <2>3, <2>4
  <2>6. PICK k \in Conn, a \in Address : k = c /\ a = cmd.peer
    BY <2>1, <2>2
  <2>7. Link(n, a, k)'
    BY <2>5, <2>6 DEF Link
  <2>8. rest \in GoodCommands(n)'
    BY <2>6, <2>7 DEF GoodCommands, GoodCommand, Command
  <2> QED  BY <2>1, <2>8
<1>4. CASE connectEmits(n) \/ connectFails(n) \/ disconnect(n) \/ write(n)
  BY <1>4 DEF connectEmits, connectFails, disconnect, write, Commanded
<1>5. CASE send(n)
  <2> DEFINE c == active[n][cmd.peer]
             rest == [op |-> "write", peer |-> cmd.peer, conn |-> c, frame |-> cmd.frame]
  <2>1. commands[n] # <<>> /\ cmd.op = "send"
    BY <1>5 DEF send, Commanded
  <2>2. cmd.peer \in Address /\ cmd.frame \in Frame /\ GoodFrame(n, cmd.peer, cmd.frame)
    BY <1>2, <2>1 DEF Command, GoodCommand
  <2>3. CommandDone(n) \/ (c # None /\ Continues(n, rest))
    BY <1>5 DEF send
  <2>4. c # None => c \in Conn /\ Link(n, cmd.peer, c)
    BY <2>2 DEF Inv, TypeOK, TCPTypeOK, LinkInv
  <2>5. c # None => rest \in GoodCommands(n)
    BY <2>2, <2>4 DEF GoodCommands, GoodCommand, Command
  <2> QED  BY <1>1, <2>1, <2>3, <2>5
<1>6. CASE writeFails(n)
  <2> DEFINE rest == [op |-> "disconnect", peer |-> cmd.peer]
  <2>1. commands[n] # <<>> /\ cmd.op = "write" /\ Continues(n, rest)
    BY <1>6 DEF writeFails, Commanded
  <2>2. rest \in GoodCommands(n)
    BY <1>2, <2>1 DEF GoodCommands, GoodCommand, Command
  <2> QED  BY <1>1, <2>1, <2>2
<1> QED  BY <1>3, <1>4, <1>5, <1>6, TransportFrames

\* What the session handler asks of its transport stays good: a Hello names
\* the node itself, an Ack goes to a host whose Hello was accepted.
LEMMA CommandsStep ==
  ASSUME Inv, [Next]_vars
  PROVE  /\ commands' \in [Node -> Seq(Command)]
         /\ \A n \in Node : commands'[n] \in Seq(GoodCommands(n)')
<1>1. TypeOK /\ Grows /\ commands \in [Node -> Seq(Command)]
  BY Growth DEF Inv, TypeOK, TCPTypeOK
<1>2. \A n \in Node : /\ GoodCommands(n) \subseteq GoodCommands(n)'
                      /\ commands[n] \in Seq(GoodCommands(n))
                      /\ GoodCommands(n)' \subseteq Command
  BY <1>1, GoodGrows DEF Inv, FrameInv, GoodCommands
<1>3. \/ UNCHANGED commands
      \/ \E n \in Node : \E d \in Seq(GoodCommands(n)') : commands' = [commands EXCEPT ![n] = d]
  <2>1. ASSUME NEW n \in Node, SessionAction(n)
        PROVE  \/ UNCHANGED commands
               \/ \E d \in Seq(GoodCommands(n)') : commands' = [commands EXCEPT ![n] = d]
    <3>1. ASSUME NEW d \in Seq(GoodCommands(n)') PROVE commands[n] \o d \in Seq(GoodCommands(n)')
      BY <1>2, SeqParts
    <3> QED  BY <1>1, <2>1, <3>1, Asked DEF Asks
  <2>2. ASSUME NEW n \in Node, TransportAction(n)
        PROVE  \/ UNCHANGED commands
               \/ \E d \in Seq(GoodCommands(n)') : commands' = [commands EXCEPT ![n] = d]
    <3>1. commands[n] # <<>> =>
            /\ Tail(commands[n]) \in Seq(GoodCommands(n)')
            /\ \A e \in GoodCommands(n)' : <<e>> \o Tail(commands[n]) \in Seq(GoodCommands(n)')
      BY <1>2, SeqParts
    <3> QED  BY <1>1, <2>2, <3>1, Executed DEF CommandDone, Continues
  <2>3. ASSUME NEW c, reset(c) PROVE UNCHANGED commands
    BY <2>3 DEF reset
  <2> QED  BY <2>1, <2>2, <2>3, Steps DEF vars, tcpVars
<1>4. \A n \in Node : commands[n] \in Seq(GoodCommands(n)')
  BY <1>2, SeqParts
<1>5. \A n \in Node : Seq(GoodCommands(n)') \subseteq Seq(Command)
  BY <1>2, SeqParts
<1>6. CASE UNCHANGED commands
  BY <1>1, <1>4, <1>6
<1>7. ASSUME NEW n \in Node, NEW d \in Seq(GoodCommands(n)'), commands' = [commands EXCEPT ![n] = d]
      PROVE  /\ commands' \in [Node -> Seq(Command)]
             /\ \A m \in Node : commands'[m] \in Seq(GoodCommands(m)')
  BY <1>1, <1>4, <1>5, <1>7
<1> QED  BY <1>3, <1>6, <1>7
------------------------------------------------------------------------------
(* Connections. *)

\* A dial is known to be one, and of another host.
LEMMA DialsStep ==
  ASSUME Inv, [Next]_vars
  PROVE  /\ dialed' \in Seq([dialer : Node, acceptor : Node]) /\ Len(dialed') <= MaxConn
         /\ \A c \in 1 .. Len(dialed') :
               /\ dialed'[c].dialer # dialed'[c].acceptor
               /\ Known(dialed[c].dialer, dialed[c].acceptor)'
<1>0. /\ dialed \in Seq([dialer : Node, acceptor : Node]) /\ Len(dialed) <= MaxConn
      /\ Grows /\ TypeOK
  BY Growth DEF Inv, TypeOK, TCPTypeOK
<1>1. \A c \in 1 .. Len(dialed) :
         /\ dialed[c].dialer \in Node /\ dialed[c].acceptor \in Node
         /\ dialed[c].dialer # dialed[c].acceptor
         /\ Known(dialed[c].dialer, dialed[c].acceptor)
  BY <1>0, DialTypes DEF Inv, LinkInv
<1>2. CASE UNCHANGED dialed
  <2> SUFFICES ASSUME NEW c \in 1 .. Len(dialed)
               PROVE  Known(dialed[c].dialer, dialed[c].acceptor)'
    BY <1>0, <1>1, <1>2
  <2>1. PICK n \in Node, h \in Node : n = dialed[c].dialer /\ h = dialed[c].acceptor
    BY <1>1
  <2>2. Known(n, h)'
    BY <1>0, <1>1, <2>1, Stays, Addresses
  <2>3. n = dialed'[c].dialer /\ h = dialed'[c].acceptor
    BY <1>2, <2>1
  <2> QED  BY <2>1, <2>2, <2>3 DEF Known
<1>3. ASSUME NEW n \in Node, connect(n) PROVE
         /\ dialed' \in Seq([dialer : Node, acceptor : Node]) /\ Len(dialed') <= MaxConn
         /\ \A c \in 1 .. Len(dialed') :
               /\ dialed'[c].dialer # dialed'[c].acceptor
               /\ Known(dialed[c].dialer, dialed[c].acceptor)'
  <2> DEFINE host == Head(commands[n]).peer
  <2>1. host \in Node \ {n} /\ Known(n, host)
    BY <1>3, Heads DEF connect, Commanded, GoodCommand
  <2>2. dialed' = Append(dialed, [dialer |-> n, acceptor |-> host]) /\ Len(dialed) + 1 \in Conn
    BY <1>3 DEF connect
  <2> HIDE DEF host
  <2>3. /\ dialed' \in Seq([dialer : Node, acceptor : Node]) /\ Len(dialed') <= MaxConn
        /\ Len(dialed') = Len(dialed) + 1 /\ Len(dialed) \in Nat
        /\ dialed'[Len(dialed')] = [dialer |-> n, acceptor |-> host]
        /\ \A c \in 1 .. Len(dialed) : dialed'[c] = dialed[c]
    BY <1>0, <2>1, <2>2, Addresses
  <2> SUFFICES ASSUME NEW c \in 1 .. Len(dialed')
               PROVE  /\ dialed'[c].dialer # dialed'[c].acceptor
                      /\ Known(dialed[c].dialer, dialed[c].acceptor)'
    BY <2>3
  <2>4. PICK m \in Node, h \in Node : /\ m = dialed'[c].dialer /\ h = dialed'[c].acceptor
                                      /\ m # h /\ Known(m, h)
    <3>1. CASE c = Len(dialed')
      BY <2>1, <2>3, <3>1
    <3>2. CASE c # Len(dialed')
      BY <1>1, <2>3, <3>2
    <3> QED  BY <3>1, <3>2
  <2>5. Known(m, h)'
    BY <1>0, <2>4, Stays, Addresses
  <2> QED  BY <2>4, <2>5 DEF Known
<1>4. ASSUME NEW n \in Node, SessionAction(n) PROVE UNCHANGED dialed
  BY <1>4, SessionFrames
<1>5. ASSUME NEW n \in Node, TransportAction(n) PROVE UNCHANGED dialed \/ connect(n)
  BY <1>5, TransportFrames
<1>6. ASSUME NEW c, reset(c) PROVE UNCHANGED dialed
  BY <1>6 DEF reset
<1> QED  BY <1>2, <1>3, <1>4, <1>5, <1>6, Steps DEF vars, tcpVars

\* A new connection is linked to both of its ends.
LEMMA Dialed ==
  ASSUME Inv, NEW n \in Node, connect(n)
  PROVE  \E h \in Node \ {n}, c \in Conn :
            /\ h = Head(commands[n]).peer /\ c = Len(dialed) + 1
            /\ Link(n, h, c)' /\ Link(h, c, c)'
            /\ active' = [active EXCEPT ![n][h] = c]
            /\ backlog' = [backlog EXCEPT ![h] = Append(@, c)]
<1> DEFINE host == Head(commands[n]).peer
<1>1. host \in Node \ {n}
  BY Heads DEF connect, Commanded, GoodCommand
<1>2. /\ dialed' = Append(dialed, [dialer |-> n, acceptor |-> host]) /\ Len(dialed) + 1 \in Conn
      /\ active' = [active EXCEPT ![n][host] = Len(dialed) + 1]
      /\ backlog' = [backlog EXCEPT ![host] = Append(@, Len(dialed) + 1)]
  BY DEF connect
<1>3. PICK h \in Node \ {n}, c \in Conn : h = host /\ c = Len(dialed) + 1
  BY <1>1, <1>2
<1> HIDE DEF host
<1>4. dialed \in Seq([dialer : Node, acceptor : Node])
  BY DEF Inv, TypeOK, TCPTypeOK
<1>5. dialed'[c] = [dialer |-> n, acceptor |-> h] /\ c \in 1 .. Len(dialed')
  BY <1>2, <1>3, <1>4
<1>6. Link(n, h, c)' /\ Link(h, c, c)'
  BY <1>5 DEF Link
<1> QED  BY <1>2, <1>3, <1>6 DEF host

\* A connection registered in activeConnections joins the node to that address.
LEMMA ActiveStep ==
  ASSUME Inv, [Next]_vars
  PROVE  /\ active' \in [Node -> [Address -> Conn \cup {None}]]
         /\ \A n \in Node, a \in Address : active'[n][a] # None => Link(n, a, active[n][a])'
<1>0. active \in [Node -> [Address -> Conn \cup {None}]] /\ Grows /\ TypeOK
  BY Growth DEF Inv, TypeOK, TCPTypeOK
<1>1. \A n \in Node, a \in Address, c \in Conn : active[n][a] = c => Link(n, a, c)'
  <2>1. \A n \in Node, a \in Address, c \in Conn : active[n][a] = c => Link(n, a, c)
    BY Addresses DEF Inv, LinkInv
  <2> QED  BY <1>0, <2>1, Stays
<1>2. /\ active' \in [Node -> [Address -> Conn \cup {None}]]
      /\ \/ active' = active
         \/ \E n \in Node, a \in Address : active' = [active EXCEPT ![n][a] = None]
         \/ \E n \in Node, a \in Address, c \in Conn :
               active' = [active EXCEPT ![n][a] = c] /\ Link(n, a, c)'
  <2>1. ASSUME NEW n \in Node, connect(n)
        PROVE  \E a \in Address, c \in Conn :
                  active' = [active EXCEPT ![n][a] = c] /\ Link(n, a, c)'
    BY <2>1, Dialed, Addresses
  <2>2. ASSUME NEW n \in Node, listenerHandler(n)
        PROVE  \E a \in Address, c \in Conn :
                  active' = [active EXCEPT ![n][a] = c] /\ Link(n, a, c)'
    <3>1. PICK c \in Conn : c = Head(backlog[n]) /\ Link(n, c, c)
      BY <2>2, Heads DEF listenerHandler
    <3>2. Link(n, c, c)' /\ active' = [active EXCEPT ![n][c] = c]
      BY <1>0, <2>2, <3>1, Stays, Addresses DEF listenerHandler
    <3> QED  BY <3>2, Addresses
  <2>3. ASSUME NEW n \in Node, NEW c \in Conn, handleInbound(n, c)
        PROVE  \E a \in Address :
                  active' = [active EXCEPT ![n][a] = c] /\ Link(n, a, c)'
    <3>1. PICK i \in 1 .. Len(backlog[n]) : backlog[n][i] = c
      BY <2>3 DEF handleInbound, Leaves
    <3>2. backlog[n] \in Seq(GoodLinks(n))
      BY DEF Inv, LinkInv
    <3>3. c \in GoodLinks(n)
      BY <3>1, <3>2, ElementOfSeq
    <3>4. Link(n, c, c)' /\ active' = [active EXCEPT ![n][c] = c]
      BY <1>0, <2>3, <3>3, Stays, Addresses DEF handleInbound, GoodLinks
    <3> QED  BY <3>4, Addresses
  <2>4. ASSUME NEW n \in Node, disconnect(n)
        PROVE  UNCHANGED active \/ \E a \in Address : active' = [active EXCEPT ![n][a] = None]
    <3>1. Head(commands[n]).peer \in Address
      BY <2>4, Heads DEF disconnect, Commanded, Command
    <3> QED  BY <2>4, <3>1 DEF disconnect, Unregistered
  <2>5. ASSUME NEW n \in Node, NEW c \in Conn, readError(n, c)
        PROVE  UNCHANGED active \/ \E a \in Address : active' = [active EXCEPT ![n][a] = None]
    <3>1. IsEnd(n, c)
      BY <2>5 DEF readError, Inv, LinkInv
    <3>2. AddressOf(n, c) \in Address
      BY <1>0, <3>1, DialTypes, Addresses DEF IsEnd, AddressOf
    <3> QED  BY <2>5, <3>2 DEF readError, Unregistered
  <2>6. ASSUME NEW n \in Node, NEW c \in Conn,
               \/ readFrames(n, c) \/ readerEmits(n, c) \/ handleInboundFails(n, c)
               \/ closeDiscards(n, c)
        PROVE  UNCHANGED active
    BY <2>6 DEF readFrames, readerEmits, handleInboundFails, closeDiscards
  <2>7. ASSUME NEW n \in Node,
               connectEmits(n) \/ connectFails(n) \/ send(n) \/ write(n) \/ writeFails(n)
        PROVE  UNCHANGED active
    BY <2>7 DEF connectEmits, connectFails, send, write, writeFails
  <2>8. ASSUME NEW n \in Node, SessionAction(n) PROVE UNCHANGED active
    BY <2>8, SessionFrames
  <2>9. ASSUME NEW c, reset(c) PROVE UNCHANGED active
    BY <2>9 DEF reset
  <2>10. \/ active' = active
         \/ \E n \in Node, a \in Address : active' = [active EXCEPT ![n][a] = None]
         \/ \E n \in Node, a \in Address, c \in Conn :
               active' = [active EXCEPT ![n][a] = c] /\ Link(n, a, c)'
    BY <2>1, <2>2, <2>3, <2>4, <2>5, <2>6, <2>7, <2>8, <2>9, Steps
    DEF TransportAction, vars, tcpVars
  <2>11. active' \in [Node -> [Address -> Conn \cup {None}]]
    BY <1>0, <2>10
  <2> QED  BY <2>10, <2>11
<1>3. SUFFICES ASSUME NEW n \in Node, NEW a \in Address, active'[n][a] # None
               PROVE  Link(n, a, active[n][a])'
  BY <1>2
<1>4. PICK c \in Conn : c = active'[n][a]
  BY <1>2, <1>3
<1>5. Link(n, a, c)'
  <2>1. None \notin Conn
    BY Addresses
  <2>2. CASE active' = active
    BY <1>1, <1>4, <2>2
  <2>3. CASE \E m \in Node, b \in Address : active' = [active EXCEPT ![m][b] = None]
    BY <1>0, <1>1, <1>4, <2>1, <2>3
  <2>4. ASSUME NEW m \in Node, NEW b \in Address, NEW d \in Conn,
               active' = [active EXCEPT ![m][b] = d], Link(m, b, d)'
        PROVE  Link(n, a, c)'
    BY <1>0, <1>1, <1>4, <2>4
  <2> QED  BY <1>2, <2>2, <2>3, <2>4
<1> QED  BY <1>4, <1>5 DEF Link

\* Connections that wait for the listener were dialed to this node.
LEMMA BacklogStep ==
  ASSUME Inv, [Next]_vars
  PROVE  /\ backlog' \in [Node -> Seq(Conn)]
         /\ \A n \in Node : backlog'[n] \in Seq(GoodLinks(n)')
<1>0. backlog \in [Node -> Seq(Conn)] /\ Grows /\ TypeOK
  BY Growth DEF Inv, TypeOK, TCPTypeOK
<1>1. \A n \in Node : /\ GoodLinks(n) \subseteq GoodLinks(n)'
                      /\ backlog[n] \in Seq(GoodLinks(n))
                      /\ GoodLinks(n)' \subseteq Conn
  BY <1>0, GoodGrows DEF Inv, LinkInv, GoodLinks
<1>2. \/ UNCHANGED backlog
      \/ \E n \in Node : \E d \in Seq(GoodLinks(n)') : backlog' = [backlog EXCEPT ![n] = d]
  <2>1. ASSUME NEW n \in Node, connect(n)
        PROVE  \E h \in Node : \E d \in Seq(GoodLinks(h)') : backlog' = [backlog EXCEPT ![h] = d]
    <3>1. PICK h \in Node, c \in Conn : /\ Link(h, c, c)'
                                        /\ backlog' = [backlog EXCEPT ![h] = Append(@, c)]
      BY <2>1, Dialed
    <3>2. c \in GoodLinks(h)'
      BY <3>1 DEF GoodLinks
    <3>3. Append(backlog[h], c) \in Seq(GoodLinks(h)')
      BY <1>1, <3>2, SeqParts
    <3> QED  BY <1>0, <3>1, <3>3
  <2>2. ASSUME NEW n \in Node, listenerHandler(n)
        PROVE  \E d \in Seq(GoodLinks(n)') : backlog' = [backlog EXCEPT ![n] = d]
    <3>1. backlog[n] # <<>> /\ backlog' = [backlog EXCEPT ![n] = Tail(@)]
      BY <2>2 DEF listenerHandler
    <3>2. Tail(backlog[n]) \in Seq(GoodLinks(n)')
      BY <1>1, <3>1, SeqParts
    <3> QED  BY <1>0, <3>1, <3>2
  <2>3. ASSUME NEW n \in Node, NEW c, Leaves(n, c)
        PROVE  \E d \in Seq(GoodLinks(n)') : backlog' = [backlog EXCEPT ![n] = d]
    <3>1. PICK i \in 1 .. Len(backlog[n]) : backlog' = [backlog EXCEPT ![n] = RemoveAt(@, i)]
      BY <2>3 DEF Leaves
    <3>2. RemoveAt(backlog[n], i) \in Seq(GoodLinks(n)')
      BY <1>1, SeqParts
    <3> QED  BY <1>0, <3>1, <3>2
  <2>4. ASSUME NEW n \in Node, SessionAction(n) PROVE UNCHANGED backlog
    BY <2>4, SessionFrames
  <2>5. ASSUME NEW c, reset(c) PROVE UNCHANGED backlog
    BY <2>5 DEF reset
  <2> QED  BY <2>1, <2>2, <2>3, <2>4, <2>5, Steps, TransportFrames DEF vars, tcpVars
<1>3. \A n \in Node : backlog[n] \in Seq(GoodLinks(n)')
  BY <1>1, SeqParts
<1>4. \A n \in Node : Seq(GoodLinks(n)') \subseteq Seq(Conn)
  BY <1>1, SeqParts
<1>5. CASE UNCHANGED backlog
  BY <1>0, <1>3, <1>5
<1>6. ASSUME NEW n \in Node, NEW d \in Seq(GoodLinks(n)'), backlog' = [backlog EXCEPT ![n] = d]
      PROVE  /\ backlog' \in [Node -> Seq(Conn)]
             /\ \A m \in Node : backlog'[m] \in Seq(GoodLinks(m)')
  BY <1>0, <1>3, <1>4, <1>6
<1> QED  BY <1>2, <1>5, <1>6

\* Only the ends of a connection read from it.
LEMMA ReaderStep ==
  ASSUME Inv, [Next]_vars
  PROVE  /\ reader' \in [End -> {"off", "reading", "emitting"}]
         /\ \A n \in Node, c \in Conn : reader'[<<n, c>>] # "off" => IsEnd(n, c)'
<1>0. reader \in [End -> {"off", "reading", "emitting"}] /\ Grows /\ TypeOK
  BY Growth DEF Inv, TypeOK, TCPTypeOK
<1>1. \A n \in Node, c \in Conn : reader[<<n, c>>] # "off" => IsEnd(n, c)'
  BY <1>0, Stays DEF Inv, LinkInv
<1>2. \/ UNCHANGED reader
      \/ \E n \in Node, c \in Conn, s \in {"off", "reading", "emitting"} :
            reader' = [reader EXCEPT ![<<n, c>>] = s] /\ IsEnd(n, c)'
  <2>1. ASSUME NEW n \in Node, connectEmits(n)
        PROVE  \E c \in Conn : reader' = [reader EXCEPT ![<<n, c>>] = "reading"] /\ IsEnd(n, c)'
    <3>1. /\ Head(commands[n]).conn \in Conn /\ Head(commands[n]).peer \in Address
          /\ Link(n, Head(commands[n]).peer, Head(commands[n]).conn)
      BY <2>1, Heads DEF connectEmits, Commanded, Command, GoodCommand
    <3>2. PICK c \in Conn : c = Head(commands[n]).conn /\ IsEnd(n, c)
      BY <3>1 DEF Link, IsEnd
    <3> QED  BY <1>0, <2>1, <3>2, Stays DEF connectEmits
  <2>2. ASSUME NEW n \in Node, listenerHandler(n)
        PROVE  \E c \in Conn : reader' = [reader EXCEPT ![<<n, c>>] = "reading"] /\ IsEnd(n, c)'
    <3>1. PICK c \in Conn : c = Head(backlog[n]) /\ IsEnd(n, c)
      BY <2>2, Heads DEF listenerHandler, Link, IsEnd
    <3> QED  BY <1>0, <2>2, <3>1, Stays DEF listenerHandler
  <2>3. ASSUME NEW n \in Node, NEW c \in Conn, handleInbound(n, c)
        PROVE  reader' = [reader EXCEPT ![<<n, c>>] = "reading"] /\ IsEnd(n, c)'
    <3>1. PICK i \in 1 .. Len(backlog[n]) : backlog[n][i] = c
      BY <2>3 DEF handleInbound, Leaves
    <3>2. backlog[n] \in Seq(GoodLinks(n))
      BY DEF Inv, LinkInv
    <3>3. c \in GoodLinks(n)
      BY <3>1, <3>2, ElementOfSeq
    <3>4. IsEnd(n, c)
      BY <3>3 DEF GoodLinks, Link, IsEnd
    <3> QED  BY <1>0, <2>3, <3>4, Stays DEF handleInbound
  <2>4. ASSUME NEW n \in Node, NEW c \in Conn, readError(n, c) \/ readerEmits(n, c)
        PROVE  \E s \in {"off", "emitting"} :
                  reader' = [reader EXCEPT ![<<n, c>>] = s] /\ IsEnd(n, c)'
    <3>1. IsEnd(n, c)'
      BY <1>1, <2>4 DEF readError, readerEmits
    <3> QED  BY <2>4, <3>1 DEF readError, readerEmits
  <2>5. ASSUME NEW n \in Node, SessionAction(n) PROVE UNCHANGED reader
    BY <2>5, SessionFrames
  <2>6. ASSUME NEW c, reset(c) PROVE UNCHANGED reader
    BY <2>6 DEF reset
  <2> QED  BY <2>1, <2>2, <2>3, <2>4, <2>5, <2>6, Steps, TransportFrames, ZenonT(40) DEF vars, tcpVars
<1>3. CASE UNCHANGED reader
  BY <1>0, <1>1, <1>3
<1>4. ASSUME NEW n \in Node, NEW c \in Conn, NEW s \in {"off", "reading", "emitting"},
             reader' = [reader EXCEPT ![<<n, c>>] = s], IsEnd(n, c)'
      PROVE  /\ reader' \in [End -> {"off", "reading", "emitting"}]
             /\ \A m \in Node, d \in Conn : reader'[<<m, d>>] # "off" => IsEnd(m, d)'
  <2>1. reader' \in [End -> {"off", "reading", "emitting"}]
    BY <1>0, <1>4
  <2>2. ASSUME NEW m \in Node, NEW d \in Conn, reader'[<<m, d>>] # "off" PROVE IsEnd(m, d)'
    BY <1>0, <1>1, <1>4, <2>2 DEF End
  <2> QED  BY <2>1, <2>2
<1> QED  BY <1>2, <1>3, <1>4
------------------------------------------------------------------------------
(* Frames and events. *)

\* The two ends of a connection.
LEMMA Sides ==
  ASSUME Inv, NEW n \in Node, NEW c \in Conn, IsEnd(n, c)
  PROVE  /\ Remote(n, c) \in Node /\ IsEnd(Remote(n, c), c) /\ Remote(Remote(n, c), c) = n
         /\ AddressOf(n, c) \in Address /\ Known(n, AddressOf(n, c))
         /\ HostAt(n, AddressOf(n, c)) = Remote(n, c)
         /\ AddressOf(n, c) \in Node \/ AddressOf(Remote(n, c), c) \in Node
         /\ AddressOf(n, c) \notin Node \/ AddressOf(Remote(n, c), c) \notin Node
<1>1. /\ c \in 1 .. Len(dialed) /\ dialed[c].dialer \in Node /\ dialed[c].acceptor \in Node
      /\ dialed[c].dialer # dialed[c].acceptor
      /\ Known(dialed[c].dialer, dialed[c].acceptor)
      /\ n \in {dialed[c].dialer, dialed[c].acceptor}
  BY DialTypes DEF IsEnd, Inv, LinkInv
<1>2. c \notin Node /\ c \in Address /\ Node \subseteq Address
  BY Addresses
<1>3. CASE n = dialed[c].dialer
  BY <1>1, <1>2, <1>3 DEF IsEnd, Remote, AddressOf, HostAt
<1>4. CASE n = dialed[c].acceptor
  <2>1. Known(n, c) /\ AddressOf(n, c) = c /\ Remote(n, c) = dialed[c].dialer
    BY <1>1, <1>2, <1>4 DEF Remote, AddressOf, Known
  <2> QED  BY <1>1, <1>2, <1>4, <2>1 DEF IsEnd, Remote, AddressOf, HostAt
<1> QED  BY <1>1, <1>3, <1>4

\* The far side of a registered connection is the host that its address names.
LEMMA Linked ==
  ASSUME Inv, NEW n \in Node, NEW a \in Address, NEW c \in Conn, Link(n, a, c)
  PROVE  IsEnd(n, c) /\ AddressOf(n, c) = a /\ Known(n, a)
<1>1. c \in 1 .. Len(dialed) /\ dialed[c].dialer # dialed[c].acceptor
  BY DEF Link, Inv, LinkInv
<1>2. IsEnd(n, c) /\ AddressOf(n, c) = a
  BY <1>1 DEF Link, IsEnd, AddressOf
<1> QED  BY <1>2, Sides

\* Frames in flight stay good.
LEMMA WireStep ==
  ASSUME Inv, [Next]_vars
  PROVE  /\ wire' \in [End -> Seq(Frame)]
         /\ \A n \in Node, c \in Conn : wire'[<<n, c>>] \in Seq(GoodFrames(n, c)')
<1>0. wire \in [End -> Seq(Frame)] /\ Grows /\ TypeOK
  BY Growth DEF Inv, TypeOK, TCPTypeOK
<1>1. \A n \in Node, c \in Conn : /\ GoodFrames(n, c) \subseteq GoodFrames(n, c)'
                                  /\ wire[<<n, c>>] \in Seq(GoodFrames(n, c))
                                  /\ GoodFrames(n, c)' \subseteq Frame
  BY <1>0, GoodGrows DEF Inv, FrameInv, GoodFrames
<1>2. \/ UNCHANGED wire
      \/ \E n \in Node, c \in Conn : \E d \in Seq(GoodFrames(n, c)') :
            wire' = [wire EXCEPT ![<<n, c>>] = d]
  <2>1. ASSUME NEW n \in Node, write(n)
        PROVE  \E m \in Node, c \in Conn : \E d \in Seq(GoodFrames(m, c)') :
                  wire' = [wire EXCEPT ![<<m, c>>] = d]
    <3> DEFINE cmd == Head(commands[n])
    <3>1. /\ cmd \in Command /\ cmd.op = "write" /\ Link(n, cmd.peer, cmd.conn)
          /\ GoodFrame(n, cmd.peer, cmd.frame)
      BY <2>1, Heads DEF write, Commanded, GoodCommand
    <3>2. cmd.peer \in Address /\ cmd.conn \in Conn /\ cmd.frame \in Frame
      BY <3>1 DEF Command
    <3>3. PICK a \in Address, c \in Conn, f \in Frame :
             a = cmd.peer /\ c = cmd.conn /\ f = cmd.frame
      BY <3>2
    <3>4. wire' = [wire EXCEPT ![<<Remote(n, c), c>>] = Append(@, f)]
      BY <2>1, <3>3 DEF write
    <3>5. IsEnd(n, c) /\ AddressOf(n, c) = a /\ GoodFrame(n, a, f)
      BY <3>1, <3>3, Linked
    <3>6. PICK m \in Node : m = Remote(n, c) /\ IsEnd(m, c) /\ Remote(m, c) = n
      BY <3>5, Sides
    <3>7. f \in GoodFrames(m, c)
      BY <3>5, <3>6 DEF GoodFrames
    <3>8. Append(wire[<<m, c>>], f) \in Seq(GoodFrames(m, c)')
      <4>1. f \in GoodFrames(m, c)'
        BY <1>1, <3>7
      <4> QED  BY <1>1, <4>1, SeqParts
    <3>9. wire' = [wire EXCEPT ![<<m, c>>] = Append(wire[<<m, c>>], f)]
      BY <1>0, <3>4, <3>6
    <3> QED  BY <3>8, <3>9
  <2>2. ASSUME NEW n \in Node, NEW c \in Conn, readFrames(n, c) \/ closeDiscards(n, c)
        PROVE  \E d \in Seq(GoodFrames(n, c)') : wire' = [wire EXCEPT ![<<n, c>>] = d]
    <3>1. wire[<<n, c>>] # <<>>
      BY <2>2 DEF readFrames, closeDiscards
    <3>2. Tail(wire[<<n, c>>]) \in Seq(GoodFrames(n, c)')
      BY <1>1, <3>1, SeqParts
    <3>3. <<>> \in Seq(GoodFrames(n, c)')
      OBVIOUS
    <3>4. \/ wire' = [wire EXCEPT ![<<n, c>>] = Tail(wire[<<n, c>>])]
          \/ wire' = [wire EXCEPT ![<<n, c>>] = <<>>]
      BY <1>0, <2>2 DEF readFrames, closeDiscards
    <3> QED  BY <3>2, <3>3, <3>4
  <2>3. ASSUME NEW n \in Node, SessionAction(n) PROVE UNCHANGED wire
    BY <2>3, SessionFrames
  <2>4. ASSUME NEW c, reset(c) PROVE UNCHANGED wire
    BY <2>4 DEF reset
  <2>5. ASSUME NEW n \in Node, TransportAction(n)
        PROVE  UNCHANGED wire \/ write(n) \/ \E c \in Conn : readFrames(n, c) \/ closeDiscards(n, c)
    BY <2>5, TransportFrames
  <2>6. CASE \E n \in Node : write(n)
    BY <2>1, <2>6
  <2>7. CASE \E n \in Node, c \in Conn : readFrames(n, c) \/ closeDiscards(n, c)
    BY <2>2, <2>7
  <2>8. UNCHANGED wire \/ (\E n \in Node : write(n))
          \/ \E n \in Node, c \in Conn : readFrames(n, c) \/ closeDiscards(n, c)
    BY <2>3, <2>4, <2>5, Steps DEF vars, tcpVars
  <2> QED  BY <2>6, <2>7, <2>8
<1>3. \A n \in Node, c \in Conn : wire[<<n, c>>] \in Seq(GoodFrames(n, c)')
  BY <1>1, SeqParts, ZenonT(40)
<1>4. \A n \in Node, c \in Conn : Seq(GoodFrames(n, c)') \subseteq Seq(Frame)
  BY <1>1, SeqParts
<1>5. CASE UNCHANGED wire
  BY <1>0, <1>3, <1>5
<1>6. ASSUME NEW n \in Node, NEW c \in Conn, NEW d \in Seq(GoodFrames(n, c)'),
             wire' = [wire EXCEPT ![<<n, c>>] = d]
      PROVE  /\ wire' \in [End -> Seq(Frame)]
             /\ \A m \in Node, b \in Conn : wire'[<<m, b>>] \in Seq(GoodFrames(m, b)')
  <2>1. wire' \in [End -> Seq(Frame)]
    BY <1>0, <1>4, <1>6
  <2>2. ASSUME NEW m \in Node, NEW b \in Conn
        PROVE  wire'[<<m, b>>] = wire[<<m, b>>] \/ (m = n /\ b = c /\ wire'[<<m, b>>] = d)
    BY <1>0, <1>6 DEF End
  <2> QED  BY <1>3, <2>1, <2>2
<1> QED  BY <1>2, <1>5, <1>6

\* Messages handed to the session handler stay good.
LEMMA ChannelStep ==
  ASSUME Inv, [Next]_vars
  PROVE  /\ outChannel' \in [Node -> Seq(Message)]
         /\ \A n \in Node : outChannel'[n] \in Seq(GoodArrivals(n)')
<1>0. outChannel \in [Node -> Seq(Message)] /\ Grows /\ TypeOK
  BY Growth DEF Inv, TypeOK, TCPTypeOK
<1>1. \A n \in Node : /\ GoodArrivals(n) \subseteq GoodArrivals(n)'
                      /\ outChannel[n] \in Seq(GoodArrivals(n))
                      /\ GoodArrivals(n)' \subseteq Message
  BY <1>0, GoodGrows DEF Inv, FrameInv, GoodArrivals
<1>2. \/ UNCHANGED outChannel
      \/ \E n \in Node : \E d \in Seq(GoodArrivals(n)') : outChannel' = [outChannel EXCEPT ![n] = d]
  <2>1. ASSUME NEW n \in Node, SessionAction(n), FrameTaken(n), ~UNCHANGED outChannel
        PROVE  \E d \in Seq(GoodArrivals(n)') : outChannel' = [outChannel EXCEPT ![n] = d]
    <3>1. outChannel[n] # <<>>
      <4>1. CASE Receive(n)
        BY <4>1 DEF Receive, handleServerHandshake, rejectHandshake, handleAck, handleReject,
           handleUnexpected, Handshakes
      <4>2. UNCHANGED outChannel \/ Receive(n)
        BY <2>1 DEF SessionAction, Request, connectClient, disconnectHost, sendTo, NothingTaken,
           Signal, handleConnected, handleDisconnected, handleFailed, EventTaken, timerFires,
           dispatchHandshakeTimeout, tcpVars
      <4> QED  BY <2>1, <4>1, <4>2
    <3>2. Tail(outChannel[n]) \in Seq(GoodArrivals(n)')
      BY <1>1, <3>1, SeqParts
    <3> QED  BY <1>0, <2>1, <3>2 DEF FrameTaken
  <2>2. ASSUME NEW n \in Node, NEW c \in Conn, readFrames(n, c)
        PROVE  \E d \in Seq(GoodArrivals(n)') : outChannel' = [outChannel EXCEPT ![n] = d]
    <3> DEFINE f == Head(wire[<<n, c>>])
               m == [peer |-> AddressOf(n, c), frame |-> f]
    <3>1. wire[<<n, c>>] # <<>> /\ wire[<<n, c>>] \in Seq(GoodFrames(n, c))
      BY <2>2 DEF readFrames, Inv, FrameInv
    <3>2. f \in GoodFrames(n, c)
      BY <3>1
    <3>3. /\ f \in Frame /\ IsEnd(n, c)
          /\ GoodFrame(Remote(n, c), AddressOf(Remote(n, c), c), f)
      BY <3>2 DEF GoodFrames
    <3>4. PICK r \in Node : r = Remote(n, c) /\ IsEnd(r, c) /\ Remote(r, c) = n
      BY <3>3, Sides
    <3>5. /\ m \in Message /\ Known(n, m.peer) /\ HostAt(n, m.peer) = r
      BY <3>3, <3>4, Sides DEF Message
    <3>6. f.type = "Ack" => m.peer \in Node /\ Accepted(m.peer, n)
      <4> SUFFICES ASSUME f.type = "Ack" PROVE m.peer \in Node /\ Accepted(m.peer, n)
        OBVIOUS
      <4>1. AddressOf(r, c) \notin Node /\ Accepted(r, HostAt(r, AddressOf(r, c)))
        BY <3>3, <3>4 DEF GoodFrame
      <4>2. HostAt(r, AddressOf(r, c)) = n
        BY <3>4, Sides
      <4>3. m.peer \in Node
        BY <3>3, <3>4, <4>1, Sides
      <4>4. m.peer = r
        BY <3>5, <4>3 DEF HostAt
      <4> QED  BY <4>1, <4>2, <4>3, <4>4
    <3>7. m \in GoodArrivals(n)
      BY <3>3, <3>4, <3>5, <3>6 DEF GoodArrivals, GoodArrival, GoodFrame
    <3>8. outChannel' = [outChannel EXCEPT ![n] = Append(@, m)]
      BY <2>2 DEF readFrames
    <3> HIDE DEF m
    <3>9. Append(outChannel[n], m) \in Seq(GoodArrivals(n)')
      BY <1>1, <3>7, SeqParts
    <3> QED  BY <1>0, <3>8, <3>9
  <2>3. ASSUME NEW n \in Node, SessionAction(n) PROVE UNCHANGED outChannel \/ FrameTaken(n)
    BY <2>3, SessionFrames
  <2>4. ASSUME NEW c, reset(c) PROVE UNCHANGED outChannel
    BY <2>4 DEF reset
  <2> QED  BY <2>1, <2>2, <2>3, <2>4, Steps, TransportFrames DEF vars, tcpVars
<1>3. \A n \in Node : outChannel[n] \in Seq(GoodArrivals(n)')
  BY <1>1, SeqParts
<1>4. \A n \in Node : Seq(GoodArrivals(n)') \subseteq Seq(Message)
  BY <1>1, SeqParts
<1>5. CASE UNCHANGED outChannel
  BY <1>0, <1>3, <1>5
<1>6. ASSUME NEW n \in Node, NEW d \in Seq(GoodArrivals(n)'),
             outChannel' = [outChannel EXCEPT ![n] = d]
      PROVE  /\ outChannel' \in [Node -> Seq(Message)]
             /\ \A m \in Node : outChannel'[m] \in Seq(GoodArrivals(m)')
  BY <1>0, <1>3, <1>4, <1>6
<1> QED  BY <1>2, <1>5, <1>6

\* Events handed to the session handler name a connection of the node.
LEMMA EventsStep ==
  ASSUME Inv, [Next]_vars
  PROVE  /\ outEvents' \in [Node -> Seq(ConnEvent)]
         /\ \A n \in Node : outEvents'[n] \in Seq(GoodEvents(n)')
<1>0. outEvents \in [Node -> Seq(ConnEvent)] /\ Grows /\ TypeOK
  BY Growth DEF Inv, TypeOK, TCPTypeOK
<1>1. \A n \in Node : /\ GoodEvents(n) \subseteq GoodEvents(n)'
                      /\ outEvents[n] \in Seq(GoodEvents(n))
                      /\ GoodEvents(n)' \subseteq ConnEvent
  BY <1>0, GoodGrows DEF Inv, FrameInv, GoodEvents
<1>2. \/ UNCHANGED outEvents
      \/ \E n \in Node : \E d \in Seq(GoodEvents(n)') : outEvents' = [outEvents EXCEPT ![n] = d]
  <2>1. ASSUME NEW n \in Node, SessionAction(n), EventTaken(n), ~UNCHANGED outEvents
        PROVE  \E d \in Seq(GoodEvents(n)') : outEvents' = [outEvents EXCEPT ![n] = d]
    <3>1. outEvents[n] # <<>>
      <4>1. CASE Signal(n)
        BY <4>1 DEF Signal, handleConnected, handleDisconnected, handleFailed, Signalled
      <4>2. UNCHANGED outEvents \/ Signal(n)
        BY <2>1 DEF SessionAction, Request, connectClient, disconnectHost, sendTo, NothingTaken,
           Receive, handleServerHandshake, rejectHandshake, handleAck, handleReject,
           handleUnexpected, FrameTaken, timerFires, dispatchHandshakeTimeout, tcpVars
      <4> QED  BY <2>1, <4>1, <4>2
    <3>2. Tail(outEvents[n]) \in Seq(GoodEvents(n)')
      BY <1>1, <3>1, SeqParts
    <3> QED  BY <1>0, <2>1, <3>2 DEF EventTaken
  <2>2. ASSUME NEW n \in Node, NEW e \in GoodEvents(n), Emitted(n, <<e>>)
        PROVE  \E d \in Seq(GoodEvents(n)') : outEvents' = [outEvents EXCEPT ![n] = d]
    <3>1. <<e>> \in Seq(GoodEvents(n)')
      BY <1>1, Short
    <3>2. outEvents[n] \o <<e>> \in Seq(GoodEvents(n)')
      BY <1>1, <3>1, SeqParts
    <3> QED  BY <1>0, <2>2, <3>2 DEF Emitted
  <2>3. ASSUME NEW n \in Node, NEW a \in Address, Known(n, a)
        PROVE  \A type \in {"Connected", "Disconnected", "Failed"} : Event(type, a) \in GoodEvents(n)
    BY <2>3 DEF Event, GoodEvents, ConnEvent
  <2>4. ASSUME NEW n \in Node, connectFails(n) \/ disconnect(n) \/ writeFails(n)
        PROVE  UNCHANGED outEvents \/ \E e \in GoodEvents(n) : Emitted(n, <<e>>)
    <3> DEFINE a == Head(commands[n]).peer
    <3>1. a \in Address
      BY <2>4, Heads DEF connectFails, disconnect, writeFails, Commanded, Command
    <3>2. Known(n, a) \/ UNCHANGED outEvents
      <4>1. CASE connectFails(n)
        BY <4>1, Heads DEF connectFails, Commanded, GoodCommand
      <4>2. CASE disconnect(n)
        <5>1. active[n][a] = None \/ (active[n][a] \in Conn /\ Link(n, a, active[n][a]))
          BY <3>1 DEF Inv, TypeOK, TCPTypeOK, LinkInv
        <5> QED  BY <3>1, <4>2, <5>1, Linked DEF disconnect
      <4>3. CASE writeFails(n)
        <5>1. Head(commands[n]).conn \in Conn /\ Link(n, a, Head(commands[n]).conn)
          BY <4>3, Heads DEF writeFails, Commanded, Command, GoodCommand
        <5> QED  BY <3>1, <5>1, Linked
      <4> QED  BY <2>4, <4>1, <4>2, <4>3
    <3> QED  BY <2>3, <2>4, <3>1, <3>2 DEF connectFails, disconnect, writeFails
  <2>5. ASSUME NEW n \in Node, connectEmits(n)
        PROVE  \E e \in GoodEvents(n) : Emitted(n, <<e>>)
    <3>1. /\ Head(commands[n]).peer \in Address /\ Head(commands[n]).conn \in Conn
          /\ Link(n, Head(commands[n]).peer, Head(commands[n]).conn)
      BY <2>5, Heads DEF connectEmits, Commanded, Command, GoodCommand
    <3>2. Known(n, Head(commands[n]).peer)
      BY <3>1, Linked
    <3> QED  BY <2>3, <2>5, <3>1, <3>2 DEF connectEmits
  <2>6. ASSUME NEW n \in Node, listenerHandler(n)
        PROVE  \E e \in GoodEvents(n) : Emitted(n, <<e>>)
    <3>1. PICK c \in Conn : c = Head(backlog[n]) /\ Link(n, c, c)
      BY <2>6, Heads DEF listenerHandler
    <3>2. c \in Address /\ Known(n, c)
      BY <3>1, Linked, Addresses
    <3> QED  BY <2>3, <2>6, <3>1, <3>2 DEF listenerHandler
  <2>7. ASSUME NEW n \in Node, NEW c \in Conn, handleInbound(n, c)
        PROVE  \E e \in GoodEvents(n) : Emitted(n, <<e>>)
    <3>1. PICK i \in 1 .. Len(backlog[n]) : backlog[n][i] = c
      BY <2>7 DEF handleInbound, Leaves
    <3>2. backlog[n] \in Seq(GoodLinks(n))
      BY DEF Inv, LinkInv
    <3>3. c \in GoodLinks(n)
      BY <3>1, <3>2, ElementOfSeq
    <3>4. c \in Address /\ Known(n, c)
      BY <3>3, Linked, Addresses DEF GoodLinks
    <3> QED  BY <2>3, <2>7, <3>4 DEF handleInbound
  <2>8. ASSUME NEW n \in Node, NEW c \in Conn, readerEmits(n, c)
        PROVE  \E e \in GoodEvents(n) : Emitted(n, <<e>>)
    <3>1. IsEnd(n, c)
      BY <2>8 DEF readerEmits, Inv, LinkInv
    <3> QED  BY <2>3, <2>8, <3>1, Sides DEF readerEmits
  <2>9. ASSUME NEW n \in Node, SessionAction(n) PROVE UNCHANGED outEvents \/ EventTaken(n)
    BY <2>9, SessionFrames
  <2>10. ASSUME NEW c, reset(c) PROVE UNCHANGED outEvents
    BY <2>10 DEF reset
  <2> QED
    BY <2>1, <2>2, <2>4, <2>5, <2>6, <2>7, <2>8, <2>9, <2>10, Steps, TransportFrames
    DEF vars, tcpVars
<1>3. \A n \in Node : outEvents[n] \in Seq(GoodEvents(n)')
  BY <1>1, SeqParts
<1>4. \A n \in Node : Seq(GoodEvents(n)') \subseteq Seq(ConnEvent)
  BY <1>1, SeqParts
<1>5. CASE UNCHANGED outEvents
  BY <1>0, <1>3, <1>5
<1>6. ASSUME NEW n \in Node, NEW d \in Seq(GoodEvents(n)'),
             outEvents' = [outEvents EXCEPT ![n] = d]
      PROVE  /\ outEvents' \in [Node -> Seq(ConnEvent)]
             /\ \A m \in Node : outEvents'[m] \in Seq(GoodEvents(m)')
  BY <1>0, <1>3, <1>4, <1>6
<1> QED  BY <1>2, <1>5, <1>6
------------------------------------------------------------------------------
(* Sessions and mappings. *)

\* A session that is the server's is never under the address of a host; one
\* that dials is; and it is established when the host has accepted the Hello.
GoodSession(n, a, s) ==
    /\ s.state = "HandshakingServer" => a \notin Node
    /\ s.state = "HandshakingClient" => a \in Node /\ s.host = a
    /\ s.state = "Established" /\ a \in Node => Accepted(a, n)

\* What the invariant says of one session.
LEMMA SessionTypes ==
  ASSUME Inv
  PROVE  /\ sessions \in [Node -> [Address -> [state : State, host : Node \cup {None}]]]
         /\ \A n \in Node, a \in Address : GoodSession(n, a, sessions[n][a])
BY DEF Inv, TypeOK, SessionInv, GoodSession

\* What a handler's withSession leaves in the table.
LEMMA Moved ==
  ASSUME Inv, NEW n \in Node, NEW a \in Address, NEW s \in State, Moves(n, a, s)
  PROVE  \E h \in Node \cup {None} :
            /\ h = sessions[n][a].host
            /\ sessions' = [sessions EXCEPT ![n][a] = [state |-> s, host |-> h]]
<1>1. PICK r \in [state : State, host : Node \cup {None}] : r = sessions[n][a]
  BY SessionTypes
<1>2. [r EXCEPT !.state = s] = [state |-> s, host |-> r.host]
  BY <1>1
<1>3. sessions' = [sessions EXCEPT ![n][a] = [r EXCEPT !.state = s]]
  BY <1>1, SessionTypes DEF Moves
<1> QED  BY <1>1, <1>2, <1>3

\* Each handler step changes at most one session, and into a good one.
LEMMA SessionChange ==
  ASSUME Inv, NEW n \in Node, SessionAction(n), Grows
  PROVE  \/ UNCHANGED sessions
         \/ \E a \in Address, s \in [state : State, host : Node \cup {None}] :
               sessions' = [sessions EXCEPT ![n][a] = s] /\ GoodSession(n, a, s)'
<1> DEFINE Changes(a) ==
       \E s \in [state : State, host : Node \cup {None}] :
          sessions' = [sessions EXCEPT ![n][a] = s] /\ GoodSession(n, a, s)'
<1>0. /\ Node \subseteq Address /\ None \notin Address /\ Frame = SessionFrame
      /\ \A a, b \in Node : Accepted(a, b) => Accepted(a, b)'
  BY Addresses, FrameAssumption, Stays DEF Inv
<1>1. ASSUME NEW a \in Address,
             \/ Moves(n, a, "Failed") \/ Moves(n, a, "Closing")
             \/ Moves(n, a, "HandshakingServer") /\ a \notin Node
             \/ Moves(n, a, "Established") /\ (a \in Node => Accepted(a, n)')
      PROVE  Changes(a)
  <2>1. PICK t \in State : /\ Moves(n, a, t)
                           /\ t \in {"Failed", "Closing", "HandshakingServer", "Established"}
                           /\ t = "HandshakingServer" => a \notin Node
                           /\ t = "Established" /\ a \in Node => Accepted(a, n)'
    BY <1>1 DEF State
  <2>2. PICK h \in Node \cup {None} :
           sessions' = [sessions EXCEPT ![n][a] = [state |-> t, host |-> h]]
    BY <2>1, Moved
  <2>3. GoodSession(n, a, [state |-> t, host |-> h])'
    BY <2>1 DEF GoodSession
  <2> QED  BY <2>1, <2>2, <2>3
<1>2. ASSUME NEW h \in Node \ {n}, connectClient(n, h) PROVE Changes(h)
  <2>1. PICK t \in State : /\ Binds(n, h, t, h)
                           /\ t = "HandshakingClient" \/ t = sessions[n][h].state
    <3>1. sessions[n][h].state \in State
      BY <1>0, SessionTypes
    <3> QED  BY <1>2, <3>1 DEF connectClient, State
  <2>2. GoodSession(n, h, [state |-> t, host |-> h])'
    BY <1>0, <2>1, SessionTypes DEF GoodSession
  <2> QED  BY <1>0, <2>1, <2>2 DEF Binds
<1>3. ASSUME NEW h, disconnectHost(n, h) \/ sendTo(n, h) PROVE UNCHANGED sessions
  BY <1>3 DEF disconnectHost, sendTo, stateVars
<1>4. CASE Signal(n)
  <2> DEFINE e == Head(outEvents[n])
  <2>1. /\ e.peer \in Address
        /\ Known(n, e.peer)
    BY <1>4, Heads DEF Signal, handleConnected, handleDisconnected, handleFailed, Signalled,
       ConnEvent
  <2>2. CASE handleConnected(n)
    <3>1. UNCHANGED sessions
            \/ (Moves(n, e.peer, "HandshakingServer") /\ sessions[n][e.peer].state = "Idle")
      BY <2>2 DEF handleConnected, In
    <3>2. e.type = "Connected"
      BY <2>2 DEF handleConnected, Signalled
    <3> QED  BY <1>1, <2>1, <3>1, <3>2 DEF Known
  <2>3. CASE handleDisconnected(n) \/ handleFailed(n)
    <3>1. Moves(n, e.peer, "Failed") \/ Moves(n, e.peer, "Closing")
      BY <2>3 DEF handleDisconnected, handleFailed
    <3> QED  BY <1>1, <2>1, <3>1
  <2> QED  BY <1>4, <2>2, <2>3 DEF Signal
<1>5. CASE Receive(n)
  <2> DEFINE m == Head(outChannel[n])
             a == m.peer
  <2>1. m \in Message /\ GoodArrival(n, m) /\ a \in Address /\ m.frame \in SessionFrame
    BY <1>0, <1>5, Heads DEF Receive, handleServerHandshake, rejectHandshake, handleAck,
       handleReject, handleUnexpected, Handshakes, Message
  <2>2. a \in Node => sessions[n][a].state \notin {"Idle", "HandshakingServer"}
    BY <1>0, <2>1, SessionTypes DEF GoodArrival, Known, GoodSession
  <2>3. CASE handleServerHandshake(n)
    <3>1. /\ Binds(n, a, "Established", m.frame.host) /\ m.frame.type = "Hello"
          /\ sessions[n][a].state \in {"Idle", "HandshakingServer"}
      BY <2>3 DEF handleServerHandshake, Handshakes, In
    <3>2. m.frame.host \in Node
      BY <2>1, <3>1 DEF SessionFrame
    <3>3. PICK b \in Address, h \in Node : b = a /\ h = m.frame.host
      BY <2>1, <3>2
    <3>4. GoodSession(n, b, [state |-> "Established", host |-> h])'
      BY <2>2, <3>1, <3>3 DEF GoodSession
    <3>5. sessions' = [sessions EXCEPT ![n][b] = [state |-> "Established", host |-> h]]
      BY <3>1, <3>3 DEF Binds
    <3>6. [state |-> "Established", host |-> h] \in [state : State, host : Node \cup {None}]
      BY DEF State
    <3> QED  BY <3>4, <3>5, <3>6
  <2>4. CASE rejectHandshake(n) \/ handleReject(n)
    <3>1. Moves(n, a, "Failed")
      BY <2>4 DEF rejectHandshake, handleReject
    <3> QED  BY <1>1, <2>1, <3>1
  <2>5. CASE handleAck(n)
    <3>1. Moves(n, a, "Established") /\ m.frame.type = "Ack"
      BY <2>5 DEF handleAck, Handshakes
    <3>2. a \in Node /\ Accepted(a, n)
      BY <2>1, <3>1 DEF GoodArrival
    <3>3. PICK b \in Node : b = a
      BY <3>2
    <3>4. Accepted(b, n)' /\ Moves(n, b, "Established")
      BY <1>0, <3>1, <3>2, <3>3
    <3> QED  BY <1>0, <1>1, <3>4
  <2>6. CASE handleUnexpected(n)
    <3>1. UNCHANGED sessions
            \/ (Moves(n, a, "HandshakingServer") /\ sessions[n][a].state = "Idle")
      BY <2>6 DEF handleUnexpected, In
    <3> QED  BY <1>1, <2>1, <2>2, <3>1
  <2> QED  BY <1>5, <2>3, <2>4, <2>5, <2>6 DEF Receive
<1>6. ASSUME NEW a \in Address, timerFires(n, a) \/ dispatchHandshakeTimeout(n, a)
      PROVE  UNCHANGED sessions \/ Changes(a)
  <2>1. UNCHANGED sessions \/ Moves(n, a, "Failed")
    BY <1>6 DEF timerFires, dispatchHandshakeTimeout, stateVars
  <2> QED  BY <1>1, <2>1
<1> QED  BY <1>0, <1>2, <1>3, <1>4, <1>5, <1>6 DEF SessionAction, Request

\* Sessions stay good.
LEMMA SessionsStep ==
  ASSUME Inv, [Next]_vars
  PROVE  /\ sessions' \in [Node -> [Address -> [state : State, host : Node \cup {None}]]]
         /\ \A n \in Node, a \in Address : GoodSession(n, a, sessions[n][a])'
<1>0. Grows /\ TypeOK /\ Node \subseteq Address
  BY Growth, Addresses DEF Inv
<1> DEFINE T == [state : State, host : Node \cup {None}]
<1>1. \A n \in Node, a \in Address, s \in T : GoodSession(n, a, s) => GoodSession(n, a, s)'
  <2>1. \A n, h \in Node : Accepted(n, h) => Accepted(n, h)'
    BY <1>0, Stays
  <2> QED  BY <2>1 DEF GoodSession
<1>2. \A n \in Node, a \in Address :
         sessions[n][a] \in T /\ GoodSession(n, a, sessions[n][a])
  BY SessionTypes
<1>3. CASE UNCHANGED sessions
  <2> SUFFICES ASSUME NEW n \in Node, NEW a \in Address
               PROVE  GoodSession(n, a, sessions[n][a])'
    BY <1>3, SessionTypes
  <2>1. PICK s \in T : s = sessions[n][a]
    BY <1>2
  <2>2. GoodSession(n, a, s)' /\ s = sessions'[n][a]
    BY <1>1, <1>2, <1>3, <2>1
  <2> QED  BY <2>2 DEF GoodSession, Accepted
<1>4. ASSUME NEW n \in Node, NEW a \in Address, NEW s \in T,
             sessions' = [sessions EXCEPT ![n][a] = s], GoodSession(n, a, s)'
      PROVE  /\ sessions' \in [Node -> [Address -> T]]
             /\ \A m \in Node, b \in Address : GoodSession(m, b, sessions[m][b])'
  <2>1. sessions' \in [Node -> [Address -> T]]
    BY <1>4, SessionTypes
  <2> SUFFICES ASSUME NEW m \in Node, NEW b \in Address
               PROVE  GoodSession(m, b, sessions[m][b])'
    BY <2>1
  <2>2. PICK r \in T : r = sessions'[m][b]
    BY <2>1
  <2>3. r = sessions[m][b] \/ (m = n /\ b = a /\ r = s)
    BY <1>4, <2>2, SessionTypes
  <2>4. GoodSession(m, b, r)'
    BY <1>1, <1>2, <1>4, <2>3
  <2> QED  BY <2>2, <2>4 DEF GoodSession, Accepted
<1>5. UNCHANGED sessionVars => UNCHANGED sessions
  BY DEF sessionVars, stateVars
<1> QED
  BY <1>0, <1>3, <1>4, <1>5, Steps, SessionChange DEF vars, stateVars

\* An address is bound to the host at its other end, and to nobody else.
LEMMA MappingChange ==
  ASSUME Inv, NEW n \in Node, SessionAction(n)
  PROVE  \/ UNCHANGED mappingVars
         \/ \E a \in Address : cleanupServerMapping(n, a)
         \/ \E a \in Address : Known(n, a) /\ HostAt(n, a) \in Node
                                 /\ setServerMapping(n, a, HostAt(n, a))
<1>0. Node \subseteq Address /\ Frame = SessionFrame
  BY Addresses, FrameAssumption
<1>1. CASE Request(n)
  <2>1. ASSUME NEW h \in Node \ {n}, disconnectHost(n, h)
        PROVE  \E a \in Address : cleanupServerMapping(n, a)
    <3>1. resolveUnderlyingHost(n, h) \in Address
      BY <1>0 DEF resolveUnderlyingHost, Inv, TypeOK
    <3> QED  BY <2>1, <3>1 DEF disconnectHost
  <2> QED  BY <1>1, <2>1 DEF Request, connectClient, sendTo
<1>2. CASE Signal(n)
  <2>1. Head(outEvents[n]).peer \in Address
    BY <1>2, Heads DEF Signal, handleConnected, handleDisconnected, handleFailed, Signalled,
       ConnEvent
  <2> QED  BY <1>2, <2>1 DEF Signal, handleConnected, handleDisconnected, handleFailed, mappingVars
<1>3. CASE Receive(n)
  <2> DEFINE m == Head(outChannel[n])
             a == m.peer
  <2>1. m \in Message /\ GoodArrival(n, m) /\ a \in Address /\ m.frame \in SessionFrame
    BY <1>0, <1>3, Heads DEF Receive, handleServerHandshake, rejectHandshake, handleAck,
       handleReject, handleUnexpected, Handshakes, Message
  <2>2. CASE handleServerHandshake(n)
    <3>1. setServerMapping(n, a, m.frame.host) /\ m.frame.type = "Hello"
      BY <2>2 DEF handleServerHandshake, Handshakes
    <3>2. m.frame.host \in Node /\ m.frame.host = HostAt(n, a) /\ Known(n, a)
      BY <2>1, <3>1 DEF SessionFrame, GoodArrival
    <3> QED  BY <2>1, <3>1, <3>2
  <2>3. CASE handleAck(n)
    <3>1. setServerMapping(n, a, sessions[n][a].host) /\ m.frame.type = "Ack"
          /\ sessions[n][a].state = "HandshakingClient"
      BY <2>3 DEF handleAck, Handshakes, In
    <3>2. a \in Node /\ sessions[n][a].host = a /\ Known(n, a)
      BY <1>0, <2>1, <3>1, SessionTypes DEF GoodArrival, GoodSession
    <3> QED  BY <2>1, <3>1, <3>2 DEF HostAt
  <2>4. CASE rejectHandshake(n) \/ handleReject(n) \/ handleUnexpected(n)
    BY <2>4 DEF rejectHandshake, handleReject, handleUnexpected
  <2> QED  BY <1>3, <2>2, <2>3, <2>4 DEF Receive
<1>4. ASSUME NEW a \in Address, timerFires(n, a) \/ dispatchHandshakeTimeout(n, a)
      PROVE  UNCHANGED mappingVars
  BY <1>4 DEF timerFires, dispatchHandshakeTimeout
<1> QED  BY <1>1, <1>2, <1>3, <1>4 DEF SessionAction

\* The identity maps stay right: an address is bound to the host it leads to,
\* and logicalToTransport leads to an address bound to that host.
LEMMA MappingsStep ==
  ASSUME Inv, [Next]_vars
  PROVE  /\ transportToLogical' \in [Node -> [Address -> Node \cup {None}]]
         /\ logicalToTransport' \in [Node -> [Node -> Address \cup {None}]]
         /\ \A n \in Node, a \in Address :
               transportToLogical'[n][a] # None =>
                  Known(n, a)' /\ transportToLogical'[n][a] = HostAt(n, a)'
         /\ \A n, h \in Node :
               logicalToTransport'[n][h] # None =>
                  transportToLogical'[n][logicalToTransport'[n][h]] = h
<1>0. /\ transportToLogical \in [Node -> [Address -> Node \cup {None}]]
      /\ logicalToTransport \in [Node -> [Node -> Address \cup {None}]]
      /\ Grows /\ TypeOK /\ None \notin Address /\ Node \subseteq Address
  BY Growth, Addresses DEF Inv, TypeOK
<1>1. /\ \A n \in Node, a \in Address :
            Known(n, a) => Known(n, a)' /\ HostAt(n, a)' = HostAt(n, a)
      /\ \A n \in Node, a \in Address :
            transportToLogical[n][a] # None =>
               Known(n, a) /\ transportToLogical[n][a] = HostAt(n, a)
      /\ \A n, h \in Node :
            logicalToTransport[n][h] # None =>
               transportToLogical[n][logicalToTransport[n][h]] = h
  BY <1>0, Stays DEF Inv, SessionInv
<1>2. CASE UNCHANGED mappingVars
  BY <1>0, <1>1, <1>2 DEF mappingVars
<1>3. ASSUME NEW n \in Node, NEW a \in Address, cleanupServerMapping(n, a), ~UNCHANGED mappingVars
      PROVE  /\ transportToLogical' \in [Node -> [Address -> Node \cup {None}]]
             /\ logicalToTransport' \in [Node -> [Node -> Address \cup {None}]]
             /\ \A m \in Node, b \in Address :
                   transportToLogical'[m][b] # None =>
                      Known(m, b)' /\ transportToLogical'[m][b] = HostAt(m, b)'
             /\ \A m, h \in Node :
                   logicalToTransport'[m][h] # None =>
                      transportToLogical'[m][logicalToTransport'[m][h]] = h
  <2>1. PICK h \in Node :
          /\ transportToLogical[n][a] = h
          /\ transportToLogical' = [transportToLogical EXCEPT ![n][a] = None]
          /\ logicalToTransport' = [logicalToTransport EXCEPT ![n][h] = None]
    BY <1>0, <1>3 DEF cleanupServerMapping
  <2>2. /\ transportToLogical' \in [Node -> [Address -> Node \cup {None}]]
        /\ logicalToTransport' \in [Node -> [Node -> Address \cup {None}]]
    BY <1>0, <2>1
  <2>3. ASSUME NEW m \in Node, NEW b \in Address, transportToLogical'[m][b] # None
        PROVE  Known(m, b)' /\ transportToLogical'[m][b] = HostAt(m, b)'
    <3>1. transportToLogical'[m][b] = transportToLogical[m][b]
      BY <1>0, <2>1, <2>3
    <3> QED  BY <1>1, <2>3, <3>1
  <2>4. ASSUME NEW m \in Node, NEW k \in Node, logicalToTransport'[m][k] # None
        PROVE  transportToLogical'[m][logicalToTransport'[m][k]] = k
    <3>1. /\ logicalToTransport'[m][k] = logicalToTransport[m][k] /\ ~(m = n /\ k = h)
      BY <1>0, <2>1, <2>4
    <3>2. PICK b \in Address : b = logicalToTransport[m][k] /\ transportToLogical[m][b] = k
      BY <1>0, <1>1, <2>4, <3>1
    <3>3. ~(m = n /\ b = a)
      BY <2>1, <3>1, <3>2
    <3> QED  BY <1>0, <2>1, <3>1, <3>2, <3>3
  <2> QED  BY <2>2, <2>3, <2>4
<1>4. ASSUME NEW n \in Node, NEW a \in Address, NEW h \in Node, Known(n, a), h = HostAt(n, a),
             setServerMapping(n, a, h)
      PROVE  /\ transportToLogical' \in [Node -> [Address -> Node \cup {None}]]
             /\ logicalToTransport' \in [Node -> [Node -> Address \cup {None}]]
             /\ \A m \in Node, b \in Address :
                   transportToLogical'[m][b] # None =>
                      Known(m, b)' /\ transportToLogical'[m][b] = HostAt(m, b)'
             /\ \A m, k \in Node :
                   logicalToTransport'[m][k] # None =>
                      transportToLogical'[m][logicalToTransport'[m][k]] = k
  <2>1. /\ transportToLogical' = [transportToLogical EXCEPT ![n][a] = h]
        /\ logicalToTransport' = [logicalToTransport EXCEPT ![n][h] = a]
    BY <1>4 DEF setServerMapping
  <2>2. /\ transportToLogical' \in [Node -> [Address -> Node \cup {None}]]
        /\ logicalToTransport' \in [Node -> [Node -> Address \cup {None}]]
    BY <1>0, <2>1
  <2>3. ASSUME NEW m \in Node, NEW b \in Address, transportToLogical'[m][b] # None
        PROVE  Known(m, b)' /\ transportToLogical'[m][b] = HostAt(m, b)'
    <3>1. CASE m = n /\ b = a
      BY <1>0, <1>1, <1>4, <2>1, <3>1
    <3>2. CASE ~(m = n /\ b = a)
      <4>1. transportToLogical'[m][b] = transportToLogical[m][b]
        BY <1>0, <2>1, <3>2
      <4> QED  BY <1>1, <2>3, <4>1
    <3> QED  BY <3>1, <3>2
  <2>4. ASSUME NEW m \in Node, NEW k \in Node, logicalToTransport'[m][k] # None
        PROVE  transportToLogical'[m][logicalToTransport'[m][k]] = k
    <3>1. CASE m = n /\ k = h
      BY <1>0, <2>1, <3>1
    <3>2. CASE ~(m = n /\ k = h)
      <4>1. logicalToTransport'[m][k] = logicalToTransport[m][k]
        BY <1>0, <2>1, <3>2
      <4>2. PICK b \in Address : b = logicalToTransport[m][k] /\ transportToLogical[m][b] = k
        BY <1>0, <1>1, <2>4, <4>1
      <4>3. ~(m = n /\ b = a)
        BY <1>0, <1>1, <1>4, <3>2, <4>2
      <4> QED  BY <1>0, <2>1, <4>1, <4>2, <4>3
    <3> QED  BY <3>1, <3>2
  <2> QED  BY <2>2, <2>3, <2>4
<1>5. CASE \E n \in Node : SessionAction(n)
  <2> PICK n \in Node : SessionAction(n)
    BY <1>5
  <2>1. CASE \E a \in Address : cleanupServerMapping(n, a)
    BY <1>2, <1>3, <2>1
  <2>2. CASE \E a \in Address : Known(n, a) /\ HostAt(n, a) \in Node
                                  /\ setServerMapping(n, a, HostAt(n, a))
    BY <1>4, <2>2
  <2> QED  BY <1>2, <2>1, <2>2, MappingChange
<1>6. UNCHANGED sessionVars => UNCHANGED mappingVars
  BY DEF sessionVars, mappingVars
<1> QED
  BY <1>2, <1>5, <1>6, Steps DEF vars

\* Timers, reports and what else there is keep their types.
LEMMA OtherTypes ==
  ASSUME Inv, [Next]_vars
  PROVE  /\ version' \in [Node -> Versions]
         /\ armed' \in [Node -> SUBSET Address]
         /\ expired' \in [Node -> [Address -> Nat]]
         /\ reported' \in [Node -> SUBSET Address]
         /\ accepted' \subseteq Node \X Node
         /\ open' \subseteq End
<1>0. /\ version \in [Node -> Versions]
      /\ armed \in [Node -> SUBSET Address]
      /\ expired \in [Node -> [Address -> Nat]]
      /\ reported \in [Node -> SUBSET Address]
      /\ accepted \subseteq Node \X Node
      /\ open \subseteq End
      /\ Grows /\ Node \subseteq Address /\ Frame = SessionFrame
  BY Growth, Addresses, FrameAssumption DEF Inv, TypeOK, TCPTypeOK
<1>1. open' \subseteq End
  <2>1. ASSUME NEW n \in Node, connect(n) PROVE open' \subseteq End
    <3>1. Head(commands[n]).peer \in Node
      BY <2>1, Heads DEF connect, Commanded, GoodCommand
    <3> QED  BY <1>0, <2>1, <3>1 DEF connect, End
  <2>2. ASSUME NEW n \in Node, TransportAction(n), ~connect(n) PROVE open' \subseteq open
    BY <2>2 DEF TransportAction, connectEmits, connectFails, disconnect, send, write, writeFails,
       listenerHandler, readFrames, readError, readerEmits, handleInbound, handleInboundFails,
       closeDiscards, Unregistered
  <2>3. ASSUME NEW n \in Node, SessionAction(n) PROVE UNCHANGED open
    BY <2>3, SessionFrames
  <2>4. ASSUME NEW c, reset(c) PROVE open' \subseteq open
    BY <2>4 DEF reset
  <2> QED  BY <1>0, <2>1, <2>2, <2>3, <2>4, Steps DEF vars, tcpVars
<1>2. ASSUME NEW n \in Node, SessionAction(n)
      PROVE  /\ \/ UNCHANGED timerVars
                \/ \E a \in Address : stopHandshakeTimer(n, a) \/ armHandshakeTimer(n, a)
                \/ \E a \in Address : timerFires(n, a) \/ dispatchHandshakeTimeout(n, a)
             /\ \/ UNCHANGED reported
                \/ \E type, h : emitEvent(n, type, h) /\ (type = "SessionConnected" => h \in Node)
             /\ UNCHANGED accepted \/ \E h \in Node : accepted' = accepted \cup {<<n, h>>}
  <2>1. CASE Request(n)
    BY <2>1 DEF Request, connectClient, disconnectHost, sendTo
  <2>2. CASE Signal(n)
    <3>1. Head(outEvents[n]).peer \in Address
      BY <2>2, Heads DEF Signal, handleConnected, handleDisconnected, handleFailed, Signalled,
         ConnEvent
    <3>2. CASE handleConnected(n)
      BY <3>1, <3>2 DEF handleConnected
    <3>3. CASE handleDisconnected(n) \/ handleFailed(n)
      BY <3>1, <3>3 DEF handleDisconnected, handleFailed
    <3> QED  BY <2>2, <3>2, <3>3 DEF Signal
  <2>3. CASE Receive(n)
    <3> DEFINE m == Head(outChannel[n])
    <3>1. m \in Message /\ m.peer \in Address /\ m.frame \in SessionFrame
      BY <1>0, <2>3, Heads DEF Receive, handleServerHandshake, rejectHandshake, handleAck,
         handleReject, handleUnexpected, Handshakes, Message
    <3>2. CASE handleServerHandshake(n)
      <4>1. m.frame.host \in Node
        BY <3>1, <3>2 DEF SessionFrame, handleServerHandshake, Handshakes
      <4> QED  BY <3>2, <4>1 DEF handleServerHandshake
    <3>3. CASE handleAck(n)
      <4>1. sessions[n][m.peer].host \in Node
        BY <3>1, <3>3, SessionTypes DEF handleAck, Handshakes, In, GoodSession
      <4> QED  BY <3>1, <3>3, <4>1 DEF handleAck
    <3>4. CASE rejectHandshake(n)
      BY <3>4 DEF rejectHandshake
    <3>5. CASE handleReject(n) \/ handleUnexpected(n)
      BY <3>1, <3>5 DEF handleReject, handleUnexpected
    <3> QED  BY <2>3, <3>2, <3>3, <3>4, <3>5 DEF Receive
  <2>4. ASSUME NEW a \in Address, timerFires(n, a) PROVE UNCHANGED <<reported, accepted>>
    BY <2>4 DEF timerFires
  <2>5. ASSUME NEW a \in Address, dispatchHandshakeTimeout(n, a)
        PROVE  /\ UNCHANGED accepted
               /\ \/ UNCHANGED reported
                  \/ \E type, h : emitEvent(n, type, h) /\ (type = "SessionConnected" => h \in Node)
    <3>1. UNCHANGED accepted /\ (UNCHANGED reported \/ \E h : emitEvent(n, "SessionFailed", h))
      BY <2>5 DEF dispatchHandshakeTimeout
    <3>2. "SessionFailed" # "SessionConnected"
      OBVIOUS
    <3> QED  BY <3>1, <3>2
  <2>6. CASE \E a \in Address : timerFires(n, a) \/ dispatchHandshakeTimeout(n, a)
    BY <2>4, <2>5, <2>6
  <2> QED  BY <1>2, <2>1, <2>2, <2>3, <2>6 DEF SessionAction
<1>3. ASSUME NEW n \in Node, SessionAction(n)
      PROVE  armed' \in [Node -> SUBSET Address] /\ expired' \in [Node -> [Address -> Nat]]
  <2>1. CASE UNCHANGED timerVars
    BY <1>0, <2>1 DEF timerVars
  <2>2. ASSUME NEW a \in Address, stopHandshakeTimer(n, a) \/ armHandshakeTimer(n, a)
        PROVE  armed' \in [Node -> SUBSET Address] /\ expired' \in [Node -> [Address -> Nat]]
    BY <1>0, <2>2 DEF stopHandshakeTimer, armHandshakeTimer
  <2>3. ASSUME NEW a \in Address, timerFires(n, a) \/ dispatchHandshakeTimeout(n, a)
        PROVE  armed' \in [Node -> SUBSET Address] /\ expired' \in [Node -> [Address -> Nat]]
    BY <1>0, <2>3, SMTT(30) DEF timerFires, dispatchHandshakeTimeout
  <2> QED  BY <1>2, <1>3, <2>1, <2>2, <2>3
<1>4. ASSUME NEW n \in Node, SessionAction(n) PROVE reported' \in [Node -> SUBSET Address]
  BY <1>0, <1>2, <1>4 DEF emitEvent
<1>5. ASSUME NEW n \in Node, SessionAction(n) PROVE accepted' \subseteq Node \X Node
  BY <1>0, <1>2, <1>5
<1>6. UNCHANGED sessionVars => UNCHANGED <<timerVars, reported, accepted>>
  BY DEF sessionVars
<1>7. version' \in [Node -> Versions]
  BY <1>0 DEF Grows
<1> QED  BY <1>0, <1>1, <1>3, <1>4, <1>5, <1>6, <1>7, Steps DEF vars, timerVars

\* Every step keeps the inductive invariant.
LEMMA InvStep ==
  ASSUME Inv, [Next]_vars
  PROVE  Inv'
<1>0. Node \subseteq Address
  BY Addresses
<1>2. TypeOK'
  BY CommandsStep, DialsStep, ActiveStep, BacklogStep, ReaderStep, WireStep, ChannelStep,
     EventsStep, SessionsStep, MappingsStep, OtherTypes DEF TypeOK, TCPTypeOK
<1>3. LinkInv'
  BY DialsStep, ActiveStep, BacklogStep, ReaderStep DEF LinkInv
<1>4. FrameInv'
  BY CommandsStep, WireStep, ChannelStep, EventsStep DEF FrameInv
<1>5. SessionInv'
  <2>1. \A n \in Node, a \in Address : GoodSession(n, a, sessions[n][a])'
    BY SessionsStep
  <2>2. /\ \A n, h \in Node : sessions'[n][h].state # "HandshakingServer"
        /\ \A n, h \in Node : sessions'[n][h].state = "Established" => Accepted(h, n)'
        /\ \A n \in Node, a \in Address :
              sessions'[n][a].state = "HandshakingClient"
                => a \in Node /\ sessions'[n][a].host = a
    BY <1>0, <2>1 DEF GoodSession
  <2> QED  BY <2>2, MappingsStep DEF SessionInv
<1> QED  BY <1>2, <1>3, <1>4, <1>5 DEF Inv

\* The inductive invariant holds at the start.
LEMMA InvInit ==
  ASSUME Init
  PROVE  Inv
<1>0. /\ Node \subseteq Address /\ None \notin Address /\ MaxConn \in Nat
      /\ dialed = <<>> /\ Len(dialed) = 0
  BY Addresses DEF Init, TCPInit
<1>1. TypeOK
  BY <1>0 DEF Init, TCPInit, TypeOK, TCPTypeOK, End, State
<1>2. LinkInv
  BY <1>0 DEF Init, TCPInit, LinkInv, End
<1>3. FrameInv
  BY <1>0 DEF Init, TCPInit, FrameInv, End
<1>4. SessionInv
  BY <1>0 DEF Init, SessionInv
<1> QED  BY <1>1, <1>2, <1>3, <1>4 DEF Inv

\* The inductive invariant holds in every state.
LEMMA Invariance == Spec => []Inv
<1>1. Init => Inv
  BY InvInit
<1>2. Inv /\ [Next]_vars => Inv'
  BY InvStep
<1> QED  BY <1>1, <1>2, PTL DEF Spec

\* MappingsAgree of SessionLayer: however connections of one peer cross and go,
\* logicalToTransport never leads to an address that transportToLogical binds
\* to nobody or to another host.
THEOREM MappingsAlwaysAgree == Spec => []MappingsAgree
<1>1. Inv => MappingsAgree
  BY DEF Inv, SessionInv, MappingsAgree
<1> QED  BY <1>1, Invariance, PTL

\* BothAccepted of SessionLayer: "SessionConnected announces an Established
\* session: both sides accepted the handshake", and they are of one version.
THEOREM SessionsAreAccepted == Spec => []BothAccepted
<1>1. Inv => BothAccepted
  BY DEF Inv, SessionInv, BothAccepted, Accepted
<1> QED  BY <1>1, Invariance, PTL
------------------------------------------------------------------------------
(* What backs a session: nothing that the session layer handles, or already  *)
(* went by, is about an address whose end is neither recorded nor on its way. *)

\* The end of what node n has under the address is on its way to its handler.
Lost(n, a) ==
    \/ \E e \in Range(outEvents[n]) : e.peer = a /\ e.type # "Connected"
    \/ \E c \in Conn : reader[<<n, c>>] = "emitting" /\ AddressOf(n, c) = a

\* A dial to the address waits for the transport's handler.
Dials(n, a) == \E cmd \in Range(commands[n]) : cmd.op = "connect" /\ cmd.peer = a

\* Once it holds of an address, it does for good.
Backed(n, a) ==
    \/ In(n, a, {"Closing", "Failed"})
    \/ active[n][a] # None
    \/ Lost(n, a)
    \/ Dials(n, a)

\* The transport's handler is between registering the connection and starting
\* its reader.
Starts(n, c) ==
    commands[n] # <<>> /\ Head(commands[n]).op = "connected" /\ Head(commands[n]).conn = c

\* A registered connection is read from or about to be.
RegisteredIsRead(n) ==
    \A a \in Address : active[n][a] # None =>
        reader[<<n, active[n][a]>>] = "reading" \/ Starts(n, active[n][a])

\* Only the command under way is the rest of a dial, of a new connection.
OneStarts(n) ==
    commands[n] # <<>> =>
        /\ \A cmd \in Range(Tail(commands[n])) : cmd.op # "connected"
        /\ Head(commands[n]).op = "connected" =>
              /\ reader[<<n, Head(commands[n]).conn>>] = "off"
              /\ Head(commands[n]).peer \in Node
              /\ Backed(n, Head(commands[n]).peer)

\* Whatever a session, an event, a frame or a reader is about is backed.
AllBacked(n) ==
    /\ \A a \in Address : ~In(n, a, {"Idle"}) => Backed(n, a)
    /\ \A e \in Range(outEvents[n]) : Backed(n, e.peer)
    /\ \A m \in Range(outChannel[n]) : Backed(n, m.peer)
    /\ \A c \in Conn : reader[<<n, c>>] # "off" => Backed(n, AddressOf(n, c))

BackInv == \A n \in Node : RegisteredIsRead(n) /\ OneStarts(n) /\ AllBacked(n)

\* The elements of a queue that changes at its ends.
LEMMA Ranges ==
  ASSUME NEW S, NEW q \in Seq(S)
  PROVE  /\ Range(q) \subseteq S /\ Range(<<>>) = {}
         /\ \A e : Range(<<e>>) = {e}
         /\ \A d \in Seq(S) : Range(q \o d) = Range(q) \cup Range(d)
         /\ \A e \in S : Range(Append(q, e)) = Range(q) \cup {e}
         /\ q # <<>> => /\ Tail(q) \in Seq(S) /\ Head(q) \in Range(q)
                        /\ Range(q) = {Head(q)} \cup Range(Tail(q))
         /\ Range(q) # {} => q # <<>>
<1>1. \A p \in Seq(S) : Range(p) = {p[i] : i \in 1 .. Len(p)}
  BY DEF Range
<1>2. Range(q) \subseteq S /\ Range(<<>>) = {} /\ \A e : Range(<<e>>) = {e}
  BY <1>1 DEF Range
<1>3. ASSUME NEW d \in Seq(S) PROVE Range(q \o d) = Range(q) \cup Range(d)
  <2>1. q \o d \in Seq(S) /\ Len(q \o d) = Len(q) + Len(d) /\ Len(q) \in Nat /\ Len(d) \in Nat
    OBVIOUS
  <2>2. ASSUME NEW i \in 1 .. Len(q) + Len(d) PROVE (q \o d)[i] \in Range(q) \cup Range(d)
    <3>1. CASE i \in 1 .. Len(q)
      BY <1>1, <3>1
    <3>2. CASE i \notin 1 .. Len(q)
      <4>1. i - Len(q) \in 1 .. Len(d) /\ (q \o d)[i] = d[i - Len(q)]
        BY <2>1, <3>2
      <4> QED  BY <1>1, <4>1
    <3> QED  BY <3>1, <3>2
  <2>3. ASSUME NEW i \in 1 .. Len(q) PROVE q[i] \in Range(q \o d)
    <3>1. i \in 1 .. Len(q \o d) /\ (q \o d)[i] = q[i]
      BY <2>1
    <3> QED  BY <1>1, <2>1, <3>1
  <2>4. ASSUME NEW i \in 1 .. Len(d) PROVE d[i] \in Range(q \o d)
    <3>1. i + Len(q) \in 1 .. Len(q \o d) /\ (q \o d)[i + Len(q)] = d[i]
      BY <2>1
    <3> QED  BY <1>1, <2>1, <3>1
  <2>5. Range(q \o d) \subseteq Range(q) \cup Range(d)
    <3> SUFFICES ASSUME NEW x \in Range(q \o d) PROVE x \in Range(q) \cup Range(d)
      OBVIOUS
    <3>1. PICK p \in Seq(S) : p = q \o d
      BY <2>1
    <3>2. PICK i \in 1 .. Len(p) : x = p[i]
      BY <1>1, <3>1
    <3> QED  BY <2>1, <2>2, <3>1, <3>2
  <2>6. Range(q) \subseteq Range(q \o d) /\ Range(d) \subseteq Range(q \o d)
    BY <1>1, <2>3, <2>4
  <2> QED  BY <2>5, <2>6
<1>4. ASSUME NEW e \in S PROVE Range(Append(q, e)) = Range(q) \cup {e}
  <2>1. Append(q, e) = q \o <<e>> /\ <<e>> \in Seq(S)
    OBVIOUS
  <2> QED  BY <1>2, <1>3, <2>1
<1>5. ASSUME q # <<>>
      PROVE  /\ Tail(q) \in Seq(S) /\ Head(q) \in Range(q)
             /\ Range(q) = {Head(q)} \cup Range(Tail(q))
  <2>1. /\ Tail(q) \in Seq(S) /\ Len(q) \in Nat \ {0} /\ Len(Tail(q)) = Len(q) - 1 /\ Head(q) = q[1]
        /\ \A i \in 1 .. Len(Tail(q)) : Tail(q)[i] = q[i + 1]
    BY <1>5
  <2>2. Head(q) \in Range(q)
    BY <1>1, <2>1
  <2>5. Range(Tail(q)) \subseteq Range(q)
    <3> SUFFICES ASSUME NEW x \in Range(Tail(q)) PROVE x \in Range(q)
      OBVIOUS
    <3>1. PICK p \in Seq(S) : p = Tail(q)
      BY <2>1
    <3>2. PICK i \in 1 .. Len(p) : x = p[i]
      BY <1>1, <3>1
    <3>3. i + 1 \in 1 .. Len(q) /\ x = q[i + 1]
      BY <2>1, <3>1, <3>2
    <3> QED  BY <1>1, <3>3
  <2>3. ASSUME NEW i \in 1 .. Len(q) PROVE q[i] \in {Head(q)} \cup Range(Tail(q))
    <3>1. CASE i = 1
      BY <2>1, <3>1
    <3>2. CASE i # 1
      <4>1. i - 1 \in 1 .. Len(Tail(q)) /\ Tail(q)[i - 1] = q[i]
        BY <2>1, <3>2
      <4> QED  BY <1>1, <2>1, <4>1
    <3> QED  BY <3>1, <3>2
  <2>4. Range(q) \subseteq {Head(q)} \cup Range(Tail(q))
    BY <1>1, <2>3
  <2> QED  BY <2>1, <2>2, <2>4, <2>5
<1>6. Range(q) # {} => q # <<>>
  BY <1>2
<1> QED  BY <1>2, <1>3, <1>4, <1>5, <1>6

\* What a node's queues hold.
LEMMA Queues ==
  ASSUME Inv, NEW n \in Node
  PROVE  /\ commands[n] \in Seq(Command)
         /\ outEvents[n] \in Seq(ConnEvent)
         /\ outChannel[n] \in Seq(Message)
         /\ backlog[n] \in Seq(Conn)
BY DEF Inv, TypeOK, TCPTypeOK

\* What handlers and goroutines of one node leave of another's.
Local(m) == <<sessions[m], active[m], commands[m], outEvents[m], outChannel[m],
              transportToLogical[m], reported[m]>>

\* A step of one node's goroutines leaves the others' state alone.
LEMMA Others ==
  ASSUME Inv, NEW n \in Node, NEW m \in Node \ {n},
         SessionAction(n) \/ (TransportAction(n) /\ UNCHANGED sessionVars)
  PROVE  /\ UNCHANGED Local(m)
         /\ \A c \in Conn : reader'[<<m, c>>] = reader[<<m, c>>]
<1>0. /\ sessions \in [Node -> [Address -> [state : State, host : Node \cup {None}]]]
      /\ active \in [Node -> [Address -> Conn \cup {None}]]
      /\ commands \in [Node -> Seq(Command)] /\ outEvents \in [Node -> Seq(ConnEvent)]
      /\ outChannel \in [Node -> Seq(Message)] /\ reported \in [Node -> SUBSET Address]
      /\ reader \in [End -> {"off", "reading", "emitting"}]
      /\ transportToLogical \in [Node -> [Address -> Node \cup {None}]]
  BY DEF Inv, TypeOK, TCPTypeOK
<1>1. CASE SessionAction(n)
  <2>1. UNCHANGED active /\ UNCHANGED reader
    BY <1>1, SessionFrames
  <2>2. outEvents'[m] = outEvents[m] /\ outChannel'[m] = outChannel[m]
    <3>1. EventTaken(n) => outEvents'[m] = outEvents[m]
      BY <1>0 DEF EventTaken
    <3>2. FrameTaken(n) => outChannel'[m] = outChannel[m]
      BY <1>0 DEF FrameTaken
    <3> QED  BY <1>1, <3>1, <3>2, SessionFrames
  <2>3. commands'[m] = commands[m]
    <3>1. UNCHANGED commands \/ \E d : Asks(n, d)
      BY <1>1 DEF SessionAction, Request, connectClient, disconnectHost, sendTo, Signal,
         handleConnected, handleDisconnected, handleFailed, Receive, handleServerHandshake,
         rejectHandshake, handleAck, handleReject, handleUnexpected, timerFires,
         dispatchHandshakeTimeout, tcpVars
    <3> QED  BY <1>0, <3>1 DEF Asks
  <2>4. sessions'[m] = sessions[m]
    BY <1>0, <1>1, SessionMoves DEF Moves, Binds
  <2>5. transportToLogical'[m] = transportToLogical[m]
    <3>1. ASSUME NEW a, cleanupServerMapping(n, a) PROVE transportToLogical'[m] = transportToLogical[m]
      BY <1>0, <3>1 DEF cleanupServerMapping, mappingVars
    <3>2. ASSUME NEW a, NEW h, setServerMapping(n, a, h)
          PROVE  transportToLogical'[m] = transportToLogical[m]
      BY <1>0, <3>2 DEF setServerMapping
    <3> QED  BY <1>1, <3>1, <3>2, MappingChange DEF mappingVars
  <2>6. reported'[m] = reported[m]
    <3>1. UNCHANGED reported \/ \E type, h : emitEvent(n, type, h)
      BY <1>1 DEF SessionAction, Request, connectClient, disconnectHost, sendTo, Signal,
         handleConnected, handleDisconnected, handleFailed, Receive, handleServerHandshake,
         rejectHandshake, handleAck, handleReject, handleUnexpected, timerFires,
         dispatchHandshakeTimeout
    <3> QED  BY <1>0, <3>1 DEF emitEvent
  <2> QED  BY <2>1, <2>2, <2>3, <2>4, <2>5, <2>6 DEF Local
<1>2. CASE TransportAction(n) /\ UNCHANGED sessionVars
  <2>1. UNCHANGED <<sessions, transportToLogical, reported>>
    BY <1>2 DEF sessionVars, stateVars, mappingVars
  <2>2. active'[m] = active[m]
    <3>1. connect(n) \/ listenerHandler(n) => active'[m] = active[m]
      BY <1>0 DEF connect, listenerHandler
    <3>2. ASSUME NEW a, Unregistered(n, a) \/ handleInbound(n, a) PROVE active'[m] = active[m]
      BY <1>0, <3>2 DEF Unregistered, handleInbound
    <3> QED  BY <1>2, <3>1, <3>2, TransportFrames
  <2>3. commands'[m] = commands[m]
    <3>1. UNCHANGED commands \/ \E d : commands' = [commands EXCEPT ![n] = d]
      BY <1>0, <1>2, TransportFrames DEF connect, connectEmits, connectFails, disconnect, send,
         write, writeFails, CommandDone, Continues
    <3> QED  BY <1>0, <3>1
  <2>4. outEvents'[m] = outEvents[m]
    <3>1. UNCHANGED outEvents \/ \E es : Emitted(n, es)
      BY <1>2, TransportFrames DEF connectFails, connectEmits, disconnect, writeFails,
         listenerHandler, readerEmits, handleInbound
    <3> QED  BY <1>0, <3>1 DEF Emitted
  <2>5. outChannel'[m] = outChannel[m]
    <3>1. UNCHANGED outChannel \/ \E x : outChannel' = [outChannel EXCEPT ![n] = Append(@, x)]
      BY <1>2, TransportFrames DEF readFrames
    <3> QED  BY <1>0, <3>1
  <2>6. ASSUME NEW c \in Conn PROVE reader'[<<m, c>>] = reader[<<m, c>>]
    <3>1. connectEmits(n) \/ listenerHandler(n) => reader'[<<m, c>>] = reader[<<m, c>>]
      BY <1>0 DEF connectEmits, listenerHandler, End
    <3>2. ASSUME NEW d, readError(n, d) \/ readerEmits(n, d) \/ handleInbound(n, d)
          PROVE  reader'[<<m, c>>] = reader[<<m, c>>]
      BY <1>0, <3>2 DEF readError, readerEmits, handleInbound, End
    <3> QED  BY <1>2, <3>1, <3>2, TransportFrames
  <2> QED  BY <2>1, <2>2, <2>3, <2>4, <2>5, <2>6 DEF Local
<1> QED  BY <1>1, <1>2

\* What is asked of the transport is queued behind what it has to do.
LEMMA Appended ==
  ASSUME NEW S, NEW q \in Seq(S), NEW d \in Seq(S), d # <<>>
  PROVE  /\ Range(q \o d) = Range(q) \cup Range(d) /\ q \o d # <<>>
         /\ q # <<>> => /\ Head(q \o d) = Head(q)
                        /\ Range(Tail(q \o d)) = Range(Tail(q)) \cup Range(d)
         /\ q = <<>> => q \o d = d /\ Range(Tail(d)) \subseteq Range(d)
<1>1. q \o d # <<>> /\ (q # <<>> => Head(q \o d) = Head(q) /\ Tail(q \o d) = Tail(q) \o d)
      /\ (q = <<>> => q \o d = d)
  OBVIOUS
<1>2. ASSUME q # <<>> PROVE Range(Tail(q) \o d) = Range(Tail(q)) \cup Range(d)
  <2> DEFINE r == Tail(q)
  <2>1. r \in Seq(S)
    BY <1>2
  <2> HIDE DEF r
  <2>2. Range(r \o d) = Range(r) \cup Range(d)
    BY <2>1, Ranges
  <2> QED  BY <2>2 DEF r
<1>3. Range(q \o d) = Range(q) \cup Range(d)
  BY Ranges
<1>4. Range(Tail(d)) \subseteq Range(d)
  BY Ranges
<1> QED  BY <1>1, <1>2, <1>3, <1>4

\* The session layer asks for dials, sends and hangups, one or two at a time.
LEMMA SessionAsks ==
  ASSUME NEW n \in Node, SessionAction(n)
  PROVE  \/ UNCHANGED commands
         \/ \E x, y : /\ x.op # "connected" /\ y.op # "connected"
                      /\ Asks(n, <<x>>) \/ Asks(n, <<x, y>>)
<1> DEFINE One(x) == x.op # "connected" /\ Asks(n, <<x>>)
<1>0. \A a, f : Dial(a).op # "connected" /\ Hangup(a).op # "connected" /\ Sends(a, f).op # "connected"
  BY DEF Dial, Hangup, Sends
<1>1. CASE Request(n)
  <2>1. ASSUME NEW h, connectClient(n, h) PROVE UNCHANGED commands \/ One(Dial(h))
    BY <1>0, <2>1 DEF connectClient
  <2>2. ASSUME NEW h, disconnectHost(n, h) PROVE One(Hangup(resolveUnderlyingHost(n, h)))
    BY <1>0, <2>2 DEF disconnectHost
  <2>3. ASSUME NEW h, sendTo(n, h)
        PROVE  One(Sends(resolveUnderlyingHost(n, h), [type |-> "Application"]))
    BY <1>0, <2>3 DEF sendTo
  <2> QED  BY <1>1, <2>1, <2>2, <2>3 DEF Request
<1>2. CASE Signal(n)
  <2>1. CASE handleConnected(n)
    <3>1. PICK f : f = [type |-> "Hello", version |-> version[n], host |-> n]
      OBVIOUS
    <3>2. UNCHANGED commands \/ Asks(n, <<Sends(Head(outEvents[n]).peer, f)>>)
      BY <2>1, <3>1 DEF handleConnected
    <3> QED  BY <1>0, <3>2
  <2>2. CASE handleDisconnected(n) \/ handleFailed(n)
    BY <2>2 DEF handleDisconnected, handleFailed
  <2> QED  BY <1>2, <2>1, <2>2 DEF Signal
<1>3. CASE Receive(n)
  <2>1. PICK a : a = Head(outChannel[n]).peer
    OBVIOUS
  <2>2. CASE handleServerHandshake(n)
    <3>1. One(Sends(a, [type |-> "Ack"]))
      BY <1>0, <2>1, <2>2 DEF handleServerHandshake
    <3> QED  BY <3>1
  <2>3. CASE rejectHandshake(n)
    <3>1. PICK f : f = [type |-> "Reject", version |-> version[n]]
      OBVIOUS
    <3>2. Asks(n, <<Sends(a, f), Hangup(a)>>)
      BY <2>1, <2>3, <3>1 DEF rejectHandshake
    <3> QED  BY <1>0, <3>2
  <2>4. CASE handleReject(n)
    <3>1. One(Hangup(a))
      BY <1>0, <2>1, <2>4 DEF handleReject
    <3> QED  BY <3>1
  <2>5. CASE handleAck(n) \/ handleUnexpected(n)
    BY <2>5 DEF handleAck, handleUnexpected
  <2> QED  BY <1>3, <2>2, <2>3, <2>4, <2>5 DEF Receive
<1>4. ASSUME NEW a, timerFires(n, a) \/ dispatchHandshakeTimeout(n, a)
      PROVE  UNCHANGED commands \/ One(Hangup(a))
  BY <1>0, <1>4 DEF timerFires, dispatchHandshakeTimeout, tcpVars
<1> QED  BY <1>1, <1>2, <1>3, <1>4 DEF SessionAction

\* So the command under way stays, and so do the dials that wait.
LEMMA SessionCommands ==
  ASSUME Inv, NEW n \in Node, SessionAction(n)
  PROVE  /\ Range(commands[n]) \subseteq Range(commands'[n])
         /\ commands[n] # <<>> =>
               /\ commands'[n] # <<>> /\ Head(commands'[n]) = Head(commands[n])
               /\ \A cmd \in Range(Tail(commands'[n])) :
                     cmd \in Range(Tail(commands[n])) \/ cmd.op # "connected"
         /\ commands[n] = <<>> /\ commands'[n] # <<>> =>
               /\ Head(commands'[n]).op # "connected"
               /\ \A cmd \in Range(Tail(commands'[n])) : cmd.op # "connected"
<1>0. commands \in [Node -> Seq(Command)] /\ commands[n] \in Seq(Command)
  BY DEF Inv, TypeOK, TCPTypeOK
<1>1. ASSUME NEW x, NEW y, NEW d \in {<<x>>, <<x, y>>}, x.op # "connected", y.op # "connected",
             Asks(n, d)
      PROVE  /\ Range(commands[n]) \subseteq Range(commands'[n])
             /\ commands[n] # <<>> =>
                   /\ commands'[n] # <<>> /\ Head(commands'[n]) = Head(commands[n])
                   /\ \A cmd \in Range(Tail(commands'[n])) :
                         cmd \in Range(Tail(commands[n])) \/ cmd.op # "connected"
             /\ commands[n] = <<>> /\ commands'[n] # <<>> =>
                   /\ Head(commands'[n]).op # "connected"
                   /\ \A cmd \in Range(Tail(commands'[n])) : cmd.op # "connected"
  <2> DEFINE S == Command \cup {x, y}
  <2>1. d \in Seq(S) /\ d # <<>>
    <3>1. <<x>> \in Seq(S) /\ <<x, y>> \in Seq(S)
      BY Short
    <3>2. CASE d = <<x>>
      BY <3>1, <3>2
    <3>3. CASE d = <<x, y>>
      BY <3>1, <3>3
    <3> QED  BY <1>1, <3>2, <3>3
  <2>2. commands[n] \in Seq(S)
    BY <1>0, SeqParts
  <2>3. commands'[n] = commands[n] \o d
    BY <1>0, <1>1 DEF Asks
  <2>4. \A cmd \in Range(d) : cmd.op # "connected"
    BY <1>1 DEF Range
  <2>5. Head(d).op # "connected"
    BY <1>1
  <2> HIDE DEF S
  <2>6. /\ Range(commands'[n]) = Range(commands[n]) \cup Range(d)
        /\ commands[n] # <<>> =>
              /\ commands'[n] # <<>> /\ Head(commands'[n]) = Head(commands[n])
              /\ Range(Tail(commands'[n])) = Range(Tail(commands[n])) \cup Range(d)
        /\ commands[n] = <<>> => commands'[n] = d /\ Range(Tail(d)) \subseteq Range(d)
    BY <2>1, <2>2, <2>3, Appended
  <2> QED  BY <2>4, <2>5, <2>6
<1>2. CASE UNCHANGED commands
  BY <1>2
<1> QED  BY <1>1, <1>2, SessionAsks

\* An event or a frame that waits for the session handler names the address.
Named(n, a) ==
    \/ \E e \in Range(outEvents[n]) : e.peer = a
    \/ \E m \in Range(outChannel[n]) : m.peer = a

\* The session of one address is moved, and which moves there are: an ended one
\* begins again by a dial only, an idle one by a dial, an event or a frame.
Turns(n, a, s) ==
    /\ Moves(n, a, s) \/ \E h : Binds(n, a, s, h)
    /\ In(n, a, {"Closing", "Failed"}) => s \in {"Closing", "Failed"} \/ Dials(n, a)'
    /\ In(n, a, {"Idle"}) => Dials(n, a)' \/ Named(n, a)

\* Every step of the session layer turns at most one session.
LEMMA SessionTurns ==
  ASSUME Inv, NEW n \in Node, SessionAction(n)
  PROVE  UNCHANGED sessions \/ \E a \in Address : \E s : Turns(n, a, s)
<1>0. /\ Node \subseteq Address
      /\ commands \in [Node -> Seq(Command)] /\ commands[n] \in Seq(Command)
      /\ outEvents[n] # <<>> => Head(outEvents[n]) \in Range(outEvents[n])
      /\ outChannel[n] # <<>> => Head(outChannel[n]) \in Range(outChannel[n])
  BY Addresses, Queues, Ranges DEF Inv, TypeOK, TCPTypeOK
<1>1. CASE Request(n)
  <2>1. ASSUME NEW h \in Node \ {n}, connectClient(n, h)
        PROVE  \E a \in Address : \E s : Turns(n, a, s)
    <3>1. CASE In(n, h, {"Idle", "Failed", "Closing"})
      <4>1. Binds(n, h, "HandshakingClient", h) /\ Asks(n, <<Dial(h)>>)
        BY <2>1, <3>1 DEF connectClient
      <4>2. Dial(h) \in Range(commands'[n])
        <5>1. commands'[n] = commands[n] \o <<Dial(h)>>
          BY <1>0, <4>1 DEF Asks
        <5>2. Dial(h) \in Command
          BY <1>0 DEF Dial, Command
        <5>3. commands'[n] = Append(commands[n], Dial(h))
          BY <1>0, <5>1, <5>2
        <5> QED  BY <1>0, <5>2, <5>3, Ranges
      <4>3. Dials(n, h)'
        BY <4>2 DEF Dials, Dial
      <4> QED  BY <1>0, <4>1, <4>3 DEF Turns
    <3>2. CASE ~In(n, h, {"Idle", "Failed", "Closing"})
      <4>1. Binds(n, h, sessions[n][h].state, h)
        BY <2>1, <3>2 DEF connectClient
      <4>2. ~In(n, h, {"Closing", "Failed"}) /\ ~In(n, h, {"Idle"})
        BY <3>2 DEF In
      <4> QED  BY <1>0, <4>1, <4>2 DEF Turns
    <3> QED  BY <3>1, <3>2
  <2>2. ASSUME NEW h, disconnectHost(n, h) \/ sendTo(n, h) PROVE UNCHANGED sessions
    BY <2>2 DEF disconnectHost, sendTo, stateVars
  <2> QED  BY <1>1, <2>1, <2>2 DEF Request
<1>2. CASE Signal(n)
  <2> DEFINE a == Head(outEvents[n]).peer
  <2>1. outEvents[n] # <<>>
    BY <1>2 DEF Signal, handleConnected, handleDisconnected, handleFailed, Signalled
  <2>2. Head(outEvents[n]) \in ConnEvent
    BY <2>1, Heads
  <2>3. a \in Address /\ Named(n, a)
    BY <1>0, <2>1, <2>2 DEF ConnEvent, Named
  <2> HIDE DEF a
  <2>4. CASE handleConnected(n)
    <3>1. UNCHANGED sessions \/ (In(n, a, {"Idle"}) /\ Moves(n, a, "HandshakingServer"))
      BY <2>4 DEF handleConnected, a
    <3>2. In(n, a, {"Idle"}) => ~In(n, a, {"Closing", "Failed"})
      BY DEF In
    <3> QED  BY <2>3, <3>1, <3>2 DEF Turns
  <2>5. CASE handleDisconnected(n) \/ handleFailed(n)
    <3>1. PICK s \in {"Closing", "Failed"} : Moves(n, a, s)
      BY <2>5 DEF handleDisconnected, handleFailed, a
    <3> QED  BY <2>3, <3>1 DEF Turns
  <2> QED  BY <1>2, <2>4, <2>5 DEF Signal
<1>3. CASE Receive(n)
  <2> DEFINE a == Head(outChannel[n]).peer
  <2>1. outChannel[n] # <<>>
    BY <1>3 DEF Receive, handleServerHandshake, rejectHandshake, handleAck, handleReject,
       handleUnexpected, Handshakes
  <2>2. Head(outChannel[n]) \in Message
    BY <2>1, Heads
  <2>3. a \in Address /\ Named(n, a)
    BY <1>0, <2>1, <2>2 DEF Message, Named
  <2> HIDE DEF a
  <2>4. CASE handleServerHandshake(n) \/ handleAck(n)
    <3>1. /\ Moves(n, a, "Established") \/ \E h : Binds(n, a, "Established", h)
          /\ In(n, a, {"HandshakingServer", "Idle"}) \/ In(n, a, {"HandshakingClient"})
      BY <2>4 DEF handleServerHandshake, handleAck, Handshakes, a
    <3>2. ~In(n, a, {"Closing", "Failed"})
      BY <3>1 DEF In
    <3> QED  BY <2>3, <3>1, <3>2 DEF Turns
  <2>5. CASE rejectHandshake(n) \/ handleReject(n)
    <3>1. Moves(n, a, "Failed")
      BY <2>5 DEF rejectHandshake, handleReject, a
    <3> QED  BY <2>3, <3>1 DEF Turns
  <2>6. CASE handleUnexpected(n)
    <3>1. UNCHANGED sessions \/ (In(n, a, {"Idle"}) /\ Moves(n, a, "HandshakingServer"))
      BY <2>6 DEF handleUnexpected, a
    <3>2. In(n, a, {"Idle"}) => ~In(n, a, {"Closing", "Failed"})
      BY DEF In
    <3> QED  BY <2>3, <3>1, <3>2 DEF Turns
  <2> QED  BY <1>3, <2>4, <2>5, <2>6 DEF Receive
<1>4. ASSUME NEW a \in Address, timerFires(n, a) \/ dispatchHandshakeTimeout(n, a)
      PROVE  UNCHANGED sessions \/ Turns(n, a, "Failed")
  <2>1. UNCHANGED sessions \/ (In(n, a, {"HandshakingClient"}) /\ Moves(n, a, "Failed"))
    BY <1>4 DEF timerFires, dispatchHandshakeTimeout, stateVars
  <2>2. In(n, a, {"HandshakingClient"}) => ~In(n, a, {"Idle"})
    BY DEF In
  <2> QED  BY <2>1, <2>2 DEF Turns
<1> QED  BY <1>1, <1>2, <1>3, <1>4 DEF SessionAction

\* What a turn leaves in the table.
LEMMA Turned ==
  ASSUME Inv, NEW n \in Node, NEW a \in Address, NEW s, Turns(n, a, s)
  PROVE  \A b \in Address :
            sessions'[n][b].state = IF b = a THEN s ELSE sessions[n][b].state
<1>0. sessions \in [Node -> [Address -> [state : State, host : Node \cup {None}]]]
  BY SessionTypes
<1>1. CASE Moves(n, a, s)
  BY <1>0, <1>1 DEF Moves
<1>2. ASSUME NEW h, Binds(n, a, s, h)
      PROVE  \A b \in Address :
                sessions'[n][b].state = IF b = a THEN s ELSE sessions[n][b].state
  BY <1>0, <1>2 DEF Binds
<1> QED  BY <1>1, <1>2 DEF Turns

\* The session handler takes events and frames; the loss of an address ends its
\* session.
LEMMA SessionTakes ==
  ASSUME Inv, NEW n \in Node, SessionAction(n)
  PROVE  /\ Range(outEvents'[n]) \subseteq Range(outEvents[n])
         /\ Range(outChannel'[n]) \subseteq Range(outChannel[n])
         /\ \A e \in Range(outEvents[n]) :
               \/ e \in Range(outEvents'[n])
               \/ e.type = "Connected"
               \/ In(n, e.peer, {"Closing", "Failed"})'
<1>0. /\ outEvents \in [Node -> Seq(ConnEvent)] /\ outEvents[n] \in Seq(ConnEvent)
      /\ outChannel \in [Node -> Seq(Message)] /\ outChannel[n] \in Seq(Message)
  BY DEF Inv, TypeOK, TCPTypeOK
<1>1. Range(outChannel'[n]) \subseteq Range(outChannel[n])
  <2>1. CASE UNCHANGED outChannel
    BY <2>1
  <2>2. CASE ~UNCHANGED outChannel
    <3>1. FrameTaken(n)
      BY <2>2, SessionFrames
    <3>2. outChannel[n] # <<>>
      <4>1. CASE Receive(n)
        BY <4>1 DEF Receive, handleServerHandshake, rejectHandshake, handleAck, handleReject,
           handleUnexpected, Handshakes
      <4>2. UNCHANGED outChannel \/ Receive(n)
        BY DEF SessionAction, Request, connectClient, disconnectHost, sendTo, NothingTaken,
           Signal, handleConnected, handleDisconnected, handleFailed, EventTaken, timerFires,
           dispatchHandshakeTimeout, tcpVars
      <4> QED  BY <2>2, <4>1, <4>2
    <3>3. outChannel'[n] = Tail(outChannel[n])
      BY <1>0, <3>1 DEF FrameTaken
    <3> QED  BY <1>0, <3>2, <3>3, Ranges
  <2> QED  BY <2>1, <2>2
<1>2. CASE UNCHANGED outEvents
  BY <1>1, <1>2
<1>3. CASE Signal(n)
  <2>0. PICK e : e = Head(outEvents[n])
    OBVIOUS
  <2>1. outEvents[n] # <<>> /\ outEvents'[n] = Tail(outEvents[n])
    BY <1>0, <1>3 DEF Signal, handleConnected, handleDisconnected, handleFailed, Signalled,
       EventTaken
  <2>2. Range(outEvents[n]) = {e} \cup Range(outEvents'[n])
    BY <1>0, <2>0, <2>1, Ranges
  <2>3. e.type = "Connected" \/ In(n, e.peer, {"Closing", "Failed"})'
    <3>1. CASE handleConnected(n)
      BY <2>0, <3>1 DEF handleConnected, Signalled
    <3>2. CASE handleDisconnected(n) \/ handleFailed(n)
      <4>1. e.peer \in Address
        BY <2>0, <2>1, Heads DEF ConnEvent
      <4>2. PICK s \in {"Closing", "Failed"} : Moves(n, e.peer, s)
        BY <2>0, <3>2 DEF handleDisconnected, handleFailed
      <4>3. sessions'[n][e.peer].state = s
        BY <4>1, <4>2, SessionTypes DEF Moves
      <4> QED  BY <4>3 DEF In
    <3> QED  BY <1>3, <3>1, <3>2 DEF Signal
  <2> QED  BY <1>1, <2>2, <2>3
<1>4. UNCHANGED outEvents \/ Signal(n)
  BY DEF SessionAction, Request, connectClient, disconnectHost, sendTo, NothingTaken, Receive,
     handleServerHandshake, rejectHandshake, handleAck, handleReject, handleUnexpected,
     FrameTaken, timerFires, dispatchHandshakeTimeout, tcpVars
<1> QED  BY <1>2, <1>3, <1>4

\* What is backed stays so when the session layer takes a step.
LEMMA SessionKeeps ==
  ASSUME Inv, NEW n \in Node, NEW a \in Address, SessionAction(n), Backed(n, a)
  PROVE  Backed(n, a)'
<1>0. UNCHANGED <<dialed, active, reader>>
  BY SessionFrames
<1>1. CASE In(n, a, {"Closing", "Failed"})
  <2>1. CASE UNCHANGED sessions
    BY <1>1, <2>1 DEF Backed, In
  <2>2. ASSUME NEW b \in Address, NEW s, Turns(n, b, s) PROVE Backed(n, a)'
    <3>1. sessions'[n][a].state = IF a = b THEN s ELSE sessions[n][a].state
      BY <2>2, Turned
    <3>2. CASE a = b
      <4>1. s \in {"Closing", "Failed"} \/ Dials(n, a)'
        BY <1>1, <2>2, <3>2 DEF Turns
      <4> QED  BY <3>1, <3>2, <4>1 DEF Backed, In
    <3>3. CASE a # b
      BY <1>1, <3>1, <3>3 DEF Backed, In
    <3> QED  BY <3>2, <3>3
  <2> QED  BY <2>1, <2>2, SessionTurns
<1>2. CASE active[n][a] # None
  BY <1>0, <1>2 DEF Backed
<1>3. CASE Lost(n, a)
  <2>1. ASSUME NEW e \in Range(outEvents[n]), e.peer = a, e.type # "Connected"
        PROVE  Backed(n, a)'
    <3>1. e \in Range(outEvents'[n]) \/ In(n, a, {"Closing", "Failed"})'
      BY <2>1, SessionTakes
    <3> QED  BY <2>1, <3>1 DEF Backed, Lost
  <2>2. ASSUME NEW c \in Conn, reader[<<n, c>>] = "emitting", AddressOf(n, c) = a
        PROVE  Backed(n, a)'
    <3>1. reader'[<<n, c>>] = "emitting" /\ AddressOf(n, c)' = a
      BY <1>0, <2>2 DEF AddressOf
    <3> QED  BY <3>1 DEF Backed, Lost
  <2> QED  BY <1>3, <2>1, <2>2 DEF Lost
<1>4. CASE Dials(n, a)
  BY <1>4, SessionCommands DEF Dials, Backed
<1> QED  BY <1>1, <1>2, <1>3, <1>4 DEF Backed

\* A step of the session layer keeps its node's part of the invariant.
LEMMA SessionBacks ==
  ASSUME Inv, BackInv, NEW n \in Node, SessionAction(n)
  PROVE  RegisteredIsRead(n)' /\ OneStarts(n)' /\ AllBacked(n)'
<1>0. UNCHANGED <<dialed, active, reader>> /\ RegisteredIsRead(n) /\ OneStarts(n) /\ AllBacked(n)
  BY SessionFrames DEF BackInv
<1>1. \A a \in Address : Backed(n, a) => Backed(n, a)'
  BY SessionKeeps
<1>2. RegisteredIsRead(n)'
  BY <1>0, SessionCommands DEF RegisteredIsRead, Starts
<1>3. OneStarts(n)'
  <2>1. CASE commands[n] = <<>>
    BY <2>1, SessionCommands DEF OneStarts
  <2>2. CASE commands[n] # <<>>
    <3>1. Head(commands[n]) \in Command
      BY <2>2, Heads
    <3>2. PICK cmd \in Command : cmd = Head(commands[n]) /\ cmd = Head(commands'[n])
      BY <2>2, <3>1, SessionCommands
    <3>3. cmd.op = "connected" =>
             /\ cmd.peer \in Address /\ cmd.peer \in Node
             /\ reader[<<n, cmd.conn>>] = "off" /\ Backed(n, cmd.peer)
      BY <1>0, <2>2, <3>2 DEF OneStarts, Command
    <3>4. cmd.op = "connected" => reader'[<<n, cmd.conn>>] = "off" /\ Backed(n, cmd.peer)'
      BY <1>0, <1>1, <3>3
    <3>5. \A c \in Range(Tail(commands'[n])) : c.op # "connected"
      BY <1>0, <2>2, SessionCommands DEF OneStarts
    <3>6. Backed(n, cmd.peer)' => Backed(n, Head(commands[n]).peer)'
      BY <3>2 DEF Backed, In, Lost, Dials
    <3> QED  BY <3>2, <3>3, <3>4, <3>5, <3>6 DEF OneStarts
  <2> QED  BY <2>1, <2>2
<1>4. ASSUME NEW a \in Address, Named(n, a) PROVE Backed(n, a)'
  <2>1. Backed(n, a)
    BY <1>0, <1>4 DEF AllBacked, Named
  <2> QED  BY <1>1, <2>1
<1>5. ASSUME NEW a \in Address, ~In(n, a, {"Idle"})' PROVE Backed(n, a)'
  <2>1. CASE ~In(n, a, {"Idle"})
    BY <1>0, <1>1, <2>1 DEF AllBacked
  <2>2. CASE In(n, a, {"Idle"})
    <3>1. ~UNCHANGED sessions
      BY <1>5, <2>2 DEF In
    <3>2. PICK b \in Address : \E s : Turns(n, b, s)
      BY <3>1, SessionTurns
    <3>3. PICK s : Turns(n, b, s)
      BY <3>2
    <3>4. b = a
      BY <1>5, <2>2, <3>3, Turned DEF In
    <3>5. Dials(n, a)' \/ Named(n, a)
      BY <2>2, <3>3, <3>4 DEF Turns
    <3> QED  BY <1>4, <3>5 DEF Backed
  <2> QED  BY <2>1, <2>2
<1>6. /\ \A e \in Range(outEvents[n]) : e.peer \in Address
      /\ \A m \in Range(outChannel[n]) : m.peer \in Address
  <2>1. Range(outEvents[n]) \subseteq ConnEvent
    BY Queues, Ranges
  <2>2. Range(outChannel[n]) \subseteq Message
    BY Queues, Ranges
  <2> QED  BY <2>1, <2>2 DEF ConnEvent, Message
<1>7. /\ \A e \in Range(outEvents'[n]) : Backed(n, e.peer)'
      /\ \A m \in Range(outChannel'[n]) : Backed(n, m.peer)'
  BY <1>4, <1>6, SessionTakes DEF Named
<1>8. ASSUME NEW c \in Conn, reader'[<<n, c>>] # "off" PROVE Backed(n, AddressOf(n, c))'
  <2>1. IsEnd(n, c) /\ Backed(n, AddressOf(n, c))
    BY <1>0, <1>8 DEF AllBacked, Inv, LinkInv
  <2>2. PICK a \in Address : a = AddressOf(n, c)
    BY <2>1, Sides
  <2>3. Backed(n, a)' /\ a = AddressOf(n, c)'
    BY <1>0, <1>1, <2>1, <2>2 DEF AddressOf
  <2> QED  BY <2>3 DEF Backed, In, Lost, Dials
<1>9. AllBacked(n)'
  BY <1>5, <1>7, <1>8 DEF AllBacked
<1> QED  BY <1>2, <1>3, <1>9

\* An event of the transport is queued for the session handler.
LEMMA Emits ==
  ASSUME Inv, NEW n \in Node, NEW type \in {"Connected", "Disconnected", "Failed"},
         NEW a \in Address, Emitted(n, <<Event(type, a)>>)
  PROVE  Range(outEvents'[n]) = Range(outEvents[n]) \cup {Event(type, a)}
<1>1. outEvents \in [Node -> Seq(ConnEvent)] /\ outEvents[n] \in Seq(ConnEvent)
  BY DEF Inv, TypeOK, TCPTypeOK
<1>2. Event(type, a) \in ConnEvent
  BY DEF Event, ConnEvent
<1>3. outEvents'[n] = Append(outEvents[n], Event(type, a))
  BY <1>1, <1>2 DEF Emitted
<1> QED  BY <1>1, <1>2, <1>3, Ranges

\* The transport's handler takes one command and keeps the others; only a dial
\* leaves a connection to be started.
LEMMA CommandLeft ==
  ASSUME Inv, NEW n \in Node, OneStarts(n), TransportAction(n)
  PROVE  \/ UNCHANGED commands
         \/ /\ commands[n] # <<>>
            /\ Range(Tail(commands[n])) \subseteq Range(commands'[n])
            /\ commands'[n] # <<>> =>
                  /\ \A cmd \in Range(Tail(commands'[n])) : cmd.op # "connected"
                  /\ Head(commands'[n]).op = "connected" =>
                        /\ connect(n)
                        /\ Head(commands'[n]).conn = Len(dialed) + 1
                        /\ Head(commands'[n]).peer = Head(commands[n]).peer
<1> DEFINE cmd == Head(commands[n])
           Left == /\ commands[n] # <<>>
                   /\ Range(Tail(commands[n])) \subseteq Range(commands'[n])
                   /\ commands'[n] # <<>> =>
                        /\ \A d \in Range(Tail(commands'[n])) : d.op # "connected"
                        /\ Head(commands'[n]).op = "connected" =>
                              /\ connect(n)
                              /\ Head(commands'[n]).conn = Len(dialed) + 1
                              /\ Head(commands'[n]).peer = Head(commands[n]).peer
<1>0. commands \in [Node -> Seq(Command)] /\ commands[n] \in Seq(Command)
  BY DEF Inv, TypeOK, TCPTypeOK
<1>1. ASSUME commands[n] # <<>>
      PROVE  /\ Tail(commands[n]) \in Seq(Command)
             /\ \A d \in Range(Tail(commands[n])) : d.op # "connected"
  BY <1>0, <1>1 DEF OneStarts
<1>2. ASSUME commands[n] # <<>>, CommandDone(n) PROVE Left
  <2>1. PICK q \in Seq(Command) : q = Tail(commands[n]) /\ commands'[n] = q
    BY <1>0, <1>1, <1>2 DEF CommandDone
  <2>2. \A d \in Range(q) : d.op # "connected"
    BY <1>1, <1>2, <2>1
  <2>3. q # <<>> => Head(q) \in Range(q) /\ Range(Tail(q)) \subseteq Range(q)
    BY Ranges
  <2> QED  BY <1>2, <2>1, <2>2, <2>3
<1>3. ASSUME NEW rest, commands[n] # <<>>, Continues(n, rest),
             rest.op = "connected" =>
                /\ connect(n) /\ rest.conn = Len(dialed) + 1 /\ rest.peer = Head(commands[n]).peer
      PROVE  Left
  <2> DEFINE S == Command \cup {rest}
  <2>1. PICK q \in Seq(Command) : q = Tail(commands[n]) /\ commands'[n] = <<rest>> \o q
    BY <1>0, <1>1, <1>3 DEF Continues
  <2>2. q \in Seq(S) /\ rest \in S
    BY SeqParts
  <2> HIDE DEF S
  <2>3. <<rest>> \in Seq(S)
    BY <2>2
  <2>4. <<rest>> \o q # <<>> /\ Head(<<rest>> \o q) = rest /\ Tail(<<rest>> \o q) = q
    BY <2>2
  <2>5. Range(q) \subseteq Range(<<rest>> \o q)
    <3> DEFINE r == <<rest>>
    <3>1. r \in Seq(S)
      BY <2>3
    <3> HIDE DEF r
    <3>2. Range(r \o q) = Range(r) \cup Range(q)
      BY <2>2, <3>1, Ranges
    <3> QED  BY <3>2 DEF r
  <2>6. \A d \in Range(q) : d.op # "connected"
    BY <1>1, <1>3, <2>1
  <2> QED  BY <1>3, <2>1, <2>4, <2>5, <2>6
<1>4. CASE connect(n)
  <2>1. PICK rest : rest = [op |-> "connected", peer |-> cmd.peer, conn |-> Len(dialed) + 1]
    OBVIOUS
  <2>2. commands[n] # <<>> /\ Continues(n, rest)
    BY <1>4, <2>1 DEF connect, Commanded
  <2>3. rest.conn = Len(dialed) + 1 /\ rest.peer = Head(commands[n]).peer
    BY <2>1
  <2> QED  BY <1>3, <1>4, <2>2, <2>3
<1>5. CASE connectEmits(n) \/ connectFails(n) \/ disconnect(n) \/ write(n)
  BY <1>2, <1>5 DEF connectEmits, connectFails, disconnect, write, Commanded
<1>6. CASE send(n)
  <2>1. PICK rest : rest = [op |-> "write", peer |-> cmd.peer, conn |-> active[n][cmd.peer],
                            frame |-> cmd.frame]
    OBVIOUS
  <2>2. commands[n] # <<>> /\ (CommandDone(n) \/ Continues(n, rest))
    BY <1>6, <2>1 DEF send, Commanded
  <2>3. rest.op # "connected"
    BY <2>1
  <2> QED  BY <1>2, <1>3, <2>2, <2>3
<1>7. CASE writeFails(n)
  <2>1. PICK rest : rest = [op |-> "disconnect", peer |-> cmd.peer]
    OBVIOUS
  <2>2. commands[n] # <<>> /\ Continues(n, rest)
    BY <1>7, <2>1 DEF writeFails, Commanded
  <2>3. rest.op # "connected"
    BY <2>1
  <2> QED  BY <1>3, <2>2, <2>3
<1> QED  BY <1>4, <1>5, <1>6, <1>7, TransportFrames

\* The two ways in which a connection comes in are alike.
Accepts(n, c) ==
    /\ active' = [active EXCEPT ![n][c] = c]
    /\ reader' = [reader EXCEPT ![<<n, c>>] = "reading"]
    /\ Emitted(n, <<Event("Connected", c)>>)
    /\ UNCHANGED <<dialed, commands, outChannel>>

LEMMA Inbound ==
  ASSUME Inv, NEW n \in Node,
         listenerHandler(n) \/ \E c \in Conn : handleInbound(n, c)
  PROVE  \E c \in Conn : /\ Accepts(n, c)
                         /\ IsEnd(n, c) /\ AddressOf(n, c) = c /\ Known(n, c) /\ c \in Address
<1>1. Conn \subseteq Address
  BY Addresses
<1>2. CASE listenerHandler(n)
  <2>1. PICK c \in Conn : c = Head(backlog[n]) /\ Link(n, c, c)
    BY <1>2, Heads DEF listenerHandler
  <2>2. Accepts(n, c)
    BY <1>2, <2>1 DEF listenerHandler, Accepts
  <2> QED  BY <1>1, <2>1, <2>2, Linked
<1>3. ASSUME NEW c \in Conn, handleInbound(n, c)
      PROVE  /\ Accepts(n, c)
             /\ IsEnd(n, c) /\ AddressOf(n, c) = c /\ Known(n, c) /\ c \in Address
  <2>1. PICK i \in 1 .. Len(backlog[n]) : backlog[n][i] = c
    BY <1>3 DEF handleInbound, Leaves
  <2>2. backlog[n] \in Seq(GoodLinks(n))
    BY DEF Inv, LinkInv
  <2>3. c \in GoodLinks(n)
    BY <2>1, <2>2, ElementOfSeq
  <2>4. Accepts(n, c)
    BY <1>3 DEF handleInbound, Accepts
  <2> QED  BY <1>1, <2>3, <2>4, Linked DEF GoodLinks
<1> QED  BY <1>2, <1>3

\* Forgetting a connection is told: at once by the handler, soon by the reader.
LEMMA Unregistering ==
  ASSUME Inv, NEW n \in Node, NEW a \in Address, TransportAction(n),
         active[n][a] # None, active'[n][a] = None
  PROVE  Lost(n, a)'
<1>0. /\ active \in [Node -> [Address -> Conn \cup {None}]] /\ None \notin Conn
      /\ reader \in [End -> {"off", "reading", "emitting"}]
  BY Addresses DEF Inv, TypeOK, TCPTypeOK
<1>1. CASE disconnect(n)
  <2>1. PICK b \in Address : b = Head(commands[n]).peer
    BY <1>1, Heads DEF disconnect, Commanded, Command
  <2>2. Unregistered(n, b) /\ Emitted(n, <<Event("Disconnected", b)>>)
    BY <1>1, <2>1 DEF disconnect
  <2>3. a = b
    BY <1>0, <2>2 DEF Unregistered
  <2>4. Event("Disconnected", a) \in Range(outEvents'[n])
    BY <2>2, <2>3, Emits
  <2> QED  BY <2>4 DEF Lost, Event
<1>2. ASSUME NEW c \in Conn, readError(n, c) PROVE Lost(n, a)'
  <2>1. PICK b \in Address : b = AddressOf(n, c)
    BY <1>2, Sides DEF readError, Inv, LinkInv
  <2>2. Unregistered(n, b) /\ reader' = [reader EXCEPT ![<<n, c>>] = "emitting"]
    BY <1>2, <2>1 DEF readError
  <2>3. a = b
    BY <1>0, <2>2 DEF Unregistered
  <2>4. reader'[<<n, c>>] = "emitting" /\ AddressOf(n, c)' = a
    BY <1>0, <1>2, <2>1, <2>2, <2>3 DEF readError, AddressOf, End
  <2> QED  BY <2>4 DEF Lost
<1>3. ASSUME NEW b, NEW c \in Conn, active' = [active EXCEPT ![n][b] = c] PROVE FALSE
  <2>1. active'[n][a] = IF a = b THEN c ELSE active[n][a]
    BY <1>0, <1>3
  <2> QED  BY <1>0, <2>1
<1>4. CASE connect(n)
  <2>1. PICK h \in Node, c \in Conn : active' = [active EXCEPT ![n][h] = c]
    BY <1>4, Dialed
  <2> QED  BY <1>3, <2>1
<1>5. CASE listenerHandler(n) \/ \E c \in Conn : handleInbound(n, c)
  <2>1. PICK c \in Conn : active' = [active EXCEPT ![n][c] = c]
    BY <1>5, Inbound DEF Accepts
  <2> QED  BY <1>3, <2>1
<1>6. CASE \/ connectEmits(n) \/ connectFails(n) \/ send(n) \/ write(n) \/ writeFails(n)
  BY <1>6 DEF connectEmits, connectFails, send, write, writeFails
<1>7. ASSUME NEW c \in Conn, \/ readFrames(n, c) \/ readerEmits(n, c) \/ handleInboundFails(n, c)
                             \/ closeDiscards(n, c)
      PROVE  FALSE
  BY <1>7 DEF readFrames, readerEmits, handleInboundFails, closeDiscards
<1> QED  BY <1>1, <1>2, <1>4, <1>5, <1>6, <1>7 DEF TransportAction

\* A reader that is about to tell the end of its connection does, unless a new
\* one is registered.
LEMMA ReaderTells ==
  ASSUME Inv, NEW n \in Node, NEW c \in Conn, OneStarts(n), TransportAction(n),
         reader[<<n, c>>] = "emitting"
  PROVE  \/ reader'[<<n, c>>] = "emitting"
         \/ Event("Disconnected", AddressOf(n, c)) \in Range(outEvents'[n])
         \/ active'[n][AddressOf(n, c)] # None
<1>0. /\ active \in [Node -> [Address -> Conn \cup {None}]] /\ None \notin Conn
      /\ reader \in [End -> {"off", "reading", "emitting"}]
  BY Addresses DEF Inv, TypeOK, TCPTypeOK
<1>1. CASE connectEmits(n)
  <2>1. PICK d \in Conn : d = Head(commands[n]).conn
    BY <1>1, Heads DEF connectEmits, Commanded, Command
  <2>2. reader[<<n, d>>] = "off" /\ reader' = [reader EXCEPT ![<<n, d>>] = "reading"]
    BY <1>1, <2>1 DEF connectEmits, Commanded, OneStarts
  <2> QED  BY <1>0, <2>2 DEF End
<1>2. CASE listenerHandler(n) \/ \E d \in Conn : handleInbound(n, d)
  <2>1. PICK d \in Conn : Accepts(n, d) /\ AddressOf(n, d) = d /\ d \in Address
    BY <1>2, Inbound
  <2>2. CASE c = d
    BY <1>0, <2>1, <2>2 DEF Accepts
  <2>3. CASE c # d
    BY <1>0, <2>1, <2>3 DEF Accepts, End
  <2> QED  BY <2>2, <2>3
<1>3. ASSUME NEW d \in Conn, readError(n, d) PROVE reader'[<<n, c>>] = "emitting"
  <2>1. d # c
    BY <1>3 DEF readError
  <2> QED  BY <1>0, <1>3, <2>1 DEF readError, End
<1>4. ASSUME NEW d \in Conn, readerEmits(n, d)
      PROVE  \/ reader'[<<n, c>>] = "emitting"
             \/ Event("Disconnected", AddressOf(n, c)) \in Range(outEvents'[n])
  <2>1. CASE c = d
    <3>1. PICK a \in Address : a = AddressOf(n, c)
      BY Sides DEF Inv, LinkInv
    <3>2. Emitted(n, <<Event("Disconnected", a)>>)
      BY <1>4, <2>1, <3>1 DEF readerEmits
    <3>3. Event("Disconnected", a) \in Range(outEvents'[n])
      BY <3>2, Emits
    <3> QED  BY <3>1, <3>3
  <2>2. CASE c # d
    BY <1>0, <1>4, <2>2 DEF readerEmits, End
  <2> QED  BY <2>1, <2>2
<1> QED  BY <1>1, <1>2, <1>3, <1>4, TransportFrames

\* What is backed stays so when a goroutine of the transport takes a step.
LEMMA TransportKeeps ==
  ASSUME Inv, BackInv, NEW n \in Node, NEW a \in Address, TransportAction(n),
         UNCHANGED sessionVars, Grows, Backed(n, a)
  PROVE  Backed(n, a)'
<1>0. UNCHANGED sessions /\ OneStarts(n) /\ Grows /\ TypeOK
  BY DEF BackInv, sessionVars, stateVars, Inv
<1>1. CASE In(n, a, {"Closing", "Failed"})
  BY <1>0, <1>1 DEF Backed, In
<1>2. CASE active[n][a] # None
  BY <1>2, Unregistering DEF Backed
<1>3. ASSUME NEW e \in Range(outEvents[n]) PROVE e \in Range(outEvents'[n])
  <2>1. ASSUME NEW type \in {"Connected", "Disconnected", "Failed"}, NEW b \in Address,
               Emitted(n, <<Event(type, b)>>)
        PROVE  e \in Range(outEvents'[n])
    BY <2>1, Emits
  <2>2. CASE connectFails(n) \/ connectEmits(n) \/ writeFails(n) \/ disconnect(n)
    <3>1. PICK b \in Address : b = Head(commands[n]).peer
      BY <2>2, Heads DEF connectFails, connectEmits, writeFails, disconnect, Commanded, Command
    <3>2. UNCHANGED outEvents \/ \E type \in {"Connected", "Disconnected", "Failed"} :
                                    Emitted(n, <<Event(type, b)>>)
      BY <2>2, <3>1 DEF connectFails, connectEmits, writeFails, disconnect
    <3> QED  BY <2>1, <3>2
  <2>3. CASE listenerHandler(n) \/ \E c \in Conn : handleInbound(n, c)
    <3>1. PICK c \in Conn : Accepts(n, c) /\ c \in Address
      BY <2>3, Inbound
    <3> QED  BY <2>1, <3>1 DEF Accepts
  <2>4. ASSUME NEW c \in Conn, readerEmits(n, c) PROVE e \in Range(outEvents'[n])
    <3>1. PICK b \in Address : b = AddressOf(n, c)
      BY <2>4, Sides DEF readerEmits, Inv, LinkInv
    <3> QED  BY <2>1, <2>4, <3>1 DEF readerEmits
  <2> QED  BY <2>2, <2>3, <2>4, TransportFrames
<1>4. CASE Lost(n, a)
  <2>1. ASSUME NEW e \in Range(outEvents[n]), e.peer = a, e.type # "Connected"
        PROVE  Backed(n, a)'
    BY <1>3, <2>1 DEF Backed, Lost
  <2>2. ASSUME NEW c \in Conn, reader[<<n, c>>] = "emitting", AddressOf(n, c) = a
        PROVE  Backed(n, a)'
    <3>1. AddressOf(n, c)' = a
      BY <1>0, <2>2, Stays DEF Inv, LinkInv
    <3>2. \/ reader'[<<n, c>>] = "emitting"
          \/ Event("Disconnected", a) \in Range(outEvents'[n])
          \/ active'[n][a] # None
      BY <1>0, <2>2, ReaderTells
    <3> QED  BY <3>1, <3>2 DEF Backed, Lost, Event
  <2> QED  BY <1>4, <2>1, <2>2 DEF Lost
<1>5. CASE Dials(n, a)
  <2>1. PICK cmd \in Range(commands[n]) : cmd.op = "connect" /\ cmd.peer = a
    BY <1>5 DEF Dials
  <2>2. CASE UNCHANGED commands
    BY <1>5, <2>2 DEF Backed, Dials
  <2>3. CASE cmd \in Range(Tail(commands[n])) /\ ~UNCHANGED commands
    <3>1. cmd \in Range(commands'[n])
      BY <1>0, <2>3, CommandLeft
    <3> QED  BY <2>1, <3>1 DEF Backed, Dials
  <2>4. CASE cmd = Head(commands[n]) /\ ~UNCHANGED commands
    <3>1. CASE connect(n)
      <4>1. PICK h \in Node, c \in Conn : h = a /\ active' = [active EXCEPT ![n][h] = c]
        BY <2>1, <2>4, <3>1, Dialed
      <4>2. active'[n][a] # None
        BY <4>1, Addresses DEF Inv, TypeOK, TCPTypeOK
      <4> QED  BY <4>2 DEF Backed
    <3>2. CASE connectFails(n)
      <4>1. Event("Failed", a) \in Range(outEvents'[n])
        BY <2>1, <2>4, <3>2, Emits DEF connectFails
      <4> QED  BY <4>1 DEF Backed, Lost, Event
    <3>3. CASE \/ connectEmits(n) \/ disconnect(n) \/ send(n) \/ write(n) \/ writeFails(n)
      BY <2>1, <2>4, <3>3 DEF connectEmits, disconnect, send, write, writeFails, Commanded
    <3> QED  BY <2>4, <3>1, <3>2, <3>3, TransportFrames
  <2>5. commands[n] # <<>> /\ (cmd = Head(commands[n]) \/ cmd \in Range(Tail(commands[n])))
    BY Queues, Ranges
  <2> QED  BY <2>2, <2>3, <2>4, <2>5
<1> QED  BY <1>1, <1>2, <1>4, <1>5 DEF Backed

\* A connection that is dialed is new.
LEMMA Fresh ==
  ASSUME Inv, NEW n \in Node, connect(n)
  PROVE  \E h \in Node, c \in Conn :
            /\ active' = [active EXCEPT ![n][h] = c] /\ reader[<<n, c>>] = "off"
            /\ commands'[n] # <<>>
            /\ Head(commands'[n]) = [op |-> "connected", peer |-> h, conn |-> c]
<1>1. PICK h \in Node, c \in Conn :
         /\ h = Head(commands[n]).peer /\ c = Len(dialed) + 1
         /\ active' = [active EXCEPT ![n][h] = c]
  BY Dialed
<1>2. reader[<<n, c>>] = "off"
  <2>1. ~IsEnd(n, c)
    BY <1>1, DialTypes DEF IsEnd, Inv
  <2> QED  BY <2>1 DEF Inv, LinkInv
<1>3. Continues(n, [op |-> "connected", peer |-> h, conn |-> c])
  BY <1>1 DEF connect
<1>4. commands'[n] # <<>> /\ Head(commands'[n]) = [op |-> "connected", peer |-> h, conn |-> c]
  BY <1>3 DEF Continues, connect, Commanded, Inv, TypeOK, TCPTypeOK
<1> QED  BY <1>1, <1>2, <1>4

\* The connection that the transport's handler is about to start.
LEMMA Starting ==
  ASSUME Inv, NEW n \in Node, NEW c \in Conn, OneStarts(n), Starts(n, c)
  PROVE  \E h \in Node : /\ h = Head(commands[n]).peer
                         /\ reader[<<n, c>>] = "off" /\ Backed(n, h)
                         /\ Link(n, h, c) /\ IsEnd(n, c) /\ AddressOf(n, c) = h
<1>1. PICK cmd \in Command : cmd = Head(commands[n]) /\ GoodCommand(n, cmd)
  BY Heads DEF Starts
<1>2. /\ cmd.conn = c /\ cmd.peer \in Node /\ Link(n, cmd.peer, c)
      /\ reader[<<n, c>>] = "off" /\ Backed(n, cmd.peer)
  BY <1>1 DEF Starts, OneStarts, GoodCommand
<1>3. IsEnd(n, c) /\ AddressOf(n, c) = cmd.peer
  BY <1>2, Linked, Addresses
<1> QED  BY <1>1, <1>2, <1>3

\* A registered connection stays one that is read from or about to be.
LEMMA RegisteredStep ==
  ASSUME Inv, NEW n \in Node, TransportAction(n), RegisteredIsRead(n), OneStarts(n)
  PROVE  RegisteredIsRead(n)'
<1>0. /\ active \in [Node -> [Address -> Conn \cup {None}]] /\ None \notin Conn
      /\ reader \in [End -> {"off", "reading", "emitting"}]
  BY Addresses DEF Inv, TypeOK, TCPTypeOK
<1> SUFFICES ASSUME NEW a \in Address, active'[n][a] # None
             PROVE  reader'[<<n, active'[n][a]>>] = "reading" \/ Starts(n, active[n][a])'
  BY DEF RegisteredIsRead
<1>1. ASSUME active'[n][a] = active[n][a], ~Starts(n, active[n][a]), UNCHANGED reader
      PROVE  reader'[<<n, active'[n][a]>>] = "reading"
  BY <1>1 DEF RegisteredIsRead
<1>2. CASE connect(n)
  <2>1. PICK h \in Node, c \in Conn :
           /\ active' = [active EXCEPT ![n][h] = c] /\ commands'[n] # <<>>
           /\ Head(commands'[n]) = [op |-> "connected", peer |-> h, conn |-> c]
    BY <1>2, Fresh
  <2>2. CASE a = h
    BY <1>0, <2>1, <2>2 DEF Starts
  <2>3. CASE a # h
    <3>1. active'[n][a] = active[n][a]
      BY <1>0, <2>1, <2>3
    <3>2. ~Starts(n, active[n][a]) /\ UNCHANGED reader
      BY <1>2 DEF connect, Starts, Commanded
    <3> QED  BY <1>1, <3>1, <3>2
  <2> QED  BY <2>2, <2>3
<1>3. CASE connectEmits(n)
  <2>1. PICK c \in Conn : c = Head(commands[n]).conn
    BY <1>3, Heads DEF connectEmits, Commanded, Command
  <2>2. UNCHANGED active /\ reader' = [reader EXCEPT ![<<n, c>>] = "reading"]
    BY <1>3, <2>1 DEF connectEmits
  <2>3. PICK d \in Conn : d = active[n][a]
    BY <1>0, <2>2
  <2>4. d = c \/ reader[<<n, d>>] = "reading"
    BY <1>0, <2>1, <2>2, <2>3 DEF RegisteredIsRead, Starts
  <2>5. reader'[<<n, d>>] = "reading"
    BY <1>0, <2>2, <2>4 DEF End
  <2> QED  BY <2>2, <2>3, <2>5
<1>4. CASE connectFails(n) \/ disconnect(n) \/ send(n) \/ write(n) \/ writeFails(n)
  <2>1. active'[n][a] = active[n][a] /\ UNCHANGED reader
    BY <1>0, <1>4 DEF connectFails, disconnect, send, write, writeFails, Unregistered
  <2>2. ~Starts(n, active[n][a])
    BY <1>4 DEF connectFails, disconnect, send, write, writeFails, Commanded, Starts
  <2> QED  BY <1>1, <2>1, <2>2
<1>5. CASE listenerHandler(n) \/ \E c \in Conn : handleInbound(n, c)
  <2>1. PICK c \in Conn : Accepts(n, c)
    BY <1>5, Inbound
  <2>2. CASE a = c
    BY <1>0, <2>1, <2>2 DEF Accepts, End
  <2>3. CASE a # c
    <3>1. active'[n][a] = active[n][a] /\ UNCHANGED commands
      BY <1>0, <2>1, <2>3 DEF Accepts
    <3>2. PICK d \in Conn : d = active[n][a]
      BY <1>0, <3>1
    <3>3. reader[<<n, d>>] = "reading" => reader'[<<n, d>>] = "reading"
      BY <1>0, <2>1 DEF Accepts, End
    <3> QED  BY <1>0, <3>1, <3>2, <3>3 DEF RegisteredIsRead, Starts
  <2> QED  BY <2>2, <2>3
<1>6. ASSUME NEW c \in Conn, readError(n, c) \/ readerEmits(n, c)
      PROVE  reader'[<<n, active'[n][a]>>] = "reading" \/ Starts(n, active[n][a])'
  <2>1. PICK b \in Address : b = AddressOf(n, c)
    BY <1>6, Sides DEF readError, readerEmits, Inv, LinkInv
  <2>2. active'[n][a] = active[n][a] /\ UNCHANGED commands
    BY <1>0, <1>6, <2>1 DEF readError, readerEmits, Unregistered
  <2>3. PICK d \in Conn : d = active[n][a]
    BY <1>0, <2>2
  <2>4. CASE d = c
    <3>1. b = a
      <4>1. Link(n, a, d)
        BY <1>0, <2>3 DEF Inv, LinkInv
      <4> QED  BY <2>1, <2>4, <4>1, Linked
    <3>2. ~readError(n, c)
      BY <1>0, <2>1, <2>2, <2>3, <3>1 DEF readError, Unregistered
    <3>3. reader[<<n, d>>] = "emitting"
      BY <1>6, <2>4, <3>2 DEF readerEmits
    <3> QED  BY <1>0, <2>2, <2>3, <3>3 DEF RegisteredIsRead, Starts
  <2>5. CASE d # c
    <3>1. reader'[<<n, d>>] = reader[<<n, d>>]
      BY <1>0, <1>6, <2>5 DEF readError, readerEmits, End
    <3> QED  BY <1>0, <2>2, <2>3, <3>1 DEF RegisteredIsRead, Starts
  <2> QED  BY <2>4, <2>5
<1>7. ASSUME NEW c \in Conn, readFrames(n, c) \/ handleInboundFails(n, c) \/ closeDiscards(n, c)
      PROVE  reader'[<<n, active'[n][a]>>] = "reading" \/ Starts(n, active[n][a])'
  <2>1. UNCHANGED <<active, reader, commands>>
    BY <1>7 DEF readFrames, handleInboundFails, closeDiscards
  <2> QED  BY <2>1 DEF RegisteredIsRead, Starts
<1> QED  BY <1>2, <1>3, <1>4, <1>5, <1>6, <1>7 DEF TransportAction

\* There stays at most one connection to start, and nobody else reads from it.
LEMMA StartsStep ==
  ASSUME Inv, BackInv, NEW n \in Node, TransportAction(n), UNCHANGED sessionVars, Grows
  PROVE  OneStarts(n)'
<1>0. /\ active \in [Node -> [Address -> Conn \cup {None}]] /\ None \notin Conn
      /\ reader \in [End -> {"off", "reading", "emitting"}]
      /\ RegisteredIsRead(n) /\ OneStarts(n) /\ Node \subseteq Address
  BY Addresses DEF Inv, TypeOK, TCPTypeOK, BackInv
<1> SUFFICES ASSUME commands'[n] # <<>> PROVE OneStarts(n)'
  BY DEF OneStarts
<1>1. \A cmd \in Range(Tail(commands'[n])) : cmd.op # "connected"
  <2>1. CASE UNCHANGED commands
    BY <1>0, <2>1 DEF OneStarts
  <2> QED  BY <1>0, <2>1, CommandLeft
<1>2. ASSUME NEW h \in Node, NEW c \in Conn, Head(commands'[n]).peer = h,
             Head(commands'[n]).conn = c, reader'[<<n, c>>] = "off", Backed(n, h)'
      PROVE  OneStarts(n)'
  <2>1. Backed(n, Head(commands[n]).peer)'
    BY <1>2 DEF Backed, In, Lost, Dials
  <2> QED  BY <1>1, <1>2, <2>1 DEF OneStarts
<1>3. CASE Head(commands'[n]).op # "connected"
  BY <1>1, <1>3 DEF OneStarts
<1>4. CASE connect(n)
  <2>1. PICK h \in Node, c \in Conn :
           /\ active' = [active EXCEPT ![n][h] = c] /\ reader[<<n, c>>] = "off"
           /\ Head(commands'[n]) = [op |-> "connected", peer |-> h, conn |-> c]
    BY <1>4, Fresh
  <2>2. Backed(n, h)'
    BY <1>0, <2>1 DEF Backed
  <2>3. reader'[<<n, c>>] = "off"
    BY <1>4, <2>1 DEF connect
  <2> QED  BY <1>2, <2>1, <2>2, <2>3
<1>5. CASE UNCHANGED commands /\ Head(commands[n]).op = "connected"
  <2>1. PICK c \in Conn : c = Head(commands[n]).conn
    BY <1>5, Heads DEF Command
  <2>2. PICK h \in Node : /\ h = Head(commands[n]).peer /\ reader[<<n, c>>] = "off"
                          /\ Backed(n, h) /\ AddressOf(n, c) = h
    BY <1>0, <1>5, <2>1, Starting DEF Starts
  <2>3. Backed(n, h)'
    BY <1>0, <2>2, TransportKeeps
  <2>4. reader'[<<n, c>>] = "off"
    <3>1. CASE listenerHandler(n) \/ \E d \in Conn : handleInbound(n, d)
      <4>1. PICK d \in Conn : Accepts(n, d) /\ AddressOf(n, d) = d
        BY <3>1, Inbound
      <4>2. c # d
        BY <2>2, <4>1, Addresses
      <4> QED  BY <1>0, <2>2, <4>1, <4>2 DEF Accepts, End
    <3>2. ASSUME NEW d \in Conn, readError(n, d) \/ readerEmits(n, d)
          PROVE  reader'[<<n, c>>] = "off"
      <4>1. c # d
        BY <2>2, <3>2 DEF readError, readerEmits
      <4> QED  BY <1>0, <2>2, <3>2, <4>1 DEF readError, readerEmits, End
    <3>3. CASE connectEmits(n)
      <4>1. ~UNCHANGED commands
        BY <3>3 DEF connectEmits, Commanded, CommandDone, Inv, TypeOK, TCPTypeOK
      <4> QED  BY <1>5, <4>1
    <3>4. CASE UNCHANGED reader
      BY <2>2, <3>4
    <3> QED  BY <3>1, <3>2, <3>3, <3>4, TransportFrames
  <2> QED  BY <1>2, <1>5, <2>1, <2>2, <2>3, <2>4
<1> QED  BY <1>0, <1>3, <1>4, <1>5, CommandLeft

\* What a session, an event, a frame or a reader is about stays backed.
LEMMA BackedStep ==
  ASSUME Inv, BackInv, NEW n \in Node, TransportAction(n), UNCHANGED sessionVars, Grows
  PROVE  AllBacked(n)'
<1>0. /\ active \in [Node -> [Address -> Conn \cup {None}]] /\ None \notin Conn
      /\ reader \in [End -> {"off", "reading", "emitting"}]
      /\ OneStarts(n) /\ AllBacked(n) /\ UNCHANGED sessions /\ TypeOK
      /\ outEvents[n] \in Seq(ConnEvent) /\ outChannel[n] \in Seq(Message)
      /\ outChannel \in [Node -> Seq(Message)]
  BY Addresses DEF Inv, TypeOK, TCPTypeOK, BackInv, sessionVars, stateVars
<1>1. \A a \in Address : Backed(n, a) => Backed(n, a)'
  BY TransportKeeps
<1>2. ASSUME NEW c \in Conn, Accepts(n, c), c \in Address PROVE Backed(n, c)'
  BY <1>0, <1>2 DEF Accepts, Backed
<1>3. ASSUME connectEmits(n)
      PROVE  \E h \in Node, c \in Conn :
                /\ h = Head(commands[n]).peer /\ c = Head(commands[n]).conn
                /\ Backed(n, h)' /\ IsEnd(n, c) /\ AddressOf(n, c) = h /\ h \in Address
  <2>1. PICK c \in Conn : c = Head(commands[n]).conn
    BY <1>3, Heads DEF connectEmits, Commanded, Command
  <2>2. Starts(n, c)
    BY <1>3, <2>1 DEF connectEmits, Commanded, Starts
  <2>3. PICK h \in Node : /\ h = Head(commands[n]).peer /\ Backed(n, h)
                          /\ IsEnd(n, c) /\ AddressOf(n, c) = h
    BY <1>0, <2>2, Starting
  <2> QED  BY <1>1, <2>1, <2>3, Addresses
<1>4. ASSUME NEW a \in Address, ~In(n, a, {"Idle"})' PROVE Backed(n, a)'
  BY <1>0, <1>1, <1>4 DEF AllBacked, In
<1>5. ASSUME NEW e \in Range(outEvents'[n]) PROVE Backed(n, e.peer)'
  <2>1. CASE e \in Range(outEvents[n])
    <3>1. e.peer \in Address
      <4>1. Range(outEvents[n]) \subseteq ConnEvent
        BY <1>0, Ranges
      <4> QED  BY <2>1, <4>1 DEF ConnEvent
    <3> QED  BY <1>0, <1>1, <2>1, <3>1 DEF AllBacked
  <2>2. CASE e.type # "Connected"
    BY <1>5, <2>2 DEF Backed, Lost
  <2>3. ASSUME NEW a \in Address, NEW type \in {"Connected", "Disconnected", "Failed"},
               Emitted(n, <<Event(type, a)>>), type = "Connected" => Backed(n, a)'
        PROVE  Backed(n, e.peer)'
    <3>1. e \in Range(outEvents[n]) \/ (e.type = type /\ e.peer = a)
      BY <1>5, <2>3, Emits DEF Event
    <3> QED  BY <2>1, <2>2, <2>3, <3>1
  <2>4. CASE connectEmits(n)
    <3>1. PICK h \in Address : h = Head(commands[n]).peer /\ Backed(n, h)'
      BY <1>3, <2>4
    <3> QED  BY <2>3, <2>4, <3>1 DEF connectEmits
  <2>5. CASE connectFails(n) \/ disconnect(n) \/ writeFails(n)
    <3>1. PICK a \in Address : a = Head(commands[n]).peer
      BY <2>5, Heads DEF connectFails, disconnect, writeFails, Commanded, Command
    <3>2. \/ UNCHANGED outEvents
          \/ \E type \in {"Disconnected", "Failed"} : Emitted(n, <<Event(type, a)>>)
      BY <2>5, <3>1 DEF connectFails, disconnect, writeFails
    <3> QED  BY <1>5, <2>1, <2>3, <3>2
  <2>6. CASE listenerHandler(n) \/ \E c \in Conn : handleInbound(n, c)
    <3>1. PICK c \in Conn : Accepts(n, c) /\ c \in Address
      BY <2>6, Inbound
    <3> QED  BY <1>2, <2>3, <3>1 DEF Accepts
  <2>7. ASSUME NEW c \in Conn, readerEmits(n, c) PROVE Backed(n, e.peer)'
    <3>1. PICK a \in Address : a = AddressOf(n, c)
      BY <2>7, Sides DEF readerEmits, Inv, LinkInv
    <3> QED  BY <2>3, <2>7, <3>1 DEF readerEmits
  <2> QED  BY <1>5, <2>1, <2>4, <2>5, <2>6, <2>7, TransportFrames
<1>6. ASSUME NEW m \in Range(outChannel'[n]) PROVE Backed(n, m.peer)'
  <2>1. CASE m \in Range(outChannel[n])
    <3>1. m.peer \in Address
      <4>1. Range(outChannel[n]) \subseteq Message
        BY <1>0, Ranges
      <4> QED  BY <2>1, <4>1 DEF Message
    <3> QED  BY <1>0, <1>1, <2>1, <3>1 DEF AllBacked
  <2>2. ASSUME NEW c \in Conn, readFrames(n, c) PROVE Backed(n, m.peer)'
    <3>1. IsEnd(n, c) /\ Backed(n, AddressOf(n, c))
      BY <1>0, <2>2 DEF readFrames, AllBacked, Inv, LinkInv
    <3>2. PICK a \in Address : a = AddressOf(n, c)
      BY <3>1, Sides
    <3>3. PICK x : /\ x = [peer |-> a, frame |-> Head(wire[<<n, c>>])]
                   /\ outChannel'[n] = Append(outChannel[n], x)
      BY <1>0, <2>2, <3>2 DEF readFrames
    <3>4. x \in Message
      <4>1. wire[<<n, c>>] # <<>> /\ wire[<<n, c>>] \in Seq(GoodFrames(n, c))
        BY <2>2 DEF readFrames, Inv, FrameInv
      <4>2. Head(wire[<<n, c>>]) \in Frame
        BY <4>1 DEF GoodFrames
      <4> QED  BY <3>2, <3>3, <4>2 DEF Message
    <3>5. m \in Range(outChannel[n]) \/ m = x
      BY <1>0, <1>6, <3>3, <3>4, Ranges
    <3>6. m = x => m.peer = a
      BY <3>3
    <3> QED  BY <1>1, <2>1, <3>1, <3>2, <3>5, <3>6
  <2> QED  BY <1>6, <2>1, <2>2, TransportFrames
<1>7. ASSUME NEW c \in Conn, reader'[<<n, c>>] # "off" PROVE Backed(n, AddressOf(n, c))'
  <2>1. ASSUME NEW a \in Address, IsEnd(n, c), AddressOf(n, c) = a, Backed(n, a)'
        PROVE  Backed(n, AddressOf(n, c))'
    <3>1. AddressOf(n, c)' = a
      BY <1>0, <2>1, Stays
    <3> QED  BY <2>1, <3>1 DEF Backed, In, Lost, Dials
  <2>2. CASE reader[<<n, c>>] # "off"
    <3>1. IsEnd(n, c) /\ Backed(n, AddressOf(n, c))
      BY <1>0, <2>2 DEF AllBacked, Inv, LinkInv
    <3>2. PICK a \in Address : a = AddressOf(n, c)
      BY <3>1, Sides
    <3> QED  BY <1>1, <2>1, <3>1, <3>2
  <2>3. CASE connectEmits(n)
    <3>1. PICK h \in Address, d \in Conn : /\ d = Head(commands[n]).conn /\ Backed(n, h)'
                                           /\ IsEnd(n, d) /\ AddressOf(n, d) = h
      BY <1>3, <2>3
    <3>2. d = c \/ reader'[<<n, c>>] = reader[<<n, c>>]
      BY <1>0, <2>3, <3>1 DEF connectEmits, End
    <3> QED  BY <1>7, <2>1, <2>2, <3>1, <3>2
  <2>4. CASE listenerHandler(n) \/ \E d \in Conn : handleInbound(n, d)
    <3>1. PICK d \in Conn : Accepts(n, d) /\ IsEnd(n, d) /\ AddressOf(n, d) = d /\ d \in Address
      BY <2>4, Inbound
    <3>2. d = c \/ reader'[<<n, c>>] = reader[<<n, c>>]
      BY <1>0, <3>1 DEF Accepts, End
    <3> QED  BY <1>2, <1>7, <2>1, <2>2, <3>1, <3>2
  <2>5. ASSUME NEW d \in Conn, readError(n, d) \/ readerEmits(n, d) PROVE reader[<<n, c>>] # "off"
    <3>1. reader[<<n, d>>] # "off" /\ (c = d \/ reader'[<<n, c>>] = reader[<<n, c>>])
      BY <1>0, <2>5 DEF readError, readerEmits, End
    <3> QED  BY <1>7, <3>1
  <2> QED  BY <1>7, <2>2, <2>3, <2>4, <2>5, TransportFrames
<1> QED  BY <1>4, <1>5, <1>6, <1>7 DEF AllBacked

\* A node that takes no step keeps its part of the invariant.
LEMMA OthersBack ==
  ASSUME Inv, BackInv, Grows, NEW m \in Node, UNCHANGED Local(m),
         \A c \in Conn : reader'[<<m, c>>] = reader[<<m, c>>]
  PROVE  RegisteredIsRead(m)' /\ OneStarts(m)' /\ AllBacked(m)'
<1>0. /\ sessions'[m] = sessions[m] /\ active'[m] = active[m] /\ commands'[m] = commands[m]
      /\ outEvents'[m] = outEvents[m] /\ outChannel'[m] = outChannel[m]
      /\ RegisteredIsRead(m) /\ OneStarts(m) /\ AllBacked(m) /\ TypeOK
      /\ active \in [Node -> [Address -> Conn \cup {None}]] /\ commands[m] \in Seq(Command)
      /\ Node \subseteq Address
  BY Addresses DEF Local, BackInv, Inv, TypeOK, TCPTypeOK
<1>1. ASSUME NEW c \in Conn, reader[<<m, c>>] # "off" PROVE AddressOf(m, c)' = AddressOf(m, c)
  BY <1>0, <1>1, Stays DEF Inv, LinkInv
<1>2. ASSUME NEW a, Backed(m, a) PROVE Backed(m, a)'
  <2>1. Lost(m, a) => Lost(m, a)'
    BY <1>0, <1>1 DEF Lost
  <2> QED  BY <1>0, <1>2, <2>1 DEF Backed, In, Dials
<1>3. RegisteredIsRead(m)'
  <2> SUFFICES ASSUME NEW a \in Address, active[m][a] # None
               PROVE  reader'[<<m, active[m][a]>>] = "reading" \/ Starts(m, active[m][a])'
    BY <1>0 DEF RegisteredIsRead, Starts
  <2>1. PICK c \in Conn : c = active[m][a]
    BY <1>0
  <2>2. reader[<<m, c>>] = "reading" \/ Starts(m, c)
    BY <1>0, <2>1 DEF RegisteredIsRead
  <2> QED  BY <1>0, <2>1, <2>2 DEF Starts
<1>4. OneStarts(m)'
  <2> SUFFICES ASSUME commands[m] # <<>>, Head(commands[m]).op = "connected"
               PROVE  /\ reader'[<<m, Head(commands[m]).conn>>] = "off"
                      /\ Head(commands[m]).peer \in Node
                      /\ Backed(m, Head(commands[m]).peer)'
    BY <1>0 DEF OneStarts
  <2>1. PICK cmd \in Command : cmd = Head(commands[m])
    BY Heads
  <2>2. cmd.conn \in Conn /\ reader[<<m, cmd.conn>>] = "off" /\ Backed(m, cmd.peer) /\ cmd.peer \in Node
    BY <1>0, <2>1 DEF Command, OneStarts
  <2>3. Backed(m, cmd.peer)' /\ cmd = Head(commands'[m])
    BY <1>0, <1>2, <2>1, <2>2
  <2> QED  BY <2>1, <2>2, <2>3 DEF Backed, In, Lost, Dials
<1>5. AllBacked(m)'
  <2>1. ASSUME NEW c \in Conn, reader'[<<m, c>>] # "off" PROVE Backed(m, AddressOf(m, c))'
    <3>1. reader[<<m, c>>] # "off"
      BY <2>1
    <3>2. PICK a : a = AddressOf(m, c)
      OBVIOUS
    <3>3. Backed(m, a)' /\ AddressOf(m, c)' = a
      BY <1>0, <1>1, <1>2, <3>1, <3>2 DEF AllBacked
    <3> QED  BY <3>3 DEF Backed, In, Lost, Dials
  <2>2. /\ \A a \in Address : ~In(m, a, {"Idle"})' => Backed(m, a)'
        /\ \A e \in Range(outEvents'[m]) : Backed(m, e.peer)'
        /\ \A f \in Range(outChannel'[m]) : Backed(m, f.peer)'
    BY <1>0, <1>2 DEF AllBacked, In
  <2> QED  BY <2>1, <2>2 DEF AllBacked
<1> QED  BY <1>3, <1>4, <1>5

\* Every step keeps what backs the sessions.
LEMMA BackStep ==
  ASSUME Inv, BackInv, [Next]_vars
  PROVE  BackInv'
<1>0. Grows
  BY Growth DEF Inv
<1> SUFFICES ASSUME NEW m \in Node PROVE RegisteredIsRead(m)' /\ OneStarts(m)' /\ AllBacked(m)'
  BY DEF BackInv
<1>1. ASSUME NEW n \in Node, SessionAction(n)
      PROVE  RegisteredIsRead(m)' /\ OneStarts(m)' /\ AllBacked(m)'
  <2>1. CASE m = n
    BY <1>1, <2>1, SessionBacks
  <2>2. CASE m # n
    BY <1>0, <1>1, <2>2, Others, OthersBack
  <2> QED  BY <2>1, <2>2
<1>2. ASSUME NEW n \in Node, TransportAction(n) /\ UNCHANGED sessionVars
      PROVE  RegisteredIsRead(m)' /\ OneStarts(m)' /\ AllBacked(m)'
  <2>1. CASE m = n
    <3>1. RegisteredIsRead(n) /\ OneStarts(n)
      BY DEF BackInv
    <3> QED  BY <1>0, <1>2, <2>1, <3>1, RegisteredStep, StartsStep, BackedStep
  <2>2. CASE m # n
    BY <1>0, <1>2, <2>2, Others, OthersBack
  <2> QED  BY <2>1, <2>2
<1>3. CASE UNCHANGED <<sessions, active, commands, outEvents, outChannel, reader,
                       transportToLogical, reported>>
  <2>1. UNCHANGED Local(m) /\ \A c \in Conn : reader'[<<m, c>>] = reader[<<m, c>>]
    BY <1>3 DEF Local
  <2> QED  BY <1>0, <2>1, OthersBack
<1>4. ASSUME NEW c, reset(c), UNCHANGED sessionVars
      PROVE  UNCHANGED <<sessions, active, commands, outEvents, outChannel, reader,
                         transportToLogical, reported>>
  BY <1>4 DEF reset, sessionVars, stateVars, mappingVars
<1>5. UNCHANGED vars => UNCHANGED <<sessions, active, commands, outEvents, outChannel, reader,
                                    transportToLogical, reported>>
  BY DEF vars, tcpVars, stateVars, mappingVars
<1> QED  BY <1>1, <1>2, <1>3, <1>4, <1>5, Steps

\* At the start nothing is under way.
LEMMA BackInit ==
  ASSUME Init
  PROVE  BackInv
<1>1. Range(<<>>) = {}
  BY DEF Range
<1>2. \A n \in Node, c \in Conn : reader[<<n, c>>] = "off"
  BY DEF Init, TCPInit, End
<1> QED  BY <1>1, <1>2 DEF Init, TCPInit, BackInv, RegisteredIsRead, OneStarts, AllBacked, In
------------------------------------------------------------------------------
(* What the runtime is told: the hosts of sessions, and their reports.       *)

\* The host of a session, once it has one, is the one at the other end of its
\* address, under which the mapping has it too.
Hosted(n) ==
    /\ \A a \in Address :
          sessions[n][a].host # None => Known(n, a) /\ sessions[n][a].host = HostAt(n, a)
    /\ \A h \in Node : sessions[n][h].state # "Idle" => sessions[n][h].host = h
    /\ \A a \in Address :
          transportToLogical[n][a] # None => transportToLogical[n][a] = sessions[n][a].host

\* The host has a session under another address as well.
Shares(n, a) == \E b \in Address \ {a} : sessions[n][b].host = sessions[n][a].host

\* A session that is up was reported, and the report was not taken back but on
\* account of another session of the host.
ReportedUp(n) ==
    \A a \in Address : In(n, a, {"Established"}) =>
        /\ sessions[n][a].host # None
        /\ sessions[n][a].host \in reported[n] \/ Shares(n, a)

HostInv == \A n \in Node : Hosted(n) /\ ReportedUp(n)

\* The session of one address is moved, and keeps the host it has.
Rehosts(n, a, s, h) ==
    /\ s \in State /\ h \in Node \cup {None}
    /\ sessions' = [sessions EXCEPT ![n][a] = [state |-> s, host |-> h]]
    /\ h # None => Known(n, a)' /\ h = HostAt(n, a)'
    /\ a \in Node => h = a
    /\ sessions[n][a].host # None => h = sessions[n][a].host

\* What the runtime is told of that: a session that comes up, or the end of one
\* under the name of its host; an address may be named that is no host's.
Tells(n, a, s, h) ==
    \/ /\ reported'[n] = reported[n]
       /\ s = "Established" => sessions[n][a].state = s /\ sessions[n][a].host = h
    \/ s = "Established" /\ h # None /\ reported'[n] = reported[n] \cup {h}
    \/ /\ s \in {"Closing", "Failed"}
       /\ \E g : (g \in Node => g = h) /\ reported'[n] = reported[n] \ {g}

\* The mapping loses names, or gains the host of the session.
Maps(n, a, h) ==
    \A b \in Address :
        \/ transportToLogical'[n][b] \in {None, transportToLogical[n][b]}
        \/ b = a /\ transportToLogical'[n][b] = h

\* A session that is only moved keeps its host.
LEMMA MovesHost ==
  ASSUME Inv, NEW n \in Node, Hosted(n), Grows, NEW a \in Address, NEW s \in State,
         Moves(n, a, s), a \in Node => sessions[n][a].state # "Idle"
  PROVE  \E h : h = sessions[n][a].host /\ Rehosts(n, a, s, h)
<1>1. PICK h \in Node \cup {None} :
         /\ h = sessions[n][a].host
         /\ sessions' = [sessions EXCEPT ![n][a] = [state |-> s, host |-> h]]
  BY Moved
<1>2. h # None => Known(n, a)' /\ h = HostAt(n, a)'
  <2>1. TypeOK
    BY DEF Inv
  <2> QED  BY <1>1, <2>1, Stays DEF Hosted
<1>3. a \in Node => h = a
  BY <1>1 DEF Hosted
<1> QED  BY <1>1, <1>2, <1>3 DEF Rehosts

\* What happens to the mapping.
LEMMA Mapped ==
  ASSUME Inv, NEW n \in Node, NEW a \in Address, NEW h
  PROVE  /\ UNCHANGED mappingVars \/ cleanupServerMapping(n, a) => Maps(n, a, h)
         /\ h \in Node /\ setServerMapping(n, a, h) => Maps(n, a, h)
<1>0. transportToLogical \in [Node -> [Address -> Node \cup {None}]]
  BY DEF Inv, TypeOK
<1>1. CASE UNCHANGED mappingVars
  BY <1>1 DEF mappingVars, Maps
<1>2. CASE cleanupServerMapping(n, a)
  BY <1>0, <1>2 DEF cleanupServerMapping, mappingVars, Maps
<1>3. CASE h \in Node /\ setServerMapping(n, a, h)
  BY <1>0, <1>3 DEF setServerMapping, Maps
<1> QED  BY <1>1, <1>2, <1>3

\* What happens to the reports.
LEMMA Emitting ==
  ASSUME Inv, NEW n \in Node, NEW type, NEW h, emitEvent(n, type, h)
  PROVE  reported'[n] = IF type = "SessionConnected" THEN reported[n] \cup {h}
                                                     ELSE reported[n] \ {h}
<1>0. reported \in [Node -> SUBSET Address]
  BY DEF Inv, TypeOK
<1> QED  BY <1>0 DEF emitEvent

\* The whole of a session step as the runtime sees it.
SeenStep(n) ==
    \/ /\ UNCHANGED <<sessions, reported>>
       /\ \A b \in Address : transportToLogical'[n][b] \in {None, transportToLogical[n][b]}
    \/ \E a \in Address : \E s, h :
          Rehosts(n, a, s, h) /\ Tells(n, a, s, h) /\ Maps(n, a, h)

\* A session that begins at the address of no host is not reported.
LEMMA SeenInbound ==
  ASSUME Inv, NEW n \in Node, Hosted(n), Grows, NEW a \in Address, Known(n, a),
         UNCHANGED sessions \/ (In(n, a, {"Idle"}) /\ Moves(n, a, "HandshakingServer")),
         UNCHANGED reported, UNCHANGED mappingVars
  PROVE  SeenStep(n)
<1>1. CASE UNCHANGED sessions
  BY <1>1 DEF SeenStep, mappingVars
<1>2. CASE In(n, a, {"Idle"}) /\ Moves(n, a, "HandshakingServer")
  <2>1. a \notin Node
    BY <1>2 DEF In, Known
  <2>2. PICK h : Rehosts(n, a, "HandshakingServer", h)
    BY <1>2, <2>1, MovesHost DEF State
  <2>3. Maps(n, a, h)
    BY Mapped
  <2>4. Tells(n, a, "HandshakingServer", h)
    BY DEF Tells
  <2> QED  BY <2>2, <2>3, <2>4 DEF SeenStep
<1> QED  BY <1>1, <1>2

\* A session that ends is reported under its host's name.
LEMMA SeenEnd ==
  ASSUME Inv, NEW n \in Node, Hosted(n), Grows, NEW a \in Address,
         a \in Node => sessions[n][a].state # "Idle",
         NEW s \in {"Closing", "Failed"}, Moves(n, a, s),
         \/ UNCHANGED reported
         \/ \E type, g : /\ type # "SessionConnected" /\ emitEvent(n, type, g)
                         /\ g = logicalFor(n, a) \/ g = sessions[n][a].host
                              \/ (sessions[n][a].host = None /\ g = a),
         UNCHANGED mappingVars \/ cleanupServerMapping(n, a)
  PROVE  SeenStep(n)
<1>1. PICK h : h = sessions[n][a].host /\ Rehosts(n, a, s, h)
  BY MovesHost DEF State
<1>2. Maps(n, a, h)
  BY Mapped
<1>3. Tells(n, a, s, h)
  <2>1. CASE UNCHANGED reported
    BY <2>1 DEF Tells
  <2>2. ASSUME NEW type, NEW g, type # "SessionConnected", emitEvent(n, type, g),
               g = logicalFor(n, a) \/ g = sessions[n][a].host
                  \/ (sessions[n][a].host = None /\ g = a)
        PROVE  Tells(n, a, s, h)
    <3>1. reported'[n] = reported[n] \ {g}
      BY <2>2, Emitting
    <3>2. a \in Node => h = a
      BY <1>1 DEF Rehosts
    <3>3. g \in Node => g = h
      BY <1>1, <2>2, <3>2 DEF logicalFor, Hosted
    <3> QED  BY <3>1, <3>3 DEF Tells
  <2> QED  BY <2>1, <2>2
<1> QED  BY <1>1, <1>2, <1>3 DEF SeenStep

\* A request of the runtime is seen as what it is.
LEMMA SeenRequest ==
  ASSUME Inv, NEW n \in Node, Hosted(n), Grows, Request(n)
  PROVE  SeenStep(n)
<1>0. Node \subseteq Address /\ None \notin Address /\ TypeOK
  BY Addresses DEF Inv
<1>1. ASSUME NEW h \in Node \ {n}, connectClient(n, h) PROVE SeenStep(n)
  <2>0. sessions \in [Node -> [Address -> [state : State, host : Node \cup {None}]]]
    BY SessionTypes
  <2>1. PICK s \in State : /\ Binds(n, h, s, h) /\ s # "Idle"
                           /\ s = "HandshakingClient" \/ s = sessions[n][h].state
    <3>1. sessions[n][h].state \in State
      BY <1>0, <2>0
    <3> QED  BY <1>1, <3>1 DEF connectClient, State, In
  <2>2. sessions' = [sessions EXCEPT ![n][h] = [state |-> s, host |-> h]]
    BY <2>1 DEF Binds
  <2>3. Known(n, h)' /\ HostAt(n, h)' = h
    BY <1>0, <2>0, <2>1, <2>2 DEF Known, HostAt
  <2>4. sessions[n][h].host # None => h = sessions[n][h].host
    BY <1>0 DEF Hosted, HostAt
  <2>5. Rehosts(n, h, s, h)
    BY <1>0, <2>2, <2>3, <2>4 DEF Rehosts
  <2>6. Tells(n, h, s, h)
    BY <1>1, <2>1 DEF connectClient, Tells, Hosted
  <2>7. Maps(n, h, h)
    BY <1>0, <1>1, Mapped DEF connectClient
  <2> QED  BY <1>0, <2>5, <2>6, <2>7 DEF SeenStep
<1>2. ASSUME NEW h \in Node, disconnectHost(n, h) PROVE SeenStep(n)
  <2>0. logicalToTransport \in [Node -> [Node -> Address \cup {None}]]
    BY <1>0 DEF TypeOK
  <2>1. PICK a \in Address : a = resolveUnderlyingHost(n, h)
    BY <1>0, <2>0 DEF resolveUnderlyingHost
  <2>2. UNCHANGED <<sessions, reported>> /\ cleanupServerMapping(n, a)
    BY <1>2, <2>1 DEF disconnectHost, stateVars
  <2>3. Maps(n, a, None)
    BY <2>2, Mapped
  <2> QED  BY <2>2, <2>3 DEF SeenStep, Maps
<1>3. ASSUME NEW h, sendTo(n, h) PROVE SeenStep(n)
  BY <1>3 DEF sendTo, SeenStep, stateVars, mappingVars
<1> QED  BY <1>1, <1>2, <1>3 DEF Request

\* So is a signal of the transport.
LEMMA SeenSignal ==
  ASSUME Inv, NEW n \in Node, Hosted(n), Grows, Signal(n)
  PROVE  SeenStep(n)
<1>0. PICK a : a = Head(outEvents[n]).peer
  OBVIOUS
<1>1. a \in Address /\ Known(n, a)
  BY <1>0, Heads DEF Signal, handleConnected, handleDisconnected, handleFailed, Signalled,
     ConnEvent
<1>2. a \in Node => sessions[n][a].state # "Idle"
  BY <1>1 DEF Known
<1>3. CASE handleConnected(n)
  <2>1. /\ UNCHANGED sessions \/ (In(n, a, {"Idle"}) /\ Moves(n, a, "HandshakingServer"))
        /\ UNCHANGED reported /\ UNCHANGED mappingVars
    BY <1>0, <1>3 DEF handleConnected
  <2> QED  BY <1>1, <2>1, SeenInbound
<1>4. CASE handleDisconnected(n)
  <2>1. \/ /\ Moves(n, a, "Closing") /\ cleanupServerMapping(n, a)
           /\ emitEvent(n, "SessionDisconnected", logicalFor(n, a))
        \/ Moves(n, a, "Failed") /\ UNCHANGED reported /\ UNCHANGED mappingVars
    BY <1>0, <1>4 DEF handleDisconnected
  <2>2. PICK g : g = logicalFor(n, a)
    OBVIOUS
  <2> QED  BY <1>1, <1>2, <2>1, <2>2, SeenEnd
<1>5. CASE handleFailed(n)
  <2>1. /\ Moves(n, a, "Failed") /\ cleanupServerMapping(n, a)
        /\ emitEvent(n, "SessionFailed", logicalFor(n, a))
    BY <1>0, <1>5 DEF handleFailed
  <2>2. PICK g : g = logicalFor(n, a)
    OBVIOUS
  <2> QED  BY <1>1, <1>2, <2>1, <2>2, SeenEnd
<1> QED  BY <1>3, <1>4, <1>5 DEF Signal

\* So is a frame.
LEMMA SeenReceive ==
  ASSUME Inv, NEW n \in Node, Hosted(n), Grows, Receive(n)
  PROVE  SeenStep(n)
<1> DEFINE m == Head(outChannel[n])
<1>0. Frame = SessionFrame /\ None \notin Address /\ Node \subseteq Address /\ TypeOK
  BY FrameAssumption, Addresses DEF Inv
<1>1. m \in Message /\ GoodArrival(n, m) /\ m.peer \in Address /\ m.frame \in SessionFrame
  BY <1>0, Heads DEF Receive, handleServerHandshake, rejectHandshake, handleAck,
     handleReject, handleUnexpected, Handshakes, Message
<1>2. PICK a \in Address : a = m.peer
  BY <1>1
<1>3. Known(n, a) /\ (a \in Node => sessions[n][a].state # "Idle")
  BY <1>1, <1>2 DEF GoodArrival, Known
<1>4. CASE handleServerHandshake(n)
  <2>1. PICK h \in Node : h = m.frame.host /\ h = HostAt(n, a)
    BY <1>1, <1>2, <1>4 DEF handleServerHandshake, Handshakes, GoodArrival, SessionFrame
  <2>2. /\ sessions' = [sessions EXCEPT ![n][a] = [state |-> "Established", host |-> h]]
        /\ sessions[n][a].state \in {"HandshakingServer", "Idle"}
        /\ setServerMapping(n, a, h) /\ emitEvent(n, "SessionConnected", h)
    BY <1>2, <1>4, <2>1 DEF handleServerHandshake, Handshakes, Binds, In
  <2>3. a \notin Node
    BY <1>3, <2>2 DEF Inv, SessionInv
  <2>4. Known(n, a)' /\ h = HostAt(n, a)'
    BY <1>0, <1>3, <2>1, Stays
  <2>5. sessions[n][a].host # None => h = sessions[n][a].host
    BY <2>1 DEF Hosted
  <2>6. Rehosts(n, a, "Established", h)
    BY <2>2, <2>3, <2>4, <2>5 DEF Rehosts, State
  <2>7. Tells(n, a, "Established", h)
    <3>1. reported'[n] = reported[n] \cup {h}
      BY <2>2, Emitting
    <3> QED  BY <1>0, <3>1 DEF Tells
  <2>8. Maps(n, a, h)
    BY <2>2, Mapped
  <2> QED  BY <2>6, <2>7, <2>8 DEF SeenStep
<1>5. CASE rejectHandshake(n)
  <2>1. PICK g : /\ g = IF sessions[n][a].host # None THEN sessions[n][a].host ELSE a
                 /\ emitEvent(n, "SessionVersionMismatch", g)
    BY <1>2, <1>5 DEF rejectHandshake
  <2>2. Moves(n, a, "Failed") /\ UNCHANGED mappingVars
    BY <1>2, <1>5 DEF rejectHandshake
  <2>3. g = sessions[n][a].host \/ (sessions[n][a].host = None /\ g = a)
    BY <2>1
  <2> QED  BY <1>3, <2>1, <2>2, <2>3, SeenEnd
<1>6. CASE handleAck(n)
  <2>1. PICK h : h = sessions[n][a].host
    OBVIOUS
  <2>2. /\ Moves(n, a, "Established") /\ setServerMapping(n, a, h)
        /\ emitEvent(n, "SessionConnected", h) /\ sessions[n][a].state = "HandshakingClient"
    BY <1>2, <1>6, <2>1 DEF handleAck, Handshakes, In
  <2>3. a \in Node /\ h = a
    BY <2>1, <2>2 DEF Inv, SessionInv
  <2>4. Rehosts(n, a, "Established", h)
    BY <1>3, <2>1, <2>2, MovesHost DEF State
  <2>5. Tells(n, a, "Established", h)
    <3>1. reported'[n] = reported[n] \cup {h}
      BY <2>2, Emitting
    <3> QED  BY <1>0, <2>3, <3>1 DEF Tells
  <2>6. Maps(n, a, h)
    BY <2>2, <2>3, Mapped
  <2> QED  BY <2>4, <2>5, <2>6 DEF SeenStep
<1>7. CASE handleReject(n)
  <2>1. PICK g : g = sessions[n][a].host /\ emitEvent(n, "SessionVersionMismatch", g)
    BY <1>2, <1>7 DEF handleReject
  <2>2. Moves(n, a, "Failed") /\ UNCHANGED mappingVars
    BY <1>2, <1>7 DEF handleReject
  <2> QED  BY <1>3, <2>1, <2>2, SeenEnd
<1>8. CASE handleUnexpected(n)
  <2>1. /\ UNCHANGED sessions \/ (In(n, a, {"Idle"}) /\ Moves(n, a, "HandshakingServer"))
        /\ UNCHANGED reported /\ UNCHANGED mappingVars
    BY <1>2, <1>8 DEF handleUnexpected
  <2> QED  BY <1>3, <2>1, SeenInbound
<1> QED  BY <1>4, <1>5, <1>6, <1>7, <1>8 DEF Receive

\* Every step of the session layer, as the runtime sees it.
LEMMA Seen ==
  ASSUME Inv, NEW n \in Node, Hosted(n), Grows, SessionAction(n)
  PROVE  SeenStep(n)
<1>1. ASSUME NEW a \in Address, timerFires(n, a) PROVE SeenStep(n)
  BY <1>1 DEF timerFires, SeenStep, stateVars, mappingVars
<1>2. ASSUME NEW a \in Address, dispatchHandshakeTimeout(n, a) PROVE SeenStep(n)
  <2>1. UNCHANGED mappingVars
    BY <1>2 DEF dispatchHandshakeTimeout
  <2>2. CASE In(n, a, {"HandshakingClient"})
    <3>1. PICK g : g = sessions[n][a].host /\ emitEvent(n, "SessionFailed", g)
      BY <1>2, <2>2 DEF dispatchHandshakeTimeout
    <3>2. Moves(n, a, "Failed") /\ sessions[n][a].state # "Idle"
      BY <1>2, <2>2 DEF dispatchHandshakeTimeout, In
    <3> QED  BY <2>1, <3>1, <3>2, SeenEnd
  <2>3. CASE ~In(n, a, {"HandshakingClient"})
    BY <1>2, <2>1, <2>3 DEF dispatchHandshakeTimeout, SeenStep, mappingVars
  <2> QED  BY <2>2, <2>3
<1> QED  BY <1>1, <1>2, SeenRequest, SeenSignal, SeenReceive DEF SessionAction

\* The sessions keep their hosts.
LEMMA HostedStep ==
  ASSUME Inv, NEW n \in Node, Hosted(n), Grows, SeenStep(n)
  PROVE  Hosted(n)'
<1>0. /\ sessions \in [Node -> [Address -> [state : State, host : Node \cup {None}]]]
      /\ \A a \in Address : Known(n, a) => Known(n, a)' /\ HostAt(n, a)' = HostAt(n, a)
      /\ Node \subseteq Address /\ None \notin Node
  BY SessionTypes, Stays, Addresses DEF Inv
<1>1. CASE UNCHANGED sessions
      /\ \A b \in Address : transportToLogical'[n][b] \in {None, transportToLogical[n][b]}
  BY <1>0, <1>1 DEF Hosted
<1>2. ASSUME NEW a \in Address, NEW s, NEW h, Rehosts(n, a, s, h), Maps(n, a, h)
      PROVE  Hosted(n)'
  <2>1. \A b \in Address : sessions'[n][b] = IF b = a THEN [state |-> s, host |-> h]
                                                      ELSE sessions[n][b]
    BY <1>0, <1>2 DEF Rehosts
  <2>2. ASSUME NEW b \in Address, sessions'[n][b].host # None
        PROVE  Known(n, b)' /\ sessions'[n][b].host = HostAt(n, b)'
    <3>1. CASE b = a
      BY <1>2, <2>1, <2>2, <3>1 DEF Rehosts
    <3>2. CASE b # a
      BY <1>0, <2>1, <2>2, <3>2 DEF Hosted
    <3> QED  BY <3>1, <3>2
  <2>3. ASSUME NEW g \in Node, sessions'[n][g].state # "Idle" PROVE sessions'[n][g].host = g
    <3>1. CASE g = a
      BY <1>0, <1>2, <2>1, <3>1 DEF Rehosts
    <3>2. CASE g # a
      BY <1>0, <2>1, <2>3, <3>2 DEF Hosted
    <3> QED  BY <3>1, <3>2
  <2>4. ASSUME NEW b \in Address, transportToLogical'[n][b] # None
        PROVE  transportToLogical'[n][b] = sessions'[n][b].host
    <3>1. CASE transportToLogical'[n][b] = transportToLogical[n][b]
      <4>1. sessions[n][b].host = transportToLogical[n][b] /\ sessions[n][b].host # None
        BY <2>4, <3>1 DEF Hosted
      <4>2. sessions'[n][b].host = sessions[n][b].host
        BY <1>2, <2>1, <4>1 DEF Rehosts
      <4> QED  BY <3>1, <4>1, <4>2
    <3>2. CASE b = a /\ transportToLogical'[n][b] = h
      BY <2>1, <3>2
    <3> QED  BY <1>2, <2>4, <3>1, <3>2 DEF Maps
  <2> QED  BY <2>2, <2>3, <2>4 DEF Hosted
<1> QED  BY <1>1, <1>2 DEF SeenStep

\* A report is taken back only with a session of the host.
LEMMA ReportedStep ==
  ASSUME Inv, NEW n \in Node, Hosted(n), ReportedUp(n), SeenStep(n)
  PROVE  ReportedUp(n)'
<1>0. /\ sessions \in [Node -> [Address -> [state : State, host : Node \cup {None}]]]
      /\ reported \in [Node -> SUBSET Address]
  BY SessionTypes DEF Inv, TypeOK
<1>1. CASE UNCHANGED <<sessions, reported>>
  BY <1>1 DEF ReportedUp, Shares, In
<1>2. ASSUME NEW a \in Address, NEW s, NEW h, Rehosts(n, a, s, h), Tells(n, a, s, h)
      PROVE  ReportedUp(n)'
  <2>1. \A b \in Address : sessions'[n][b] = IF b = a THEN [state |-> s, host |-> h]
                                                      ELSE sessions[n][b]
    BY <1>0, <1>2 DEF Rehosts
  <2>2. \A b \in Address : sessions[n][b].host # None => sessions'[n][b].host = sessions[n][b].host
    BY <1>2, <2>1 DEF Rehosts
  <2> SUFFICES ASSUME NEW b \in Address, sessions'[n][b].state = "Established"
               PROVE  /\ sessions'[n][b].host # None
                      /\ sessions'[n][b].host \in reported'[n] \/ Shares(n, b)'
    BY DEF ReportedUp, In
  <2>3. CASE sessions[n][b].state = "Established" /\ sessions'[n][b].host = sessions[n][b].host
    <3>1. PICK g \in Node : g = sessions[n][b].host /\ (g \in reported[n] \/ Shares(n, b))
      BY <1>0, <2>3 DEF ReportedUp, In
    <3>2. CASE Shares(n, b)
      <4>1. PICK d \in Address \ {b} : sessions[n][d].host = g
        BY <3>1, <3>2 DEF Shares
      <4>2. sessions'[n][d].host = g /\ g # None
        BY <2>2, <2>3, <3>1, <4>1 DEF ReportedUp, In
      <4> QED  BY <2>3, <3>1, <4>2 DEF Shares
    <3>3. CASE g \in reported[n] /\ g \in reported'[n]
      BY <2>3, <3>1, <3>3 DEF ReportedUp, In
    <3>4. CASE g \in reported[n] /\ g \notin reported'[n]
      <4>1. s \in {"Closing", "Failed"} /\ g = h
        BY <1>2, <3>4 DEF Tells
      <4>2. b # a /\ sessions'[n][a].host = g
        BY <2>1, <4>1
      <4> QED  BY <2>3, <3>1, <4>2 DEF Shares, ReportedUp, In
    <3> QED  BY <3>1, <3>2, <3>3, <3>4
  <2>4. CASE b = a /\ s = "Established" /\ h # None /\ reported'[n] = reported[n] \cup {h}
    BY <2>1, <2>4
  <2> QED  BY <1>2, <2>1, <2>3, <2>4 DEF Tells
<1> QED  BY <1>1, <1>2 DEF SeenStep

\* Every step keeps the hosts and the reports.
LEMMA HostStep ==
  ASSUME Inv, HostInv, [Next]_vars
  PROVE  HostInv'
<1>0. Grows /\ TypeOK
  BY Growth DEF Inv
<1> SUFFICES ASSUME NEW m \in Node PROVE Hosted(m)' /\ ReportedUp(m)'
  BY DEF HostInv
<1>1. Hosted(m) /\ ReportedUp(m)
  BY DEF HostInv
<1>2. ASSUME sessions'[m] = sessions[m], transportToLogical'[m] = transportToLogical[m],
             reported'[m] = reported[m]
      PROVE  Hosted(m)' /\ ReportedUp(m)'
  <2>1. \A a \in Address : Known(m, a) => Known(m, a)' /\ HostAt(m, a)' = HostAt(m, a)
    BY <1>0, Stays
  <2>2. Hosted(m)'
    BY <1>1, <1>2, <2>1 DEF Hosted
  <2> QED  BY <1>1, <1>2, <2>2 DEF ReportedUp, Shares, In
<1>3. ASSUME NEW n \in Node, SessionAction(n) PROVE Hosted(m)' /\ ReportedUp(m)'
  <2>1. CASE m = n
    BY <1>0, <1>1, <1>3, <2>1, Seen, HostedStep, ReportedStep
  <2>2. CASE m # n
    <3>1. UNCHANGED Local(m)
      BY <1>3, <2>2, Others
    <3> QED  BY <1>2, <3>1 DEF Local
  <2> QED  BY <2>1, <2>2
<1>4. CASE UNCHANGED sessionVars \/ UNCHANGED vars
  <2>1. UNCHANGED <<sessions, transportToLogical, reported>>
    BY <1>4 DEF vars, sessionVars, stateVars, mappingVars
  <2> QED  BY <1>2, <2>1
<1> QED  BY <1>3, <1>4, Steps

\* What the sessions have behind them, in every state.
LEMMA Backing == Spec => [](BackInv /\ HostInv)
<1>1. Init => BackInv /\ HostInv
  <2>1. Init => HostInv
    BY Addresses DEF Init, HostInv, Hosted, ReportedUp, In
  <2> QED  BY <2>1, BackInit
<1>2. Inv /\ (BackInv /\ HostInv) /\ [Next]_vars => (BackInv /\ HostInv)'
  BY BackStep, HostStep
<1> QED  BY <1>1, <1>2, Invariance, PTL DEF Spec

\* EstablishedIsBacked of SessionLayer: once a node has handled every event, an
\* Established session has an open connection under its address, and the
\* runtime was told of it, unless the host had a second one.
THEOREM SessionsAreBacked == Spec => []EstablishedIsBacked
<1>1. ASSUME Inv, BackInv, HostInv PROVE EstablishedIsBacked
  <2> SUFFICES ASSUME NEW n \in Node, NEW a \in Address, Quiet(n),
                      sessions[n][a].state = "Established"
               PROVE  /\ active[n][a] # None /\ <<n, active[n][a]>> \in open
                      /\ sessions[n][a].host \in reported[n] \/ Shares(n, a)
    BY DEF EstablishedIsBacked, Shares
  <2>1. Backed(n, a) /\ ~In(n, a, {"Closing", "Failed"})
    BY <1>1 DEF BackInv, AllBacked, In
  <2>2. ~Lost(n, a) /\ ~Dials(n, a)
    <3>1. outEvents[n] = <<>> /\ commands[n] = <<>> /\ \A c \in Conn : reader[<<n, c>>] # "emitting"
      BY DEF Quiet
    <3>2. Range(outEvents[n]) = {} /\ Range(commands[n]) = {}
      BY <3>1 DEF Range
    <3> QED  BY <3>1, <3>2 DEF Lost, Dials
  <2>3. active[n][a] # None
    BY <2>1, <2>2 DEF Backed
  <2>4. PICK c \in Conn : c = active[n][a]
    BY <1>1, <2>3 DEF Inv, TypeOK, TCPTypeOK
  <2>5. reader[<<n, c>>] = "reading"
    BY <1>1, <2>3, <2>4 DEF BackInv, RegisteredIsRead, Starts, Quiet
  <2>6. <<n, c>> \in open
    BY <2>5 DEF Quiet
  <2>7. sessions[n][a].host \in reported[n] \/ Shares(n, a)
    BY <1>1 DEF HostInv, ReportedUp, In
  <2> QED  BY <2>3, <2>4, <2>6, <2>7
<1> QED  BY <1>1, Invariance, Backing, PTL
==============================================================================
