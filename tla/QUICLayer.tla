----------------------------- MODULE QUICLayer -----------------------------
(****************************************************************************)
(* The QUIC transport of pkg/transport/quic/quic.go, beside that of TCPLayer *)
(* and over the same state: conns is `active', the accept queue `backlog',   *)
(* a connection's one stream `wire'.  Its handler does what the other's does; *)
(* it differs where connections begin and end.  A node waits for the first   *)
(* frame of a dialer before it registers and reports the connection, on a    *)
(* goroutine per connection; and closing one discards what is not yet read.  *)
(****************************************************************************)
EXTENDS TCPLayer, SequencesExt

VARIABLE transport  \* the transport of all nodes: "tcp" or "quic"

quicConnect(n) == transport = "quic" /\ (connect(n) \/ connectEmits(n))

quicConnectFails(n) == transport = "quic" /\ connectFails(n)

quicDisconnect(n) == transport = "quic" /\ disconnect(n)

quicSend(n) == transport = "quic" /\ (send(n) \/ write(n) \/ writeFails(n))

BothOpen(n, c) == {<<n, c>>, <<Remote(n, c), c>>} \subseteq open

\* A connection leaves the accept queue for a goroutine of its own.
Leaves(n, c) ==
    \E i \in 1 .. Len(backlog[n]) :
        backlog[n][i] = c /\ backlog' = [backlog EXCEPT ![n] = RemoveAt(@, i)]

\* handleInbound: AcceptStream returns with the dialer's first frame, ...
handleInbound(n, c) ==
    /\ transport = "quic"
    /\ wire[<<n, c>>] # <<>>
    /\ <<n, c>> \in open
    /\ Leaves(n, c)
    /\ active' = [active EXCEPT ![n][c] = c]
    /\ reader' = [reader EXCEPT ![<<n, c>>] = "reading"]
    /\ Emitted(n, <<Event("Connected", c)>>)
    /\ UNCHANGED <<dialed, open, wire, commands, outChannel>>

\* ... or fails, and nothing is ever reported of the connection.
handleInboundFails(n, c) ==
    /\ transport = "quic"
    /\ Leaves(n, c)
    /\ ~BothOpen(n, c)
    /\ open' = open \ {<<n, c>>}
    /\ UNCHANGED <<dialed, active, reader, wire, commands, outChannel, outEvents>>

\* The peer's CloseWithError overtakes what it sent before.
closeDiscards(n, c) ==
    /\ transport = "quic"
    /\ reader[<<n, c>>] = "reading"
    /\ <<Remote(n, c), c>> \notin open
    /\ wire[<<n, c>>] # <<>>
    /\ wire' = [wire EXCEPT ![<<n, c>>] = <<>>]
    /\ UNCHANGED <<dialed, open, backlog, active, reader, commands, outChannel, outEvents>>

readPump(n, c) == transport = "quic" /\ connectionHandler(n, c)

quicStep(n) ==
    \/ quicConnect(n) \/ quicConnectFails(n) \/ quicDisconnect(n) \/ quicSend(n)
    \/ \E c \in Conn :
        handleInbound(n, c) \/ handleInboundFails(n, c) \/ closeDiscards(n, c) \/ readPump(n, c)

tcpStep(n) ==
    /\ transport = "tcp"
    /\ handler(n) \/ listenerHandler(n) \/ \E c \in Conn : connectionHandler(n, c)

\* No connection of the accept queue has anything to tell.
Waiting(n) ==
    \A c \in Range(backlog[n]) : transport = "quic" /\ BothOpen(n, c) /\ wire[<<n, c>>] = <<>>
==============================================================================
