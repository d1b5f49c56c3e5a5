----------------------------- MODULE MCSession -----------------------------
(* Instance of SessionLayer over its transports for TLC. *)
EXTENDS SessionLayer

CONSTANTS
    First,           \* the node that asks for a session first
    MaxConnects      \* bound: sessions asked for

VARIABLES
    connects,
    budget, \* what else may go wrong in the behaviour, once each
    hung    \* the nodes that do nothing any more

mcVars == <<vars, connects, budget, hung>>

Budgets == {{"reset"}, {"disconnect"}, {"timeout"}, {"dial", "send"}, {"hang"}}

MCInit ==
    /\ Init
    /\ connects = 0
    /\ hung = {}
    /\ version[First] = 1
    /\ budget \in
         CASE version # [n \in Node |-> 1] -> {{}}
           [] transport = "quic" -> {{"reset"}}
           [] OTHER -> Budgets

Spends(kind) == kind \in budget /\ budget' = budget \ {kind}

MCConnect ==
    /\ connects < MaxConnects
    /\ connects' = connects + 1
    /\ \E n, h \in Node :
          /\ n \notin hung \cup {h}
          /\ connects = 0 => n = First
          /\ connectClient(n, h)
    /\ UNCHANGED <<budget, hung>>

MCDisconnect ==
    /\ Spends("disconnect")
    /\ \E n, h \in Node : n # h /\ disconnectHost(n, h)
    /\ UNCHANGED <<connects, hung>>

MCSend ==
    /\ Spends("send")
    /\ \E n, h \in Node : n # h /\ sendTo(n, h)
    /\ UNCHANGED <<connects, hung>>

MCHandler ==
    /\ \/ \E n \in Node \ hung : handleConnected(n)
       \/ \E n \in Node \ hung : handleDisconnected(n)
       \/ \E n \in Node \ hung : handleFailed(n)
       \/ \E n \in Node \ hung : handleServerHandshake(n)
       \/ \E n \in Node \ hung : rejectHandshake(n)
       \/ \E n \in Node \ hung : handleAck(n)
       \/ \E n \in Node \ hung : handleReject(n)
       \/ \E n \in Node \ hung : handleUnexpected(n)
       \/ \E n \in Node \ hung, a \in Address : dispatchHandshakeTimeout(n, a)
    /\ UNCHANGED <<connects, budget, hung>>

MCTCP ==
    /\ transport = "tcp"
    /\ \/ \E n \in Node \ hung : connect(n)
       \/ \E n \in Node \ hung : connectEmits(n)
       \/ \E n \in Node \ hung : disconnect(n)
       \/ \E n \in Node \ hung : send(n)
       \/ \E n \in Node \ hung : write(n)
       \/ \E n \in Node \ hung : writeFails(n)
       \/ \E n \in Node \ hung : listenerHandler(n)
       \/ \E n \in Node \ hung, c \in Conn : readFrames(n, c)
       \/ \E n \in Node \ hung, c \in Conn : readError(n, c)
       \/ \E n \in Node \ hung, c \in Conn : readerEmits(n, c)
    /\ UNCHANGED <<sessionVars, connects, budget, hung>>

MCQUIC ==
    /\ \/ \E n \in Node \ hung : quicConnect(n)
       \/ \E n \in Node \ hung : quicDisconnect(n)
       \/ \E n \in Node \ hung : quicSend(n)
       \/ \E n \in Node \ hung, c \in Conn : handleInbound(n, c)
       \/ \E n \in Node \ hung, c \in Conn : handleInboundFails(n, c)
       \/ \E n \in Node \ hung, c \in Conn : closeDiscards(n, c)
       \/ \E n \in Node \ hung, c \in Conn : readPump(n, c)
    /\ UNCHANGED <<sessionVars, connects, budget, hung>>

\* A timer fires when nothing else goes on, and once though something does.
MCTimer ==
    /\ \E n \in Node \ hung, a \in Address : timerFires(n, a)
    /\ IF \A n \in Node \ hung : Quiet(n) THEN UNCHANGED budget ELSE Spends("timeout")
    /\ UNCHANGED <<connects, hung>>

MCDialFails ==
    /\ \E n \in Node : quicConnectFails(n) \/ (transport = "tcp" /\ connectFails(n))
    /\ IF Len(dialed) = MaxConn THEN UNCHANGED budget ELSE Spends("dial")
    /\ UNCHANGED <<sessionVars, connects, hung>>

MCHang ==
    /\ Spends("hang")
    /\ \E n \in Node \ {First} : hung' = {n}
    /\ UNCHANGED <<vars, connects>>

MCReset ==
    /\ Spends("reset")
    /\ \E c \in Conn : reset(c)
    /\ UNCHANGED <<sessionVars, connects, hung>>

MCNext ==
    /\ \/ MCConnect \/ MCDisconnect \/ MCSend \/ MCHandler \/ MCTCP \/ MCQUIC \/ MCTimer
       \/ MCDialFails \/ MCReset \/ MCHang
    /\ UNCHANGED transport

MCSpec == MCInit /\ [][MCNext]_mcVars

\* Only the first dialer goes on for certain; what its peer does not do, it may
\* be hung for.
MCFairSpec == MCSpec /\ Fairness(First)

\* Dials come to an end by the peer's answer, a failure or the timeout, even
\* when the peer does nothing any more: one that "accepts the connection but
\* never answers the Hello must not park the session in handshaking".
DialsResolve ==
    []<>(\A h \in Node : sessions[First][h].state # "HandshakingClient")
=============================================================================
