------------------------------ MODULE TCPLayer ------------------------------
(****************************************************************************)
(* The TCP transport of pkg/transport/tcp.go: one handler goroutine that     *)
(* executes commands, one listener, one reader goroutine per connection.     *)
(*                                                                          *)
(* A dialer addresses a connection by the host it dialed, an acceptor by the *)
(* ephemeral endpoint of the connection, here the connection itself.         *)
(* Connections are numbered in the order they are dialed.  Messages and      *)
(* events leave on two channels, which are not ordered with each other.      *)
(****************************************************************************)
EXTENDS Naturals, Sequences, FiniteSets

CONSTANTS
    Node,
    None,
    Frame,    \* what the layer above sends
    MaxConn   \* connections dialed in a behaviour (bound)

ASSUME TCPAssumption ==
    /\ MaxConn \in Nat
    /\ Node \cap (0 .. MaxConn) = {}
    /\ None \notin Node \cup (0 .. MaxConn)

Conn == 1 .. MaxConn

Address == Node \cup Conn

VARIABLES
    dialed,      \* the dialer and the acceptor of each connection so far
    open,        \* the ends <<node, connection>> that are not closed
    backlog,     \* connections a node's listener has not accepted yet
    active,      \* activeConnections: per node and address, a connection
    reader,      \* per end: "off", "reading" or "emitting" its last event
    wire,        \* per end: frames on their way to it
    commands,    \* per node: commands to its handler
    outChannel,  \* per node: frames received
    outEvents    \* per node: connection events

tcpVars == <<dialed, open, backlog, active, reader, wire, commands, outChannel,
             outEvents>>

End == Node \X Conn

TCPInit ==
    /\ dialed     = <<>>
    /\ open       = {}
    /\ backlog    = [n \in Node |-> <<>>]
    /\ active     = [n \in Node |-> [a \in Address |-> None]]
    /\ reader     = [e \in End |-> "off"]
    /\ wire       = [e \in End |-> <<>>]
    /\ commands   = [n \in Node |-> <<>>]
    /\ outChannel = [n \in Node |-> <<>>]
    /\ outEvents  = [n \in Node |-> <<>>]

\* The other node of a connection, and its address as node n sees it.
Remote(n, c) == IF dialed[c].dialer = n THEN dialed[c].acceptor ELSE dialed[c].dialer

AddressOf(n, c) == IF dialed[c].dialer = n THEN dialed[c].acceptor ELSE c

Emitted(n, events) == outEvents' = [outEvents EXCEPT ![n] = @ \o events]

Event(type, peer) == [type |-> type, peer |-> peer]
------------------------------------------------------------------------------
(* The handler goroutine, one command at a time. *)

Commanded(n, op) == commands[n] # <<>> /\ Head(commands[n]).op = op

CommandDone(n) == commands' = [commands EXCEPT ![n] = Tail(@)]

\* A step of a command that the readers can run between: what is left of the
\* command is the next one.
Continues(n, rest) == commands' = [commands EXCEPT ![n] = <<rest>> \o Tail(@)]

\* connect: the dial fails.
connectFails(n) ==
    /\ Commanded(n, "connect")
    /\ CommandDone(n)
    /\ Emitted(n, <<Event("Failed", Head(commands[n]).peer)>>)
    /\ UNCHANGED <<dialed, open, backlog, active, reader, wire, outChannel>>

\* connect: the new connection takes the place of any other to that address,
\* which is neither closed nor forgotten by its reader.
connect(n) ==
    LET host == Head(commands[n]).peer
        c    == Len(dialed) + 1
    IN  /\ Commanded(n, "connect")
        /\ c \in Conn
        /\ Continues(n, [op |-> "connected", peer |-> host, conn |-> c])
        /\ dialed' = Append(dialed, [dialer |-> n, acceptor |-> host])
        /\ open' = open \cup {<<n, c>>, <<host, c>>}
        /\ backlog' = [backlog EXCEPT ![host] = Append(@, c)]
        /\ active' = [active EXCEPT ![n][host] = c]
        /\ UNCHANGED <<reader, wire, outChannel, outEvents>>

\* connect, once registered: the reader of an older connection to the address
\* may have closed this one before its event is emitted and its reader starts.
connectEmits(n) ==
    /\ Commanded(n, "connected")
    /\ CommandDone(n)
    /\ reader' = [reader EXCEPT ![<<n, Head(commands[n]).conn>>] = "reading"]
    /\ Emitted(n, <<Event("Connected", Head(commands[n]).peer)>>)
    /\ UNCHANGED <<dialed, open, backlog, active, wire, outChannel>>

\* disconnect: whichever connection is registered for the address is closed.
Unregistered(n, a) ==
    /\ active' = [active EXCEPT ![n][a] = None]
    /\ open' = open \ {<<n, active[n][a]>>}

disconnect(n) ==
    LET a == Head(commands[n]).peer IN
    /\ Commanded(n, "disconnect")
    /\ CommandDone(n)
    /\ IF active[n][a] = None
       THEN UNCHANGED <<active, open, outEvents>>
       ELSE Unregistered(n, a) /\ Emitted(n, <<Event("Disconnected", a)>>)
    /\ UNCHANGED <<dialed, backlog, reader, wire, outChannel>>

\* send: dropped without a connection.
send(n) ==
    LET cmd == Head(commands[n])
        c   == active[n][cmd.peer]
    IN  /\ Commanded(n, "send")
        /\ IF c = None
           THEN CommandDone(n)
           ELSE Continues(n, [op |-> "write", peer |-> cmd.peer, conn |-> c,
                              frame |-> cmd.frame])
        /\ UNCHANGED <<dialed, open, backlog, active, reader, wire, outChannel, outEvents>>

\* send: the frame is written to the connection found.
write(n) ==
    LET c == Head(commands[n]).conn IN
    /\ Commanded(n, "write")
    /\ <<n, c>> \in open
    /\ CommandDone(n)
    /\ wire' = [wire EXCEPT ![<<Remote(n, c), c>>] = Append(@, Head(commands[n]).frame)]
    /\ UNCHANGED <<dialed, open, backlog, active, reader, outChannel, outEvents>>

\* send: the write fails, always on a connection closed here in the meantime
\* and sometimes on one the peer closed; the address is then disconnected.
writeFails(n) ==
    LET c == Head(commands[n]).conn
        a == Head(commands[n]).peer
    IN  /\ Commanded(n, "write")
        /\ <<n, c>> \notin open \/ <<Remote(n, c), c>> \notin open
        /\ Continues(n, [op |-> "disconnect", peer |-> a])
        /\ Emitted(n, <<Event("Failed", a)>>)
        /\ UNCHANGED <<dialed, open, backlog, active, reader, wire, outChannel>>
------------------------------------------------------------------------------
(* The listener and the readers. *)

listenerHandler(n) ==
    LET c == Head(backlog[n]) IN
    /\ backlog[n] # <<>>
    /\ backlog' = [backlog EXCEPT ![n] = Tail(@)]
    /\ active' = [active EXCEPT ![n][c] = c]
    /\ reader' = [reader EXCEPT ![<<n, c>>] = "reading"]
    /\ Emitted(n, <<Event("Connected", c)>>)
    /\ UNCHANGED <<dialed, open, wire, commands, outChannel>>

\* connectionHandler: a frame is read.
readFrames(n, c) ==
    /\ reader[<<n, c>>] = "reading"
    /\ <<n, c>> \in open
    /\ wire[<<n, c>>] # <<>>
    /\ wire' = [wire EXCEPT ![<<n, c>>] = Tail(@)]
    /\ outChannel' = [outChannel EXCEPT ![n] =
           Append(@, [peer |-> AddressOf(n, c), frame |-> Head(wire[<<n, c>>])])]
    /\ UNCHANGED <<dialed, open, backlog, active, reader, commands, outEvents>>

\* Mutant: the reader ends and disconnects nothing.
readErrorQuietly(n, c) ==
    /\ reader[<<n, c>>] = "reading"
    /\ \/ <<n, c>> \notin open
       \/ <<Remote(n, c), c>> \notin open /\ wire[<<n, c>>] = <<>>
    /\ reader' = [reader EXCEPT ![<<n, c>>] = "off"]
    /\ UNCHANGED <<dialed, open, backlog, active, wire, commands, outChannel, outEvents>>

\* connectionHandler: the connection is closed here, or there and drained; the
\* reader disconnects the address, and with it the connection registered now.
readError(n, c) ==
    LET a == AddressOf(n, c) IN
    /\ reader[<<n, c>>] = "reading"
    /\ \/ <<n, c>> \notin open
       \/ <<Remote(n, c), c>> \notin open /\ wire[<<n, c>>] = <<>>
    /\ IF active[n][a] = None
       THEN reader' = [reader EXCEPT ![<<n, c>>] = "off"] /\ UNCHANGED <<active, open>>
       ELSE reader' = [reader EXCEPT ![<<n, c>>] = "emitting"] /\ Unregistered(n, a)
    /\ UNCHANGED <<dialed, backlog, wire, commands, outChannel, outEvents>>

\* The reader's event, which may follow that of a newer connection.
readerEmits(n, c) ==
    /\ reader[<<n, c>>] = "emitting"
    /\ reader' = [reader EXCEPT ![<<n, c>>] = "off"]
    /\ Emitted(n, <<Event("Disconnected", AddressOf(n, c))>>)
    /\ UNCHANGED <<dialed, open, backlog, active, wire, commands, outChannel>>

\* The network resets a connection.
reset(c) ==
    /\ c <= Len(dialed)
    /\ \E n \in Node : <<n, c>> \in open
    /\ open' = open \ {<<n, c>> : n \in Node}
    /\ UNCHANGED <<dialed, backlog, active, reader, wire, commands, outChannel, outEvents>>
------------------------------------------------------------------------------
handler(n) ==
    \/ connect(n) \/ connectEmits(n) \/ connectFails(n)
    \/ disconnect(n)
    \/ send(n) \/ write(n) \/ writeFails(n)

connectionHandler(n, c) == readFrames(n, c) \/ readError(n, c) \/ readerEmits(n, c)

Command ==
    [op : {"connect", "disconnect"}, peer : Address]
        \cup [op : {"connected"}, peer : Address, conn : Conn]
        \cup [op : {"send"}, peer : Address, frame : Frame]
        \cup [op : {"write"}, peer : Address, conn : Conn, frame : Frame]

Message == [peer : Address, frame : Frame]

ConnEvent == [type : {"Connected", "Disconnected", "Failed"}, peer : Address]

TCPTypeOK ==
    /\ dialed \in Seq([dialer : Node, acceptor : Node])
    /\ Len(dialed) <= MaxConn
    /\ open \subseteq End
    /\ backlog \in [Node -> Seq(Conn)]
    /\ active \in [Node -> [Address -> Conn \cup {None}]]
    /\ reader \in [End -> {"off", "reading", "emitting"}]
    /\ wire \in [End -> Seq(Frame)]
    /\ commands \in [Node -> Seq(Command)]
    /\ outChannel \in [Node -> Seq(Message)]
    /\ outEvents \in [Node -> Seq(ConnEvent)]
==============================================================================
