------------------------------- MODULE MCPaxos -------------------------------
(****************************************************************************)
(* Instances of Paxos for TLC: three nodes, the nodes that have a client,   *)
(* the network, and the faults a behaviour may have.                        *)
(****************************************************************************)
EXTENDS Paxos, Sequences, FiniteSetsExt, TLC

CONSTANTS
    n0, n1, n2,       \* the nodes, in roster order
    v1, v2,           \* the values clients propose
    MaxBallot,        \* bound: highest ballot number
    Scenarios         \* the scenarios of the run

VARIABLES scenario, disconnects, restarts, healed, queue

mcVars == <<vars, scenario, disconnects, restarts, healed, queue>>

(****************************************************************************)
(* A scenario: the nodes whose clients propose, what they propose, bounds   *)
(* on the ballots, on the faults (lost sessions and process restarts) and   *)
(* on the restarts among them, the pairs of hosts between which a dial      *)
(* succeeds, the sessions up and reported at the start, the nodes           *)
(* partitioned away until the others settle, whether a session delivers in  *)
(* order, and whether retry timeouts outlast delivery and reconnection.     *)
(****************************************************************************)
Pairs == {{n0, n1}, {n1, n2}, {n0, n2}}

\* Two proposers duel through a third node, over a network that reorders.
Duel == [proposers |-> {n0, n2}, values |-> <<v1, v2>>, ballots |-> 5,
         faults |-> 1, restarts |-> 1, reachable |-> Pairs \ {{n0, n2}},
         initUp |-> Pairs \ {{n0, n2}}, cutOff |-> {}, fifo |-> FALSE,
         patient |-> FALSE]

\* One proposer retries over a lost session with one node partitioned away.
Retry == [proposers |-> {n0}, values |-> <<v1>>, ballots |-> 9,
          faults |-> 1, restarts |-> 0, reachable |-> Pairs,
          initUp |-> {{n0, n1}}, cutOff |-> {n2}, fifo |-> TRUE,
          patient |-> TRUE]

\* A node is partitioned away while the others decide.
Stranded == [proposers |-> {n1}, values |-> <<v1>>, ballots |-> 7,
             faults |-> 2, restarts |-> 0, reachable |-> Pairs,
             initUp |-> {{n1, n2}}, cutOff |-> {n0}, fifo |-> TRUE,
             patient |-> FALSE]

DuelAndRetry == {Duel, Retry}
StrandedOnly == {Stranded}

MCIndex == n0 :> 0 @@ n1 :> 1 @@ n2 :> 2

MCBallot == 0 .. MaxBallot

Edge(m) == <<m.from, m.to>>

\* The order in which the messages in flight were sent, per direction of a
\* session.  A handler that sends two messages to a peer (beginPhase2) sends
\* Accepted before Accept.
Enqueued(e) ==
    LET sent  == {m \in net' \ net : Edge(m) = e}
        Of(t) == {m \in sent : m.type = t}
        One(S) == IF S = {} THEN <<>> ELSE <<CHOOSE m \in S : TRUE>>
        rest  == {m \in sent : m.type \notin {"Accepted", "Accept"}}
    IN  SelectSeq(queue[e], LAMBDA m : m \in net')
            \o One(rest) \o One(Of("Accepted")) \o One(Of("Accept"))

Ordered == queue' = IF scenario.fifo THEN [e \in Node \X Node |-> Enqueued(e)] ELSE queue

Deliverable == {m \in net : scenario.fifo => m = Head(queue[Edge(m)])}

MCInit ==
    /\ Booted
    /\ scenario \in Scenarios
    /\ up = scenario.initUp
    /\ sessions = [n \in Node |-> {h \in Peers(n) : {n, h} \in up}]
    /\ disconnects = 0
    /\ restarts = 0
    /\ healed = (scenario.cutOff = {})
    /\ queue = [e \in Node \X Node |-> <<>>]

Dialable(n, h) ==
    /\ {n, h} \in scenario.reachable
    /\ healed \/ {n, h} \cap scenario.cutOff = {}

\* Nothing is under way: Config's defaults (retry 150ms, reconnect 100ms, both
\* "comfortably above a message round-trip") let a round run to this point.
Quiet ==
    /\ net = {}
    /\ \A n, h \in Node : Dialable(n, h) => h \in sessions[n]

\* Values are interchangeable: the first one proposed is the first of the list.
Proposable ==
    LET k == Cardinality({v \in Value : \E n \in Node : myValue[n] = v})
    IN  {scenario.values[i] : i \in 1 .. Min({k + 1, Len(scenario.values)})}

WithinBallots == \A n \in Node : myBallot'[n] <= scenario.ballots

MCPropose ==
    /\ \E n \in scenario.proposers, v \in Proposable : handlePropose(n, v)
    /\ WithinBallots
    /\ Ordered
    /\ UNCHANGED <<scenario, disconnects, restarts, healed>>

MCHandler ==
    /\ \/ \E n \in scenario.proposers : (scenario.patient => Quiet) /\ onRetryTimeout(n)
       \/ \E m \in Deliverable : onPrepare(m)
       \/ \E m \in Deliverable : onPromise(m)
       \/ \E m \in Deliverable : onAccept(m)
       \/ \E m \in Deliverable : onAccepted(m)
       \/ \E m \in Deliverable : onAcceptNack(m)
       \/ \E n, h \in Node : OnSessionConnected(n, h)
       \/ \E n, h \in Node : Dialable(n, h) /\ ensureConnections(n, h)
    /\ WithinBallots
    /\ Ordered
    /\ UNCHANGED <<scenario, disconnects, restarts, healed>>

MCDisconnect ==
    /\ disconnects + restarts < scenario.faults
    /\ disconnects' = disconnects + 1
    /\ \E n, h \in Node : OnSessionDisconnected(n, h)
    /\ Ordered
    /\ UNCHANGED <<scenario, restarts, healed>>

MCRestart ==
    /\ disconnects + restarts < scenario.faults
    /\ restarts < scenario.restarts
    /\ restarts' = restarts + 1
    /\ \E n \in Node : Restart(n)
    /\ Ordered
    /\ UNCHANGED <<scenario, disconnects, healed>>

MCHeal ==
    /\ ~healed
    /\ net = {}
    /\ \A n \in Node \ scenario.cutOff : Decided(n)
    /\ healed' = TRUE
    /\ UNCHANGED <<vars, scenario, disconnects, restarts, queue>>

MCNext == MCPropose \/ MCHandler \/ MCDisconnect \/ MCRestart \/ MCHeal

MCSpec == MCInit /\ [][MCNext]_mcVars

\* The event loop dispatches what is queued and the timers fire; clients and
\* faults are under no obligation.
MCFairSpec == MCSpec /\ WF_mcVars(MCHandler)

\* A proposer decides: if its round stalls on a lost session, the retry timer
\* opens a higher one, until a round meets no further interference.
ProposerDecides ==
    scenario.patient /\ (\E n \in Node : proposing[n])
        ~> \A n \in scenario.proposers : Decided(n)

\* OnSessionConnected's comment: "a node stranded in a minority that could
\* never learn the decision collects a majority of these on reconnect and
\* decides".  When every session is up, every connect handled and every
\* message delivered, a decision some node knows is known to all.
CatchUp ==
    LET Settled == /\ \A n \in Node : sessions[n] = Peers(n) /\ ~proposing[n]
                   /\ net = {}
    IN  Settled /\ (\E n \in Node : Decided(n)) => \A n \in Node : Decided(n)
==============================================================================
