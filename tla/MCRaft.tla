------------------------------- MODULE MCRaft -------------------------------
(* Instance of Raft for TLC: what clients and faults may do, bounded. *)
EXTENDS Raft, TLC

CONSTANTS
    n1, n2, n3,
    Bounds,      \* per way to start: the values bound begins with
    Candidates   \* the nodes whose election timeout is the shortest drawn

VARIABLES
    bound,       \* what the behaviour may still do: the highest term a timeout
                 \* opens, the length of a log, the restarts, lost sessions
                 \* and heartbeat rounds left
    reach        \* the pairs of hosts that can hold a session; all do at first

mcVars == <<vars, bound, reach>>

MCNode == {n1, n2, n3}

\* The bounds of each start: faults without heartbeats, heartbeats without faults.
MCBounds ==
    [boot     |-> {[term |-> 2, log |-> 1, restarts |-> 1, losses |-> 1, beats |-> 0],
                   [term |-> 2, log |-> 2, restarts |-> 0, losses |-> 0, beats |-> 1]},
     diverged |-> {[term |-> 3, log |-> 2, restarts |-> 0, losses |-> 0, beats |-> 0]}]

\* A fresh group whose two candidates meet only at n2.
Fresh ==
    /\ Booted
    /\ reach = {{n, n2} : n \in Candidates}
    /\ bound \in Bounds.boot

\* Where a group can be when a won term 1, then b won term 2, both with n2's
\* vote, each appended a command that reached nobody, b restarted, and a lost n2.
Diverged(a, b) ==
    LET entry(t) == [term |-> t, cmd |-> CHOOSE c \in Command : TRUE]
        terms    == [n \in Node |-> IF n = a THEN 1 ELSE 2]
        votes    == [n \in Node |-> IF n = a THEN a ELSE b]
        logs     == [n \in Node |-> IF n = n2 THEN <<>> ELSE <<entry(terms[n])>>]
    IN
    /\ currentTerm    = terms
    /\ votedFor       = votes
    /\ log            = logs
    /\ disk = [n \in Node |-> [term |-> terms[n], vote |-> votes[n], log |-> logs[n]]]
    /\ role           = [n \in Node |-> IF n = a THEN "Leader" ELSE "Follower"]
    /\ commitIndex    = [n \in Node |-> 0]
    /\ lastApplied    = [n \in Node |-> 0]
    /\ leader         = [n \in Node |-> IF n = a THEN a ELSE None]
    /\ nextIndex      = [n \in Node |-> [p \in Node |-> 1]]
    /\ matchIndex     = [n \in Node |-> [p \in Node |-> 0]]
    /\ votesGranted   = [n \in Node |-> IF n = a THEN {a, n2} ELSE {}]
    /\ electionTimer  = [n \in Node |-> n # a]
    /\ heartbeatTimer = [n \in Node |-> n = a]
    /\ net            = {}
    /\ applied        = {}
    /\ leaders        = {<<1, a>>, <<2, b>>}
    /\ reach = {{a, b}, {b, n2}}
    /\ bound \in Bounds.diverged

MCInit ==
    /\ Fresh \/ \E a, b \in Candidates : a # b /\ Diverged(a, b)
    /\ up = reach
    /\ sessions = [n \in Node |-> {h \in Peers(n) : {n, h} \in up}]

MCHandler ==
    /\ \/ \E n \in Candidates : currentTerm[n] < bound.term /\ onElectionTimeout(n)
       \/ \E n \in Node, c \in Command : Len(log[n]) < bound.log /\ handlePropose(n, c)
       \/ \E m \in net : onRequestVote(m)
       \/ \E m \in net : onRequestVoteReply(m)
       \/ \E m \in net : onStaleAppendEntries(m)
       \/ \E m \in net : onAppendEntries(m)
       \/ \E m \in net : onStaleAppendEntriesReply(m)
       \/ \E m \in net : onAppendEntriesReply(m)
       \/ \E n, h \in Node : OnSessionConnected(n, h)
       \/ \E n, h \in Node : {n, h} \in reach /\ ensureConnections(n, h)
    /\ UNCHANGED <<bound, reach>>

MCHeartbeat ==
    /\ bound.beats > 0
    /\ bound' = [bound EXCEPT !.beats = @ - 1]
    /\ \E n \in Node : onHeartbeat(n)
    /\ UNCHANGED reach

MCRestart ==
    /\ bound.restarts > 0
    /\ bound' = [bound EXCEPT !.restarts = @ - 1]
    /\ \/ \E n \in Node : Restart(n)
       \/ \E m \in net : RestartInHandler(m)
    /\ UNCHANGED reach

MCDisconnect ==
    /\ bound.losses > 0
    /\ bound' = [bound EXCEPT !.losses = @ - 1]
    /\ \E n, h \in Node : OnSessionDisconnected(n, h)
    /\ UNCHANGED reach

MCNext == MCHandler \/ MCHeartbeat \/ MCRestart \/ MCDisconnect

MCSpec == MCInit /\ [][MCNext]_mcVars

Symmetry == Permutations(Candidates)
==============================================================================
