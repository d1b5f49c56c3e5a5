-------------------------------- MODULE Raft --------------------------------
(****************************************************************************)
(* The Raft server of pkg/protocols/raft: elections, log replication,       *)
(* commitment, the Storage seam and the session callbacks.                   *)
(*                                                                          *)
(* A handler runs to completion on the protocol's event loop, so it is one   *)
(* action.  The network holds messages in a set: they are delivered in any   *)
(* order or never, and are lost with their session.                          *)
(****************************************************************************)
EXTENDS Naturals, FiniteSets, Sequences

CONSTANTS
    Node,     \* the group: self and Config.Peers
    Command,  \* what clients propose
    None

ASSUME NodeAssumption == IsFiniteSet(Node) /\ Node # {}

ASSUME NoneAssumption == None \notin Node

Entry == [term : Nat, cmd : Command]

VARIABLES
    currentTerm, votedFor, log,      \* votedFor = None is hasVoted = false
    disk,                            \* what Storage holds of the three
    role, commitIndex, lastApplied,
    leader,                          \* leader belief, None for no leader
    nextIndex, matchIndex,
    votesGranted,
    electionTimer, heartbeatTimer,   \* whether the timer is armed
    up, sessions,                    \* connections, and what a node was told
    net,
    applied,                         \* history: what Applied reported, with the
                                     \* term of the node that reported it
    leaders                          \* history: what LeaderChanged reported

termVars    == <<currentTerm, votedFor>>
commitVars  == <<commitIndex, lastApplied, applied>>
beliefVars  == <<leader, leaders>>
leaderVars  == <<nextIndex, matchIndex>>
timerVars   == <<electionTimer, heartbeatTimer>>
sessionVars == <<up, sessions>>
vars == <<termVars, log, disk, role, commitVars, beliefVars, leaderVars,
          votesGranted, timerVars, sessionVars, net>>
------------------------------------------------------------------------------
(* The log and the pure decision rules of log.go. *)

Larger(a, b)  == IF a > b THEN a ELSE b
Smaller(a, b) == IF a < b THEN a ELSE b

N == Cardinality(Node)

IsMajority(S) == Cardinality(S) >= N \div 2 + 1

termAt(lg, i) == IF i \in 1 .. Len(lg) THEN lg[i].term ELSE 0

lastTerm(lg) == termAt(lg, Len(lg))

sliceFrom(lg, i) == SubSeq(lg, i, Len(lg))

\* Mutant: a candidate whose last term is older is not turned away.
logIsUpToDateAnyTerm(candTerm, candIndex, ourTerm, ourIndex) ==
    candTerm = ourTerm => candIndex >= ourIndex

logIsUpToDate(candTerm, candIndex, ourTerm, ourIndex) ==
    IF candTerm # ourTerm THEN candTerm > ourTerm ELSE candIndex >= ourIndex

\* Mutant: no replica is waited for.
advanceCommitIndexAlone(commit, term, lg, matches) ==
    IF lastTerm(lg) = term THEN Len(lg) ELSE commit

\* The highest index of the current term, above commit and with nothing of
\* another term above it, that a majority holds.
advanceCommitIndex(commit, term, lg, matches) ==
    LET ours == {k \in commit + 1 .. Len(lg) :
                    /\ \A j \in k .. Len(lg) : lg[j].term = term
                    /\ IsMajority({n \in Node : matches[n] >= k})}
    IN  IF ours = {} THEN commit ELSE CHOOSE k \in ours : \A j \in ours : j <= k

\* The position of the first entry of es that lg does not hold after prev.
FirstNew(lg, prev, es) ==
    CHOOSE i \in 1 .. Len(es) + 1 :
        /\ i <= Len(es) => termAt(lg, prev + i) # es[i].term \/ prev + i > Len(lg)
        /\ \A j \in 1 .. i - 1 : prev + j <= Len(lg) /\ termAt(lg, prev + j) = es[j].term

\* Storage.AppendEntries: replace the suffix that starts at from.
AppendEntries(lg, from, es) == SubSeq(lg, 1, from - 1) \o es

\* Mutant: the suffix is replaced even if the entries are already there.
appendConflictFreeAlways(lg, prev, es) == AppendEntries(lg, prev + 1, es)

appendConflictFree(lg, prev, es) ==
    LET i == FirstNew(lg, prev, es)
    IN  IF i > Len(es) THEN lg ELSE AppendEntries(lg, prev + i, SubSeq(es, i, Len(es)))

\* Mutant: the term of the entry before the new ones is not compared.
PrevMatchesIndex(lg, prev, prevTerm) == prev <= Len(lg)

PrevMatches(lg, prev, prevTerm) == prev <= Len(lg) /\ termAt(lg, prev) = prevTerm

BackedOff(ni) == IF ni > 1 THEN ni - 1 ELSE ni
------------------------------------------------------------------------------
(* Messages. *)

Message ==
    [type : {"RequestVote"}, from : Node, to : Node, term : Nat,
     lastIndex : Nat, lastTerm : Nat]
    \cup [type : {"RequestVoteReply"}, from : Node, to : Node, term : Nat,
          granted : BOOLEAN]
    \cup [type : {"AppendEntries"}, from : Node, to : Node, term : Nat, prev : Nat,
          prevTerm : Nat, commit : Nat, entries : Seq(Entry)]
    \cup [type : {"AppendEntriesReply"}, from : Node, to : Node, term : Nat,
          match : Nat, success : BOOLEAN]

Peers(n) == Node \ {n}

\* A message to a host without a session is dropped by the session layer.
Sent(ms) == {m \in ms : {m.from, m.to} \in up}

\* sendAppendEntries to p with the leader's state: what p misses from next on.
AppendTo(n, p, term, lg, next, commit) ==
    LET ni == Larger(next, 1) IN
    [type |-> "AppendEntries", from |-> n, to |-> p, term |-> term,
     prev |-> ni - 1, prevTerm |-> termAt(lg, ni - 1), commit |-> commit,
     entries |-> sliceFrom(lg, ni)]

\* broadcastAppendEntries.
AppendToAll(n, term, lg, next, commit) ==
    {AppendTo(n, p, term, lg, next[p], commit) : p \in Peers(n)}

VoteReply(m, term, grant) ==
    [type |-> "RequestVoteReply", from |-> m.to, to |-> m.from, term |-> term,
     granted |-> grant]

AppendReply(m, term, match, ok) ==
    [type |-> "AppendEntriesReply", from |-> m.to, to |-> m.from, term |-> term,
     match |-> match, success |-> ok]
------------------------------------------------------------------------------
\* New, and Init with an empty Storage.
Booted ==
    /\ currentTerm    = [n \in Node |-> 0]
    /\ votedFor       = [n \in Node |-> None]
    /\ log            = [n \in Node |-> <<>>]
    /\ disk           = [n \in Node |-> [term |-> 0, vote |-> None, log |-> <<>>]]
    /\ role           = [n \in Node |-> "Follower"]
    /\ commitIndex    = [n \in Node |-> 0]
    /\ lastApplied    = [n \in Node |-> 0]
    /\ leader         = [n \in Node |-> None]
    /\ nextIndex      = [n \in Node |-> [p \in Node |-> 1]]
    /\ matchIndex     = [n \in Node |-> [p \in Node |-> 0]]
    /\ votesGranted   = [n \in Node |-> {}]
    /\ electionTimer  = [n \in Node |-> TRUE]
    /\ heartbeatTimer = [n \in Node |-> FALSE]
    /\ net            = {}
    /\ applied        = {}
    /\ leaders        = {}

Init ==
    /\ Booted
    /\ up       = {}
    /\ sessions = [n \in Node |-> {}]
------------------------------------------------------------------------------
(* Pieces of handlers.  Each fixes the next value of the variables it names. *)

\* Mutant: the vote is not written through.
persistTermUnvoted(n, term, vote) ==
    /\ currentTerm' = [currentTerm EXCEPT ![n] = term]
    /\ votedFor' = [votedFor EXCEPT ![n] = vote]
    /\ disk' = [disk EXCEPT ![n].term = term, ![n].vote = None]

\* A new term or vote, written through Storage.SaveTerm.
persistTerm(n, term, vote) ==
    /\ currentTerm' = [currentTerm EXCEPT ![n] = term]
    /\ votedFor' = [votedFor EXCEPT ![n] = vote]
    /\ disk' = [disk EXCEPT ![n].term = term, ![n].vote = vote]

\* setLeader: LeaderChanged is published when the belief changes.
setLeader(n, h, term, believed) ==
    /\ leader' = [leader EXCEPT ![n] = h]
    /\ leaders' = IF believed = h THEN leaders ELSE leaders \cup {<<term, h>>}

\* Mutant: the heartbeat timer keeps running.
followBeating(n) ==
    /\ role' = [role EXCEPT ![n] = "Follower"]
    /\ electionTimer' = [electionTimer EXCEPT ![n] = TRUE]
    /\ UNCHANGED heartbeatTimer

\* stepDown's volatile part: follow, stop heartbeats, await a leader.
follow(n) ==
    /\ role' = [role EXCEPT ![n] = "Follower"]
    /\ electionTimer' = [electionTimer EXCEPT ![n] = TRUE]
    /\ heartbeatTimer' = IF role[n] = "Leader"
                         THEN [heartbeatTimer EXCEPT ![n] = FALSE]
                         ELSE heartbeatTimer

stepDown(n, term) ==
    /\ persistTerm(n, term, None)
    /\ follow(n)
    /\ leader' = [leader EXCEPT ![n] = None]
    /\ UNCHANGED leaders

\* becomeLeader for a term, with a leader belief and msgs in flight: assert
\* authority at once.
becomeLeader(n, term, believed, msgs) ==
    LET next == [p \in Node |-> Len(log[n]) + 1] IN
    /\ role' = [role EXCEPT ![n] = "Leader"]
    /\ electionTimer' = [electionTimer EXCEPT ![n] = FALSE]
    /\ heartbeatTimer' = [heartbeatTimer EXCEPT ![n] = TRUE]
    /\ nextIndex' = [nextIndex EXCEPT ![n] = next]
    /\ matchIndex' = [matchIndex EXCEPT ![n] = [p \in Node |-> 0]]
    /\ setLeader(n, n, term, believed)
    /\ net' = msgs \cup Sent(AppendToAll(n, term, log[n], next, commitIndex[n]))

\* Raise commitIndex to commit and publish Applied for what it covers of lg.
applyCommitted(n, commit, lg, term) ==
    /\ commitIndex' = [commitIndex EXCEPT ![n] = commit]
    /\ lastApplied' = [lastApplied EXCEPT ![n] = Larger(@, commit)]
    /\ applied' = applied \cup
           {[index |-> i, entry |-> lg[i], term |-> term] :
                i \in lastApplied[n] + 1 .. commit}

\* maybeAdvanceCommit's new commit index; the leader holds its whole log.
Commit(n, lg, match) ==
    advanceCommitIndex(commitIndex[n], currentTerm[n], lg, [match EXCEPT ![n] = Len(lg)])
------------------------------------------------------------------------------
(* Handlers. *)

\* startElection.  A node alone in its group has its majority at once.
onElectionTimeout(n) ==
    LET term == currentTerm[n] + 1
        ask(p) == [type |-> "RequestVote", from |-> n, to |-> p, term |-> term,
                   lastIndex |-> Len(log[n]), lastTerm |-> lastTerm(log[n])]
        msgs == net \cup Sent({ask(p) : p \in Peers(n)})
    IN  /\ electionTimer[n]
        /\ role[n] # "Leader"
        /\ persistTerm(n, term, n)
        /\ votesGranted' = [votesGranted EXCEPT ![n] = {n}]
        /\ IF IsMajority({n})
           THEN becomeLeader(n, term, None, msgs)
           ELSE /\ role' = [role EXCEPT ![n] = "Candidate"]
                /\ electionTimer' = [electionTimer EXCEPT ![n] = TRUE]
                /\ leader' = [leader EXCEPT ![n] = None]
                /\ net' = msgs
                /\ UNCHANGED <<heartbeatTimer, leaderVars, leaders>>
        /\ UNCHANGED <<log, commitVars, sessionVars>>

onRequestVote(m) ==
    LET n     == m.to
        newer == m.term > currentTerm[n]
        term  == Larger(m.term, currentTerm[n])
        voted == IF newer THEN None ELSE votedFor[n]
        grant == /\ m.term = term
                 /\ voted \in {None, m.from}
                 /\ logIsUpToDate(m.lastTerm, m.lastIndex, lastTerm(log[n]), Len(log[n]))
    IN  /\ m.type = "RequestVote"
        /\ IF newer \/ grant
           THEN persistTerm(n, term, IF grant THEN m.from ELSE voted)
           ELSE UNCHANGED <<termVars, disk>>
        /\ IF newer
           THEN follow(n) /\ leader' = [leader EXCEPT ![n] = None]
           ELSE /\ electionTimer' = [electionTimer EXCEPT ![n] = @ \/ grant]
                /\ UNCHANGED <<role, heartbeatTimer, leader>>
        /\ net' = (net \ {m}) \cup Sent({VoteReply(m, term, grant)})
        /\ UNCHANGED <<log, commitVars, leaders, leaderVars, votesGranted, sessionVars>>

onRequestVoteReply(m) ==
    LET n     == m.to
        votes == votesGranted[n] \cup {m.from}
        rest  == net \ {m}
    IN  /\ m.type = "RequestVoteReply"
        /\ \/ /\ m.term > currentTerm[n]
              /\ stepDown(n, m.term)
              /\ net' = rest
              /\ UNCHANGED <<leaderVars, votesGranted>>
           \/ /\ m.term = currentTerm[n] /\ role[n] = "Candidate" /\ m.granted
              /\ votesGranted' = [votesGranted EXCEPT ![n] = votes]
              /\ IF IsMajority(votes)
                 THEN becomeLeader(n, m.term, leader[n], rest)
                 ELSE /\ net' = rest
                      /\ UNCHANGED <<role, beliefVars, leaderVars, timerVars>>
              /\ UNCHANGED <<termVars, disk>>
           \/ /\ m.term <= currentTerm[n]
              /\ ~(m.term = currentTerm[n] /\ role[n] = "Candidate" /\ m.granted)
              /\ net' = rest
              /\ UNCHANGED <<termVars, disk, role, beliefVars, leaderVars,
                             votesGranted, timerVars>>
        /\ UNCHANGED <<log, commitVars, sessionVars>>

\* An AppendEntries of an older term.
onStaleAppendEntries(m) ==
    /\ m.type = "AppendEntries"
    /\ m.term < currentTerm[m.to]
    /\ net' = (net \ {m}) \cup Sent({AppendReply(m, currentTerm[m.to], 0, FALSE)})
    /\ UNCHANGED <<termVars, log, disk, role, commitVars, beliefVars, leaderVars,
                   votesGranted, timerVars, sessionVars>>

onAppendEntries(m) ==
    LET n     == m.to
        newer == m.term > currentTerm[n]
        match == m.prev + Len(m.entries)
        lg    == appendConflictFree(log[n], m.prev, m.entries)
        ok    == PrevMatches(log[n], m.prev, m.prevTerm)
        i     == FirstNew(log[n], m.prev, m.entries)
        saved == IF ok /\ i <= Len(m.entries)
                 THEN AppendEntries(disk[n].log, m.prev + i,
                                    SubSeq(m.entries, i, Len(m.entries)))
                 ELSE disk[n].log
    IN  /\ m.type = "AppendEntries"
        /\ m.term >= currentTerm[n]
        /\ IF newer
           THEN /\ currentTerm' = [currentTerm EXCEPT ![n] = m.term]
                /\ votedFor' = [votedFor EXCEPT ![n] = None]
                /\ disk' = [disk EXCEPT ![n] =
                              [term |-> m.term, vote |-> None, log |-> saved]]
                /\ follow(n)
           ELSE /\ disk' = [disk EXCEPT ![n].log = saved]
                /\ role' = [role EXCEPT ![n] = "Follower"]
                /\ electionTimer' = [electionTimer EXCEPT ![n] = TRUE]
                /\ UNCHANGED <<termVars, heartbeatTimer>>
        /\ setLeader(n, m.from, m.term, IF newer THEN None ELSE leader[n])
        /\ log' = IF ok THEN [log EXCEPT ![n] = lg] ELSE log
        /\ IF ok /\ m.commit > commitIndex[n]
           THEN applyCommitted(n, Smaller(m.commit, match), lg, m.term)
           ELSE UNCHANGED commitVars
        /\ net' = (net \ {m}) \cup Sent({AppendReply(m, m.term, IF ok THEN match ELSE 0, ok)})
        /\ UNCHANGED <<leaderVars, votesGranted, sessionVars>>

\* A reply of a newer term, and one this node no longer waits for.
onStaleAppendEntriesReply(m) ==
    LET n == m.to IN
    /\ m.type = "AppendEntriesReply"
    /\ \/ /\ m.term > currentTerm[n]
          /\ stepDown(n, m.term)
       \/ /\ m.term <= currentTerm[n]
          /\ role[n] # "Leader" \/ m.term # currentTerm[n]
          /\ UNCHANGED <<termVars, disk, role, beliefVars, timerVars>>
    /\ net' = net \ {m}
    /\ UNCHANGED <<log, commitVars, leaderVars, votesGranted, sessionVars>>

onAppendEntriesReply(m) ==
    LET n     == m.to
        match == [matchIndex[n] EXCEPT ![m.from] = Larger(@, m.match)]
        ni    == BackedOff(nextIndex[n][m.from])
        again == AppendTo(n, m.from, currentTerm[n], log[n], ni, commitIndex[n])
        commit == Commit(n, log[n], match)
    IN  /\ m.type = "AppendEntriesReply"
        /\ role[n] = "Leader" /\ m.term = currentTerm[n]
        /\ \/ /\ m.success
              /\ matchIndex' = [matchIndex EXCEPT ![n] = match]
              /\ nextIndex' = [nextIndex EXCEPT ![n][m.from] = match[m.from] + 1]
              /\ IF commit > commitIndex[n]
                 THEN applyCommitted(n, commit, log[n], currentTerm[n])
                 ELSE UNCHANGED commitVars
              /\ net' = net \ {m}
           \/ /\ ~m.success
              /\ nextIndex' = [nextIndex EXCEPT ![n][m.from] = ni]
              /\ net' = (net \ {m}) \cup Sent({again})
              /\ UNCHANGED <<matchIndex, commitVars>>
        /\ UNCHANGED <<termVars, log, disk, role, beliefVars, votesGranted, timerVars,
                       sessionVars>>

\* The heartbeat timer: broadcastAppendEntries, whatever the role.
onHeartbeat(n) ==
    /\ heartbeatTimer[n]
    /\ net' = net \cup Sent(AppendToAll(n, currentTerm[n], log[n], nextIndex[n],
                                        commitIndex[n]))
    /\ UNCHANGED <<termVars, log, disk, role, commitVars, beliefVars, leaderVars,
                   votesGranted, timerVars, sessionVars>>

\* A client's Propose at the leader.  (Elsewhere it fails with NotLeaderError.)
handlePropose(n, c) ==
    LET e  == [term |-> currentTerm[n], cmd |-> c]
        lg == Append(log[n], e)
        commit == Commit(n, lg, matchIndex[n])
    IN  /\ role[n] = "Leader"
        /\ log' = [log EXCEPT ![n] = lg]
        /\ disk' = [disk EXCEPT ![n].log = AppendEntries(@, Len(lg), <<e>>)]
        /\ IF commit > commitIndex[n]
           THEN applyCommitted(n, commit, lg, currentTerm[n])
           ELSE UNCHANGED commitVars
        /\ net' = net \cup Sent(AppendToAll(n, currentTerm[n], lg, nextIndex[n], commit))
        /\ UNCHANGED <<termVars, role, beliefVars, leaderVars, votesGranted, timerVars,
                       sessionVars>>
------------------------------------------------------------------------------
(* Sessions and faults. *)

OnSessionConnected(n, h) ==
    /\ {n, h} \in up
    /\ h \in Peers(n) \ sessions[n]
    /\ sessions' = [sessions EXCEPT ![n] = @ \cup {h}]
    /\ UNCHANGED <<termVars, log, disk, role, commitVars, beliefVars, leaderVars,
                   votesGranted, timerVars, up, net>>

\* The reconnect timer dials a peer without a session; the dial succeeds.
ensureConnections(n, h) ==
    /\ h \in Peers(n) \ sessions[n]
    /\ {n, h} \notin up
    /\ up' = up \cup {{n, h}}
    /\ UNCHANGED <<termVars, log, disk, role, commitVars, beliefVars, leaderVars,
                   votesGranted, timerVars, sessions, net>>

\* A session is lost, with all that is in flight on it.  The handlers at both
\* ends only forget the session.
OnSessionDisconnected(n, h) ==
    /\ n # h
    /\ {n, h} \in up
    /\ up' = up \ {{n, h}}
    /\ sessions' = [sessions EXCEPT ![n] = @ \ {h}, ![h] = @ \ {n}]
    /\ net' = {m \in net : {m.from, m.to} # {n, h}}
    /\ UNCHANGED <<termVars, log, disk, role, commitVars, beliefVars, leaderVars,
                   votesGranted, timerVars>>

\* The process stops and comes back through New and Init, with d in Storage.
Rebooted(n, d) ==
    /\ disk' = [disk EXCEPT ![n] = d]
    /\ currentTerm' = [currentTerm EXCEPT ![n] = d.term]
    /\ votedFor' = [votedFor EXCEPT ![n] = d.vote]
    /\ log' = [log EXCEPT ![n] = d.log]
    /\ role' = [role EXCEPT ![n] = "Follower"]
    /\ commitIndex' = [commitIndex EXCEPT ![n] = 0]
    /\ lastApplied' = [lastApplied EXCEPT ![n] = 0]
    /\ leader' = [leader EXCEPT ![n] = None]
    /\ nextIndex' = [nextIndex EXCEPT ![n] = [p \in Node |-> 1]]
    /\ matchIndex' = [matchIndex EXCEPT ![n] = [p \in Node |-> 0]]
    /\ votesGranted' = [votesGranted EXCEPT ![n] = {}]
    /\ electionTimer' = [electionTimer EXCEPT ![n] = TRUE]
    /\ heartbeatTimer' = [heartbeatTimer EXCEPT ![n] = FALSE]
    /\ up' = {s \in up : n \notin s}
    /\ sessions' = [h \in Node |-> IF h = n THEN {} ELSE sessions[h] \ {n}]
    /\ net' = {m \in net : n \notin {m.from, m.to}}
    /\ UNCHANGED <<applied, leaders>>

\* A stop between two handlers, or inside one after its last write.
Restart(n) == Rebooted(n, disk[n])

\* A stop inside a handler after stepDown's SaveTerm and before the next write.
RestartInHandler(m) ==
    /\ m.term > currentTerm[m.to]
    /\ Rebooted(m.to, [disk[m.to] EXCEPT !.term = m.term, !.vote = None])
------------------------------------------------------------------------------
Deliver(m) ==
    \/ onRequestVote(m)
    \/ onRequestVoteReply(m)
    \/ onStaleAppendEntries(m)
    \/ onAppendEntries(m)
    \/ onStaleAppendEntriesReply(m)
    \/ onAppendEntriesReply(m)

Handler ==
    \/ \E n \in Node : onElectionTimeout(n)
    \/ \E m \in net : Deliver(m)
    \/ \E n \in Node : onHeartbeat(n)
    \/ \E n \in Node, c \in Command : handlePropose(n, c)
    \/ \E n, h \in Node : OnSessionConnected(n, h)
    \/ \E n, h \in Node : ensureConnections(n, h)

Fault ==
    \/ \E n, h \in Node : OnSessionDisconnected(n, h)
    \/ \E n \in Node : Restart(n)
    \/ \E m \in net : RestartInHandler(m)

Next == Handler \/ Fault

Spec == Init /\ [][Next]_vars
------------------------------------------------------------------------------
TypeOK ==
    /\ currentTerm \in [Node -> Nat]
    /\ votedFor \in [Node -> Node \cup {None}]
    /\ log \in [Node -> Seq(Entry)]
    /\ disk \in [Node -> [term : Nat, vote : Node \cup {None}, log : Seq(Entry)]]
    /\ role \in [Node -> {"Follower", "Candidate", "Leader"}]
    /\ commitIndex \in [Node -> Nat]
    /\ lastApplied \in [Node -> Nat]
    /\ leader \in [Node -> Node \cup {None}]
    /\ nextIndex \in [Node -> [Node -> Nat \ {0}]]
    /\ matchIndex \in [Node -> [Node -> Nat]]
    /\ votesGranted \in [Node -> SUBSET Node]
    /\ electionTimer \in [Node -> BOOLEAN]
    /\ heartbeatTimer \in [Node -> BOOLEAN]
    /\ up \subseteq SUBSET Node
    /\ sessions \in [Node -> SUBSET Node]
    /\ net \subseteq Message
    /\ applied \subseteq [index : Nat \ {0}, entry : Entry, term : Nat]
    /\ leaders \subseteq Nat \X Node

\* LeaderChanged's comment: for any given term, every LeaderChanged names the
\* same leader, on whatever node, across restarts and lost sessions.
ElectionSafety == \A a, b \in leaders : a[1] = b[1] => a[2] = b[2]

\* The consistency check of onAppendEntries: logs that hold an entry of one
\* term at one index are the same up to it.
LogMatching ==
    /\ TypeOK
    /\ \A n, p \in Node : \A i \in DOMAIN log[n] \cap DOMAIN log[p] :
        log[n][i].term = log[p][i].term =>
            SubSeq(log[n], 1, i) = SubSeq(log[p], 1, i)

\* The vote restriction and the commit rule together: a leader holds every
\* entry that any node applied in its term or before.
LeaderCompleteness ==
    \A n \in Node, a \in applied :
        role[n] = "Leader" /\ currentTerm[n] >= a.term =>
            a.index \in DOMAIN log[n] /\ log[n][a.index] = a.entry

\* No step, a restart included, truncates or rewrites what a node has told its
\* state machine to apply.
AppliedIsDurable ==
    [][\A n \in Node : \A i \in 1 .. lastApplied[n] :
            i \in DOMAIN log'[n] /\ log'[n][i] = log[n][i]]_vars

\* broadcastAppendEntries does not look at the role, and only a stepDown stops
\* it: heartbeats are armed on leaders only, and every other node has an
\* election timer armed.
TimersFollowRole ==
    \A n \in Node :
        /\ heartbeatTimer[n] = (role[n] = "Leader")
        /\ electionTimer[n] = (role[n] # "Leader")

\* State machine safety: what the nodes apply is one log that only grows.
Abstract == INSTANCE ReplicatedLog WITH
    committed <- [i \in 1 .. Cardinality({a.index : a \in applied}) |->
                     (CHOOSE a \in applied : a.index = i).entry],
    machine   <- [n \in Node |-> SubSeq(log[n], 1, lastApplied[n])]

Refinement == Abstract!Spec
==============================================================================
