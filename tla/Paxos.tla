-------------------------------- MODULE Paxos --------------------------------
(****************************************************************************)
(* Single-decree Paxos of pkg/protocols/paxos: every node is proposer,      *)
(* acceptor and learner at once, on one event loop.  One action is one      *)
(* handler of that loop, from the dequeued event to its return; a handler   *)
(* is atomic because a protocol's mailbox is served by a single goroutine.  *)
(*                                                                          *)
(* The transport is reduced to what a protocol can observe of it: a set of  *)
(* open sessions and the messages in flight on them.  A message sent        *)
(* without a session, or in flight when its session closes, is lost; two    *)
(* messages may be handled in either order (two nodes that dial each other  *)
(* share two connections, and a handler never learns which was used).       *)
(****************************************************************************)
EXTENDS Integers, FiniteSets

CONSTANTS
    Node,    \* the synod: self and Config.Peers, the same set on every node
    Index,   \* Index[n]: position of n in the sorted roster
    Value,   \* values a client may propose
    None,    \* "no value" (nil)
    Ballot   \* the ballot numbers of the run, with the null ballot 0

ASSUME NodeAssumption == IsFiniteSet(Node) /\ Node # {}

\* The roster is sorted, so the indices are distinct and below its length.
ASSUME IndexAssumption ==
    /\ Index \in [Node -> 0 .. Cardinality(Node) - 1]
    /\ \A m, n \in Node : Index[m] = Index[n] => m = n

ASSUME ValueAssumption == None \notin Value

\* Ballots are uint64: there is a highest one, and the null ballot is 0.
ASSUME BallotAssumption ==
    /\ Ballot \subseteq Nat
    /\ 0 \in Ballot
    /\ \E k \in Ballot : \A b \in Ballot : b <= k

VARIABLES
    \* acceptor, with what its Storage holds
    promised, accepted, disk,
    maxSeen,
    \* proposer
    proposing, phase, myBallot, myValue, promises,
    \* learner
    accepts, valueAt, decision,
    \* sessions and the messages in flight
    up, sessions, net,
    \* history: the votes every acceptor has ever cast, and the proposals
    \* (Phase 2a) ever made, which no handler reads
    votes, proposals

acceptorVars == <<promised, accepted, disk>>
proposerVars == <<proposing, phase, myBallot, myValue, promises>>
learnerVars  == <<accepts, valueAt, decision>>
sessionVars  == <<up, sessions>>
history      == <<votes, proposals>>
vars == <<acceptorVars, maxSeen, proposerVars, learnerVars, sessionVars, net,
          history>>
------------------------------------------------------------------------------
(* The pure decision logic of state.go. *)

N == Cardinality(Node)

majoritySize == N \div 2 + 1

IsMajority(S) == Cardinality(S) >= majoritySize

nextBallot(seen, n) == (seen \div N + 1) * N + Index[n]

canPromise(b, prom) == b > prom

\* Mutant: an acceptor that promised b refuses b itself.
canAcceptStrict(b, prom) == b > prom

\* Mutant: an acceptor forgets to check its promise.
canAcceptAny(b, prom) == TRUE

canAccept(b, prom) == b >= prom

\* The (ballot, value) an acceptor accepted last; val = None is hasAccepted
\* = false.
Summary == [bal : Ballot, val : Value \cup {None}]

NoSummary == [bal |-> 0, val |-> None]

\* Mutant: the proposer keeps its own value.
chooseValueOwn(infos, own) == own

\* The value of the highest ballot among the summaries, else the proposer's.
chooseValue(infos, own) ==
    LET voted == {in \in infos : in.val # None}
    IN  IF voted = {}
        THEN own
        ELSE (CHOOSE in \in voted : \A o \in voted : o.bal <= in.bal).val

Larger(x, y) == IF x > y THEN x ELSE y
------------------------------------------------------------------------------
(* Messages. *)

Message ==
    [type : {"Prepare"}, from : Node, to : Node, bal : Ballot]
    \cup [type : {"Promise"}, from : Node, to : Node, bal : Ballot,
          ok : BOOLEAN, maxBal : Ballot, info : Summary]
    \cup [type : {"Accept"}, from : Node, to : Node, bal : Ballot, val : Value]
    \cup [type : {"Accepted"}, from : Node, to : Node, bal : Ballot, val : Value]
    \cup [type : {"AcceptNack"}, from : Node, to : Node, maxBal : Ballot]

Peers(n) == Node \ {n}

PrepareFrom(n, b) ==
    {[type |-> "Prepare", from |-> n, to |-> p, bal |-> b] : p \in Peers(n)}

AcceptFrom(n, b, v) ==
    {[type |-> "Accept", from |-> n, to |-> p, bal |-> b, val |-> v] :
        p \in Peers(n)}

AcceptedFrom(n, b, v) ==
    {[type |-> "Accepted", from |-> n, to |-> p, bal |-> b, val |-> v] :
        p \in Peers(n)}

\* What of ms leaves its node: a message to a host without a session is
\* dropped by the session layer.
Sent(ms) == {m \in ms : {m.from, m.to} \in up}
------------------------------------------------------------------------------
Fresh(n) == [m \in Node |-> None]

\* What New builds and Init loads from an empty Storage.
Booted ==
    /\ promised  = [n \in Node |-> 0]
    /\ accepted  = [n \in Node |-> NoSummary]
    /\ disk      = [n \in Node |-> [promised |-> 0, accepted |-> NoSummary]]
    /\ maxSeen   = [n \in Node |-> 0]
    /\ proposing = [n \in Node |-> FALSE]
    /\ phase     = [n \in Node |-> 0]
    /\ myBallot  = [n \in Node |-> 0]
    /\ myValue   = [n \in Node |-> None]
    /\ promises  = [n \in Node |-> Fresh(n)]
    /\ accepts   = [n \in Node |-> [b \in Ballot |-> {}]]
    /\ valueAt   = [n \in Node |-> [b \in Ballot |-> None]]
    /\ decision  = [n \in Node |-> NoSummary]
    /\ net       = {}
    /\ votes     = [n \in Node |-> {}]
    /\ proposals = {}

Init ==
    /\ Booted
    /\ up       = {}
    /\ sessions = [n \in Node |-> {}]

Decided(n) == decision[n].val # None
------------------------------------------------------------------------------
(* Pieces of handlers.  Each fixes the next value of the variables it names. *)

observeBallot(n, b) == maxSeen' = [maxSeen EXCEPT ![n] = Larger(@, b)]

\* Mutant: a promise is not persisted.
PromisedVolatile(n, b) ==
    /\ promised' = [promised EXCEPT ![n] = b]
    /\ UNCHANGED <<disk, accepted, votes>>

\* acceptPrepare's effect when it promises: raise promised and persist.
Promised(n, b) ==
    /\ promised' = [promised EXCEPT ![n] = b]
    /\ disk' = [disk EXCEPT ![n] = [promised |-> b, accepted |-> accepted[n]]]
    /\ UNCHANGED <<accepted, votes>>

\* Mutant: an acceptance is not persisted.
AcceptsVolatile(n, b, v) ==
    /\ promised' = [promised EXCEPT ![n] = b]
    /\ accepted' = [accepted EXCEPT ![n] = [bal |-> b, val |-> v]]
    /\ votes' = [votes EXCEPT ![n] = @ \cup {<<b, v>>}]
    /\ UNCHANGED disk

\* acceptAccept's effect when it accepts: record, raise promised, persist.
Accepts(n, b, v) ==
    LET s == [bal |-> b, val |-> v] IN
    /\ promised' = [promised EXCEPT ![n] = b]
    /\ accepted' = [accepted EXCEPT ![n] = s]
    /\ disk' = [disk EXCEPT ![n] = [promised |-> b, accepted |-> s]]
    /\ votes' = [votes EXCEPT ![n] = @ \cup {<<b, v>>}]

\* Mutant: acceptances of different ballots are counted together.
recordAcceptedAnyBallot(n, b, v, from, active) ==
    LET set == UNION {accepts[n][c] : c \in Ballot} \cup {from} IN
    /\ accepts' = [accepts EXCEPT ![n] = [@ EXCEPT ![b] = @ \cup {from}]]
    /\ valueAt' = [valueAt EXCEPT ![n] = [@ EXCEPT ![b] = v]]
    /\ IF IsMajority(set) /\ ~Decided(n)
       THEN /\ decision' = [decision EXCEPT ![n] = [bal |-> b, val |-> v]]
            /\ proposing' = [proposing EXCEPT ![n] = FALSE]
       ELSE /\ UNCHANGED decision
            /\ proposing' = [proposing EXCEPT ![n] = active]

\* Learner tally of one acceptance, and decide once a majority accepted b.
\* active is the value of proposing before the call.
recordAccepted(n, b, v, from, active) ==
    IF Decided(n) \/ from \in accepts[n][b]
    THEN /\ UNCHANGED learnerVars
         /\ proposing' = [proposing EXCEPT ![n] = active]
    ELSE LET set == accepts[n][b] \cup {from}
             val == IF valueAt[n][b] = None THEN v ELSE valueAt[n][b]
         IN  /\ accepts' = [accepts EXCEPT ![n] = [@ EXCEPT ![b] = set]]
             /\ valueAt' = [valueAt EXCEPT ![n] = [@ EXCEPT ![b] = val]]
             /\ IF IsMajority(set)
                THEN /\ decision' = [decision EXCEPT
                                       ![n] = [bal |-> b, val |-> val]]
                     /\ proposing' = [proposing EXCEPT ![n] = FALSE]
                ELSE /\ UNCHANGED decision
                     /\ proposing' = [proposing EXCEPT ![n] = active]

\* Phase 2a with the promise quorum infos: self-accept in process unless a
\* higher ballot was promised meanwhile, then Accept to every peer.
beginPhase2(n, b, prom, infos, own, inFlight) ==
    LET v == chooseValue(infos, own) IN
    /\ phase' = [phase EXCEPT ![n] = 2]
    /\ proposals' = proposals \cup {<<b, v>>}
    /\ IF canAccept(b, prom)
       THEN /\ Accepts(n, b, v)
            /\ recordAccepted(n, b, v, n, TRUE)
            /\ net' = inFlight \cup Sent(AcceptedFrom(n, b, v)
                                         \cup AcceptFrom(n, b, v))
       ELSE /\ net' = inFlight \cup Sent(AcceptFrom(n, b, v))
            /\ UNCHANGED <<acceptorVars, votes, learnerVars, proposing>>

\* Open a round with value v.  A node alone in its synod has its majority at
\* once and goes on to Phase 2 in the same handler.
startRound(n, v) ==
    LET b    == nextBallot(maxSeen[n], n)
        ok   == canPromise(b, promised[n])
        self == [Fresh(n) EXCEPT ![n] = IF ok THEN accepted[n] ELSE None]
    IN  /\ ~Decided(n)
        /\ b \in Ballot
        /\ myBallot' = [myBallot EXCEPT ![n] = b]
        /\ myValue' = [myValue EXCEPT ![n] = v]
        /\ promises' = [promises EXCEPT ![n] = self]
        /\ observeBallot(n, b)
        /\ IF ok /\ IsMajority({n})
           THEN beginPhase2(n, b, b, {accepted[n]}, v, net)
           ELSE /\ phase' = [phase EXCEPT ![n] = 1]
                /\ proposing' = [proposing EXCEPT ![n] = TRUE]
                /\ IF ok THEN Promised(n, b)
                         ELSE UNCHANGED <<acceptorVars, votes>>
                /\ net' = net \cup Sent(PrepareFrom(n, b))
                /\ UNCHANGED <<learnerVars, proposals>>
        /\ UNCHANGED sessionVars
------------------------------------------------------------------------------
(* Handlers. *)

\* A client's Propose while idle.  (Decided, it is answered with
\* AlreadyDecidedError; while a round runs, with success and no effect.)
handlePropose(n, v) ==
    /\ ~proposing[n]
    /\ startRound(n, v)

\* The retry timer is armed exactly while proposing: every startRound re-arms
\* it, decide cancels it.
onRetryTimeout(n) ==
    /\ proposing[n]
    /\ startRound(n, myValue[n])

onPrepare(m) ==
    LET n  == m.to
        ok == canPromise(m.bal, promised[n])
        reply == [type |-> "Promise", from |-> n, to |-> m.from, bal |-> m.bal,
                  ok |-> ok,
                  maxBal |-> IF ok THEN m.bal ELSE promised[n],
                  info |-> IF ok THEN accepted[n] ELSE NoSummary]
    IN  /\ m.type = "Prepare"
        /\ observeBallot(n, m.bal)
        /\ IF ok THEN Promised(n, m.bal) ELSE UNCHANGED <<acceptorVars, votes>>
        /\ net' = (net \ {m}) \cup Sent({reply})
        /\ UNCHANGED <<proposerVars, learnerVars, sessionVars, proposals>>

\* A refusal only teaches its ballot; a promise counts for the round it
\* answers and only while that round is in Phase 1.
onPromise(m) ==
    LET n == m.to
        wanted == /\ m.ok
                  /\ ~Decided(n)
                  /\ proposing[n]
                  /\ phase[n] = 1
                  /\ m.bal = myBallot[n]
        got == [promises[n] EXCEPT ![m.from] = m.info]
        voters == {p \in Node : got[p] # None}
    IN  /\ m.type = "Promise"
        /\ IF m.ok THEN UNCHANGED maxSeen ELSE observeBallot(n, m.maxBal)
        /\ promises' = IF wanted THEN [promises EXCEPT ![n] = got] ELSE promises
        /\ IF wanted /\ IsMajority(voters)
           THEN beginPhase2(n, myBallot[n], promised[n],
                            {got[p] : p \in voters}, myValue[n], net \ {m})
           ELSE /\ net' = net \ {m}
                /\ UNCHANGED <<acceptorVars, proposing, phase, learnerVars,
                               history>>
        /\ UNCHANGED <<myBallot, myValue, sessionVars>>

onAccept(m) ==
    LET n == m.to
        nack == [type |-> "AcceptNack", from |-> n, to |-> m.from,
                 maxBal |-> promised[n]]
    IN  /\ m.type = "Accept"
        /\ observeBallot(n, m.bal)
        /\ IF canAccept(m.bal, promised[n])
           THEN /\ Accepts(n, m.bal, m.val)
                /\ recordAccepted(n, m.bal, m.val, n, proposing[n])
                /\ net' = (net \ {m}) \cup Sent(AcceptedFrom(n, m.bal, m.val))
           ELSE /\ net' = (net \ {m}) \cup Sent({nack})
                /\ UNCHANGED <<acceptorVars, votes, learnerVars, proposing>>
        /\ UNCHANGED <<phase, myBallot, myValue, promises, sessionVars,
                       proposals>>

onAccepted(m) ==
    /\ m.type = "Accepted"
    /\ observeBallot(m.to, m.bal)
    /\ recordAccepted(m.to, m.bal, m.val, m.from, proposing[m.to])
    /\ net' = net \ {m}
    /\ UNCHANGED <<acceptorVars, phase, myBallot, myValue, promises,
                   sessionVars, history>>

onAcceptNack(m) ==
    /\ m.type = "AcceptNack"
    /\ observeBallot(m.to, m.maxBal)
    /\ net' = net \ {m}
    /\ UNCHANGED <<acceptorVars, proposerVars, learnerVars, sessionVars, history>>

\* The catch-up path: a node re-announces its accepted value to a host whose
\* session has just come up.
OnSessionConnected(n, h) ==
    /\ {n, h} \in up
    /\ h \in Peers(n) \ sessions[n]
    /\ sessions' = [sessions EXCEPT ![n] = @ \cup {h}]
    /\ net' = IF accepted[n].val = None
              THEN net
              ELSE net \cup {[type |-> "Accepted", from |-> n, to |-> h,
                              bal |-> accepted[n].bal, val |-> accepted[n].val]}
    /\ UNCHANGED <<acceptorVars, maxSeen, proposerVars, learnerVars, up, history>>

\* ensureConnections dials a peer there is no session with; the dial succeeds.
ensureConnections(n, h) ==
    /\ h \in Peers(n) \ sessions[n]
    /\ {n, h} \notin up
    /\ up' = up \cup {{n, h}}
    /\ UNCHANGED <<acceptorVars, maxSeen, proposerVars, learnerVars, sessions,
                   net, history>>

\* A session is lost, with everything in flight on it.  Both ends' handlers
\* only forget the session, so they are taken with the loss.
OnSessionDisconnected(n, h) ==
    /\ {n, h} \in up
    /\ n # h
    /\ up' = up \ {{n, h}}
    /\ sessions' = [sessions EXCEPT ![n] = @ \ {h}, ![h] = @ \ {n}]
    /\ net' = {m \in net : {m.from, m.to} # {n, h}}
    /\ UNCHANGED <<acceptorVars, maxSeen, proposerVars, learnerVars, history>>

\* The process stops at an arbitrary point and comes back through New and
\* Init: acceptor state from Storage, the rest from scratch.  (A stop in the
\* middle of a handler is a stop after it whose messages were all lost.)
Restart(n) ==
    /\ promised' = [promised EXCEPT ![n] = disk[n].promised]
    /\ accepted' = [accepted EXCEPT ![n] = disk[n].accepted]
    /\ maxSeen' = [maxSeen EXCEPT ![n] = disk[n].promised]
    /\ proposing' = [proposing EXCEPT ![n] = FALSE]
    /\ phase' = [phase EXCEPT ![n] = 0]
    /\ myBallot' = [myBallot EXCEPT ![n] = 0]
    /\ myValue' = [myValue EXCEPT ![n] = None]
    /\ promises' = [promises EXCEPT ![n] = Fresh(n)]
    /\ accepts' = [accepts EXCEPT ![n] = [b \in Ballot |-> {}]]
    /\ valueAt' = [valueAt EXCEPT ![n] = [b \in Ballot |-> None]]
    /\ decision' = [decision EXCEPT ![n] = NoSummary]
    /\ up' = {s \in up : n \notin s}
    /\ sessions' = [h \in Node |-> IF h = n THEN {} ELSE sessions[h] \ {n}]
    /\ net' = {m \in net : n \notin {m.from, m.to}}
    /\ UNCHANGED <<disk, history>>
------------------------------------------------------------------------------
Deliver(m) ==
    \/ onPrepare(m)
    \/ onPromise(m)
    \/ onAccept(m)
    \/ onAccepted(m)
    \/ onAcceptNack(m)

Handler ==
    \/ \E n \in Node, v \in Value : handlePropose(n, v)
    \/ \E n \in Node : onRetryTimeout(n)
    \/ \E m \in net : Deliver(m)
    \/ \E n, h \in Node : OnSessionConnected(n, h)
    \/ \E n, h \in Node : ensureConnections(n, h)

Fault ==
    \/ \E n, h \in Node : OnSessionDisconnected(n, h)
    \/ \E n \in Node : Restart(n)

Next == Handler \/ Fault

Spec == Init /\ [][Next]_vars
------------------------------------------------------------------------------
\* Every variable holds values of its kind, and a proposer has a value: what
\* beginPhase2 proposes is never nil.
TypeOK ==
    /\ promised  \in [Node -> Ballot]
    /\ accepted  \in [Node -> Summary]
    /\ disk      \in [Node -> [promised : Ballot, accepted : Summary]]
    /\ maxSeen   \in [Node -> Ballot]
    /\ proposing \in [Node -> BOOLEAN]
    /\ phase     \in [Node -> 0 .. 2]
    /\ myBallot  \in [Node -> Ballot]
    /\ myValue   \in [Node -> Value \cup {None}]
    /\ promises  \in [Node -> [Node -> Summary \cup {None}]]
    /\ accepts   \in [Node -> [Ballot -> SUBSET Node]]
    /\ valueAt   \in [Node -> [Ballot -> Value \cup {None}]]
    /\ decision  \in [Node -> Summary]
    /\ up        \subseteq SUBSET Node
    /\ sessions  \in [Node -> SUBSET Node]
    /\ net       \subseteq Message
    /\ votes     \in [Node -> SUBSET (Ballot \X Value)]
    /\ proposals \subseteq Ballot \X Value
    /\ \A n \in Node : proposing[n] => myValue[n] \in Value
------------------------------------------------------------------------------
(* Voting, as an observer of every acceptor sees it. *)

Voted(n, b, v) == <<b, v>> \in votes[n]

Quorum == {Q \in SUBSET Node : 2 * Cardinality(Q) > N}

ChosenAt(b, v) == \E Q \in Quorum : \A n \in Q : Voted(n, b, v)

Chosen == {v \in Value : \E b \in Ballot : ChosenAt(b, v)}

\* Agreement: whatever the ballots, the interleaving of proposers and the
\* restarts, at most one value is ever accepted by a majority.
Agreement == \A v, w \in Chosen : v = w

\* A Decided notification is never early or wrong: the ballot and value that
\* recordAccepted decides from the announcements it happened to receive were
\* really accepted by a majority.
DecisionIsChosen ==
    \A n \in Node : Decided(n) => ChosenAt(decision[n].bal, decision[n].val)

\* The claim under chooseValue: once a value is chosen at b, no ballot above
\* b carries another one, not even in a proposal nobody accepts.
ChosenIsForced ==
    \A p \in proposals, b \in Ballot, v \in Value :
        ChosenAt(b, v) /\ p[1] >= b => p[2] = v

\* recordAccepted counts per ballot, "sound" because a ballot carries one
\* value: true across nodes and across the restarts of one proposer, which
\* forgets the ballots it used.
OneValuePerBallot == \A p, q \in proposals : p[1] = q[1] => p[2] = q[2]

\* An acceptor never goes back on a promise or on a vote: neither a handler
\* nor a restart lowers the promised or the accepted ballot.
PromisesAreKept ==
    [][\A n \in Node : /\ promised'[n] >= promised[n]
                       /\ accepted'[n].bal >= accepted[n].bal]_vars

\* The synod implements a single choice that its nodes learn.
Abstract == INSTANCE Consensus
    WITH chosen <- Chosen, learned <- [n \in Node |-> decision[n].val]

Refinement == Abstract!Spec
==============================================================================
