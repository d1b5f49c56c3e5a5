----------------------------- MODULE HyParView -----------------------------
(****************************************************************************)
(* HyParView of pkg/protocols/hyparview: each node keeps a small active view *)
(* of peers it has a session with and a larger passive view to refill it     *)
(* from.                                                                     *)
(*                                                                          *)
(* One action is one handler.  A handler calls helpers that choose at random *)
(* and ask the session layer for things: a helper takes the state of the     *)
(* protocol to the set of states it may leave, with what it asked for in     *)
(* out, and the action then has the session layer do it.                     *)
(*                                                                          *)
(* The session layer keeps the contract of protorun.Sessions: one session of *)
(* two nodes, announced and reported lost to both.  Messages and session     *)
(* events reach a protocol through two pumps of the runtime, so they are not *)
(* ordered with each other, and what was received of a lost session may be   *)
(* handled after its loss.                                                   *)
(****************************************************************************)
EXTENDS Overlay, Naturals, Sequences, FiniteSets, SequencesExt, FiniteSetsExt

CONSTANTS
    None,
    Contacts,        \* per node: Config.Contacts
    ActiveSizes,     \* the values of Config.ActiveSize considered
    PassiveSize,
    ARWL, PRWL,
    ShuffleActive, ShufflePassive

\* What fillDefaults makes of any configuration.
ASSUME ConfigAssumption ==
    /\ Contacts \in [Node -> SUBSET Node]
    /\ ActiveSizes \subseteq Nat \ {0}
    /\ PassiveSize \in Nat \ {0}
    /\ ARWL \in Nat \ {0} /\ PRWL \in Nat /\ PRWL < ARWL
    /\ ShuffleActive \in Nat \ {0} /\ ShufflePassive \in Nat \ {0}

VARIABLES
    activeSize,
    state,  \* per node: the fields of Protocol, and its timers
    layer   \* the session layer

viewVars == <<activeSize, state, layer>>

ViewMessage ==
    [type : {"Join", "Disconnect"}]
    \cup [type : {"ForwardJoin"}, newNode : Node, ttl : 0 .. ARWL]
    \cup [type : {"Neighbor"}, priority : BOOLEAN]
    \cup [type : {"NeighborReply"}, accepted : BOOLEAN]

\* nodes is the sample, the origin first; path, or route, leads to the origin.
ShuffleMessage ==
    [type : {"Shuffle"}, origin : Node, ttl : 0 .. ARWL, nodes : Seq(Node),
     path : Seq(Node)]
    \cup [type : {"ShuffleReply"}, nodes : Seq(Node), route : Seq(Node)]

\* outIntent: why a session was opened, or reused.
Intent == [kind : {"Join", "Neighbor"}, priority : BOOLEAN]

ASSUME NoneAssumption == None \notin Intent

Protocol ==
    [self : Node, active : SUBSET Node, passive : SUBSET Node, sessions : SUBSET Node,
     pending : [Node -> Intent \cup {None}],
     timers  : SUBSET Node,  \* the peers whose attempt has its timer running
     out     : {<<>>}]

\* New.
Fresh(n) ==
    [self |-> n, active |-> {}, passive |-> {}, sessions |-> {},
     pending |-> [h \in Node |-> None], timers |-> {}, out |-> <<>>]
------------------------------------------------------------------------------
(* The session layer. *)

\* up: the pairs that have a session; dialing: <<n, h>> while n dials h; events:
\* per node, what it is told; net: messages per direction; old: how many of
\* them, at the front, are of sessions that are lost; late: some of those were
\* left when the receiver was told of the loss.
NewLayer(dials) ==
    [up |-> {}, dialing |-> dials, events |-> [n \in Node |-> <<>>],
     net |-> [e \in Node \X Node |-> <<>>], old |-> [e \in Node \X Node |-> 0],
     late |-> FALSE]

Tells(r, n, type, h) ==
    [r EXCEPT !.events[n] = Append(@, [type |-> type, peer |-> h])]

\* The session of n and h ends; of the messages on the way some remain.
Ended(r, n, h, toN, toH) ==
    LET closed == [r EXCEPT !.up = @ \ {{n, h}},
                            !.net[<<h, n>>] = SubSeq(@, 1, toN), !.old[<<h, n>>] = toN,
                            !.net[<<n, h>>] = SubSeq(@, 1, toH), !.old[<<n, h>>] = toH]
    IN  Tells(Tells(closed, n, "Down", h), h, "Down", n)

\* What n sent before it disconnects still arrives; what was on its way to n
\* may have been received already (keep) or not.
Disconnected(r, n, h, keep) ==
    CASE {n, h} \in r.up ->
            Ended(r, n, h, IF keep THEN Len(r.net[<<h, n>>]) ELSE 0, Len(r.net[<<n, h>>]))
      [] {n, h} \notin r.up /\ <<n, h>> \in r.dialing ->
            Tells([r EXCEPT !.dialing = @ \ {<<n, h>>}], n, "Down", h)
      [] OTHER -> r

\* One request of node n; a message needs a session, and so does no dial.
Requested(r, n, q, keep) ==
    CASE q.op = "send" /\ {n, q.peer} \in r.up ->
            [r EXCEPT !.net[<<n, q.peer>>] = Append(@, q.msg)]
      [] q.op = "connect" /\ {n, q.peer} \notin r.up ->
            [r EXCEPT !.dialing = @ \cup {<<n, q.peer>>}]
      [] q.op = "disconnect" -> Disconnected(r, n, q.peer, keep)
      [] OTHER -> r

\* A dial of n succeeds, or ends where there is a session already.
Established(n, h) ==
    /\ <<n, h>> \in layer.dialing
    /\ LET done == [layer EXCEPT !.dialing = @ \ {<<n, h>>}]
       IN  layer' = IF {n, h} \in layer.up THEN done
                    ELSE Tells(Tells([done EXCEPT !.up = @ \cup {{n, h}}], n, "Up", h),
                               h, "Up", n)
    /\ UNCHANGED <<activeSize, state>>

\* The protocol is not told of a dial that fails.
DialFails(n, h) ==
    /\ <<n, h>> \in layer.dialing
    /\ layer' = [layer EXCEPT !.dialing = @ \ {<<n, h>>}]
    /\ UNCHANGED <<activeSize, state>>

SessionLost(n, h) ==
    /\ {n, h} \in layer.up /\ n # h
    /\ \E toN \in 0 .. Len(layer.net[<<h, n>>]), toH \in 0 .. Len(layer.net[<<n, h>>]) :
          layer' = Ended(layer, n, h, toN, toH)
    /\ UNCHANGED <<activeSize, state>>
------------------------------------------------------------------------------
(* Helpers of the handlers. *)

Asked(s, q) == [s EXCEPT !.out = Append(@, q)]

Send(s, m, h) == Asked(s, [op |-> "send", peer |-> h, msg |-> m])

Connect(s, h) == Asked(s, [op |-> "connect", peer |-> h])

Disconnect(s, h) == Asked(s, [op |-> "disconnect", peer |-> h])

Then(S, Op(_)) == UNION {Op(s) : s \in S}

\* Mutant: a peer of the active view is filed too.
addPassiveAny(s, h) ==
    IF h = s.self \/ h \in s.passive THEN {s}
    ELSE IF Cardinality(s.passive) < PassiveSize THEN {[s EXCEPT !.passive = @ \cup {h}]}
    ELSE {[s EXCEPT !.passive = (@ \ {v}) \cup {h}] : v \in s.passive}

addPassive(s, h) ==
    IF h = s.self \/ h \in s.active \cup s.passive THEN {s}
    ELSE IF Cardinality(s.passive) < PassiveSize THEN {[s EXCEPT !.passive = @ \cup {h}]}
    ELSE {[s EXCEPT !.passive = (@ \ {v}) \cup {h}] : v \in s.passive}

integratePassive(s, nodes) ==
    LET after[i \in 0 .. Len(nodes)] ==
            IF i = 0 THEN {s}
            ELSE Then(after[i - 1], LAMBDA t : addPassive(t, nodes[i]))
    IN  after[Len(nodes)]

\* The NeighborUp and NeighborDown notifications say what becomes of active.
removeActive(s, h) == [s EXCEPT !.active = @ \ {h}]

dropRandomActive(s, keep) ==
    UNION {{Disconnect(Send(t, [type |-> "Disconnect"], v), v) :
                t \in addPassive(removeActive(s, v), v)} : v \in s.active \ {keep}}

addActive(s, h) ==
    IF h = s.self \/ h \in s.active THEN {s}
    ELSE {[t EXCEPT !.passive = @ \ {h}, !.active = @ \cup {h}] :
             t \in IF Cardinality(s.active) >= activeSize THEN dropRandomActive(s, h) ELSE {s}}

clearPending(s, h) == [s EXCEPT !.pending[h] = None, !.timers = @ \ {h}]

Pending(s) == {h \in Node : s.pending[h] # None}

\* The session is up: a Join is taken for accepted, a Neighbor awaits its reply.
driveIntent(s, h) ==
    IF s.pending[h].kind = "Join"
    THEN addActive(clearPending(Send(s, [type |-> "Join"], h), h), h)
    ELSE {Send(s, [type |-> "Neighbor", priority |-> s.pending[h].priority], h)}

openActive(s, h, kind, priority) ==
    LET t == [s EXCEPT !.timers = @ \cup {h},
                       !.pending[h] = [kind |-> kind, priority |-> priority]]
    IN  IF h = s.self \/ h \in s.active \/ s.pending[h] # None THEN {s}
        ELSE IF h \in s.sessions THEN driveIntent(t, h)
        ELSE {Connect(t, h)}

\* Joins all contacts, in some order.
openContacts(s) ==
    LET hosts == SetToSeq(Contacts[s.self])
        after[i \in 0 .. Len(hosts)] ==
            IF i = 0 THEN {s}
            ELSE Then(after[i - 1], LAMBDA t : openActive(t, hosts[i], "Join", FALSE))
    IN  after[Len(hosts)]

promote(s) ==
    LET cands == s.passive \ Pending(s)
    IN  IF Cardinality(s.active) + Cardinality(Pending(s)) >= activeSize \/ cands = {}
        THEN {s}
        ELSE UNION {openActive(s, c, "Neighbor", s.active = {}) : c \in cands}

\* randomSample: up to k of the hosts, in any order.
Samples(hosts, k) ==
    UNION {SetToSeqs(S) : S \in kSubset(IF k < Cardinality(hosts) THEN k ELSE Cardinality(hosts),
                                        hosts)}

\* The session layer at r, after the requests of node n, in order.
AllRequested(n, r, out, keep) ==
    LET after[i \in 0 .. Len(out)] ==
            IF i = 0 THEN r ELSE Requested(after[i - 1], n, out[i], keep)
    IN  after[Len(out)]

\* The handler of node n, called with the session layer at r, leaves one of
\* outcomes and asks for what it says.
Runs(n, r, outcomes) ==
    \E s \in outcomes :
      \E keep \in {TRUE, \A i \in DOMAIN s.out : s.out[i].op # "disconnect"} :
        /\ state' = [state EXCEPT ![n] = [s EXCEPT !.out = <<>>]]
        /\ layer' = AllRequested(n, r, s.out, keep)
        /\ UNCHANGED activeSize
------------------------------------------------------------------------------
(* Session events. *)

Told(n, type) == layer.events[n] # <<>> /\ Head(layer.events[n]).type = type

OnSessionConnected(n) ==
    LET h == Head(layer.events[n]).peer
        s == [state[n] EXCEPT !.sessions = @ \cup {h}]
    IN  /\ Told(n, "Up")
        /\ Runs(n, [layer EXCEPT !.events[n] = Tail(@)],
                IF s.pending[h] # None THEN driveIntent(s, h) ELSE {s})

\* Mutant: a lost neighbour is dropped only when there is one to take its place.
onSessionDownReplaces(n) ==
    LET h == Head(layer.events[n]).peer
        s == [state[n] EXCEPT !.sessions = @ \ {h}]
        t == IF s.pending[h] # None THEN clearPending(s, h) ELSE s
    IN  /\ Told(n, "Down")
        /\ Runs(n, [layer EXCEPT !.events[n] = Tail(@),
                                 !.late = @ \/ layer.old[<<h, n>>] > 0],
                IF h \in t.active /\ t.passive # {} THEN promote(removeActive(t, h)) ELSE {t})

\* OnSessionDisconnected, OnSessionGivenUp.
onSessionDown(n) ==
    LET h == Head(layer.events[n]).peer
        s == [state[n] EXCEPT !.sessions = @ \ {h}]
        t == IF s.pending[h] # None THEN clearPending(s, h) ELSE s
    IN  /\ Told(n, "Down")
        /\ Runs(n, [layer EXCEPT !.events[n] = Tail(@),
                                 !.late = @ \/ layer.old[<<h, n>>] > 0],
                IF h \in t.active THEN promote(removeActive(t, h)) ELSE {t})
------------------------------------------------------------------------------
(* Messages. *)

Received(n, from, type) ==
    layer.net[<<from, n>>] # <<>> /\ Head(layer.net[<<from, n>>]).type = type

Handed(n, from) ==
    [layer EXCEPT !.net[<<from, n>>] = Tail(@),
                  !.old[<<from, n>>] = IF @ = 0 THEN 0 ELSE @ - 1]

onJoin(n, from) ==
    LET walk == [type |-> "ForwardJoin", newNode |-> from, ttl |-> ARWL]
        walks(hosts) ==
            [i \in 1 .. Len(hosts) |-> [op |-> "send", peer |-> hosts[i], msg |-> walk]]
        forwarded(s) == [s EXCEPT !.out = @ \o walks(SetToSeq(s.active \ {from}))]
    IN  /\ Received(n, from, "Join")
        /\ Runs(n, Handed(n, from), {forwarded(s) : s \in addActive(state[n], from)})

\* The walk ends here: at its last step, or with nobody to go on to.
onForwardJoin(n, from) ==
    LET m == Head(layer.net[<<from, n>>])
        filed == IF m.ttl = PRWL THEN addPassive(state[n], m.newNode) ELSE {state[n]}
    IN  /\ Received(n, from, "ForwardJoin")
        /\ m.newNode # n
        /\ \/ m.ttl = 0
           \/ Cardinality(state[n].active) <= 1
           \/ state[n].active \subseteq {from, m.newNode}
        /\ Runs(n, Handed(n, from),
                Then(filed, LAMBDA s : openActive(s, m.newNode, "Neighbor", FALSE)))

forwardJoin(n, from) ==
    LET m == Head(layer.net[<<from, n>>])
        filed == IF m.ttl = PRWL THEN addPassive(state[n], m.newNode) ELSE {state[n]}
    IN  /\ Received(n, from, "ForwardJoin")
        /\ m.newNode # n
        /\ m.ttl > 0
        /\ Cardinality(state[n].active) > 1
        /\ \E h \in state[n].active \ {from, m.newNode} :
              Runs(n, Handed(n, from), {Send(s, [m EXCEPT !.ttl = @ - 1], h) : s \in filed})

ignoreForwardJoin(n, from) ==
    /\ Received(n, from, "ForwardJoin")
    /\ Head(layer.net[<<from, n>>]).newNode = n
    /\ Runs(n, Handed(n, from), {state[n]})

onNeighbor(n, from) ==
    LET s == state[n]
        reply(t, ok) == Send(t, [type |-> "NeighborReply", accepted |-> ok], from)
        admits == \/ from \in s.active
                  \/ Head(layer.net[<<from, n>>]).priority
                  \/ Cardinality(s.active) < activeSize
    IN  /\ Received(n, from, "Neighbor")
        /\ Runs(n, Handed(n, from),
                IF admits THEN {reply(t, TRUE) : t \in addActive(s, from)}
                ELSE addPassive(reply(s, FALSE), from))

onNeighborReply(n, from) ==
    LET s == clearPending(state[n], from) IN
    /\ Received(n, from, "NeighborReply")
    /\ Runs(n, Handed(n, from),
            CASE state[n].pending[from] = None -> {state[n]}
              [] state[n].pending[from] # None /\ Head(layer.net[<<from, n>>]).accepted ->
                    addActive(s, from)
              [] OTHER -> Then(addPassive(s, from), LAMBDA t : promote(Disconnect(t, from))))

onDisconnect(n, from) ==
    /\ Received(n, from, "Disconnect")
    /\ Runs(n, Handed(n, from),
            IF from \notin state[n].active THEN {state[n]}
            ELSE Then(addPassive(removeActive(state[n], from), from), promote))

\* The walk goes on.
forwardShuffle(n, from) ==
    LET m == Head(layer.net[<<from, n>>]) IN
    /\ Received(n, from, "Shuffle")
    /\ m.origin # n /\ m.ttl > 0
    /\ Cardinality(state[n].active) > 1
    /\ \E h \in state[n].active \ {from, m.origin} :
          Runs(n, Handed(n, from),
               {Send(state[n], [m EXCEPT !.ttl = @ - 1, !.path = Append(@, n)], h)})

\* The sample is integrated and answered along the path the walk took.
onShuffle(n, from) ==
    LET m == Head(layer.net[<<from, n>>])
        answer(s, nodes) == Send(s, [type |-> "ShuffleReply", nodes |-> nodes,
                                     route |-> m.path], Last(m.path))
    IN  /\ Received(n, from, "Shuffle")
        /\ \/ m.origin = n \/ m.ttl = 0
           \/ Cardinality(state[n].active) <= 1
           \/ state[n].active \subseteq {from, m.origin}
        /\ Runs(n, Handed(n, from),
                {answer(s, nodes) : s \in integratePassive(state[n], m.nodes),
                                    nodes \in Samples(state[n].passive, Len(m.nodes))})

onShuffleReply(n, from) ==
    LET m == Head(layer.net[<<from, n>>])
        route == IF m.route # <<>> /\ Last(m.route) = n THEN Front(m.route) ELSE m.route
    IN  /\ Received(n, from, "ShuffleReply")
        /\ Runs(n, Handed(n, from),
                IF route = <<>> THEN integratePassive(state[n], m.nodes)
                ELSE {Send(state[n], [m EXCEPT !.route = route], Last(route))})
------------------------------------------------------------------------------
(* Timers. *)

\* An attempt is abandoned, but for one whose peer is a neighbour by now.
onAttemptTimeout(n, h) ==
    LET s == [state[n] EXCEPT !.timers = @ \ {h}]
        t == Disconnect([s EXCEPT !.pending[h] = None], h)
    IN  /\ h \in state[n].timers
        /\ Runs(n, layer,
                CASE s.pending[h] = None \/ h \in s.active -> {s}
                  [] s.pending[h] # None /\ h \notin s.active
                        /\ s.pending[h].kind = "Neighbor" -> promote(t)
                  [] OTHER -> {t})

\* Mutant: a node without neighbours counts on its passive view alone.
onMaintenanceTickPromotes(n) ==
    Runs(n, layer, IF Cardinality(state[n].active) < activeSize THEN promote(state[n])
                   ELSE {state[n]})

onMaintenanceTick(n) ==
    LET s == state[n] IN
    Runs(n, layer,
         CASE s.active = {} /\ Pending(s) = {} -> openContacts(s)
           [] s.active # {} \/ Pending(s) # {} ->
                 IF Cardinality(s.active) < activeSize THEN promote(s) ELSE {s})

onShuffleTick(n) ==
    LET s == state[n] IN
    \E q \in s.active :
        \E fromActive \in Samples(s.active \ {q}, ShuffleActive),
           fromPassive \in Samples(s.passive, ShufflePassive) :
              Runs(n, layer,
                   {Send(s, [type |-> "Shuffle", origin |-> n, ttl |-> ARWL,
                             nodes |-> <<n>> \o fromActive \o fromPassive,
                             path |-> <<n>>], q)})
------------------------------------------------------------------------------
\* Init: the nodes that run dial their contacts.
ViewBooted(running) ==
    LET contacts(n) == IF n \in running THEN Contacts[n] \ {n} ELSE {} IN
    /\ activeSize \in ActiveSizes
    /\ state = [n \in Node |->
                  [Fresh(n) EXCEPT
                      !.timers  = contacts(n),
                      !.pending = [h \in Node |->
                          IF h \in contacts(n)
                          THEN [kind |-> "Join", priority |-> FALSE] ELSE None]]]
    /\ layer = NewLayer({e \in Node \X Node : e[2] \in contacts(e[1])})

ViewInit == ViewBooted(Node)

Handle(n, from) ==
    \/ onJoin(n, from)
    \/ onForwardJoin(n, from) \/ forwardJoin(n, from) \/ ignoreForwardJoin(n, from)
    \/ onNeighbor(n, from)
    \/ onNeighborReply(n, from)
    \/ onDisconnect(n, from)
    \/ onShuffle(n, from) \/ forwardShuffle(n, from)
    \/ onShuffleReply(n, from)

Dispatch(n) ==
    OnSessionConnected(n) \/ onSessionDown(n) \/ \E from \in Node : Handle(n, from)

ViewNext ==
    \/ \E n \in Node : Dispatch(n) \/ onMaintenanceTick(n) \/ onShuffleTick(n)
    \/ \E n, h \in Node :
          \/ onAttemptTimeout(n, h)
          \/ Established(n, h) \/ DialFails(n, h) \/ SessionLost(n, h)

ViewSpec == ViewInit /\ [][ViewNext]_viewVars
------------------------------------------------------------------------------
ViewTypeOK ==
    /\ activeSize \in ActiveSizes
    /\ state \in [Node -> Protocol]
    /\ layer.up \subseteq {l \in SUBSET Node : Cardinality(l) = 2}
    /\ layer.dialing \subseteq Node \X Node
    /\ \A n \in Node : layer.events[n] \in Seq([type : {"Up", "Down"}, peer : Node])
    /\ \A e \in Node \X Node : layer.net[e] \in Seq(ViewMessage \cup ShuffleMessage)

\* However joins, evictions, rejections and shuffles overlap, a node's views
\* are disjoint, within their sizes and without the node itself.
ViewsAreSound ==
    /\ ViewTypeOK
    /\ \A n \in Node :
        /\ state[n].self = n
        /\ state[n].active \cap state[n].passive = {}
        /\ n \notin state[n].active \cup state[n].passive
        /\ Cardinality(state[n].active) <= activeSize
        /\ Cardinality(state[n].passive) <= PassiveSize

\* Node n has handled all there is of h.
Settled(n, h) ==
    /\ layer.net[<<h, n>>] = <<>>
    /\ \A i \in 1 .. Len(layer.events[n]) : layer.events[n][i].peer # h

\* "A peer is in the active view iff we hold a live session with it and an
\* application-level handshake has admitted it": a node that has handled what
\* there is has a session with each of its neighbours.  "A timeout abandons the
\* attempt if it is never accepted, which also covers a silent connect failure":
\* an attempt whose timer does not run any more has something else on its way
\* that ends it.  Both unless a message was handled after the loss of its session.
ActiveIsBacked ==
    layer.late \/
    \A n, h \in Node :
        /\ h \in state[n].active /\ Settled(n, h) => {n, h} \in layer.up
        /\ state[n].pending[h] # None /\ h \notin state[n].timers =>
              ~Settled(n, h) \/ ~Settled(h, n)
=============================================================================
