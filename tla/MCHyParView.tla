---------------------------- MODULE MCHyParView ----------------------------
(* Instance of HyParView for TLC. *)
EXTENDS HyParView

CONSTANTS
    Rendezvous,  \* the contact of everyone else
    Extra,       \* a node that does not always run
    Few          \* bound: sessions established where nodes compete for a place

VARIABLES
    budget,   \* what else may happen in the behaviour, once each
    supply    \* sessions that can still be established, if bounded

mcVars == <<viewVars, budget, supply>>

MCContacts == [n \in Node |-> IF n = Rendezvous THEN {} ELSE {Rendezvous}]

Unlimited == Few + 2

\* There is room for everyone, and something happens; or nodes compete for the
\* places in the active views.
MCInit ==
    \/ /\ ViewBooted(Node \ {Extra})
       /\ activeSize = 2
       /\ supply = Unlimited
       /\ budget \in {{"loss"}, {"timeout"}, {"shuffle"}, {"dial", "loss"}}
    \/ /\ ViewBooted(Node \ {Extra})
       /\ activeSize = 1
       /\ supply = Few
       /\ budget = {}
    \/ /\ ViewBooted(Node)
       /\ activeSize = 2
       /\ supply = Few + 1
       /\ budget = {}

Spends(kind) == kind \in budget /\ budget' = budget \ {kind}

\* A node without contacts that nobody knows does not run.
Ticks(n) ==
    /\ n # Extra \/ state[n].active \cup state[n].passive \cup Pending(state[n]) # {}
    /\ Cardinality(state[n].active) < activeSize
    /\ onMaintenanceTick(n)

MCHandler ==
    /\ \/ \E n \in Node : OnSessionConnected(n)
       \/ \E n \in Node : onSessionDown(n)
       \/ \E n, from \in Node : onJoin(n, from)
       \/ \E n, from \in Node : onForwardJoin(n, from)
       \/ \E n, from \in Node : forwardJoin(n, from)
       \/ \E n, from \in Node : ignoreForwardJoin(n, from)
       \/ \E n, from \in Node : onNeighbor(n, from)
       \/ \E n, from \in Node : onNeighborReply(n, from)
       \/ \E n, from \in Node : onDisconnect(n, from)
       \/ \E n, from \in Node : onShuffle(n, from)
       \/ \E n, from \in Node : forwardShuffle(n, from)
       \/ \E n, from \in Node : onShuffleReply(n, from)
       \/ \E n \in Node : Ticks(n)
    /\ UNCHANGED <<budget, supply>>

\* Something of n and h is still on its way.
Busy(n, h) ==
    \/ <<n, h>> \in layer.dialing \/ <<h, n>> \in layer.dialing
    \/ ~Settled(n, h) \/ ~Settled(h, n)

\* The extra node joins an overlay that has settled.
MCEstablished(n, h) ==
    /\ supply > 0
    /\ n = Extra => \A m, k \in Node \ {Extra} : ~Busy(m, k)
    /\ Established(n, h)
    /\ supply' = IF supply = Unlimited \/ layer'.up = layer.up THEN supply ELSE supply - 1
    /\ UNCHANGED budget

\* Once the supply is used up, the network is down and dials fail.
MCDialFails(n, h) ==
    /\ DialFails(n, h)
    /\ IF supply = 0 THEN UNCHANGED budget ELSE Spends("dial")
    /\ UNCHANGED supply

\* A timer fires when its attempt has come to nothing, and once before.
MCTimeout(n, h) ==
    /\ onAttemptTimeout(n, h)
    /\ IF Busy(n, h) THEN Spends("timeout") ELSE UNCHANGED budget
    /\ UNCHANGED supply

MCTrouble ==
    /\ \/ Spends("loss") /\ \E n, h \in Node : SessionLost(n, h)
       \/ Spends("shuffle") /\ \E n \in Node : onShuffleTick(n)
    /\ UNCHANGED supply

MCNext ==
    \/ MCHandler
    \/ MCTrouble
    \/ \E n, h \in Node : MCEstablished(n, h) \/ MCDialFails(n, h) \/ MCTimeout(n, h)

MCSpec == MCInit /\ [][MCNext]_mcVars

\* The loop of each node handles what there is, its ticker ticks, dials end and
\* timers fire.
MCFairSpec ==
    /\ MCSpec
    /\ \A n \in Node : WF_mcVars(Dispatch(n) /\ UNCHANGED <<budget, supply>>)
    /\ \A n \in Node \ {Extra} : WF_mcVars(Ticks(n) /\ UNCHANGED <<budget, supply>>)
    /\ WF_mcVars(\E n, h \in Node :
                    MCEstablished(n, h) \/ (supply = 0 /\ MCDialFails(n, h)))
    /\ WF_mcVars(\E n, h \in Node : MCTimeout(n, h))

\* A node that has fallen out of the overlay finds its way back.
IsolatedRejoins ==
    \A n \in Node \ {Rendezvous} : []<>(state[n].active # {} \/ layer.late \/ supply = 0 \/ n = Extra)
=============================================================================
