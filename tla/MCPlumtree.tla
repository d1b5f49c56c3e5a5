----------------------------- MODULE MCPlumtree -----------------------------
(* Instance of Plumtree for TLC: a ring of three nodes that loses a link. *)
EXTENDS Plumtree

CONSTANTS
    Origins,      \* the nodes whose applications broadcast
    Leader,       \* the origin that broadcasts up to MaxSeq times, the others once
    StartLinks,   \* number of links to start with: 2 is a chain, 3 a ring
    MaxChanges    \* bound: links lost or regained in a behaviour

VARIABLE changes

mcVars == <<vars, changes>>

MCInit ==
    /\ links \in {ls \in SUBSET {l \in SUBSET Node : Cardinality(l) = 2} :
                     Cardinality(ls) \in StartLinks}
    /\ Booted
    /\ changes = 0

\* First broadcasts race each other, over an overlay that has settled; a later
\* one meets the tree that they left.
MayBroadcast(n) ==
    \/ seq[n] = 0 /\ \A m \in Node : eager[m] \cup lazy[m] # {}
    \/ n = Leader /\ \A m \in Origins : seq[m] > 0 /\ \A e \in Node \X Node : net[e] = <<>>

MCHandler ==
    /\ \/ \E n \in Node : onView(n)
       \/ \E n \in Node : onNeighborUp(n)
       \/ \E n \in Node : onNeighborDown(n)
       \/ \E n \in Origins : MayBroadcast(n) /\ handleBroadcast(n)
       \/ \E n, from \in Node : onDuplicateGossip(n, from)
       \/ \E n, from \in Node : onGossip(n, from)
       \/ \E n, from \in Node : onIHave(n, from)
       \/ \E n, from \in Node : onGraft(n, from)
       \/ \E n, from \in Node : onPrune(n, from)
       \/ \E n \in Node, id \in MessageID : onMissingTimeout(n, id)
       \/ \E n \in Node : flushLazy(n)
    /\ UNCHANGED changes

\* The overlay stays connected: at most one link is down.
MCChange ==
    /\ changes < MaxChanges
    /\ changes' = changes + 1
    /\ \E a, b \in Node : LinkUp(a, b) \/ (Cardinality(links) = 3 /\ LinkDown(a, b))

MCSpec == MCInit /\ [][MCHandler \/ MCChange]_mcVars

MCFairSpec == MCSpec /\ Fairness

\* The tree repairs itself: while the overlay stays connected and the caches
\* hold the messages, everyone comes to deliver every broadcast, though prunes,
\* grafts and lost links leave eager links that reach nobody.
EveryoneDelivers ==
    <>[](cacheSize >= Cardinality(MessageID) =>
            \A id \in MessageID, n \in Node : id[2] <= seq[id[1]] => id \in received[n])
=============================================================================
