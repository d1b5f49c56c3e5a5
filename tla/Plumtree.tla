------------------------------ MODULE Plumtree ------------------------------
(****************************************************************************)
(* Plumtree of pkg/protocols/plumtree over the membership contract: full     *)
(* messages go down eager links, announcements down lazy ones, duplicates    *)
(* prune a link and a missing message grafts one.                            *)
(*                                                                          *)
(* One action is one handler.  A link is an active-view session of the       *)
(* membership protocol: it keeps the order of the messages of a direction,   *)
(* while notifications about it reach Plumtree on their own way.  A payload   *)
(* is its MessageID; the round of a message, which no handler tests, is       *)
(* left out.                                                                 *)
(****************************************************************************)
EXTENDS Overlay, Naturals, FiniteSets, Sequences

CONSTANTS
    MaxSeq,     \* broadcasts of one origin (bound)
    CacheSizes  \* the values of Config.CacheSize considered

ASSUME SizeAssumption == MaxSeq \in Nat /\ CacheSizes \subseteq Nat \ {0}

MessageID == Node \X (1 .. MaxSeq)

VARIABLES
    cacheSize,
    eager, lazy,         \* per node: the hosts of the two link sets
    received,            \* per node: ids delivered
    cache,               \* per node: ids whose payload is retained, oldest first
    missing, timers,     \* announcers of an id not received; ids with a timer
    lazyQueue,           \* announcements to be flushed, per peer
    seq,
    links,               \* the pairs of nodes that are neighbours
    notes,               \* per node: membership events Plumtree has not handled
    net,                 \* per direction of a link: messages in flight
    delivered            \* history: the Delivered notifications, in order

linkVars    == <<eager, lazy>>
messageVars == <<received, cache, delivered>>
missingVars == <<missing, timers>>
overlayVars == <<links, notes>>
vars == <<cacheSize, linkVars, messageVars, missingVars, lazyQueue, seq, overlayVars,
          net>>

Message ==
    [type : {"Gossip", "Graft"}, id : MessageID]
    \cup [type : {"IHave"}, ids : Seq(MessageID)]
    \cup [type : {"Prune"}]

Note ==
    [type : {"NeighborUp", "NeighborDown"}, peer : Node]
    \cup [type : {"View"}, active : SUBSET Node]

Neighbours(n, ls) == {p \in Node : p # n /\ {n, p} \in ls}

\* Start, and Init's GetView, which the membership protocol answers with its
\* active view.
Booted ==
    /\ cacheSize \in CacheSizes
    /\ eager     = [n \in Node |-> {}]
    /\ lazy      = [n \in Node |-> {}]
    /\ received  = [n \in Node |-> {}]
    /\ cache     = [n \in Node |-> <<>>]
    /\ missing   = [n \in Node |-> [id \in MessageID |-> <<>>]]
    /\ timers    = [n \in Node |-> {}]
    /\ lazyQueue = [n \in Node |-> [p \in Node |-> <<>>]]
    /\ seq       = [n \in Node |-> 0]
    /\ notes     = [n \in Node |-> <<[type |-> "View", active |-> Neighbours(n, links)]>>]
    /\ net       = [e \in Node \X Node |-> <<>>]
    /\ delivered = [n \in Node |-> <<>>]

Init == links \in SUBSET {l \in SUBSET Node : Cardinality(l) = 2} /\ Booted
------------------------------------------------------------------------------
(* Pieces of handlers. *)

MakeEager(n, ps) ==
    /\ eager' = [eager EXCEPT ![n] = @ \cup ps]
    /\ lazy'  = [lazy EXCEPT ![n] = @ \ ps]

MakeLazy(n, p) ==
    /\ eager' = [eager EXCEPT ![n] = @ \ {p}]
    /\ lazy'  = [lazy EXCEPT ![n] = @ \cup {p}]

\* payloadCache.put of an id that is not cached.
put(c, id) ==
    LET longer == Append(c, id)
    IN  IF Len(longer) > cacheSize THEN Tail(longer) ELSE longer

\* Messages msgs[p] are sent to each p, if the link is up.
Sent(queues, n, msgs) ==
    [e \in Node \X Node |->
        IF e[1] = n /\ {n, e[2]} \in links THEN queues[e] \o msgs[e[2]] ELSE queues[e]]

\* The message at the head of a direction is taken.
Taken(n, from) == [net EXCEPT ![<<from, n>>] = Tail(@)]

Gossip(id) == [type |-> "Gossip", id |-> id]

To(p, m) == [q \in Node |-> IF q = p THEN <<m>> ELSE <<>>]

\* eagerPush to the eager hosts except one.
eagerPush(id, hosts, except) ==
    [p \in Node |-> IF p \in hosts \ {except} THEN <<Gossip(id)>> ELSE <<>>]

\* lazyPush to the lazy hosts except one.
lazyPush(n, id, hosts, except) ==
    lazyQueue' = [lazyQueue EXCEPT ![n] =
        [p \in Node |-> IF p \in hosts \ {except} THEN Append(@[p], id) ELSE @[p]]]

\* A new message is recorded, cached and delivered.
Deliver(n, id) ==
    /\ received'  = [received EXCEPT ![n] = @ \cup {id}]
    /\ cache'     = [cache EXCEPT ![n] = put(@, id)]
    /\ delivered' = [delivered EXCEPT ![n] = Append(@, id)]

cancelMissing(n, ids) ==
    /\ missing' = [missing EXCEPT ![n] = [id \in MessageID |->
                        IF id \in ids THEN <<>> ELSE @[id]]]
    /\ timers'  = [timers EXCEPT ![n] = @ \ ids]
------------------------------------------------------------------------------
(* The membership contract. *)

Noted(n, type) == notes[n] # <<>> /\ Head(notes[n]).type = type

NoteHandled(n) == notes' = [notes EXCEPT ![n] = Tail(@)]

\* Init's callback.
onView(n) ==
    /\ Noted(n, "View")
    /\ MakeEager(n, Head(notes[n]).active)
    /\ NoteHandled(n)
    /\ UNCHANGED <<cacheSize, messageVars, missingVars, lazyQueue, seq, links, net>>

onNeighborUp(n) ==
    /\ Noted(n, "NeighborUp")
    /\ MakeEager(n, {Head(notes[n]).peer})
    /\ NoteHandled(n)
    /\ UNCHANGED <<cacheSize, messageVars, missingVars, lazyQueue, seq, links, net>>

\* The entries that are not of a peer, in their order.
Without(entries, peer) ==
    LET kept[i \in 0 .. Len(entries)] ==
            IF i = 0 THEN <<>>
            ELSE IF entries[i] = peer THEN kept[i - 1] ELSE Append(kept[i - 1], entries[i])
    IN  kept[Len(entries)]

\* Mutant: a timer is cancelled though other announcers remain.
DropAnnouncerAndTimer(n, peer) ==
    LET kept(id) == Without(missing[n][id], peer) IN
    /\ missing' = [missing EXCEPT ![n] = [id \in MessageID |-> kept(id)]]
    /\ timers'  = [timers EXCEPT ![n] = {id \in @ : kept(id) = missing[n][id]}]

\* The announcements of a peer are dropped, and with the last one its timer.
DropAnnouncer(n, peer) ==
    LET kept(id) == Without(missing[n][id], peer) IN
    /\ missing' = [missing EXCEPT ![n] = [id \in MessageID |-> kept(id)]]
    /\ timers'  = [timers EXCEPT ![n] = {id \in @ : kept(id) # <<>>}]

onNeighborDown(n) ==
    LET peer == Head(notes[n]).peer IN
    /\ Noted(n, "NeighborDown")
    /\ eager' = [eager EXCEPT ![n] = @ \ {peer}]
    /\ lazy' = [lazy EXCEPT ![n] = @ \ {peer}]
    /\ lazyQueue' = [lazyQueue EXCEPT ![n][peer] = <<>>]
    /\ DropAnnouncer(n, peer)
    /\ NoteHandled(n)
    /\ UNCHANGED <<cacheSize, messageVars, seq, links, net>>
------------------------------------------------------------------------------
(* Broadcast and the message handlers. *)

handleBroadcast(n) ==
    LET id == <<n, seq[n] + 1>> IN
    /\ seq[n] < MaxSeq
    /\ seq' = [seq EXCEPT ![n] = @ + 1]
    /\ Deliver(n, id)
    /\ net' = Sent(net, n, eagerPush(id, eager[n], n))
    /\ lazyPush(n, id, lazy[n], n)
    /\ UNCHANGED <<cacheSize, linkVars, missingVars, overlayVars>>

Receives(n, from, type) ==
    /\ net[<<from, n>>] # <<>>
    /\ Head(net[<<from, n>>]).type = type

\* Mutant: a duplicate is not recognised once its payload left the cache.
SeenInCache(n, id) == id \in {cache[n][i] : i \in 1 .. Len(cache[n])}

Seen(n, id) == id \in received[n]

\* A duplicate: the link is redundant.
onDuplicateGossip(n, from) ==
    /\ Receives(n, from, "Gossip")
    /\ Seen(n, Head(net[<<from, n>>]).id)
    /\ MakeLazy(n, from)
    /\ net' = Sent(Taken(n, from), n, To(from, [type |-> "Prune"]))
    /\ UNCHANGED <<cacheSize, messageVars, missingVars, lazyQueue, seq, overlayVars>>

\* A new message: deliver it and forward it; the sender is a tree link.
onGossip(n, from) ==
    LET id == Head(net[<<from, n>>]).id IN
    /\ Receives(n, from, "Gossip")
    /\ ~Seen(n, id)
    /\ Deliver(n, id)
    /\ cancelMissing(n, {id})
    /\ MakeEager(n, {from})
    /\ net' = Sent(Taken(n, from), n, eagerPush(id, eager'[n], from))
    /\ lazyPush(n, id, lazy'[n], from)
    /\ UNCHANGED <<cacheSize, seq, overlayVars>>

\* Announcements of messages not received are recorded, each with a timer.
onIHave(n, from) ==
    LET ids == Head(net[<<from, n>>]).ids
        fresh(id) == {i \in 1 .. Len(ids) : ids[i] = id /\ id \notin received[n]}
    IN  /\ Receives(n, from, "IHave")
        /\ missing' = [missing EXCEPT ![n] = [id \in MessageID |->
               @[id] \o [i \in 1 .. Cardinality(fresh(id)) |-> from]]]
        /\ timers' = [timers EXCEPT ![n] = @ \cup {id \in MessageID : fresh(id) # {}}]
        /\ net' = Taken(n, from)
        /\ UNCHANGED <<cacheSize, linkVars, messageVars, lazyQueue, seq, overlayVars>>

\* Mutant: the graft mends the tree and replays nothing.
onGraftSilently(n, from) ==
    /\ Receives(n, from, "Graft")
    /\ MakeEager(n, {from})
    /\ net' = Taken(n, from)
    /\ UNCHANGED <<cacheSize, messageVars, missingVars, lazyQueue, seq, overlayVars>>

\* The sender is a tree link again; its message is replayed from the cache.
onGraft(n, from) ==
    LET id == Head(net[<<from, n>>]).id IN
    /\ Receives(n, from, "Graft")
    /\ MakeEager(n, {from})
    /\ net' = IF id \in {cache[n][i] : i \in 1 .. Len(cache[n])}
              THEN Sent(Taken(n, from), n, To(from, Gossip(id)))
              ELSE Taken(n, from)
    /\ UNCHANGED <<cacheSize, messageVars, missingVars, lazyQueue, seq, overlayVars>>

onPrune(n, from) ==
    /\ Receives(n, from, "Prune")
    /\ MakeLazy(n, from)
    /\ net' = Taken(n, from)
    /\ UNCHANGED <<cacheSize, messageVars, missingVars, lazyQueue, seq, overlayVars>>
------------------------------------------------------------------------------
(* Timers. *)

\* GRAFT the oldest announcer and await the next one; with none left, give up.
onMissingTimeout(n, id) ==
    LET entries == missing[n][id]
        graft   == [type |-> "Graft", id |-> id]
    IN  /\ id \in timers[n]
        /\ IF id \in received[n] \/ entries = <<>>
           THEN /\ cancelMissing(n, {id})
                /\ UNCHANGED <<linkVars, net>>
           ELSE /\ missing' = [missing EXCEPT ![n][id] = Tail(entries)]
                /\ MakeEager(n, {Head(entries)})
                /\ net' = Sent(net, n, To(Head(entries), graft))
                /\ UNCHANGED timers
        /\ UNCHANGED <<cacheSize, messageVars, lazyQueue, seq, overlayVars>>

\* Each peer with announcements queued gets them in one IHave.
flushLazy(n) ==
    LET queued == lazyQueue[n] IN
    /\ \E p \in Node : queued[p] # <<>>
    /\ net' = Sent(net, n, [p \in Node |->
           IF queued[p] = <<>> THEN <<>> ELSE <<[type |-> "IHave", ids |-> queued[p]]>>])
    /\ lazyQueue' = [lazyQueue EXCEPT ![n] = [p \in Node |-> <<>>]]
    /\ UNCHANGED <<cacheSize, linkVars, messageVars, missingVars, seq, overlayVars>>
------------------------------------------------------------------------------
(* The overlay: links come and go, and both ends are notified. *)

Notified(l, type) ==
    notes' = [n \in Node |->
        IF n \in l
        THEN Append(notes[n], [type |-> type, peer |-> CHOOSE p \in l : p # n])
        ELSE notes[n]]

LinkUp(a, b) ==
    /\ a # b
    /\ {a, b} \notin links
    /\ links' = links \cup {{a, b}}
    /\ Notified({a, b}, "NeighborUp")
    /\ UNCHANGED <<cacheSize, linkVars, messageVars, missingVars, lazyQueue, seq, net>>

\* What a node had already read off the link is still handled.
LinkDown(a, b) ==
    /\ {a, b} \in links
    /\ a # b
    /\ links' = links \ {{a, b}}
    /\ Notified({a, b}, "NeighborDown")
    /\ \E i \in 0 .. Len(net[<<a, b>>]), j \in 0 .. Len(net[<<b, a>>]) :
           net' = [net EXCEPT ![<<a, b>>] = SubSeq(@, 1, i), ![<<b, a>>] = SubSeq(@, 1, j)]
    /\ UNCHANGED <<cacheSize, linkVars, messageVars, missingVars, lazyQueue, seq>>
------------------------------------------------------------------------------
Membership(n) == onView(n) \/ onNeighborUp(n) \/ onNeighborDown(n)

Receive(n, from) ==
    \/ onDuplicateGossip(n, from)
    \/ onGossip(n, from)
    \/ onIHave(n, from)
    \/ onGraft(n, from)
    \/ onPrune(n, from)

\* What the event loop of a node has to handle.
Event(n) ==
    \/ Membership(n)
    \/ \E from \in Node : Receive(n, from)
    \/ \E id \in MessageID : onMissingTimeout(n, id)
    \/ flushLazy(n)

Next ==
    \/ \E n \in Node : Event(n) \/ handleBroadcast(n)
    \/ \E a, b \in Node : LinkUp(a, b) \/ LinkDown(a, b)

Spec == Init /\ [][Next]_vars

\* An event loop with events to handle handles one.
Fairness == \A n \in Node : WF_vars(Event(n))
------------------------------------------------------------------------------
TypeOK ==
    /\ cacheSize \in CacheSizes
    /\ eager \in [Node -> SUBSET Node]
    /\ lazy \in [Node -> SUBSET Node]
    /\ received \in [Node -> SUBSET MessageID]
    /\ cache \in [Node -> Seq(MessageID)]
    /\ \A n \in Node : Len(cache[n]) <= cacheSize
    /\ missing \in [Node -> [MessageID -> Seq(Node)]]
    /\ timers \in [Node -> SUBSET MessageID]
    /\ lazyQueue \in [Node -> [Node -> Seq(MessageID)]]
    /\ seq \in [Node -> 0 .. MaxSeq]
    /\ links \subseteq SUBSET Node
    /\ notes \in [Node -> Seq(Note)]
    /\ net \in [Node \X Node -> Seq(Message)]
    /\ delivered \in [Node -> Seq(MessageID)]

\* Whatever crosses on a link, prunes, grafts and duplicates included, a host
\* is never both an eager and a lazy peer; and every announcement on record will
\* be pulled: its message is still missing and a timer is armed for it, though
\* timers are cancelled when a message arrives and when a neighbour leaves.
AnnouncedIsPulled ==
    /\ TypeOK
    /\ \A n \in Node : eager[n] \cap lazy[n] = {} /\ n \notin eager[n] \cup lazy[n]
    /\ \A n \in Node, id \in MessageID :
          missing[n][id] # <<>> => id \in timers[n] /\ id \notin received[n]

\* Delivered: "published once per unique broadcast this node delivers", though
\* duplicates arrive by push, by graft and after eviction from the cache.
Abstract == INSTANCE Broadcast WITH
    sent <- {id \in MessageID : id[2] <= seq[id[1]]},
    log  <- delivered

Refinement == Abstract!Spec
==============================================================================
