---------------------------- MODULE OverlayProofs ----------------------------
(****************************************************************************)
(* Proofs about the two protocols of an overlay, each on its own.            *)
(*                                                                          *)
(* Plumtree, for any nodes, any overlay that changes in any way, any cache   *)
(* and any number of broadcasts: links are eager or lazy, an announcement on *)
(* record will be pulled, and every node delivers what was broadcast, once.  *)
(*                                                                          *)
(* HyParView, for any nodes, contacts and sizes, and whatever the session    *)
(* layer does within its contract: views are sound, and a neighbour is one   *)
(* there is a session with, or whose loss is still to be told.               *)
(****************************************************************************)
EXTENDS Plumtree, HyParView, TLAPS, FiniteSetTheorems, SequenceTheorems, WellFoundedInduction
------------------------------------------------------------------------------
(* Plumtree: the invariant. *)

\* The messages that were broadcast.
Known == {id \in MessageID : id[2] <= seq[id[1]]}

\* What is sent, and what the membership protocol tells a node.
GoodMessages ==
    {m \in Message : /\ m.type = "Gossip" => m.id \in Known
                     /\ m.type = "IHave" => m.ids \in Seq(Known)}

GoodNotes(n) ==
    {x \in Note : /\ x.type = "View" => n \notin x.active
                  /\ x.type # "View" => x.peer # n}

\* The two link sets, and where they come from: nobody is a neighbour of itself.
LinkInv ==
    /\ eager \in [Node -> SUBSET Node] /\ lazy \in [Node -> SUBSET Node]
    /\ \A n \in Node : eager[n] \cap lazy[n] = {} /\ n \notin eager[n] \cup lazy[n]
    /\ links \subseteq SUBSET Node /\ \A n \in Node : {n} \notin links
    /\ notes \in [Node -> Seq(Note)] /\ \A n \in Node : notes[n] \in Seq(GoodNotes(n))

\* Whatever travels, is cached or is to be announced was broadcast.
TravelInv ==
    /\ net \in [Node \X Node -> Seq(GoodMessages)]
    /\ \A n \in Node : net[<<n, n>>] = <<>>
    /\ lazyQueue \in [Node -> [Node -> Seq(Known)]]

\* What a node received is what it delivered, and was broadcast.
ReceiptInv ==
    /\ cacheSize \in CacheSizes
    /\ seq \in [Node -> 0 .. MaxSeq]
    /\ received \in [Node -> SUBSET Known]
    /\ delivered \in [Node -> Seq(MessageID)]
    /\ \A n \in Node : received[n] = {delivered[n][i] : i \in 1 .. Len(delivered[n])}
    /\ cache \in [Node -> Seq(Known)]
    /\ \A n \in Node : Len(cache[n]) <= cacheSize

\* Announcements are of others, and of messages not received.
MissingInv ==
    /\ missing \in [Node -> [MessageID -> Seq(Node)]]
    /\ timers \in [Node -> SUBSET MessageID]
    /\ \A n \in Node, id \in MessageID :
          /\ missing[n][id] \in Seq(Node \ {n})
          /\ missing[n][id] # <<>> => id \in timers[n] /\ id \in Known \ received[n]

Inv == LinkInv /\ TravelInv /\ ReceiptInv /\ MissingInv
------------------------------------------------------------------------------
(* Sequences. *)

\* A non-empty set of naturals has a least element.
LEMMA LeastNat ==
  ASSUME NEW T, T \subseteq Nat, T # {}
  PROVE  \E x \in T : \A y \in T : x <= y
<1>1. \E x \in T : \A y \in T : ~(<<y, x>> \in OpToRel(<, Nat))
  BY NatLessThanWellFounded, WFMin, Zenon
<1>2. PICK x \in T : \A y \in T : ~(<<y, x>> \in OpToRel(<, Nat))
  BY <1>1
<1>3. \A y \in T : ~(y < x)
  BY <1>2 DEF OpToRel
<1> QED  BY <1>3

\* What queues are made of.
LEMMA SeqParts ==
  ASSUME NEW S, NEW T, S \subseteq T, NEW q \in Seq(S)
  PROVE  /\ q \in Seq(T)
         /\ q # <<>> => Tail(q) \in Seq(T) /\ Head(q) \in S
         /\ \A e \in T : Append(q, e) \in Seq(T)
         /\ \A d \in Seq(T) : q \o d \in Seq(T)
<1>1. q \in Seq(T)
  BY ElementOfSeq, SeqDef
<1>2. q # <<>> => Tail(q) \in Seq(T) /\ Head(q) \in S
  BY <1>1
<1> QED  BY <1>1, <1>2

\* Short sequences.
LEMMA Short == \A S : <<>> \in Seq(S) /\ \A x \in S : <<x>> \in Seq(S)
OBVIOUS

\* What holds of 0, and of a number up to k when of the one before, holds up to k.
LEMMA Climb ==
  ASSUME NEW k \in Nat, NEW T, 0 \in T,
         \A j \in 1 .. k : j - 1 \in T => j \in T
  PROVE  0 .. k \subseteq T
<1> DEFINE B == (0 .. k) \ T
<1>1. B \subseteq Nat
  OBVIOUS
<1>2. SUFFICES ASSUME B # {} PROVE FALSE
  OBVIOUS
<1>3. PICK j \in B : \A i \in B : j <= i
  <2> HIDE DEF B
  <2> QED  BY <1>1, <1>2, LeastNat
<1>4. j \in 1 .. k /\ j \notin T
  BY <1>3
<1>5. j - 1 \in 0 .. k /\ ~(j <= j - 1)
  BY <1>4
<1>6. j - 1 \in T
  BY <1>3, <1>5
<1> QED  BY <1>4, <1>6

\* Without keeps the type of a sequence.
LEMMA WithoutType ==
  ASSUME NEW S, NEW s \in Seq(S), NEW peer
  PROVE  Without(s, peer) \in Seq(S)
<1> DEFINE Step(f, i) == IF i = 0 THEN <<>>
                         ELSE IF s[i] = peer THEN f[i - 1] ELSE Append(f[i - 1], s[i])
           Fits(f, j) == \A i \in 0 .. j : f[i] = Step(f, i)
           Good == {j \in 0 .. Len(s) : \E f \in [0 .. j -> Seq(S)] : Fits(f, j)}
<1>1. Len(s) \in Nat /\ \A j \in 1 .. Len(s) : s[j] \in S
  OBVIOUS
<1>2. 0 \in Good
  <2>1. [i \in 0 .. 0 |-> <<>>] \in [0 .. 0 -> Seq(S)]
    OBVIOUS
  <2>2. Fits([i \in 0 .. 0 |-> <<>>], 0)
    OBVIOUS
  <2>3. 0 \in 0 .. Len(s)
    BY <1>1
  <2> HIDE DEF Fits
  <2> QED  BY <2>1, <2>2, <2>3
<1>3. ASSUME NEW j \in 1 .. Len(s), j - 1 \in Good PROVE j \in Good
  <2>1. PICK f \in [0 .. j - 1 -> Seq(S)] : Fits(f, j - 1)
    BY <1>3
  <2> DEFINE g == [i \in 0 .. j |-> IF i = j THEN Step(f, j) ELSE f[i]]
  <2>2. s[j] \in S /\ f[j - 1] \in Seq(S) /\ j \in Nat /\ j # 0
    BY <1>1
  <2>3. Step(f, j) \in Seq(S)
    BY <2>2
  <2>4. g \in [0 .. j -> Seq(S)]
    <3> HIDE DEF Step
    <3> QED  BY <2>2, <2>3
  <2>5. \A i \in 0 .. j - 1 : g[i] = f[i]
    BY <2>2
  <2>6. g[j] = Step(f, j)
    <3> HIDE DEF Step
    <3> QED  BY <2>2
  <2>7. ASSUME NEW i \in 0 .. j PROVE g[i] = Step(g, i)
    <3> HIDE DEF g
    <3>1. CASE i = 0
      BY <2>1, <2>2, <2>5, <3>1
    <3>2. CASE i = j
      BY <2>2, <2>5, <2>6, <3>2
    <3>3. CASE i \notin {0, j}
      <4>1. i \in 0 .. j - 1 /\ i - 1 \in 0 .. j - 1
        BY <2>2, <3>3
      <4> QED  BY <2>1, <2>5, <3>3, <4>1
    <3> QED  BY <3>1, <3>2, <3>3
  <2>8. Fits(g, j)
    BY <2>7
  <2> HIDE DEF Fits, g
  <2> QED  BY <2>2, <2>4, <2>8
<1>4. Len(s) \in Good
  <2> HIDE DEF Good
  <2>1. 0 .. Len(s) \subseteq Good
    BY <1>1, <1>2, <1>3, Climb
  <2> QED  BY <1>1, <2>1
<1>5. PICK f \in [0 .. Len(s) -> Seq(S)] : Fits(f, Len(s))
  <2> HIDE DEF Fits
  <2> QED  BY <1>4
<1> DEFINE kept == CHOOSE h : h = [i \in 0 .. Len(s) |-> Step(h, i)]
<1>6. f = [i \in 0 .. Len(s) |-> Step(f, i)]
  BY <1>5
<1>7. kept = [i \in 0 .. Len(s) |-> Step(kept, i)]
  BY <1>6
<1>8. Without(s, peer) = kept[Len(s)]
  BY DEF Without
<1> DEFINE Typed == {j \in 0 .. Len(s) : kept[j] \in Seq(S)}
<1> HIDE DEF kept
<1>9. 0 \in Typed
  BY <1>1, <1>7
<1>10. ASSUME NEW j \in 1 .. Len(s), j - 1 \in Typed PROVE j \in Typed
  <2>1. j # 0 /\ j \in 0 .. Len(s)
    BY <1>1
  <2>2. kept[j] = Step(kept, j)
    <3> HIDE DEF Step
    <3> QED  BY <1>7, <2>1
  <2>3. kept[j - 1] \in Seq(S) /\ s[j] \in S
    BY <1>1, <1>10
  <2>4. Step(kept, j) \in Seq(S)
    BY <2>1, <2>3
  <2> QED  BY <2>1, <2>2, <2>4
<1>11. Len(s) \in Typed
  <2> HIDE DEF Typed
  <2>1. 0 .. Len(s) \subseteq Typed
    BY <1>1, <1>9, <1>10, Climb
  <2> QED  BY <1>1, <2>1
<1> QED  BY <1>8, <1>11
------------------------------------------------------------------------------
(* Plumtree: steps. *)

Handler(n) ==
    \/ onView(n) \/ onNeighborUp(n) \/ onNeighborDown(n)
    \/ handleBroadcast(n)
    \/ \E from \in Node : \/ onDuplicateGossip(n, from) \/ onGossip(n, from)
                          \/ onIHave(n, from) \/ onGraft(n, from) \/ onPrune(n, from)
    \/ \E id \in MessageID : onMissingTimeout(n, id)
    \/ flushLazy(n)

\* A step is a handler of a node, or a link that comes or goes.
LEMMA Steps ==
  ASSUME [Next]_vars
  PROVE  \/ \E n \in Node : Handler(n)
         \/ \E a, b \in Node : LinkUp(a, b) \/ LinkDown(a, b)
         \/ UNCHANGED vars
BY DEF Next, Event, Membership, Receive, Handler

\* Broadcasts are only added, by their origin.
LEMMA KnownGrows ==
  ASSUME Inv, [Next]_vars
  PROVE  /\ Known \subseteq Known' /\ GoodMessages \subseteq GoodMessages'
         /\ seq' \in [Node -> 0 .. MaxSeq]
         /\ (\A n \in Node : ~handleBroadcast(n)) => UNCHANGED seq
         /\ \A n \in Node : handleBroadcast(n) =>
               /\ <<n, seq[n] + 1>> \in MessageID \ Known
               /\ Known' = Known \cup {<<n, seq[n] + 1>>}
<1>0. seq \in [Node -> 0 .. MaxSeq] /\ MaxSeq \in Nat
  BY SizeAssumption DEF Inv, ReceiptInv
<1>1. ASSUME NEW n \in Node, handleBroadcast(n)
      PROVE  /\ seq' \in [Node -> 0 .. MaxSeq]
             /\ <<n, seq[n] + 1>> \in MessageID \ Known
             /\ Known' = Known \cup {<<n, seq[n] + 1>>}
  <2>1. /\ seq[n] + 1 \in 1 .. MaxSeq /\ seq[n] \in Nat
        /\ seq' = [seq EXCEPT ![n] = seq[n] + 1]
    BY <1>0, <1>1 DEF handleBroadcast
  <2>2. seq' \in [Node -> 0 .. MaxSeq]
    BY <1>0, <2>1
  <2>3. <<n, seq[n] + 1>> \in MessageID \ Known
    BY <2>1 DEF MessageID, Known
  <2>4. ASSUME NEW id \in MessageID
        PROVE  id[2] <= seq'[id[1]] <=> id[2] <= seq[id[1]] \/ id = <<n, seq[n] + 1>>
    <3>1. /\ id[1] \in Node /\ id[2] \in 1 .. MaxSeq /\ id = <<id[1], id[2]>>
          /\ seq[id[1]] \in Nat
      BY <1>0 DEF MessageID
    <3>2. CASE id[1] = n
      BY <1>0, <2>1, <3>1, <3>2
    <3>3. CASE id[1] # n
      BY <1>0, <2>1, <3>1, <3>3
    <3> QED  BY <3>2, <3>3
  <2>5. Known' = Known \cup {<<n, seq[n] + 1>>}
    BY <2>3, <2>4 DEF Known
  <2> QED  BY <2>2, <2>3, <2>5
<1>2. UNCHANGED seq \/ \E n \in Node : handleBroadcast(n)
  <2>1. ASSUME NEW n \in Node, Handler(n) PROVE UNCHANGED seq \/ handleBroadcast(n)
    BY <2>1 DEF Handler, onView, onNeighborUp, onNeighborDown, onDuplicateGossip, onGossip,
       onIHave, onGraft, onPrune, onMissingTimeout, flushLazy
  <2>2. ASSUME NEW a \in Node, NEW b \in Node, LinkUp(a, b) \/ LinkDown(a, b)
        PROVE  UNCHANGED seq
    BY <2>2 DEF LinkUp, LinkDown
  <2> QED  BY <2>1, <2>2, Steps DEF vars
<1>3. Known \subseteq Known' /\ seq' \in [Node -> 0 .. MaxSeq]
  <2>1. CASE UNCHANGED seq
    BY <1>0, <2>1 DEF Known
  <2> QED  BY <1>1, <1>2, <2>1
<1>4. GoodMessages \subseteq GoodMessages'
  <2> SUFFICES ASSUME NEW m \in GoodMessages PROVE m \in GoodMessages'
    OBVIOUS
  <2>1. m.type = "IHave" => m.ids \in Seq(Known')
    BY <1>3, SeqParts DEF GoodMessages
  <2> QED  BY <1>3, <2>1 DEF GoodMessages, Message, MessageID
<1> QED  BY <1>1, <1>2, <1>3, <1>4

\* A message is taken from the head of a direction of a link of two nodes.
LEMMA TakenGood ==
  ASSUME Inv, NEW n \in Node, NEW from \in Node, net[<<from, n>>] # <<>>
  PROVE  /\ from # n
         /\ Head(net[<<from, n>>]) \in GoodMessages
         /\ Taken(n, from) \in [Node \X Node -> Seq(GoodMessages)]
         /\ \A m \in Node : Taken(n, from)[<<m, m>>] = <<>>
<1>1. net \in [Node \X Node -> Seq(GoodMessages)] /\ \A m \in Node : net[<<m, m>>] = <<>>
  BY DEF Inv, TravelInv
<1>2. from # n /\ net[<<from, n>>] \in Seq(GoodMessages)
  BY <1>1
<1>3. /\ Head(net[<<from, n>>]) \in GoodMessages
      /\ Tail(net[<<from, n>>]) \in Seq(GoodMessages)
  BY <1>2
<1>4. Taken(n, from) = [net EXCEPT ![<<from, n>>] = Tail(net[<<from, n>>])]
  BY DEF Taken
<1>5. \A m \in Node : <<m, m>> # <<from, n>> /\ <<m, m>> \in Node \X Node
  BY <1>2
<1> QED  BY <1>1, <1>2, <1>3, <1>4, <1>5

\* What a node sends goes to others.
LEMMA SentGood ==
  ASSUME Inv, NEW n \in Node, NEW G, NEW q \in [Node \X Node -> Seq(G)],
         \A m \in Node : q[<<m, m>>] = <<>>,
         NEW msgs, \A p \in Node : msgs[p] \in Seq(G)
  PROVE  /\ Sent(q, n, msgs) \in [Node \X Node -> Seq(G)]
         /\ \A m \in Node : Sent(q, n, msgs)[<<m, m>>] = <<>>
<1>1. \A m \in Node : {m} \notin links
  BY DEF Inv, LinkInv
<1>2. ASSUME NEW e \in Node \X Node
      PROVE  (IF e[1] = n /\ {n, e[2]} \in links THEN q[e] \o msgs[e[2]] ELSE q[e]) \in Seq(G)
  <2>1. q[e] \in Seq(G) /\ msgs[e[2]] \in Seq(G)
    OBVIOUS
  <2> QED  BY <2>1
<1>3. Sent(q, n, msgs) \in [Node \X Node -> Seq(G)]
  BY <1>2 DEF Sent
<1>4. ASSUME NEW m \in Node PROVE Sent(q, n, msgs)[<<m, m>>] = <<>>
  <2>1. ~(m = n /\ {n, m} \in links)
    BY <1>1
  <2> QED  BY <2>1 DEF Sent
<1> QED  BY <1>3, <1>4
------------------------------------------------------------------------------
(* Plumtree: links. *)

\* The link sets stay apart when peers other than the node become eager, or one
\* becomes lazy.
LEMMA MakeKeeps ==
  ASSUME Inv, NEW n \in Node,
         \/ \E ps \in SUBSET (Node \ {n}) : MakeEager(n, ps)
         \/ \E p \in Node \ {n} : MakeLazy(n, p)
         \/ \E p \in Node : /\ eager' = [eager EXCEPT ![n] = @ \ {p}]
                            /\ lazy' = [lazy EXCEPT ![n] = @ \ {p}]
         \/ UNCHANGED linkVars
  PROVE  /\ eager' \in [Node -> SUBSET Node] /\ lazy' \in [Node -> SUBSET Node]
         /\ \A m \in Node : eager'[m] \cap lazy'[m] = {} /\ m \notin eager'[m] \cup lazy'[m]
<1>0. /\ eager \in [Node -> SUBSET Node] /\ lazy \in [Node -> SUBSET Node]
      /\ \A m \in Node : eager[m] \cap lazy[m] = {} /\ m \notin eager[m] \cup lazy[m]
  BY DEF Inv, LinkInv
<1>1. ASSUME NEW E \in SUBSET Node, NEW L \in SUBSET Node, E \cap L = {}, n \notin E \cup L,
             eager' = [eager EXCEPT ![n] = E], lazy' = [lazy EXCEPT ![n] = L]
      PROVE  /\ eager' \in [Node -> SUBSET Node] /\ lazy' \in [Node -> SUBSET Node]
             /\ \A m \in Node : eager'[m] \cap lazy'[m] = {} /\ m \notin eager'[m] \cup lazy'[m]
  BY <1>0, <1>1
<1>2. ASSUME NEW ps \in SUBSET (Node \ {n}), MakeEager(n, ps)
      PROVE  \E E, L \in SUBSET Node : /\ E \cap L = {} /\ n \notin E \cup L
                /\ eager' = [eager EXCEPT ![n] = E] /\ lazy' = [lazy EXCEPT ![n] = L]
  <2>1. /\ eager[n] \cup ps \in SUBSET Node /\ lazy[n] \ ps \in SUBSET Node
        /\ (eager[n] \cup ps) \cap (lazy[n] \ ps) = {}
        /\ n \notin (eager[n] \cup ps) \cup (lazy[n] \ ps)
    BY <1>0
  <2> QED  BY <1>2, <2>1 DEF MakeEager
<1>3. ASSUME NEW p \in Node \ {n}, MakeLazy(n, p)
      PROVE  \E E, L \in SUBSET Node : /\ E \cap L = {} /\ n \notin E \cup L
                /\ eager' = [eager EXCEPT ![n] = E] /\ lazy' = [lazy EXCEPT ![n] = L]
  <2>1. /\ eager[n] \ {p} \in SUBSET Node /\ lazy[n] \cup {p} \in SUBSET Node
        /\ (eager[n] \ {p}) \cap (lazy[n] \cup {p}) = {}
        /\ n \notin (eager[n] \ {p}) \cup (lazy[n] \cup {p})
    BY <1>0
  <2> QED  BY <1>3, <2>1 DEF MakeLazy
<1>4. ASSUME NEW p \in Node, eager' = [eager EXCEPT ![n] = @ \ {p}],
             lazy' = [lazy EXCEPT ![n] = @ \ {p}]
      PROVE  \E E, L \in SUBSET Node : /\ E \cap L = {} /\ n \notin E \cup L
                /\ eager' = [eager EXCEPT ![n] = E] /\ lazy' = [lazy EXCEPT ![n] = L]
  <2>1. /\ eager[n] \ {p} \in SUBSET Node /\ lazy[n] \ {p} \in SUBSET Node
        /\ (eager[n] \ {p}) \cap (lazy[n] \ {p}) = {}
        /\ n \notin (eager[n] \ {p}) \cup (lazy[n] \ {p})
    BY <1>0
  <2> QED  BY <1>4, <2>1
<1>5. CASE UNCHANGED linkVars
  BY <1>0, <1>5 DEF linkVars
<1> QED  BY <1>1, <1>2, <1>3, <1>4, <1>5

\* The note that a node handles.
LEMMA NoteTaken ==
  ASSUME Inv, NEW n \in Node, notes[n] # <<>>
  PROVE  /\ Head(notes[n]) \in GoodNotes(n) /\ Head(notes[n]) \in Note
         /\ NoteHandled(n) =>
              /\ notes' \in [Node -> Seq(Note)]
              /\ \A m \in Node : notes'[m] \in Seq(GoodNotes(m))
<1>1. /\ notes \in [Node -> Seq(Note)] /\ \A m \in Node : notes[m] \in Seq(GoodNotes(m))
  BY DEF Inv, LinkInv
<1>2. Head(notes[n]) \in GoodNotes(n) /\ Tail(notes[n]) \in Seq(GoodNotes(n))
  BY <1>1
<1>3. Head(notes[n]) \in Note /\ Tail(notes[n]) \in Seq(Note)
  BY <1>1
<1>4. NoteHandled(n) => notes' = [notes EXCEPT ![n] = Tail(notes[n])]
  BY DEF NoteHandled
<1> QED  BY <1>1, <1>2, <1>3, <1>4

\* Both ends of a link are told of the other.
LEMMA NotedOther ==
  ASSUME Inv, NEW a \in Node, NEW b \in Node, a # b,
         NEW type \in {"NeighborUp", "NeighborDown"}, Notified({a, b}, type)
  PROVE  /\ notes' \in [Node -> Seq(Note)]
         /\ \A m \in Node : notes'[m] \in Seq(GoodNotes(m))
<1>0. \A m \in Node : notes[m] \in Seq(Note) /\ notes[m] \in Seq(GoodNotes(m))
  BY DEF Inv, LinkInv
<1>1. ASSUME NEW m \in Node
      PROVE  notes'[m] \in Seq(Note) /\ notes'[m] \in Seq(GoodNotes(m))
  <2>1. CASE m \notin {a, b}
    BY <1>0, <2>1 DEF Notified
  <2>2. CASE m \in {a, b}
    <3> DEFINE p == CHOOSE p \in {a, b} : p # m
    <3>1. p \in Node /\ p # m
      BY <2>2
    <3> HIDE DEF p
    <3>2. [type |-> type, peer |-> p] \in GoodNotes(m) /\ [type |-> type, peer |-> p] \in Note
      BY <3>1 DEF GoodNotes, Note
    <3>3. notes'[m] = Append(notes[m], [type |-> type, peer |-> p])
      BY <2>2 DEF Notified, p
    <3> QED  BY <1>0, <3>2, <3>3, SeqParts
  <2> QED  BY <2>1, <2>2
<1> QED  BY <1>1 DEF Notified

\* LinkInv is kept.
LEMMA LinkStep ==
  ASSUME Inv, [Next]_vars
  PROVE  LinkInv'
<1> DEFINE Sets == /\ eager' \in [Node -> SUBSET Node] /\ lazy' \in [Node -> SUBSET Node]
                   /\ \A m \in Node : /\ eager'[m] \cap lazy'[m] = {}
                                      /\ m \notin eager'[m] \cup lazy'[m]
           Notices == /\ notes' \in [Node -> Seq(Note)]
                   /\ \A m \in Node : notes'[m] \in Seq(GoodNotes(m))
           Ends == links' \subseteq SUBSET Node /\ \A m \in Node : {m} \notin links'
<1>0. /\ notes \in [Node -> Seq(Note)] /\ \A m \in Node : notes[m] \in Seq(GoodNotes(m))
      /\ links \subseteq SUBSET Node /\ \A m \in Node : {m} \notin links
  BY DEF Inv, LinkInv
<1>1. ASSUME NEW n \in Node, Handler(n) PROVE Sets
  <2> HIDE DEF Sets
  <2>1. ASSUME NEW ps \in SUBSET (Node \ {n}), MakeEager(n, ps) PROVE Sets
    BY <2>1, MakeKeeps DEF Sets
  <2>2. ASSUME NEW p \in Node \ {n}, MakeLazy(n, p) PROVE Sets
    BY <2>2, MakeKeeps DEF Sets
  <2>3. CASE UNCHANGED linkVars
    BY <2>3, MakeKeeps DEF Sets
  <2>4. CASE onView(n)
    <3>1. Head(notes[n]).active \in SUBSET (Node \ {n})
      BY <2>4, NoteTaken DEF onView, Noted, GoodNotes, Note
    <3> QED  BY <2>1, <2>4, <3>1 DEF onView
  <2>5. CASE onNeighborUp(n)
    <3>1. {Head(notes[n]).peer} \in SUBSET (Node \ {n})
      BY <2>5, NoteTaken DEF onNeighborUp, Noted, GoodNotes, Note
    <3> QED  BY <2>1, <2>5, <3>1 DEF onNeighborUp
  <2>6. CASE onNeighborDown(n)
    <3>1. Head(notes[n]).peer \in Node
      BY <2>6, NoteTaken DEF onNeighborDown, Noted, Note
    <3> QED  BY <2>6, <3>1, MakeKeeps DEF onNeighborDown, Sets
  <2>7. CASE handleBroadcast(n) \/ flushLazy(n)
    BY <2>3, <2>7 DEF handleBroadcast, flushLazy
  <2>8. ASSUME NEW from \in Node,
               \/ onDuplicateGossip(n, from) \/ onGossip(n, from)
               \/ onIHave(n, from) \/ onGraft(n, from) \/ onPrune(n, from)
        PROVE  Sets
    <3>1. from # n
      BY <2>8, TakenGood
         DEF onDuplicateGossip, onGossip, onIHave, onGraft, onPrune, Receives
    <3>2. {from} \in SUBSET (Node \ {n})
      BY <3>1
    <3>3. MakeEager(n, {from}) \/ MakeLazy(n, from) \/ UNCHANGED linkVars
      BY <2>8 DEF onDuplicateGossip, onGossip, onIHave, onGraft, onPrune
    <3> QED  BY <2>1, <2>2, <2>3, <3>1, <3>2, <3>3
  <2>9. ASSUME NEW id \in MessageID, onMissingTimeout(n, id) PROVE Sets
    <3>1. missing[n][id] \in Seq(Node \ {n})
      BY DEF Inv, MissingInv
    <3>2. missing[n][id] # <<>> => {Head(missing[n][id])} \in SUBSET (Node \ {n})
      BY <3>1
    <3> QED  BY <2>1, <2>3, <2>9, <3>2 DEF onMissingTimeout
  <2> QED  BY <1>1, <2>4, <2>5, <2>6, <2>7, <2>8, <2>9 DEF Handler
<1>2. ASSUME NEW n \in Node, Handler(n) PROVE Notices /\ UNCHANGED links
  <2>1. CASE onView(n) \/ onNeighborUp(n) \/ onNeighborDown(n)
    BY <2>1, NoteTaken DEF onView, onNeighborUp, onNeighborDown, Noted
  <2>2. CASE UNCHANGED overlayVars
    BY <1>0, <2>2 DEF overlayVars
  <2> QED  BY <1>2, <2>1, <2>2 DEF Handler, handleBroadcast, onDuplicateGossip, onGossip, onIHave,
           onGraft, onPrune, onMissingTimeout, flushLazy
<1>3. ASSUME NEW a \in Node, NEW b \in Node, LinkUp(a, b) \/ LinkDown(a, b)
      PROVE  Sets /\ Notices /\ Ends
  <2>1. UNCHANGED linkVars /\ a # b
    BY <1>3 DEF LinkUp, LinkDown
  <2>2. Sets
    BY <2>1, MakeKeeps
  <2>3. Notices
    BY <1>3, <2>1, NotedOther DEF LinkUp, LinkDown
  <2>4. links' \subseteq links \cup {{a, b}}
    BY <1>3 DEF LinkUp, LinkDown
  <2>5. \A m \in Node : {m} # {a, b}
    BY <2>1
  <2>6. Ends
    <3>1. {a, b} \in SUBSET Node
      OBVIOUS
    <3>2. \A l \in links' : l \in links \/ l = {a, b}
      BY <2>4
    <3>3. \A m \in Node : {m} \notin links'
      BY <1>0, <2>5, <3>2
    <3>4. links' \subseteq SUBSET Node
      BY <1>0, <3>1, <3>2
    <3> QED  BY <3>3, <3>4
  <2> QED  BY <2>2, <2>3, <2>6
<1>4. CASE UNCHANGED vars
  <2>1. UNCHANGED <<linkVars, links, notes>>
    BY <1>4 DEF vars, overlayVars
  <2> QED  BY <2>1 DEF linkVars, Inv, LinkInv, GoodNotes
<1>5. Sets /\ Notices /\ Ends => LinkInv'
  BY DEF LinkInv, GoodNotes
<1>6. UNCHANGED links => Ends
  BY <1>0
<1> HIDE DEF Sets, Notices, Ends
<1> QED  BY <1>1, <1>2, <1>3, <1>4, <1>5, <1>6, Steps
------------------------------------------------------------------------------
(* Plumtree: what travels. *)

\* The messages a node may send.
LEMMA GoodToSend ==
  ASSUME Inv, [Next]_vars
  PROVE  /\ \A id \in Known' : Gossip(id) \in GoodMessages'
         /\ \A id \in MessageID : [type |-> "Graft", id |-> id] \in GoodMessages'
         /\ [type |-> "Prune"] \in GoodMessages'
         /\ \A ids \in Seq(Known') : [type |-> "IHave", ids |-> ids] \in GoodMessages'
<1>1. Known' \subseteq MessageID
  BY DEF Known, MessageID
<1>2. \A ids \in Seq(Known') : ids \in Seq(MessageID)
  BY <1>1, SeqParts
<1> QED  BY <1>1, <1>2 DEF GoodMessages, Gossip, Message, MessageID

\* The queues between nodes and those of announcements, once more.
Travels ==
    /\ net' \in [Node \X Node -> Seq(GoodMessages')]
    /\ \A m \in Node : net'[<<m, m>>] = <<>>

\* A node sends good messages after it has taken one, or none.
LEMMA SentStep ==
  ASSUME Inv, [Next]_vars, NEW n \in Node, NEW q \in [Node \X Node -> Seq(GoodMessages)],
         \A m \in Node : q[<<m, m>>] = <<>>,
         NEW msgs, \A p \in Node : msgs[p] \in Seq(GoodMessages')
  PROVE  net' = Sent(q, n, msgs) \/ net' = q => Travels
<1>1. q \in [Node \X Node -> Seq(GoodMessages')]
  <2>1. \A e \in Node \X Node : q[e] \in Seq(GoodMessages')
    BY KnownGrows, SeqParts
  <2> QED  BY <2>1
<1> DEFINE G == GoodMessages'
<1>2. /\ Sent(q, n, msgs) \in [Node \X Node -> Seq(G)]
      /\ \A m \in Node : Sent(q, n, msgs)[<<m, m>>] = <<>>
  <2>1. q \in [Node \X Node -> Seq(G)] /\ \A p \in Node : msgs[p] \in Seq(G)
    BY <1>1
  <2> HIDE DEF G
  <2> QED  BY ZenonT(40), <2>1, SentGood
<1> QED  BY <1>1, <1>2 DEF Travels

\* Messages for one peer, or for all peers of a set.
LEMMA ForPeers ==
  ASSUME NEW G, NEW m \in G
  PROVE  /\ \A q : \A p \in Node : To(q, m)[p] \in Seq(G)
         /\ \A hosts, except : \A p \in Node :
               [r \in Node |-> IF r \in hosts \ {except} THEN <<m>> ELSE <<>>][p] \in Seq(G)
BY Short DEF To

\* A message reaches a node only with good content, and what it sends is good.
LEMMA NetStep ==
  ASSUME Inv, [Next]_vars
  PROVE  Travels
<1>0. /\ net \in [Node \X Node -> Seq(GoodMessages)] /\ \A m \in Node : net[<<m, m>>] = <<>>
  BY DEF Inv, TravelInv
<1>1. CASE UNCHANGED net
  <2>1. \A e \in Node \X Node : net[e] \in Seq(GoodMessages')
    BY <1>0, KnownGrows, SeqParts
  <2> QED  BY <1>0, <1>1, <2>1 DEF Travels
<1>2. ASSUME NEW n \in Node, handleBroadcast(n) PROVE Travels
  <2>1. <<n, seq[n] + 1>> \in Known'
    BY <1>2, KnownGrows
  <2>2. \A p \in Node : eagerPush(<<n, seq[n] + 1>>, eager[n], n)[p] \in Seq(GoodMessages')
    BY <2>1, GoodToSend, ForPeers DEF eagerPush
  <2>3. net' = Sent(net, n, eagerPush(<<n, seq[n] + 1>>, eager[n], n))
    BY <1>2 DEF handleBroadcast
  <2> QED  BY <1>0, <2>2, <2>3, SentStep
<1>3. ASSUME NEW n \in Node, NEW from \in Node, net[<<from, n>>] # <<>>,
             NEW msgs, \A p \in Node : msgs[p] \in Seq(GoodMessages'),
             net' = Sent(Taken(n, from), n, msgs) \/ net' = Taken(n, from)
      PROVE  Travels
  BY <1>3, TakenGood, SentStep
<1>4. ASSUME NEW n \in Node, NEW from \in Node,
             \/ onDuplicateGossip(n, from) \/ onGossip(n, from)
             \/ onIHave(n, from) \/ onGraft(n, from) \/ onPrune(n, from)
      PROVE  Travels
  <2> DEFINE head == Head(net[<<from, n>>])
  <2>1. net[<<from, n>>] # <<>>
    BY <1>4 DEF onDuplicateGossip, onGossip, onIHave, onGraft, onPrune, Receives
  <2>2. CASE onDuplicateGossip(n, from)
    <3>1. \A p \in Node : To(from, [type |-> "Prune"])[p] \in Seq(GoodMessages')
      BY GoodToSend, ForPeers
    <3> QED  BY <1>3, <2>1, <2>2, <3>1 DEF onDuplicateGossip
  <2>3. CASE onGossip(n, from)
    <3>1. head.id \in Known'
      BY <2>1, <2>3, TakenGood, KnownGrows DEF onGossip, Receives, GoodMessages
    <3>2. \A p \in Node : eagerPush(head.id, eager'[n], from)[p] \in Seq(GoodMessages')
      BY <3>1, GoodToSend, ForPeers DEF eagerPush
    <3> QED  BY <1>3, <2>1, <2>3, <3>2 DEF onGossip
  <2>4. CASE onGraft(n, from)
    <3>1. CASE head.id \in {cache[n][i] : i \in 1 .. Len(cache[n])}
      <4>1. cache[n] \in Seq(Known)
        BY DEF Inv, ReceiptInv
      <4>2. head.id \in Known'
        <5>1. \A i \in 1 .. Len(cache[n]) : cache[n][i] \in Known
          BY <4>1
        <5>2. head.id \in Known
          BY <3>1, <5>1
        <5> QED  BY <5>2, KnownGrows
      <4>3. \A p \in Node : To(from, Gossip(head.id))[p] \in Seq(GoodMessages')
        BY <4>2, GoodToSend, ForPeers
      <4> QED  BY <1>3, <2>1, <2>4, <3>1, <4>3 DEF onGraft
    <3>2. CASE head.id \notin {cache[n][i] : i \in 1 .. Len(cache[n])}
      <4>1. \A p \in Node : [q \in Node |-> <<>>][p] \in Seq(GoodMessages')
        BY Short
      <4> QED  BY <1>3, <2>1, <2>4, <3>2, <4>1 DEF onGraft
    <3> QED  BY <3>1, <3>2
  <2>5. CASE onIHave(n, from) \/ onPrune(n, from)
    <3>1. \A p \in Node : [q \in Node |-> <<>>][p] \in Seq(GoodMessages')
      BY Short
    <3> QED  BY <1>3, <2>1, <2>5, <3>1 DEF onIHave, onPrune
  <2> QED  BY <1>4, <2>2, <2>3, <2>4, <2>5
<1>5. ASSUME NEW n \in Node, NEW id \in MessageID, onMissingTimeout(n, id) PROVE Travels
  <2>1. \A q : \A p \in Node : To(q, [type |-> "Graft", id |-> id])[p] \in Seq(GoodMessages')
    BY GoodToSend, ForPeers
  <2> QED  BY <1>0, <1>1, <1>5, <2>1, SentStep DEF onMissingTimeout
<1>6. ASSUME NEW n \in Node, flushLazy(n) PROVE Travels
  <2> DEFINE msgs == [p \in Node |-> IF lazyQueue[n][p] = <<>> THEN <<>>
                                     ELSE <<[type |-> "IHave", ids |-> lazyQueue[n][p]]>>]
  <2>1. ASSUME NEW p \in Node PROVE msgs[p] \in Seq(GoodMessages')
    <3>1. lazyQueue[n][p] \in Seq(Known')
      BY KnownGrows, SeqParts DEF Inv, TravelInv
    <3>2. [type |-> "IHave", ids |-> lazyQueue[n][p]] \in GoodMessages'
      BY <3>1, GoodToSend
    <3> QED  BY <3>2, Short
  <2>2. net' = Sent(net, n, msgs)
    BY <1>6 DEF flushLazy
  <2> HIDE DEF msgs
  <2> QED  BY <1>0, <2>1, <2>2, SentStep
<1>7. ASSUME NEW a \in Node, NEW b \in Node, LinkDown(a, b) PROVE Travels
  <2>1. a # b
    BY <1>7 DEF LinkDown
  <2>2. PICK i \in 0 .. Len(net[<<a, b>>]), j \in 0 .. Len(net[<<b, a>>]) :
           net' = [net EXCEPT ![<<a, b>>] = SubSeq(@, 1, i), ![<<b, a>>] = SubSeq(@, 1, j)]
    BY <1>7 DEF LinkDown
  <2>3. \A e \in Node \X Node : net[e] \in Seq(GoodMessages')
    BY <1>0, KnownGrows, SeqParts
  <2>4. /\ SubSeq(net[<<a, b>>], 1, i) \in Seq(GoodMessages')
        /\ SubSeq(net[<<b, a>>], 1, j) \in Seq(GoodMessages')
    BY <2>3
  <2>5. <<a, b>> # <<b, a>>
    BY <2>1
  <2>6. net' = [net EXCEPT ![<<a, b>>] = SubSeq(net[<<a, b>>], 1, i),
                           ![<<b, a>>] = SubSeq(net[<<b, a>>], 1, j)]
    BY <1>0, <2>2, <2>5
  <2>7. \A e \in Node \X Node : net'[e] \in Seq(GoodMessages')
    BY <1>0, <2>3, <2>4, <2>6
  <2>8. \A m \in Node : net'[<<m, m>>] = net[<<m, m>>]
    BY <1>0, <2>1, <2>6
  <2>9. net' = [e \in Node \X Node |-> net'[e]]
    BY <1>0, <2>6
  <2> QED  BY <1>0, <2>7, <2>8, <2>9 DEF Travels
<1>8. ASSUME NEW n \in Node, Handler(n) PROVE Travels
  <2>1. CASE onView(n) \/ onNeighborUp(n) \/ onNeighborDown(n)
    BY <1>1, <2>1 DEF onView, onNeighborUp, onNeighborDown
  <2> QED  BY <1>2, <1>4, <1>5, <1>6, <1>8, <2>1 DEF Handler
<1>9. ASSUME NEW a \in Node, NEW b \in Node, LinkUp(a, b) PROVE Travels
  BY <1>1, <1>9 DEF LinkUp
<1> QED  BY <1>1, <1>7, <1>8, <1>9, Steps DEF vars

\* Announcements are queued of messages that were broadcast.
LEMMA QueueStep ==
  ASSUME Inv, [Next]_vars
  PROVE  lazyQueue' \in [Node -> [Node -> Seq(Known')]]
<1>0. /\ lazyQueue \in [Node -> [Node -> Seq(Known)]]
      /\ Known \subseteq Known'
  BY KnownGrows DEF Inv, TravelInv
<1>1. lazyQueue \in [Node -> [Node -> Seq(Known')]]
  <2>1. \A n, p \in Node : lazyQueue[n][p] \in Seq(Known')
    BY <1>0, SeqParts
  <2> QED  BY <1>0, <2>1
<1>2. ASSUME NEW n \in Node, NEW id \in Known', NEW hosts, NEW except,
             lazyPush(n, id, hosts, except)
      PROVE  lazyQueue' \in [Node -> [Node -> Seq(Known')]]
  <2>1. \A p \in Node : Append(lazyQueue[n][p], id) \in Seq(Known')
    BY <1>1
  <2>2. [p \in Node |-> IF p \in hosts \ {except} THEN Append(lazyQueue[n][p], id)
                        ELSE lazyQueue[n][p]] \in [Node -> Seq(Known')]
    BY <1>1, <2>1
  <2>3. lazyQueue' = [lazyQueue EXCEPT ![n] =
           [p \in Node |-> IF p \in hosts \ {except} THEN Append(lazyQueue[n][p], id)
                           ELSE lazyQueue[n][p]]]
    BY <1>2 DEF lazyPush
  <2> QED  BY <1>1, <2>2, <2>3
<1>3. ASSUME NEW n \in Node, handleBroadcast(n)
      PROVE  lazyQueue' \in [Node -> [Node -> Seq(Known')]]
  BY <1>2, <1>3, KnownGrows DEF handleBroadcast
<1>4. ASSUME NEW n \in Node, NEW from \in Node, onGossip(n, from)
      PROVE  lazyQueue' \in [Node -> [Node -> Seq(Known')]]
  <2>1. Head(net[<<from, n>>]).id \in Known'
    BY <1>0, <1>4, TakenGood DEF onGossip, Receives, GoodMessages
  <2> QED  BY <1>2, <1>4, <2>1 DEF onGossip
<1>5. ASSUME NEW n \in Node, flushLazy(n)
      PROVE  lazyQueue' \in [Node -> [Node -> Seq(Known')]]
  <2>1. [p \in Node |-> <<>>] \in [Node -> Seq(Known')]
    BY Short
  <2> QED  BY <1>1, <1>5, <2>1 DEF flushLazy
<1>6. ASSUME NEW n \in Node, onNeighborDown(n)
      PROVE  lazyQueue' \in [Node -> [Node -> Seq(Known')]]
  <2>1. lazyQueue' = [lazyQueue EXCEPT ![n][Head(notes[n]).peer] = <<>>]
    BY <1>6 DEF onNeighborDown
  <2>2. lazyQueue' = [lazyQueue EXCEPT ![n] = [@ EXCEPT ![Head(notes[n]).peer] = <<>>]]
    BY <2>1
  <2>3. <<>> \in Seq(Known') /\ lazyQueue[n] \in [Node -> Seq(Known')]
    BY <1>1, Short
  <2>4. [lazyQueue[n] EXCEPT ![Head(notes[n]).peer] = <<>>] \in [Node -> Seq(Known')]
    BY <2>3
  <2> QED  BY <1>1, <2>2, <2>4
<1>7. ASSUME NEW n \in Node, Handler(n)
      PROVE  lazyQueue' \in [Node -> [Node -> Seq(Known')]]
  <2>1. CASE UNCHANGED lazyQueue
    BY <1>1, <2>1
  <2> QED  BY <1>3, <1>4, <1>5, <1>6, <1>7, <2>1
           DEF Handler, onView, onNeighborUp, onDuplicateGossip, onIHave, onGraft, onPrune,
               onMissingTimeout
<1>8. ASSUME NEW a \in Node, NEW b \in Node, LinkUp(a, b) \/ LinkDown(a, b)
      PROVE  UNCHANGED lazyQueue
  BY <1>8 DEF LinkUp, LinkDown
<1> QED  BY <1>1, <1>7, <1>8, Steps DEF vars

\* TravelInv is kept.
LEMMA TravelStep ==
  ASSUME Inv, [Next]_vars
  PROVE  TravelInv'
BY NetStep, QueueStep DEF TravelInv, Travels
------------------------------------------------------------------------------
(* Plumtree: what nodes deliver. *)

\* A node delivers at most one message in a step: its own new one, or one it
\* was sent and has not received.
LEMMA Deliveries ==
  ASSUME Inv, [Next]_vars
  PROVE  \/ UNCHANGED messageVars
         \/ \E n \in Node, id \in Known' : Deliver(n, id) /\ id \notin received[n]
<1>1. ASSUME NEW n \in Node, handleBroadcast(n)
      PROVE  \E id \in Known' : Deliver(n, id) /\ id \notin received[n]
  <2>1. <<n, seq[n] + 1>> \in Known' \ Known
    BY <1>1, KnownGrows
  <2>2. received[n] \subseteq Known
    BY DEF Inv, ReceiptInv
  <2> QED  BY <1>1, <2>1, <2>2 DEF handleBroadcast
<1>2. ASSUME NEW n \in Node, NEW from \in Node, onGossip(n, from)
      PROVE  \E id \in Known' : Deliver(n, id) /\ id \notin received[n]
  <2>1. Head(net[<<from, n>>]).id \in Known'
    BY <1>2, TakenGood, KnownGrows DEF onGossip, Receives, GoodMessages
  <2> QED  BY <1>2, <2>1 DEF onGossip, Seen
<1>3. ASSUME NEW n \in Node, Handler(n)
      PROVE  UNCHANGED messageVars \/ \E id \in Known' : Deliver(n, id) /\ id \notin received[n]
  BY <1>1, <1>2, <1>3 DEF Handler, onView, onNeighborUp, onNeighborDown, onDuplicateGossip,
     onIHave, onGraft, onPrune, onMissingTimeout, flushLazy
<1>4. ASSUME NEW a \in Node, NEW b \in Node, LinkUp(a, b) \/ LinkDown(a, b)
      PROVE  UNCHANGED messageVars
  BY <1>4 DEF LinkUp, LinkDown
<1> QED  BY <1>3, <1>4, Steps DEF vars

\* The size of the cache is configuration.
LEMMA CacheSizeStays == [Next]_vars => UNCHANGED cacheSize
<1>1. ASSUME NEW n \in Node, Handler(n) PROVE UNCHANGED cacheSize
  BY <1>1 DEF Handler, onView, onNeighborUp, onNeighborDown, handleBroadcast,
     onDuplicateGossip, onGossip, onIHave, onGraft, onPrune, onMissingTimeout, flushLazy
<1>2. ASSUME NEW a \in Node, NEW b \in Node, LinkUp(a, b) \/ LinkDown(a, b)
      PROVE  UNCHANGED cacheSize
  BY <1>2 DEF LinkUp, LinkDown
<1> QED  BY <1>1, <1>2, Steps DEF vars

\* ReceiptInv is kept.
LEMMA ReceiptStep ==
  ASSUME Inv, [Next]_vars
  PROVE  ReceiptInv'
<1>0. /\ received \in [Node -> SUBSET Known] /\ delivered \in [Node -> Seq(MessageID)]
      /\ \A n \in Node : received[n] = {delivered[n][i] : i \in 1 .. Len(delivered[n])}
      /\ cache \in [Node -> Seq(Known)]
      /\ \A n \in Node : Len(cache[n]) <= cacheSize
      /\ cacheSize \in CacheSizes /\ cacheSize \in Nat \ {0} /\ Known \subseteq Known'
      /\ Known' \subseteq MessageID
  BY SizeAssumption, KnownGrows DEF Inv, ReceiptInv, Known, MessageID
<1>1. cacheSize' = cacheSize /\ seq' \in [Node -> 0 .. MaxSeq]
  BY CacheSizeStays, KnownGrows
<1>2. cache \in [Node -> Seq(Known')] /\ received \in [Node -> SUBSET Known']
  <2>1. \A n \in Node : cache[n] \in Seq(Known')
    BY <1>0, SeqParts
  <2> QED  BY <1>0, <2>1
<1>3. CASE UNCHANGED messageVars
  BY <1>0, <1>1, <1>2, <1>3 DEF messageVars, ReceiptInv
<1>4. ASSUME NEW n \in Node, NEW id \in Known', Deliver(n, id) PROVE ReceiptInv'
  <2>1. delivered' \in [Node -> Seq(MessageID)] /\ received' \in [Node -> SUBSET Known']
    BY <1>0, <1>2, <1>4 DEF Deliver
  <2>2. ASSUME NEW m \in Node
        PROVE  received'[m] = {delivered'[m][i] : i \in 1 .. Len(delivered'[m])}
    <3>1. CASE m # n
      BY <1>0, <1>4, <3>1 DEF Deliver
    <3>2. CASE m = n
      <4>1. delivered[n] \in Seq(MessageID) /\ delivered'[n] = Append(delivered[n], id)
        BY <1>0, <1>4 DEF Deliver
      <4>2. /\ Len(delivered'[n]) = Len(delivered[n]) + 1 /\ Len(delivered[n]) \in Nat
            /\ delivered'[n][Len(delivered[n]) + 1] = id
            /\ \A i \in 1 .. Len(delivered[n]) : delivered'[n][i] = delivered[n][i]
        BY <1>0, <4>1
      <4>3. {delivered'[n][i] : i \in 1 .. Len(delivered'[n])}
               = {delivered[n][i] : i \in 1 .. Len(delivered[n])} \cup {id}
        <5>1. 1 .. Len(delivered'[n]) = (1 .. Len(delivered[n])) \cup {Len(delivered[n]) + 1}
          BY <4>2
        <5> QED  BY <4>2, <5>1
      <4>4. received'[n] = received[n] \cup {id}
        BY <1>0, <1>4 DEF Deliver
      <4>5. received[n] = {delivered[n][i] : i \in 1 .. Len(delivered[n])}
        BY <1>0
      <4>6. received'[n] = {delivered'[n][i] : i \in 1 .. Len(delivered'[n])}
        BY ONLY <4>3, <4>4, <4>5
      <4> QED  BY <3>2, <4>6
    <3> QED  BY <3>1, <3>2
  <2>3. put(cache[n], id) \in Seq(Known') /\ Len(put(cache[n], id)) <= cacheSize
    <3>1. /\ cache[n] \in Seq(Known') /\ Len(cache[n]) <= cacheSize /\ Len(cache[n]) \in Nat
      BY <1>0, <1>2
    <3>2. /\ Append(cache[n], id) \in Seq(Known') /\ Append(cache[n], id) # <<>>
          /\ Len(Append(cache[n], id)) = Len(cache[n]) + 1
      BY <3>1
    <3>3. /\ Tail(Append(cache[n], id)) \in Seq(Known')
          /\ Len(Tail(Append(cache[n], id))) = Len(cache[n])
      BY <3>1, <3>2
    <3> QED  BY <1>0, <3>1, <3>2, <3>3 DEF put
  <2>4. cache' = [cache EXCEPT ![n] = put(cache[n], id)]
    BY <1>4 DEF Deliver
  <2>5. cache' \in [Node -> Seq(Known')] /\ \A m \in Node : Len(cache'[m]) <= cacheSize
    BY <1>0, <1>2, <2>3, <2>4
  <2> QED  BY <1>0, <1>1, <2>1, <2>2, <2>5 DEF ReceiptInv
<1> QED  BY <1>3, <1>4, Deliveries
------------------------------------------------------------------------------
(* Plumtree: what is missing. *)

\* The announcements of one node are replaced by good ones.
LEMMA MissingOf ==
  ASSUME Inv, [Next]_vars, NEW n \in Node,
         NEW M \in [MessageID -> Seq(Node \ {n})], NEW T \in SUBSET MessageID, NEW R,
         missing' = [missing EXCEPT ![n] = M], timers' = [timers EXCEPT ![n] = T],
         received' = [received EXCEPT ![n] = R],
         \A id \in MessageID : M[id] # <<>> => id \in T /\ id \in Known' \ R
  PROVE  MissingInv'
<1>0. /\ missing \in [Node -> [MessageID -> Seq(Node)]]
      /\ timers \in [Node -> SUBSET MessageID]
      /\ received \in [Node -> SUBSET Known] /\ Known \subseteq Known'
      /\ \A m \in Node, id \in MessageID :
            /\ missing[m][id] \in Seq(Node \ {m})
            /\ missing[m][id] # <<>> => id \in timers[m] /\ id \in Known \ received[m]
  BY KnownGrows DEF Inv, MissingInv, ReceiptInv
<1>1. \A id \in MessageID : M[id] \in Seq(Node)
  BY SeqParts
<1>2. M \in [MessageID -> Seq(Node)]
  BY <1>1
<1>3. /\ missing' \in [Node -> [MessageID -> Seq(Node)]]
      /\ timers' \in [Node -> SUBSET MessageID]
  BY <1>0, <1>2
<1>4. ASSUME NEW m \in Node, NEW id \in MessageID
      PROVE  /\ missing'[m][id] \in Seq(Node \ {m})
             /\ missing'[m][id] # <<>> => id \in timers'[m] /\ id \in Known' \ received'[m]
  <2>1. CASE m = n
    <3>1. missing'[m] = M /\ timers'[m] = T /\ received'[m] = R
      BY <1>0, <2>1
    <3> QED  BY <2>1, <3>1
  <2>2. CASE m # n
    <3>1. missing'[m] = missing[m] /\ timers'[m] = timers[m] /\ received'[m] = received[m]
      BY <1>0, <2>2
    <3> QED  BY <1>0, <3>1
  <2> QED  BY <2>1, <2>2
<1> QED  BY <1>3, <1>4 DEF MissingInv

\* MissingInv is kept.
LEMMA MissingStep ==
  ASSUME Inv, [Next]_vars
  PROVE  MissingInv'
<1>0. /\ missing \in [Node -> [MessageID -> Seq(Node)]]
      /\ timers \in [Node -> SUBSET MessageID]
      /\ received \in [Node -> SUBSET Known] /\ Known \subseteq Known'
  BY KnownGrows DEF Inv, MissingInv, ReceiptInv
<1>1. \A m \in Node, id \in MessageID :
         /\ missing[m][id] \in Seq(Node \ {m})
         /\ missing[m][id] # <<>> => id \in timers[m] /\ id \in Known \ received[m]
  BY DEF Inv, MissingInv
<1>2. ASSUME NEW n \in Node, NEW ids \in SUBSET MessageID, NEW R,
             cancelMissing(n, ids), received' = [received EXCEPT ![n] = R],
             R \subseteq received[n] \cup ids
      PROVE  MissingInv'
  <2> DEFINE M == [id \in MessageID |-> IF id \in ids THEN <<>> ELSE missing[n][id]]
             T == timers[n] \ ids
  <2>1. M \in [MessageID -> Seq(Node \ {n})]
    BY <1>1, Short
  <2>2. T \in SUBSET MessageID
    BY <1>0
  <2>3. missing' = [missing EXCEPT ![n] = M] /\ timers' = [timers EXCEPT ![n] = T]
    BY <1>0, <1>2 DEF cancelMissing
  <2>4. ASSUME NEW id \in MessageID, M[id] # <<>> PROVE id \in T /\ id \in Known' \ R
    BY <1>0, <1>1, <1>2, <2>4
  <2> HIDE DEF M, T
  <2> QED  BY <1>2, <2>1, <2>2, <2>3, <2>4, MissingOf
<1>3. CASE UNCHANGED <<missingVars, received>>
  BY <1>0, <1>1, <1>3 DEF missingVars, MissingInv
<1>4. ASSUME NEW n \in Node, onNeighborDown(n) PROVE MissingInv'
  <2> DEFINE peer == Head(notes[n]).peer
             M == [id \in MessageID |-> Without(missing[n][id], peer)]
             T == {id \in timers[n] : Without(missing[n][id], peer) # <<>>}
  <2>1. \A id \in MessageID : Without(missing[n][id], peer) \in Seq(Node \ {n})
    BY <1>1, WithoutType
  <2>2. M \in [MessageID -> Seq(Node \ {n})] /\ T \in SUBSET MessageID
    BY <1>0, <2>1
  <2>3. missing' = [missing EXCEPT ![n] = M] /\ timers' = [timers EXCEPT ![n] = T]
    BY <1>4 DEF onNeighborDown, DropAnnouncer
  <2>4. received' = [received EXCEPT ![n] = received[n]]
    BY <1>0, <1>4 DEF onNeighborDown, messageVars
  <2>5. ASSUME NEW id \in MessageID, M[id] # <<>>
        PROVE  id \in T /\ id \in Known' \ received[n]
    <3>1. Without(missing[n][id], peer) # <<>>
      BY <2>5
    <3>2. missing[n][id] # <<>>
      <4>1. Without(<<>>, peer) = <<>>
        <5>1. <<>> \in Seq({})
          BY Short
        <5>2. Without(<<>>, peer) \in Seq({})
          BY <5>1, WithoutType
        <5> QED  BY <5>2
      <4> QED  BY <3>1, <4>1
    <3> QED  BY <1>0, <1>1, <3>1, <3>2
  <2> HIDE DEF M, T
  <2> QED  BY <2>2, <2>3, <2>4, <2>5, MissingOf
<1>5. ASSUME NEW n \in Node, handleBroadcast(n) PROVE MissingInv'
  <2> DEFINE new == <<n, seq[n] + 1>>
  <2>1. new \in MessageID \ Known
    BY <1>5, KnownGrows
  <2>2. received' = [received EXCEPT ![n] = received[n] \cup {new}]
    BY <1>5 DEF handleBroadcast, Deliver
  <2>3. /\ missing' = [missing EXCEPT ![n] = missing[n]]
        /\ timers' = [timers EXCEPT ![n] = timers[n]]
    BY <1>0, <1>5 DEF handleBroadcast, missingVars
  <2>4. missing[n] \in [MessageID -> Seq(Node \ {n})] /\ timers[n] \in SUBSET MessageID
    BY <1>0, <1>1
  <2>5. ASSUME NEW id \in MessageID, missing[n][id] # <<>>
        PROVE  id \in timers[n] /\ id \in Known' \ (received[n] \cup {new})
    <3> HIDE DEF new
    <3> QED  BY <1>0, <1>1, <2>1, <2>5
  <2> HIDE DEF new
  <2> QED  BY <2>2, <2>3, <2>4, <2>5, MissingOf
<1>6. ASSUME NEW n \in Node, NEW from \in Node, onGossip(n, from) PROVE MissingInv'
  <2> DEFINE id == Head(net[<<from, n>>]).id
  <2>1. id \in Known
    BY <1>6, TakenGood DEF onGossip, Receives, GoodMessages
  <2>2. {id} \in SUBSET MessageID
    BY <2>1 DEF Known
  <2>3. /\ received' = [received EXCEPT ![n] = received[n] \cup {id}]
        /\ cancelMissing(n, {id})
    BY <1>6 DEF onGossip, Deliver
  <2> HIDE DEF id
  <2> QED  BY <1>2, <2>2, <2>3
<1>7. ASSUME NEW n \in Node, NEW from \in Node, onIHave(n, from) PROVE MissingInv'
  <2> DEFINE ids == Head(net[<<from, n>>]).ids
             fresh(id) == {i \in 1 .. Len(ids) : ids[i] = id /\ id \notin received[n]}
             more(id) == [i \in 1 .. Cardinality(fresh(id)) |-> from]
             M == [id \in MessageID |-> missing[n][id] \o more(id)]
             T == timers[n] \cup {id \in MessageID : fresh(id) # {}}
  <2>1. ids \in Seq(Known) /\ from \in Node \ {n}
    BY <1>7, TakenGood DEF onIHave, Receives, GoodMessages
  <2>2. Len(ids) \in Nat /\ \A i \in 1 .. Len(ids) : ids[i] \in Known
    BY <2>1
  <2>3. \A id : Cardinality(fresh(id)) \in Nat /\ (fresh(id) = {} => Cardinality(fresh(id)) = 0)
    <3> HIDE DEF ids
    <3>1. IsFiniteSet(1 .. Len(ids))
      BY <2>2, FS_Interval
    <3>2. \A id : IsFiniteSet(fresh(id))
      BY <3>1, FS_Subset
    <3> HIDE DEF fresh
    <3> QED  BY <3>2, FS_CardinalityType, FS_EmptySet
  <2>4. \A id : more(id) \in Seq(Node \ {n}) /\ (fresh(id) = {} => more(id) = <<>>)
    <3> HIDE DEF ids, fresh
    <3> QED  BY <2>1, <2>3
  <2>5. M \in [MessageID -> Seq(Node \ {n})] /\ T \in SUBSET MessageID
    <3>1. \A id \in MessageID : missing[n][id] \o more(id) \in Seq(Node \ {n})
      <4> HIDE DEF ids, fresh, more
      <4> QED  BY <1>1, <2>4, SeqParts
    <3>2. T \in SUBSET MessageID
      BY <1>0
    <3> HIDE DEF ids, fresh, more
    <3> QED  BY <3>1, <3>2
  <2>6. missing' = [missing EXCEPT ![n] = M] /\ timers' = [timers EXCEPT ![n] = T]
    BY <1>7 DEF onIHave
  <2>7. received' = [received EXCEPT ![n] = received[n]]
    BY <1>0, <1>7 DEF onIHave, messageVars
  <2>8. ASSUME NEW id \in MessageID, M[id] # <<>>
        PROVE  id \in T /\ id \in Known' \ received[n]
    <3>1. CASE fresh(id) = {}
      <4>1. M[id] = missing[n][id]
        <5>1. M[id] = missing[n][id] \o more(id)
          OBVIOUS
        <5>2. more(id) = <<>>
          BY <2>4, <3>1
        <5>3. missing[n][id] \o <<>> = missing[n][id]
          BY <1>1
        <5> QED  BY ONLY <5>1, <5>2, <5>3
      <4> HIDE DEF M, fresh
      <4> QED  BY <1>0, <1>1, <2>8, <4>1
    <3>2. CASE fresh(id) # {}
      <4>1. id \notin received[n] /\ id \in Known
        <5> HIDE DEF ids, M, T
        <5> QED  BY <2>2, <3>2
      <4>2. id \in T
        BY <3>2
      <4> QED  BY <1>0, <4>1, <4>2
    <3> QED  BY <3>1, <3>2
  <2> HIDE DEF M, T
  <2> QED  BY <2>5, <2>6, <2>7, <2>8, MissingOf
<1>8. ASSUME NEW n \in Node, NEW id \in MessageID, onMissingTimeout(n, id) PROVE MissingInv'
  <2>1. received' = [received EXCEPT ![n] = received[n]]
    BY <1>0, <1>8 DEF onMissingTimeout, messageVars
  <2>2. CASE cancelMissing(n, {id})
    BY <1>2, <2>1, <2>2
  <2>3. CASE /\ missing[n][id] # <<>> /\ UNCHANGED timers
             /\ missing' = [missing EXCEPT ![n][id] = Tail(missing[n][id])]
    <3> DEFINE M == [missing[n] EXCEPT ![id] = Tail(missing[n][id])]
    <3>1. /\ missing[n] \in [MessageID -> Seq(Node \ {n})]
          /\ Tail(missing[n][id]) \in Seq(Node \ {n})
      <4>1. missing[n] \in [MessageID -> Seq(Node \ {n})]
        BY <1>0, <1>1
      <4>2. missing[n][id] \in Seq(Node \ {n}) /\ missing[n][id] # <<>>
        BY <2>3, <4>1
      <4> QED  BY <4>1, <4>2, SeqParts
    <3>2. M \in [MessageID -> Seq(Node \ {n})]
      BY <3>1
    <3>3. /\ missing' = [missing EXCEPT ![n] = M]
          /\ timers' = [timers EXCEPT ![n] = timers[n]] /\ timers[n] \in SUBSET MessageID
      BY <1>0, <2>3
    <3>4. \A x \in MessageID : M[x] # <<>> => missing[n][x] # <<>>
      BY <2>3, <3>1
    <3>5. \A x \in MessageID : M[x] # <<>> => x \in timers[n] /\ x \in Known' \ received[n]
      BY <1>0, <1>1, <3>4
    <3> HIDE DEF M
    <3> QED  BY <2>1, <3>2, <3>3, <3>5, MissingOf
  <2> QED  BY <1>8, <2>2, <2>3 DEF onMissingTimeout
<1>9. ASSUME NEW n \in Node, Handler(n) PROVE MissingInv'
  <2>1. ASSUME \/ onView(n) \/ onNeighborUp(n) \/ flushLazy(n)
               \/ \E from \in Node : \/ onDuplicateGossip(n, from) \/ onGraft(n, from)
                                     \/ onPrune(n, from)
        PROVE  UNCHANGED <<missingVars, received>>
    BY <2>1 DEF onView, onNeighborUp, flushLazy, onDuplicateGossip, onGraft, onPrune, messageVars
  <2> QED  BY <1>3, <1>4, <1>5, <1>6, <1>7, <1>8, <1>9, <2>1 DEF Handler
<1>10. ASSUME NEW a \in Node, NEW b \in Node, LinkUp(a, b) \/ LinkDown(a, b)
       PROVE  UNCHANGED <<missingVars, received>>
  BY <1>10 DEF LinkUp, LinkDown, messageVars
<1> QED  BY <1>3, <1>9, <1>10, Steps DEF vars, messageVars
------------------------------------------------------------------------------
(* Plumtree: the theorems. *)

\* It holds when the nodes have started.
LEMMA InvInit == Init => Inv
<1> SUFFICES ASSUME Init PROVE Inv
  OBVIOUS
<1>0. Booted /\ links \in SUBSET {l \in SUBSET Node : Cardinality(l) = 2}
  BY DEF Init
<1>1. \A n \in Node : {n} \notin links
  <2>1. \A n \in Node : Cardinality({n}) = 1
    BY FS_Singleton
  <2> QED  BY <1>0, <2>1
<1>2. \A n \in Node : notes[n] \in Seq(GoodNotes(n)) /\ notes[n] \in Seq(Note)
  <2> SUFFICES ASSUME NEW n \in Node
               PROVE  notes[n] \in Seq(GoodNotes(n)) /\ notes[n] \in Seq(Note)
    OBVIOUS
  <2>1. Neighbours(n, links) \in SUBSET Node /\ n \notin Neighbours(n, links)
    BY DEF Neighbours
  <2>2. [type |-> "View", active |-> Neighbours(n, links)] \in GoodNotes(n) \cap Note
    BY <2>1 DEF GoodNotes, Note
  <2>3. notes[n] = <<[type |-> "View", active |-> Neighbours(n, links)]>>
    BY <1>0 DEF Booted
  <2> QED  BY <2>2, <2>3, Short
<1>3. LinkInv
  <2>1. notes \in [Node -> Seq(Note)]
    BY <1>0, <1>2 DEF Booted
  <2>2. /\ eager \in [Node -> SUBSET Node] /\ lazy \in [Node -> SUBSET Node]
        /\ \A n \in Node : eager[n] \cap lazy[n] = {} /\ n \notin eager[n] \cup lazy[n]
    BY <1>0 DEF Booted
  <2> QED  BY <1>0, <1>1, <1>2, <2>1, <2>2 DEF LinkInv
<1>4. TravelInv
  BY <1>0, Short DEF Booted, TravelInv
<1>5. ReceiptInv
  <2>1. /\ cacheSize \in CacheSizes /\ cacheSize \in Nat
        /\ \A n \in Node : cache[n] = <<>> /\ delivered[n] = <<>> /\ received[n] = {}
    BY <1>0, SizeAssumption DEF Booted
  <2>2. /\ seq \in [Node -> 0 .. MaxSeq] /\ received \in [Node -> SUBSET Known]
        /\ delivered \in [Node -> Seq(MessageID)] /\ cache \in [Node -> Seq(Known)]
    BY <1>0, SizeAssumption, Short DEF Booted
  <2>3. \A n \in Node : Len(cache[n]) <= cacheSize
    BY <2>1
  <2>4. \A n \in Node : received[n] = {delivered[n][i] : i \in 1 .. Len(delivered[n])}
    BY <2>1
  <2> QED  BY <2>1, <2>2, <2>3, <2>4 DEF ReceiptInv
<1>6. MissingInv
  BY <1>0, Short DEF Booted, MissingInv
<1> QED  BY <1>3, <1>4, <1>5, <1>6 DEF Inv

\* And in every state after.
LEMMA Invariance == Spec => []Inv
<1>1. Inv /\ [Next]_vars => Inv'
  BY LinkStep, TravelStep, ReceiptStep, MissingStep DEF Inv
<1> QED  BY <1>1, InvInit, PTL DEF Spec

\* onIHave, onGossip, onNeighborDown and onMissingTimeout: whatever crosses on a
\* link, an announcement on record has its timer and its message is still
\* missing, and a host is an eager peer, a lazy peer or none.
THEOREM AnnouncementsArePulled == Spec => []AnnouncedIsPulled
<1>1. Inv => AnnouncedIsPulled
  <2> SUFFICES ASSUME Inv PROVE AnnouncedIsPulled
    OBVIOUS
  <2>0. Known \subseteq MessageID /\ GoodMessages \subseteq Message
    BY DEF Known, GoodMessages
  <2>1. \A n \in Node : cache[n] \in Seq(MessageID)
    BY <2>0, SeqParts DEF Inv, ReceiptInv
  <2>2. \A n, p \in Node : lazyQueue[n][p] \in Seq(MessageID)
    BY <2>0, SeqParts DEF Inv, TravelInv
  <2>3. \A e \in Node \X Node : net[e] \in Seq(Message)
    BY <2>0, SeqParts DEF Inv, TravelInv
  <2>4. cache \in [Node -> Seq(MessageID)]
    BY <2>1 DEF Inv, ReceiptInv
  <2>5. lazyQueue \in [Node -> [Node -> Seq(MessageID)]]
    BY <2>2 DEF Inv, TravelInv
  <2>6. net \in [Node \X Node -> Seq(Message)]
    BY <2>3 DEF Inv, TravelInv
  <2>7. received \in [Node -> SUBSET MessageID]
    BY <2>0 DEF Inv, ReceiptInv
  <2>8. TypeOK
    BY <2>4, <2>5, <2>6, <2>7 DEF TypeOK, Inv, LinkInv, ReceiptInv, MissingInv
  <2> QED  BY <2>8 DEF AnnouncedIsPulled, Inv, LinkInv, MissingInv
<1> QED  BY <1>1, Invariance, PTL

\* Broadcast promises what handleBroadcast and onGossip do: a node delivers its
\* own message when it broadcasts it, another's at most once, and nothing that
\* was not broadcast.
THEOREM Implements == Spec => Refinement
<1>1. Init => Abstract!Init
  <2> SUFFICES ASSUME Init PROVE Abstract!Init
    OBVIOUS
  <2>1. \A id \in MessageID : ~(id[2] <= seq[id[1]])
    BY SizeAssumption DEF Init, Booted, MessageID
  <2> QED  BY <2>1 DEF Init, Booted, Abstract!Init
<1>2. ASSUME Inv, [Next]_vars
      PROVE  [Abstract!Next]_<<Known, delivered>>
  <2>1. ASSUME NEW n \in Node PROVE received[n] = Abstract!Delivered(n)
    BY <1>2 DEF Inv, ReceiptInv, Abstract!Delivered
  <2>2. ASSUME NEW n \in Node, handleBroadcast(n) PROVE Abstract!Next
    <3> DEFINE new == <<n, seq[n] + 1>>
    <3>1. new \in MessageID /\ new \notin Known /\ Known' = Known \cup {new}
      BY <1>2, <2>2, KnownGrows
    <3>2. delivered' = [delivered EXCEPT ![n] = Append(delivered[n], new)]
      BY <2>2 DEF handleBroadcast, Deliver
    <3> HIDE DEF new
    <3>3. Abstract!Send(n, new)
      BY <3>1, <3>2 DEF Abstract!Send, Known
    <3> QED  BY <3>1, <3>3 DEF Abstract!Next, Abstract!Send
  <2>3. ASSUME \A n \in Node : ~handleBroadcast(n), NEW n \in Node, NEW id \in Known',
               Deliver(n, id), id \notin received[n]
        PROVE  Abstract!Next
    <3>1. Known' = Known
      <4>1. UNCHANGED seq
        BY <1>2, <2>3, KnownGrows
      <4> QED  BY <4>1 DEF Known
    <3>2. id \in MessageID /\ id \in Known \ Abstract!Delivered(n)
      BY <2>1, <2>3, <3>1 DEF Known
    <3>3. delivered' = [delivered EXCEPT ![n] = Append(delivered[n], id)]
      BY <2>3 DEF Deliver
    <3>4. Abstract!Deliver(n, id)
      BY <3>1, <3>2, <3>3 DEF Abstract!Deliver, Known
    <3> QED  BY <3>2, <3>4 DEF Abstract!Next, Abstract!Deliver
  <2>4. ASSUME \A n \in Node : ~handleBroadcast(n), UNCHANGED messageVars
        PROVE  UNCHANGED <<Known, delivered>>
    <3>1. UNCHANGED seq
      BY <1>2, <2>4, KnownGrows
    <3> QED  BY <2>4, <3>1 DEF Known, messageVars
  <2> QED  BY <1>2, <2>2, <2>3, <2>4, Deliveries
<1>3. Inv /\ [Next]_vars => [Abstract!Next]_<<{id \in MessageID : id[2] <= seq[id[1]]}, delivered>>
  BY <1>2 DEF Known
<1> QED  BY <1>1, <1>3, Invariance, PTL DEF Spec, Refinement, Abstract!Spec
------------------------------------------------------------------------------
(* Sequences that are built step by step. *)

\* A function that is given at 0, and at every other argument by the one before.
Iterate(f, k, T, b, F) ==
    f \in [0 .. k -> T] /\ f[0] = b /\ \A j \in 1 .. k : f[j] = F[<<j, f[j - 1]>>]

\* It exists.
LEMMA Iterates ==
  ASSUME NEW k \in Nat, NEW T, NEW b \in T, NEW F \in [(1 .. k) \X T -> T]
  PROVE  \E f : Iterate(f, k, T, b, F)
<1> DEFINE Fits(f, j) == f[0] = b /\ \A i \in 1 .. j : f[i] = F[<<i, f[i - 1]>>]
           Good == {j \in 0 .. k : \E f \in [0 .. j -> T] : Fits(f, j)}
<1>1. 0 \in Good
  <2>1. [i \in 0 .. 0 |-> b] \in [0 .. 0 -> T] /\ Fits([i \in 0 .. 0 |-> b], 0)
    OBVIOUS
  <2>2. 0 \in 0 .. k
    OBVIOUS
  <2> HIDE DEF Fits
  <2> QED  BY <2>1, <2>2
<1>2. ASSUME NEW j \in 1 .. k, j - 1 \in Good PROVE j \in Good
  <2>1. PICK f \in [0 .. j - 1 -> T] : Fits(f, j - 1)
    BY <1>2
  <2> DEFINE g == [i \in 0 .. j |-> IF i = j THEN F[<<j, f[j - 1]>>] ELSE f[i]]
  <2>2. j \in Nat /\ j # 0 /\ j - 1 \in 0 .. j - 1 /\ f[j - 1] \in T
    OBVIOUS
  <2>3. F[<<j, f[j - 1]>>] \in T
    BY <2>2
  <2>4. g \in [0 .. j -> T]
    BY <2>2, <2>3
  <2>5. g[j] = F[<<j, f[j - 1]>>] /\ \A i \in 0 .. j - 1 : g[i] = f[i]
    BY <2>2
  <2>6. g[0] = b
    BY <2>1, <2>2, <2>5
  <2> HIDE DEF g
  <2>7. ASSUME NEW i \in 1 .. j PROVE g[i] = F[<<i, g[i - 1]>>]
    <3>1. i - 1 \in 0 .. j - 1
      BY <2>2
    <3>2. CASE i = j
      BY <2>5, <3>1, <3>2
    <3>3. CASE i # j
      <4>1. i \in 1 .. j - 1 /\ i \in 0 .. j - 1
        BY <2>2, <3>3
      <4> QED  BY <2>1, <2>5, <3>1, <4>1
    <3> QED  BY <3>2, <3>3
  <2>8. Fits(g, j)
    BY <2>6, <2>7
  <2>9. j \in 0 .. k
    OBVIOUS
  <2> HIDE DEF Fits
  <2> QED  BY <2>4, <2>8, <2>9
<1>3. k \in Good
  <2> HIDE DEF Good
  <2>1. 0 .. k \subseteq Good
    BY <1>1, <1>2, Climb
  <2> QED  BY <2>1
<1> HIDE DEF Fits
<1>4. PICK f \in [0 .. k -> T] : Fits(f, k)
  BY <1>3
<1> QED  BY <1>4 DEF Fits, Iterate
------------------------------------------------------------------------------
(* HyParView: the invariant. *)

\* What travels: a shuffle knows the way back.
ViewMessages ==
    ViewMessage
    \cup {m \in ShuffleMessage : m.type = "Shuffle" => m.path # <<>>}

\* What a handler of node n asks for: no node dials itself.
Requests(n) ==
    [op : {"send"}, peer : Node, msg : ViewMessages]
    \cup [op : {"connect"}, peer : Node \ {n}]
    \cup [op : {"disconnect"}, peer : Node]

SessionEvents == [type : {"Up", "Down"}, peer : Node]

Pairs == {l \in SUBSET Node : Cardinality(l) = 2}

\* Node n between two steps of a handler.
Running(n) ==
    [self : {n}, active : SUBSET Node, passive : SUBSET Node, sessions : SUBSET Node,
     pending : [Node -> Intent \cup {None}], timers : SUBSET Node, out : Seq(Requests(n))]

\* The views of node n, in any step of a handler.
Sound(n, s) ==
    /\ s \in Running(n)
    /\ s.active \cap s.passive = {}
    /\ n \notin s.active \cup s.passive
    /\ Cardinality(s.active) <= activeSize
    /\ Cardinality(s.passive) <= PassiveSize

LayerType(L) ==
    L \in [up : SUBSET Pairs, dialing : SUBSET {e \in Node \X Node : e[1] # e[2]},
           events : [Node -> Seq(SessionEvents)],
           net : [Node \X Node -> Seq(ViewMessages)], old : [Node \X Node -> Nat],
           late : BOOLEAN]

\* What is to be told of h, by the sessions U.
Verdict(U, n, h) == [type |-> IF {n, h} \in U THEN "Up" ELSE "Down", peer |-> h]

\* Of the events ev that node n is told, the last about h says what is in U; if
\* there is none, S, the sessions it knows of, does.
Tracks(ev, S, U, n, h) ==
    /\ (h \in S <=> {n, h} \in U) \/ Verdict(U, n, h) \in Range(ev)
    /\ \A i \in 1 .. Len(ev) :
          ev[i].peer = h /\ ev[i] # Verdict(U, n, h) =>
             \E j \in i + 1 .. Len(ev) : ev[j] = Verdict(U, n, h)

\* The session layer at L, for nodes that know of the sessions known: without a
\* session, only old messages are left, whose receiver has not been told of the
\* loss or has been told too early.
LayerInv(L, known) ==
    /\ LayerType(L)
    /\ \A n, h \in Node :
        /\ Tracks(L.events[n], known[n], L.up, n, h)
        /\ {n, h} \notin L.up => Len(L.net[<<h, n>>]) <= L.old[<<h, n>>]
        /\ L.old[<<h, n>>] > 0 =>
              L.late \/ [type |-> "Down", peer |-> h] \in Range(L.events[n])

SessionsOf(st) == [n \in Node |-> st[n].sessions]

\* Node n has a session with h, or will be told that it has lost it.
Live(L, n, h) == {n, h} \in L.up \/ [type |-> "Down", peer |-> h] \in Range(L.events[n])

Asking(p) == [type |-> "Neighbor", priority |-> p]

Answer(a) == [type |-> "NeighborReply", accepted |-> a]

\* Node n will hear of h: from the session layer, or as the answer of h.
Awaits(L, n, h) ==
    \/ \E t \in {"Up", "Down"} : [type |-> t, peer |-> h] \in Range(L.events[n])
    \/ /\ {n, h} \in L.up
       /\ \/ \E p \in BOOLEAN : Asking(p) \in Range(L.net[<<n, h>>])
          \/ \E a \in BOOLEAN : Answer(a) \in Range(L.net[<<h, n>>])

\* An attempt with a session, or without a timer, has something that ends it.
Backed(L, st) ==
    L.late \/ \A n, h \in Node :
        /\ h \in st[n].active => Live(L, n, h)
        /\ st[n].pending[h] # None /\ ({n, h} \in L.up \/ h \notin st[n].timers) =>
              Awaits(L, n, h)

ViewInv ==
    /\ activeSize \in ActiveSizes
    /\ state \in [Node -> UNION {Running(n) : n \in Node}]
    /\ \A n \in Node : Sound(n, state[n]) /\ state[n].out = <<>>
    /\ LayerInv(layer, SessionsOf(state))
    /\ Backed(layer, state)

\* What sequences hold.
LEMMA Ranges ==
  ASSUME NEW S, NEW q \in Seq(S)
  PROVE  /\ Range(q) \subseteq S /\ Range(<<>>) = {}
         /\ \A e : Range(<<e>>) = {e}
         /\ \A d \in Seq(S) : Range(q \o d) = Range(q) \cup Range(d)
         /\ \A e \in S : Range(Append(q, e)) = Range(q) \cup {e}
         /\ q # <<>> => /\ Tail(q) \in Seq(S) /\ Head(q) \in Range(q)
                        /\ Range(q) = {Head(q)} \cup Range(Tail(q))
         /\ Range(q) # {} => q # <<>>
<1>1. \A p \in Seq(S) : Range(p) = {p[i] : i \in 1 .. Len(p)}
  BY DEF Range
<1>2. Range(q) \subseteq S /\ Range(<<>>) = {} /\ \A e : Range(<<e>>) = {e}
  BY <1>1 DEF Range
<1>3. ASSUME NEW d \in Seq(S) PROVE Range(q \o d) = Range(q) \cup Range(d)
  <2>1. q \o d \in Seq(S) /\ Len(q \o d) = Len(q) + Len(d) /\ Len(q) \in Nat /\ Len(d) \in Nat
    OBVIOUS
  <2>2. ASSUME NEW i \in 1 .. Len(q) + Len(d) PROVE (q \o d)[i] \in Range(q) \cup Range(d)
    <3>1. CASE i \in 1 .. Len(q)
      BY <1>1, <3>1
    <3>2. CASE i \notin 1 .. Len(q)
      <4>1. i - Len(q) \in 1 .. Len(d) /\ (q \o d)[i] = d[i - Len(q)]
        BY <2>1, <3>2
      <4> QED  BY <1>1, <4>1
    <3> QED  BY <3>1, <3>2
  <2>3. ASSUME NEW i \in 1 .. Len(q) PROVE q[i] \in Range(q \o d)
    <3>1. i \in 1 .. Len(q \o d) /\ (q \o d)[i] = q[i]
      BY <2>1
    <3> QED  BY <1>1, <2>1, <3>1
  <2>4. ASSUME NEW i \in 1 .. Len(d) PROVE d[i] \in Range(q \o d)
    <3>1. i + Len(q) \in 1 .. Len(q \o d) /\ (q \o d)[i + Len(q)] = d[i]
      BY <2>1
    <3> QED  BY <1>1, <2>1, <3>1
  <2>5. Range(q \o d) \subseteq Range(q) \cup Range(d)
    <3> SUFFICES ASSUME NEW x \in Range(q \o d) PROVE x \in Range(q) \cup Range(d)
      OBVIOUS
    <3>1. PICK p \in Seq(S) : p = q \o d
      BY <2>1
    <3>2. PICK i \in 1 .. Len(p) : x = p[i]
      BY <1>1, <3>1
    <3> QED  BY <2>1, <2>2, <3>1, <3>2
  <2>6. Range(q) \subseteq Range(q \o d) /\ Range(d) \subseteq Range(q \o d)
    BY <1>1, <2>3, <2>4
  <2> QED  BY <2>5, <2>6
<1>4. ASSUME NEW e \in S PROVE Range(Append(q, e)) = Range(q) \cup {e}
  <2>1. Append(q, e) = q \o <<e>> /\ <<e>> \in Seq(S)
    OBVIOUS
  <2> QED  BY <1>2, <1>3, <2>1
<1>5. ASSUME q # <<>>
      PROVE  /\ Tail(q) \in Seq(S) /\ Head(q) \in Range(q)
             /\ Range(q) = {Head(q)} \cup Range(Tail(q))
  <2>1. /\ Tail(q) \in Seq(S) /\ Len(q) \in Nat \ {0} /\ Len(Tail(q)) = Len(q) - 1 /\ Head(q) = q[1]
        /\ \A i \in 1 .. Len(Tail(q)) : Tail(q)[i] = q[i + 1]
    BY <1>5
  <2>2. Head(q) \in Range(q)
    BY <1>1, <2>1
  <2>5. Range(Tail(q)) \subseteq Range(q)
    <3> SUFFICES ASSUME NEW x \in Range(Tail(q)) PROVE x \in Range(q)
      OBVIOUS
    <3>1. PICK p \in Seq(S) : p = Tail(q)
      BY <2>1
    <3>2. PICK i \in 1 .. Len(p) : x = p[i]
      BY <1>1, <3>1
    <3>3. i + 1 \in 1 .. Len(q) /\ x = q[i + 1]
      BY <2>1, <3>1, <3>2
    <3> QED  BY <1>1, <3>3
  <2>3. ASSUME NEW i \in 1 .. Len(q) PROVE q[i] \in {Head(q)} \cup Range(Tail(q))
    <3>1. CASE i = 1
      BY <2>1, <3>1
    <3>2. CASE i # 1
      <4>1. i - 1 \in 1 .. Len(Tail(q)) /\ Tail(q)[i - 1] = q[i]
        BY <2>1, <3>2
      <4> QED  BY <1>1, <2>1, <4>1
    <3> QED  BY <3>1, <3>2
  <2>4. Range(q) \subseteq {Head(q)} \cup Range(Tail(q))
    BY <1>1, <2>3
  <2> QED  BY <2>1, <2>2, <2>4, <2>5
<1>6. Range(q) # {} => q # <<>>
  BY <1>2
<1> QED  BY <1>2, <1>3, <1>4, <1>5, <1>6

\* A queue that grows, or loses its head, keeps its elements in their order.
LEMMA Appended ==
  ASSUME NEW S, NEW q \in Seq(S), NEW e \in S
  PROVE  /\ Append(q, e) \in Seq(S) /\ Len(q) \in Nat /\ Len(Append(q, e)) = Len(q) + 1
         /\ \A i \in 1 .. Len(q) : Append(q, e)[i] = q[i]
         /\ Append(q, e)[Len(q) + 1] = e
OBVIOUS

LEMMA Tailed ==
  ASSUME NEW S, NEW q \in Seq(S), q # <<>>
  PROVE  /\ Tail(q) \in Seq(S) /\ Len(q) \in Nat \ {0} /\ Len(Tail(q)) = Len(q) - 1
         /\ \A i \in 1 .. Len(q) - 1 : Tail(q)[i] = q[i + 1]
         /\ Head(q) = q[1] /\ Head(q) \in S
OBVIOUS

\* The last event about a node is the one that is added.
LEMMA TracksNew ==
  ASSUME NEW n, NEW h, NEW S, NEW U, NEW ev \in Seq(SessionEvents),
         Verdict(U, n, h) \in SessionEvents
  PROVE  Tracks(Append(ev, Verdict(U, n, h)), S, U, n, h)
<1> DEFINE e == Verdict(U, n, h)
           q == Append(ev, e)
<1> HIDE DEF e
<1>1. e \in SessionEvents
  BY DEF e
<1>2. /\ q \in Seq(SessionEvents) /\ Len(ev) \in Nat /\ Len(q) = Len(ev) + 1
      /\ q[Len(ev) + 1] = e
  BY <1>1, Appended
<1>3. e \in Range(q)
  BY <1>1, Ranges
<1> HIDE DEF q
<1>4. ASSUME NEW i \in 1 .. Len(q), q[i] # e PROVE \E j \in i + 1 .. Len(q) : q[j] = e
  <2>1. i # Len(q)
    BY <1>2, <1>4
  <2>2. Len(ev) + 1 \in i + 1 .. Len(q)
    BY <1>2, <2>1
  <2> QED  BY <1>2, <2>2
<1> QED  BY <1>3, <1>4 DEF Tracks, e, q

\* An event about another node, and a change of the sessions of others, leave
\* the account of h alone.
LEMMA TracksOther ==
  ASSUME NEW n, NEW h, NEW S, NEW U, NEW W, NEW ev \in Seq(SessionEvents),
         NEW x \in SessionEvents, x.peer # h, {n, h} \in U <=> {n, h} \in W,
         Tracks(ev, S, U, n, h)
  PROVE  Tracks(Append(ev, x), S, W, n, h)
<1> DEFINE e == Verdict(U, n, h)
           q == Append(ev, x)
<1>1. e = Verdict(W, n, h)
  BY DEF Verdict
<1> HIDE DEF e
<1>2. /\ q \in Seq(SessionEvents) /\ Len(ev) \in Nat /\ Len(q) = Len(ev) + 1
      /\ \A i \in 1 .. Len(ev) : q[i] = ev[i]
      /\ q[Len(ev) + 1] = x
  BY Appended
<1>3. Range(ev) \subseteq Range(q)
  BY Ranges
<1> HIDE DEF q
<1>4. /\ (h \in S <=> {n, h} \in U) \/ e \in Range(ev)
      /\ \A i \in 1 .. Len(ev) :
            ev[i].peer = h /\ ev[i] # e => \E j \in i + 1 .. Len(ev) : ev[j] = e
  BY DEF Tracks, e
<1>5. ASSUME NEW i \in 1 .. Len(q), q[i].peer = h, q[i] # e
      PROVE  \E j \in i + 1 .. Len(q) : q[j] = e
  <2>1. i \in 1 .. Len(ev) /\ ev[i] = q[i]
    BY <1>2, <1>5
  <2>2. PICK j \in i + 1 .. Len(ev) : ev[j] = e
    BY <1>4, <1>5, <2>1
  <2>3. j \in 1 .. Len(ev) /\ j \in i + 1 .. Len(q)
    BY <1>2, <2>1
  <2> QED  BY <1>2, <2>2, <2>3
<1>6. (h \in S <=> {n, h} \in W) \/ e \in Range(q)
  BY <1>3, <1>4
<1> QED  BY <1>1, <1>5, <1>6 DEF Tracks, q

\* The sessions of others change.
LEMMA TracksSame ==
  ASSUME NEW n, NEW h, NEW S, NEW U, NEW W, NEW ev,
         {n, h} \in U <=> {n, h} \in W, Tracks(ev, S, U, n, h)
  PROVE  Tracks(ev, S, W, n, h)
<1>1. Verdict(U, n, h) = Verdict(W, n, h)
  BY DEF Verdict
<1> QED  BY <1>1 DEF Tracks

\* Node n takes its next event: it knows of a session with its peer, or of none.
LEMMA TracksTaken ==
  ASSUME NEW n, NEW h, NEW S, NEW T, NEW U, NEW ev \in Seq(SessionEvents), ev # <<>>,
         h \in T <=> IF Head(ev).peer = h THEN Head(ev).type = "Up" ELSE h \in S,
         Tracks(ev, S, U, n, h)
  PROVE  Tracks(Tail(ev), T, U, n, h)
<1> DEFINE e == Verdict(U, n, h)
           q == Tail(ev)
<1>1. /\ e.peer = h /\ (e.type = "Up" <=> {n, h} \in U)
      /\ \A y \in SessionEvents : y.peer = h /\ (y.type = "Up" <=> {n, h} \in U) => y = e
  BY DEF Verdict, SessionEvents
<1> HIDE DEF e
<1>2. /\ q \in Seq(SessionEvents) /\ Len(ev) \in Nat \ {0} /\ Len(q) = Len(ev) - 1
      /\ \A i \in 1 .. Len(ev) - 1 : q[i] = ev[i + 1]
      /\ Head(ev) = ev[1] /\ Head(ev) \in SessionEvents
  BY Tailed
<1>3. \A i \in 1 .. Len(q) : q[i] \in Range(q)
  <2> HIDE DEF q
  <2> QED  BY <1>2 DEF Range
<1>4. Range(ev) = {Head(ev)} \cup Range(q)
  BY Ranges
<1> HIDE DEF q
<1>5. /\ (h \in S <=> {n, h} \in U) \/ e \in Range(ev)
      /\ \A i \in 1 .. Len(ev) :
            ev[i].peer = h /\ ev[i] # e => \E j \in i + 1 .. Len(ev) : ev[j] = e
  BY DEF Tracks, e
<1>6. ASSUME NEW j \in 2 .. Len(ev), ev[j] = e
      PROVE  j - 1 \in 1 .. Len(q) /\ q[j - 1] = e /\ e \in Range(q)
  <2>1. j - 1 \in 1 .. Len(q) /\ q[j - 1] = ev[(j - 1) + 1] /\ (j - 1) + 1 = j
    BY <1>2
  <2> QED  BY <1>3, <1>6, <2>1
<1>7. ASSUME NEW i \in 1 .. Len(q), q[i].peer = h, q[i] # e
      PROVE  \E j \in i + 1 .. Len(q) : q[j] = e
  <2>1. i + 1 \in 1 .. Len(ev) /\ ev[i + 1] = q[i]
    BY <1>2
  <2>2. PICK j \in (i + 1) + 1 .. Len(ev) : ev[j] = e
    BY <1>5, <1>7, <2>1
  <2>3. j \in 2 .. Len(ev) /\ j - 1 \in i + 1 .. Len(q)
    BY <1>2, <2>2
  <2> QED  BY <1>6, <2>2, <2>3
<1>8. ASSUME ~(h \in T <=> {n, h} \in U) PROVE e \in Range(q)
  <2>1. CASE Head(ev).peer = h
    <3>1. Head(ev) # e
      BY <1>1, <1>8, <2>1
    <3>2. 1 \in 1 .. Len(ev)
      BY <1>2
    <3>3. PICK j \in 1 + 1 .. Len(ev) : ev[j] = e
      BY <1>2, <1>5, <2>1, <3>1, <3>2
    <3> QED  BY <1>6, <3>3
  <2>2. CASE Head(ev).peer # h
    <3>1. h \in T <=> h \in S
      BY <2>2
    <3>2. ~(h \in S <=> {n, h} \in U)
      BY <1>8, <3>1
    <3>3. e \in Range(ev)
      BY <1>5, <3>2
    <3>4. e # Head(ev)
      BY <1>1, <2>2
    <3> QED  BY <1>4, <3>3, <3>4
  <2> QED  BY <2>1, <2>2
<1> QED  BY <1>7, <1>8 DEF Tracks, e, q

\* With something told of h, the last of it is.
LEMMA TracksTold ==
  ASSUME NEW n, NEW h, NEW S, NEW U, NEW ev \in Seq(SessionEvents),
         NEW x \in Range(ev), x.peer = h, Tracks(ev, S, U, n, h)
  PROVE  Verdict(U, n, h) \in Range(ev)
<1>1. PICK i \in 1 .. Len(ev) : ev[i] = x
  BY DEF Range
<1>2. Len(ev) \in Nat /\ \A j \in 1 .. Len(ev) : ev[j] \in Range(ev)
  BY DEF Range
<1>3. CASE x = Verdict(U, n, h)
  BY <1>3
<1>4. CASE x # Verdict(U, n, h)
  <2>1. PICK j \in i + 1 .. Len(ev) : ev[j] = Verdict(U, n, h)
    BY <1>1, <1>4 DEF Tracks
  <2>2. j \in 1 .. Len(ev)
    BY <1>2
  <2> QED  BY <1>2, <2>1, <2>2
<1> QED  BY <1>3, <1>4
------------------------------------------------------------------------------

(* HyParView: the session layer. *)

DownFrom(h) == [type |-> "Down", peer |-> h]

LEMMA PairsAre == \A n, h \in Node : {n, h} \in Pairs <=> n # h
<1> SUFFICES ASSUME NEW n \in Node, NEW h \in Node PROVE {n, h} \in Pairs <=> n # h
  OBVIOUS
<1>1. IsFiniteSet({n}) /\ Cardinality({n}) = 1
  BY FS_Singleton
<1>2. {n, h} = {n} \cup {h}
  OBVIOUS
<1>3. Cardinality({n, h}) = IF h \in {n} THEN 1 ELSE 1 + 1
  BY <1>1, <1>2, FS_AddElement
<1> QED  BY <1>3 DEF Pairs

LEMMA EventTypes ==
  /\ \A h \in Node, t \in {"Up", "Down"} : [type |-> t, peer |-> h] \in SessionEvents
  /\ \A U, n : \A h \in Node : Verdict(U, n, h) \in SessionEvents /\ DownFrom(h) \in SessionEvents
BY DEF SessionEvents, Verdict, DownFrom

\* The fields of the session layer.
LEMMA LayerParts ==
  ASSUME NEW L, LayerType(L)
  PROVE  /\ L.up \subseteq Pairs /\ L.dialing \subseteq Node \X Node
         /\ \A e \in L.dialing : e[1] # e[2]
         /\ L.dialing \in SUBSET {e \in Node \X Node : e[1] # e[2]}
         /\ L.events \in [Node -> Seq(SessionEvents)]
         /\ L.net \in [Node \X Node -> Seq(ViewMessages)]
         /\ L.old \in [Node \X Node -> Nat] /\ L.late \in BOOLEAN
         /\ L = [up |-> L.up, dialing |-> L.dialing, events |-> L.events, net |-> L.net,
                 old |-> L.old, late |-> L.late]
BY DEF LayerType

\* Changes of one field.
LEMMA LayerWith ==
  ASSUME NEW L, LayerType(L)
  PROVE  /\ \A D \in SUBSET {e \in Node \X Node : e[1] # e[2]} :
               LayerType([L EXCEPT !.dialing = D])
         /\ \A N \in [Node \X Node -> Seq(ViewMessages)] : LayerType([L EXCEPT !.net = N])
         /\ \A E \in [Node -> Seq(SessionEvents)] : LayerType([L EXCEPT !.events = E])
BY DEF LayerType

\* What the requests of a handler, and the loss of sessions, leave of the layer r.
Keeps(r, L) ==
    /\ L.late = r.late
    /\ L.up \subseteq r.up
    /\ \A m \in Node : Range(r.events[m]) \subseteq Range(L.events[m])
    /\ \A m, h \in Node :
        /\ {m, h} \in r.up \ L.up => DownFrom(h) \in Range(L.events[m])
        /\ {m, h} \in L.up => Range(r.net[<<m, h>>]) \subseteq Range(L.net[<<m, h>>])

LEMMA KeepsSelf == \A r : Keeps(r, r)
BY DEF Keeps

LEMMA KeepsMore ==
  ASSUME NEW r, NEW L, NEW M, Keeps(r, L), Keeps(L, M)
  PROVE  Keeps(r, M)
<1>1. M.late = r.late /\ M.up \subseteq r.up
  BY DEF Keeps
<1>2. \A m \in Node : Range(r.events[m]) \subseteq Range(M.events[m])
  BY DEF Keeps
<1>3. ASSUME NEW m \in Node, NEW h \in Node, {m, h} \in r.up \ M.up
      PROVE  DownFrom(h) \in Range(M.events[m])
  <2>1. CASE {m, h} \in L.up
    BY <1>3, <2>1 DEF Keeps
  <2>2. CASE {m, h} \notin L.up
    BY <1>3, <2>2 DEF Keeps
  <2> QED  BY <2>1, <2>2
<1>4. ASSUME NEW m \in Node, NEW h \in Node, {m, h} \in M.up
      PROVE  Range(r.net[<<m, h>>]) \subseteq Range(M.net[<<m, h>>])
  BY <1>4 DEF Keeps
<1> QED  BY <1>1, <1>2, <1>3, <1>4 DEF Keeps

LEMMA KeepsViews ==
  ASSUME NEW r, NEW L, Keeps(r, L), NEW n \in Node, NEW h \in Node
  PROVE  /\ Live(r, n, h) => Live(L, n, h)
         /\ Awaits(r, n, h) => Awaits(L, n, h)
<1>1. Live(r, n, h) => Live(L, n, h)
  BY DEF Keeps, Live, DownFrom
<1>2. ASSUME Awaits(r, n, h) PROVE Awaits(L, n, h)
  <2>1. CASE \E t \in {"Up", "Down"} : [type |-> t, peer |-> h] \in Range(r.events[n])
    BY <2>1 DEF Keeps, Awaits
  <2>2. CASE {n, h} \in r.up \ L.up
    BY <2>2 DEF Keeps, Awaits, DownFrom
  <2>3. CASE {n, h} \in L.up
    <3>1. /\ Range(r.net[<<n, h>>]) \subseteq Range(L.net[<<n, h>>])
          /\ Range(r.net[<<h, n>>]) \subseteq Range(L.net[<<h, n>>])
      <4>1. {h, n} = {n, h}
        OBVIOUS
      <4> QED  BY <2>3, <4>1 DEF Keeps
    <3> QED  BY <1>2, <2>1, <2>3, <3>1 DEF Awaits
  <2> QED  BY <1>2, <2>1, <2>2, <2>3 DEF Awaits
<1> QED  BY <1>1, <1>2

\* The session of n and h ends, and both are told.
Parted(L, M, n, h, toN, toH) ==
    /\ LayerType(M)
    /\ M.up = L.up \ {{n, h}} /\ M.late = L.late
    /\ M.events[n] = Append(L.events[n], DownFrom(h))
    /\ M.events[h] = Append(L.events[h], DownFrom(n))
    /\ \A m \in Node \ {n, h} : M.events[m] = L.events[m]
    /\ Len(M.net[<<h, n>>]) = toN /\ M.old[<<h, n>>] = toN
    /\ Len(M.net[<<n, h>>]) = toH /\ M.old[<<n, h>>] = toH
    /\ \A e \in (Node \X Node) \ {<<n, h>>, <<h, n>>} :
          M.net[e] = L.net[e] /\ M.old[e] = L.old[e]

LEMMA EndedParts ==
  ASSUME NEW L, LayerType(L), NEW n \in Node, NEW h \in Node, n # h,
         NEW toN \in 0 .. Len(L.net[<<h, n>>]), NEW toH \in 0 .. Len(L.net[<<n, h>>])
  PROVE  Parted(L, Ended(L, n, h, toN, toH), n, h, toN, toH)
<1>0. PICK M : M = Ended(L, n, h, toN, toH)
  OBVIOUS
<1> DEFINE E == [L.events EXCEPT ![n] = Append(@, DownFrom(h))]
           F == [E EXCEPT ![h] = Append(@, DownFrom(n))]
           Q == [L.net EXCEPT ![<<h, n>>] = SubSeq(@, 1, toN)]
           R == [Q EXCEPT ![<<n, h>>] = SubSeq(@, 1, toH)]
           O == [L.old EXCEPT ![<<h, n>>] = toN, ![<<n, h>>] = toH]
<1>1. /\ L.up \subseteq Pairs /\ L.dialing \subseteq Node \X Node
      /\ \A e \in L.dialing : e[1] # e[2]
      /\ L.events \in [Node -> Seq(SessionEvents)]
      /\ L.net \in [Node \X Node -> Seq(ViewMessages)]
      /\ L.old \in [Node \X Node -> Nat] /\ L.late \in BOOLEAN
      /\ L = [up |-> L.up, dialing |-> L.dialing, events |-> L.events, net |-> L.net,
              old |-> L.old, late |-> L.late]
  BY LayerParts
<1>2. <<n, h>> \in Node \X Node /\ <<h, n>> \in Node \X Node /\ <<n, h>> # <<h, n>>
  OBVIOUS
<1>3. M = [up |-> L.up \ {{n, h}}, dialing |-> L.dialing, events |-> F, net |-> R,
           old |-> O, late |-> L.late]
  BY <1>0, <1>1 DEF Ended, Tells, DownFrom
<1>4. DownFrom(h) \in SessionEvents /\ DownFrom(n) \in SessionEvents
  BY EventTypes
<1>5. /\ F \in [Node -> Seq(SessionEvents)]
      /\ F[n] = Append(L.events[n], DownFrom(h)) /\ F[h] = Append(L.events[h], DownFrom(n))
      /\ \A m \in Node \ {n, h} : F[m] = L.events[m]
  <2>1. /\ Append(L.events[n], DownFrom(h)) \in Seq(SessionEvents)
        /\ Append(L.events[h], DownFrom(n)) \in Seq(SessionEvents)
    BY <1>1, <1>4
  <2>2. /\ E \in [Node -> Seq(SessionEvents)]
        /\ E[n] = Append(L.events[n], DownFrom(h)) /\ E[h] = L.events[h]
        /\ \A m \in Node \ {n, h} : E[m] = L.events[m]
    BY <1>1, <2>1
  <2> HIDE DEF E
  <2> QED  BY <2>1, <2>2
<1>6. ASSUME NEW q \in Seq(ViewMessages), NEW k \in 0 .. Len(q)
      PROVE  SubSeq(q, 1, k) \in Seq(ViewMessages) /\ Len(SubSeq(q, 1, k)) = k
  OBVIOUS
<1>7. /\ SubSeq(L.net[<<h, n>>], 1, toN) \in Seq(ViewMessages)
      /\ Len(SubSeq(L.net[<<h, n>>], 1, toN)) = toN
      /\ SubSeq(L.net[<<n, h>>], 1, toH) \in Seq(ViewMessages)
      /\ Len(SubSeq(L.net[<<n, h>>], 1, toH)) = toH
  <2>1. L.net[<<h, n>>] \in Seq(ViewMessages) /\ L.net[<<n, h>>] \in Seq(ViewMessages)
    BY <1>1, <1>2
  <2> QED  BY <1>6, <2>1
<1>8. /\ Q \in [Node \X Node -> Seq(ViewMessages)]
      /\ Q[<<h, n>>] = SubSeq(L.net[<<h, n>>], 1, toN) /\ Q[<<n, h>>] = L.net[<<n, h>>]
      /\ \A e \in (Node \X Node) \ {<<n, h>>, <<h, n>>} : Q[e] = L.net[e]
  BY <1>1, <1>2, <1>7
<1>9. /\ R \in [Node \X Node -> Seq(ViewMessages)]
      /\ Len(R[<<h, n>>]) = toN /\ Len(R[<<n, h>>]) = toH
      /\ \A e \in (Node \X Node) \ {<<n, h>>, <<h, n>>} : R[e] = L.net[e]
  <2> HIDE DEF Q
  <2> QED  BY <1>2, <1>7, <1>8
<1>10. toN \in Nat /\ toH \in Nat
  <2>1. L.net[<<h, n>>] \in Seq(ViewMessages) /\ L.net[<<n, h>>] \in Seq(ViewMessages)
    BY <1>1, <1>2
  <2> QED  BY <2>1
<1>11. /\ O \in [Node \X Node -> Nat]
       /\ O[<<h, n>>] = toN /\ O[<<n, h>>] = toH
       /\ \A e \in (Node \X Node) \ {<<n, h>>, <<h, n>>} : O[e] = L.old[e]
  BY <1>1, <1>2, <1>10
<1> HIDE DEF F, R, O
<1>12. LayerType(M)
  BY <1>1, <1>3, <1>5, <1>9, <1>11 DEF LayerType
<1>13. Parted(L, M, n, h, toN, toH)
  BY <1>3, <1>5, <1>9, <1>11, <1>12 DEF Parted
<1> QED  BY <1>0, <1>13

LEMMA EndedKeeps ==
  ASSUME NEW L, NEW known, LayerInv(L, known), NEW n \in Node, NEW h \in Node,
         {n, h} \in L.up,
         NEW toN \in 0 .. Len(L.net[<<h, n>>]), NEW toH \in 0 .. Len(L.net[<<n, h>>])
  PROVE  LayerInv(Ended(L, n, h, toN, toH), known) /\ Keeps(L, Ended(L, n, h, toN, toH))
<1>1. PICK M : M = Ended(L, n, h, toN, toH)
  OBVIOUS
<1>2. LayerType(L) /\ n # h
  BY LayerParts, PairsAre DEF LayerInv
<1>3. /\ LayerType(M)
      /\ M.up = L.up \ {{n, h}} /\ M.late = L.late
      /\ M.events[n] = Append(L.events[n], DownFrom(h))
      /\ M.events[h] = Append(L.events[h], DownFrom(n))
      /\ \A m \in Node \ {n, h} : M.events[m] = L.events[m]
      /\ Len(M.net[<<h, n>>]) = toN /\ M.old[<<h, n>>] = toN
      /\ Len(M.net[<<n, h>>]) = toH /\ M.old[<<n, h>>] = toH
      /\ \A e \in (Node \X Node) \ {<<n, h>>, <<h, n>>} :
            M.net[e] = L.net[e] /\ M.old[e] = L.old[e]
  <2>1. Parted(L, M, n, h, toN, toH)
    BY <1>1, <1>2, EndedParts
  <2> QED  BY <2>1 DEF Parted
<1>4. L.events \in [Node -> Seq(SessionEvents)]
  BY <1>2, LayerParts
<1>5. DownFrom(h) \in SessionEvents /\ DownFrom(n) \in SessionEvents
  BY EventTypes
<1>6. /\ Range(M.events[n]) = Range(L.events[n]) \cup {DownFrom(h)}
      /\ Range(M.events[h]) = Range(L.events[h]) \cup {DownFrom(n)}
      /\ \A m \in Node : Range(L.events[m]) \subseteq Range(M.events[m])
  <2>1. /\ Range(M.events[n]) = Range(L.events[n]) \cup {DownFrom(h)}
        /\ Range(M.events[h]) = Range(L.events[h]) \cup {DownFrom(n)}
    <3>1. L.events[n] \in Seq(SessionEvents) /\ L.events[h] \in Seq(SessionEvents)
      BY <1>4
    <3> QED  BY <1>3, <1>5, <3>1, Ranges
  <2>2. \A m \in Node \ {n, h} : M.events[m] = L.events[m]
    BY <1>3
  <2> QED  BY <2>1, <2>2
<1>7. \A m, k \in Node : {m, k} = {n, h} => <<m, k>> \in {<<n, h>>, <<h, n>>}
  OBVIOUS
<1>8. ASSUME NEW m \in Node, NEW k \in Node PROVE Tracks(M.events[m], known[m], M.up, m, k)
  <2>1. Tracks(L.events[m], known[m], L.up, m, k) /\ L.events[m] \in Seq(SessionEvents)
    BY <1>4 DEF LayerInv
  <2>2. CASE {m, k} = {n, h}
    <3>1. Verdict(M.up, m, k) = DownFrom(k)
      BY <1>3, <2>2 DEF Verdict, DownFrom
    <3>2. M.events[m] = Append(L.events[m], Verdict(M.up, m, k))
      BY <1>3, <1>7, <2>2, <3>1
    <3> QED  BY <2>1, <3>1, <3>2, EventTypes, TracksNew
  <2>3. CASE {m, k} # {n, h} /\ m \in {n, h}
    <3>1. PICK p \in Node : p # k /\ M.events[m] = Append(L.events[m], DownFrom(p))
      BY <1>3, <2>3
    <3>2. DownFrom(p) \in SessionEvents /\ DownFrom(p).peer # k
      BY <3>1, EventTypes DEF DownFrom
    <3>3. {m, k} \in L.up <=> {m, k} \in M.up
      BY <1>3, <2>3
    <3> QED  BY <2>1, <3>1, <3>2, <3>3, TracksOther
  <2>4. CASE m \notin {n, h}
    <3>1. {m, k} \in L.up <=> {m, k} \in M.up
      BY <1>3, <2>4
    <3>2. M.events[m] = L.events[m]
      BY <1>3, <2>4
    <3> QED  BY <2>1, <3>1, <3>2, TracksSame
  <2> QED  BY <2>2, <2>3, <2>4
<1>9. ASSUME NEW m \in Node, NEW k \in Node, {m, k} \notin M.up
      PROVE  Len(M.net[<<k, m>>]) <= M.old[<<k, m>>]
  <2>1. CASE {m, k} = {n, h}
    <3>1. <<k, m>> \in {<<n, h>>, <<h, n>>}
      BY <1>7, <2>1
    <3>2. /\ M.old[<<h, n>>] \in Nat /\ M.old[<<n, h>>] \in Nat
          /\ Len(M.net[<<h, n>>]) = M.old[<<h, n>>] /\ Len(M.net[<<n, h>>]) = M.old[<<n, h>>]
      BY <1>3, LayerParts
    <3> QED  BY <3>1, <3>2
  <2>2. CASE {m, k} # {n, h}
    <3>1. {m, k} \notin L.up /\ <<k, m>> \in (Node \X Node) \ {<<n, h>>, <<h, n>>}
      BY <1>3, <1>9, <2>2
    <3> QED  BY <1>3, <3>1 DEF LayerInv
  <2> QED  BY <2>1, <2>2
<1>10. ASSUME NEW m \in Node, NEW k \in Node, M.old[<<k, m>>] > 0
       PROVE  M.late \/ DownFrom(k) \in Range(M.events[m])
  <2>1. CASE {m, k} = {n, h}
    BY <1>6, <1>7, <2>1
  <2>2. CASE {m, k} # {n, h}
    <3>1. <<k, m>> \in (Node \X Node) \ {<<n, h>>, <<h, n>>}
      BY <2>2
    <3>2. L.old[<<k, m>>] > 0
      BY <1>3, <1>10, <3>1
    <3>3. L.late \/ DownFrom(k) \in Range(L.events[m])
      BY <3>2 DEF LayerInv, DownFrom
    <3> QED  BY <1>3, <1>6, <3>3
  <2> QED  BY <2>1, <2>2
<1>11. LayerInv(M, known)
  BY <1>3, <1>8, <1>9, <1>10 DEF LayerInv, DownFrom
<1>12. ASSUME NEW m \in Node, NEW k \in Node
       PROVE  /\ {m, k} \in L.up \ M.up => DownFrom(k) \in Range(M.events[m])
              /\ {m, k} \in M.up => Range(L.net[<<m, k>>]) \subseteq Range(M.net[<<m, k>>])
  <2>1. CASE {m, k} = {n, h}
    <3>1. {m, k} \notin M.up
      BY <1>3, <2>1
    <3>2. DownFrom(k) \in Range(M.events[m])
      BY <1>6, <1>7, <2>1
    <3> QED  BY <3>1, <3>2
  <2>2. CASE {m, k} # {n, h}
    <3>1. <<m, k>> \in (Node \X Node) \ {<<n, h>>, <<h, n>>}
      BY <2>2
    <3> QED  BY <1>3, <2>2, <3>1
  <2> QED  BY <2>1, <2>2
<1>13. Keeps(L, M)
  BY <1>3, <1>6, <1>12 DEF Keeps
<1> QED  BY <1>1, <1>11, <1>13

\* Nobody is told of anything, and sessions stay; what is sent needs one.
LEMMA QuietKeeps ==
  ASSUME NEW L, NEW known, LayerInv(L, known), NEW M, LayerType(M),
         M.up = L.up, M.events = L.events, M.old = L.old, M.late = L.late,
         \A m, k \in Node : {m, k} \notin L.up => M.net[<<k, m>>] = L.net[<<k, m>>],
         \A m, k \in Node : Range(L.net[<<k, m>>]) \subseteq Range(M.net[<<k, m>>])
  PROVE  LayerInv(M, known) /\ Keeps(L, M)
<1>1. LayerInv(M, known)
  BY DEF LayerInv
<1>2. Keeps(L, M)
  BY DEF Keeps
<1> QED  BY <1>1, <1>2

\* A message goes over a session.
LEMMA SentKeeps ==
  ASSUME NEW L, NEW known, LayerInv(L, known), NEW n \in Node, NEW h \in Node,
         {n, h} \in L.up, NEW x \in ViewMessages,
         NEW M, M = [L EXCEPT !.net[<<n, h>>] = Append(@, x)]
  PROVE  LayerInv(M, known) /\ Keeps(L, M) /\ x \in Range(M.net[<<n, h>>])
<1> DEFINE Q == [L.net EXCEPT ![<<n, h>>] = Append(@, x)]
<1>1. LayerType(L)
  BY DEF LayerInv
<1>2. /\ L.up \subseteq Pairs /\ L.dialing \subseteq Node \X Node
      /\ \A e \in L.dialing : e[1] # e[2]
      /\ L.events \in [Node -> Seq(SessionEvents)]
      /\ L.net \in [Node \X Node -> Seq(ViewMessages)]
      /\ L.old \in [Node \X Node -> Nat] /\ L.late \in BOOLEAN
      /\ L = [up |-> L.up, dialing |-> L.dialing, events |-> L.events, net |-> L.net,
              old |-> L.old, late |-> L.late]
  BY <1>1, LayerParts
<1>3. M = [up |-> L.up, dialing |-> L.dialing, events |-> L.events, net |-> Q,
           old |-> L.old, late |-> L.late]
  BY <1>2
<1>4. <<n, h>> \in Node \X Node /\ L.net[<<n, h>>] \in Seq(ViewMessages)
  BY <1>2
<1>5. /\ Append(L.net[<<n, h>>], x) \in Seq(ViewMessages)
      /\ Range(Append(L.net[<<n, h>>], x)) = Range(L.net[<<n, h>>]) \cup {x}
  BY <1>4, Ranges
<1>6. /\ Q \in [Node \X Node -> Seq(ViewMessages)]
      /\ Q[<<n, h>>] = Append(L.net[<<n, h>>], x)
      /\ \A e \in (Node \X Node) \ {<<n, h>>} : Q[e] = L.net[e]
  BY <1>2, <1>4, <1>5
<1> HIDE DEF Q
<1>7. LayerType(M)
  <2>1. M = [L EXCEPT !.net = Q]
    BY DEF Q
  <2>2. Q \in [Node \X Node -> Seq(ViewMessages)]
    BY <1>6
  <2>3. \A N \in [Node \X Node -> Seq(ViewMessages)] : LayerType([L EXCEPT !.net = N])
    BY <1>1, LayerWith, Zenon
  <2>4. LayerType([L EXCEPT !.net = Q])
    BY <2>2, <2>3, Zenon
  <2> QED  BY <2>1, <2>4
<1>8. ASSUME NEW m \in Node, NEW k \in Node, {m, k} \notin L.up
      PROVE  M.net[<<k, m>>] = L.net[<<k, m>>]
  <2>1. <<k, m>> \in (Node \X Node) \ {<<n, h>>}
    BY <1>8
  <2> QED  BY <1>3, <1>6, <2>1
<1>9. ASSUME NEW m \in Node, NEW k \in Node
      PROVE  Range(L.net[<<k, m>>]) \subseteq Range(M.net[<<k, m>>])
  <2>1. CASE <<k, m>> = <<n, h>>
    <3>1. M.net[<<k, m>>] = Append(L.net[<<n, h>>], x)
      BY <1>3, <1>6, <2>1
    <3> QED  BY <1>5, <2>1, <3>1
  <2>2. CASE <<k, m>> # <<n, h>>
    <3>1. <<k, m>> \in (Node \X Node) \ {<<n, h>>}
      BY <2>2
    <3> QED  BY <1>3, <1>6, <3>1
  <2> QED  BY <2>1, <2>2
<1>10. M.up = L.up /\ M.events = L.events /\ M.old = L.old /\ M.late = L.late
  BY <1>3
<1>11. x \in Range(M.net[<<n, h>>])
  <2>1. M.net[<<n, h>>] = Append(L.net[<<n, h>>], x)
    BY <1>3, <1>6
  <2> QED  BY <1>5, <2>1
<1> QED  BY <1>7, <1>8, <1>9, <1>10, <1>11, QuietKeeps

\* A dial begins, or ends without anybody being told.
LEMMA DialingKeeps ==
  ASSUME NEW L, NEW known, LayerInv(L, known),
         NEW D \in SUBSET {e \in Node \X Node : e[1] # e[2]},
         NEW M, M = [L EXCEPT !.dialing = D]
  PROVE  LayerInv(M, known) /\ Keeps(L, M)
<1>1. LayerType(L)
  BY DEF LayerInv
<1>2. M = [up |-> L.up, dialing |-> D, events |-> L.events, net |-> L.net,
           old |-> L.old, late |-> L.late]
  <2>1. L = [up |-> L.up, dialing |-> L.dialing, events |-> L.events, net |-> L.net,
             old |-> L.old, late |-> L.late]
    BY <1>1, LayerParts
  <2> QED  BY <2>1
<1>3. LayerType(M)
  BY <1>1, LayerWith
<1> QED  BY <1>2, <1>3, QuietKeeps

\* A node is told that its dial came to nothing.
LEMMA AbandonedKeeps ==
  ASSUME NEW L, NEW known, LayerInv(L, known), NEW n \in Node, NEW h \in Node,
         {n, h} \notin L.up,
         NEW M, M = Tells(L, n, "Down", h)
  PROVE  LayerInv(M, known) /\ Keeps(L, M)
<1> DEFINE E == [L.events EXCEPT ![n] = Append(@, DownFrom(h))]
<1>1. LayerType(L)
  BY DEF LayerInv
<1>2. /\ L.events \in [Node -> Seq(SessionEvents)]
      /\ L = [up |-> L.up, dialing |-> L.dialing, events |-> L.events, net |-> L.net,
              old |-> L.old, late |-> L.late]
  BY <1>1, LayerParts
<1>3. M = [up |-> L.up, dialing |-> L.dialing, events |-> E, net |-> L.net,
           old |-> L.old, late |-> L.late]
  BY <1>2 DEF Tells, DownFrom
<1>4. DownFrom(h) \in SessionEvents /\ L.events[n] \in Seq(SessionEvents)
  BY <1>2, EventTypes
<1>5. /\ Append(L.events[n], DownFrom(h)) \in Seq(SessionEvents)
      /\ Range(Append(L.events[n], DownFrom(h))) = Range(L.events[n]) \cup {DownFrom(h)}
  BY <1>4, Ranges
<1>6. /\ E \in [Node -> Seq(SessionEvents)]
      /\ E[n] = Append(L.events[n], DownFrom(h))
      /\ \A m \in Node \ {n} : E[m] = L.events[m]
  BY <1>2, <1>5
<1> HIDE DEF E
<1>7. LayerType(M)
  BY <1>1, <1>3, <1>6, LayerParts DEF LayerType
<1>8. \A m \in Node : Range(L.events[m]) \subseteq Range(M.events[m])
  <2>1. M.events[n] = Append(L.events[n], DownFrom(h))
    BY <1>3, <1>6
  <2>2. \A m \in Node \ {n} : M.events[m] = L.events[m]
    BY <1>3, <1>6
  <2> QED  BY <1>5, <2>1, <2>2
<1>9. ASSUME NEW m \in Node, NEW k \in Node PROVE Tracks(M.events[m], known[m], M.up, m, k)
  <2>1. Tracks(L.events[m], known[m], L.up, m, k) /\ L.events[m] \in Seq(SessionEvents)
    BY <1>2 DEF LayerInv
  <2>2. M.up = L.up
    BY <1>3
  <2>3. CASE m = n /\ k = h
    <3>1. Verdict(M.up, m, k) = DownFrom(k)
      BY <2>2, <2>3 DEF Verdict, DownFrom
    <3>2. M.events[m] = Append(L.events[m], Verdict(M.up, m, k))
      BY <1>3, <1>6, <2>3, <3>1
    <3> QED  BY <2>1, <3>1, <3>2, EventTypes, TracksNew
  <2>4. CASE m = n /\ k # h
    <3>1. M.events[m] = Append(L.events[m], DownFrom(h)) /\ DownFrom(h).peer # k
      BY <1>3, <1>6, <2>4 DEF DownFrom
    <3> QED  BY <1>4, <2>1, <2>2, <3>1, TracksOther
  <2>5. CASE m # n
    BY <1>3, <1>6, <2>1, <2>2, <2>5
  <2> QED  BY <2>3, <2>4, <2>5
<1>10. M.up = L.up /\ M.net = L.net /\ M.old = L.old /\ M.late = L.late
  BY <1>3
<1>11. LayerInv(M, known)
  <2>1. ASSUME NEW m \in Node, NEW k \in Node
        PROVE  /\ {m, k} \notin M.up => Len(M.net[<<k, m>>]) <= M.old[<<k, m>>]
               /\ M.old[<<k, m>>] > 0 => M.late \/ DownFrom(k) \in Range(M.events[m])
    BY <1>8, <1>10 DEF LayerInv, DownFrom
  <2> QED  BY <1>7, <1>9, <2>1 DEF LayerInv, DownFrom
<1>12. Keeps(L, M)
  BY <1>8, <1>10 DEF Keeps
<1> QED  BY <1>11, <1>12

\* One request.
LEMMA RequestedKeeps ==
  ASSUME NEW L, NEW known, LayerInv(L, known), NEW n \in Node, NEW q \in Requests(n),
         NEW keep
  PROVE  /\ LayerInv(Requested(L, n, q, keep), known)
         /\ Keeps(L, Requested(L, n, q, keep))
         /\ q.op = "send" /\ {n, q.peer} \in Requested(L, n, q, keep).up =>
               q.msg \in Range(Requested(L, n, q, keep).net[<<n, q.peer>>])
<1>1. PICK M : M = Requested(L, n, q, keep)
  OBVIOUS
<1>2. q.peer \in Node /\ q.op \in {"send", "connect", "disconnect"}
  BY DEF Requests
<1>3. LayerType(L)
  BY DEF LayerInv
<1>4. CASE q.op = "send" /\ {n, q.peer} \in L.up
  <2>1. q.msg \in ViewMessages
    BY <1>4 DEF Requests
  <2>2. M = [L EXCEPT !.net[<<n, q.peer>>] = Append(@, q.msg)]
    BY <1>1, <1>4 DEF Requested
  <2>3. LayerInv(M, known) /\ Keeps(L, M) /\ q.msg \in Range(M.net[<<n, q.peer>>])
    BY <1>2, <1>4, <2>1, <2>2, SentKeeps
  <2> QED  BY <1>1, <2>3
<1>5. CASE q.op = "connect" /\ {n, q.peer} \notin L.up
  <2>1. q.peer # n
    BY <1>5 DEF Requests
  <2>2. M = [L EXCEPT !.dialing = L.dialing \cup {<<n, q.peer>>}]
    BY <1>1, <1>5 DEF Requested
  <2>3. L.dialing \cup {<<n, q.peer>>} \in SUBSET {e \in Node \X Node : e[1] # e[2]}
    BY <1>2, <1>3, <2>1, LayerParts
  <2> QED  BY <1>1, <1>5, <2>2, <2>3, DialingKeeps
<1>6. CASE q.op = "disconnect"
  <2>1. M = Disconnected(L, n, q.peer, keep)
    BY <1>1, <1>6 DEF Requested
  <2>2. CASE {n, q.peer} \in L.up
    <3>1. PICK toN : toN = IF keep THEN Len(L.net[<<q.peer, n>>]) ELSE 0
      OBVIOUS
    <3>2. PICK toH : toH = Len(L.net[<<n, q.peer>>])
      OBVIOUS
    <3>3. Len(L.net[<<q.peer, n>>]) \in Nat /\ Len(L.net[<<n, q.peer>>]) \in Nat
      BY <1>2, <1>3, LayerParts
    <3>4. toN \in 0 .. Len(L.net[<<q.peer, n>>]) /\ toH \in 0 .. Len(L.net[<<n, q.peer>>])
      BY <3>1, <3>2, <3>3
    <3>5. M = Ended(L, n, q.peer, toN, toH)
      BY <2>1, <2>2, <3>1, <3>2 DEF Disconnected
    <3>6. LayerInv(M, known) /\ Keeps(L, M)
      BY <1>2, <2>2, <3>4, <3>5, EndedKeeps
    <3> QED  BY <1>1, <1>6, <3>6
  <2>3. CASE {n, q.peer} \notin L.up /\ <<n, q.peer>> \in L.dialing
    <3>1. PICK D : D = [L EXCEPT !.dialing = L.dialing \ {<<n, q.peer>>}]
      OBVIOUS
    <3>2. L.dialing \ {<<n, q.peer>>} \in SUBSET {e \in Node \X Node : e[1] # e[2]}
      BY <1>3, LayerParts
    <3>3. LayerInv(D, known) /\ Keeps(L, D)
      BY <3>1, <3>2, DialingKeeps
    <3>4. {n, q.peer} \notin D.up
      BY <1>3, <2>3, <3>1, LayerParts
    <3>5. M = Tells(D, n, "Down", q.peer)
      BY <2>1, <2>3, <3>1 DEF Disconnected
    <3>6. LayerInv(M, known) /\ Keeps(D, M)
      BY <1>2, <3>3, <3>4, <3>5, AbandonedKeeps
    <3> QED  BY <1>1, <1>6, <3>3, <3>6, KeepsMore
  <2>4. CASE {n, q.peer} \notin L.up /\ <<n, q.peer>> \notin L.dialing
    <3>1. M = L
      BY <2>1, <2>4 DEF Disconnected
    <3> QED  BY <1>1, <1>6, <3>1, KeepsSelf
  <2> QED  BY <2>2, <2>3, <2>4
<1>7. CASE \/ q.op = "send" /\ {n, q.peer} \notin L.up
           \/ q.op = "connect" /\ {n, q.peer} \in L.up
  <2>1. M = L
    BY <1>1, <1>7 DEF Requested
  <2> QED  BY <1>1, <1>7, <2>1, KeepsSelf
<1> QED  BY <1>2, <1>4, <1>5, <1>6, <1>7

\* All requests of a handler: where a session is left, its messages are sent.
LEMMA AllKept ==
  ASSUME NEW r, NEW known, LayerInv(r, known), NEW n \in Node, NEW out \in Seq(Requests(n)),
         NEW keep
  PROVE  /\ LayerInv(AllRequested(n, r, out, keep), known)
         /\ Keeps(r, AllRequested(n, r, out, keep))
         /\ \A q \in Range(out) :
               q.op = "send" /\ {n, q.peer} \in AllRequested(n, r, out, keep).up =>
                  q.msg \in Range(AllRequested(n, r, out, keep).net[<<n, q.peer>>])
<1> DEFINE Layers ==
             [up : SUBSET Pairs, dialing : SUBSET {e \in Node \X Node : e[1] # e[2]},
              events : [Node -> Seq(SessionEvents)],
              net : [Node \X Node -> Seq(ViewMessages)], old : [Node \X Node -> Nat],
              late : BOOLEAN]
           T == {L \in Layers : LayerInv(L, known)}
           k == Len(out)
           F == [p \in (1 .. k) \X T |-> Requested(p[2], n, out[p[1]], keep)]
           Step(f, i) == IF i = 0 THEN r ELSE Requested(f[i - 1], n, out[i], keep)
<1>1. k \in Nat /\ \A i \in 1 .. k : out[i] \in Requests(n)
  OBVIOUS
<1>2. \A L : LayerInv(L, known) => L \in T
  BY DEF LayerInv, LayerType
<1> HIDE DEF k, T
<1>3. \A L \in T : LayerInv(L, known)
  BY DEF T
<1>4. F \in [(1 .. k) \X T -> T]
  <2> SUFFICES ASSUME NEW i \in 1 .. k, NEW L \in T PROVE Requested(L, n, out[i], keep) \in T
    OBVIOUS
  <2> QED  BY <1>1, <1>2, <1>3, RequestedKeeps
<1>5. r \in T
  BY <1>2
<1>6. PICK f : Iterate(f, k, T, r, F)
  <2> HIDE DEF F
  <2> QED  BY <1>1, <1>4, <1>5, Iterates
<1>7. \A j \in 1 .. k : f[j] = Requested(f[j - 1], n, out[j], keep)
  <2> SUFFICES ASSUME NEW j \in 1 .. k PROVE f[j] = Requested(f[j - 1], n, out[j], keep)
    OBVIOUS
  <2>1. j - 1 \in 0 .. k
    BY <1>1
  <2>2. f[j - 1] \in T /\ f[j] = F[<<j, f[j - 1]>>]
    BY <1>6, <2>1 DEF Iterate
  <2> QED  BY <2>2
<1>8. f = [i \in 0 .. k |-> Step(f, i)]
  <2>1. \A i \in 0 .. k : f[i] = Step(f, i)
    BY <1>1, <1>6, <1>7 DEF Iterate
  <2> HIDE DEF Step
  <2> QED  BY <1>6, <2>1 DEF Iterate
<1> DEFINE after == CHOOSE g : g = [i \in 0 .. k |-> Step(g, i)]
<1>9. after = [i \in 0 .. k |-> Step(after, i)]
  <2> HIDE DEF Step
  <2> QED  BY <1>8
<1>10. AllRequested(n, r, out, keep) = after[k]
  BY DEF AllRequested, k
<1> HIDE DEF after
<1>11. after[0] = r /\ \A j \in 1 .. k : after[j] = Requested(after[j - 1], n, out[j], keep)
  <2>1. \A i \in 0 .. k : after[i] = Step(after, i)
    <3> HIDE DEF Step
    <3> QED  BY <1>9
  <2>2. 0 \in 0 .. k /\ \A j \in 1 .. k : j \in 0 .. k /\ j # 0
    BY <1>1
  <2> QED  BY <2>1, <2>2
<1> DEFINE Going(j) == \A i \in 1 .. j :
                        out[i].op = "send" /\ {n, out[i].peer} \in after[j].up =>
                           out[i].msg \in Range(after[j].net[<<n, out[i].peer>>])
           Good == {j \in 0 .. k : LayerInv(after[j], known) /\ Keeps(r, after[j]) /\ Going(j)}
<1>12. 0 \in Good
  BY <1>1, <1>11, KeepsSelf
<1>13. ASSUME NEW j \in 1 .. k, j - 1 \in Good PROVE j \in Good
  <2>1. /\ j \in 0 .. k /\ after[j] = Requested(after[j - 1], n, out[j], keep)
        /\ LayerInv(after[j - 1], known) /\ Keeps(r, after[j - 1]) /\ Going(j - 1)
    <3> HIDE DEF Going
    <3>1. j \in 0 .. k
      BY <1>1
    <3> QED  BY <1>11, <1>13, <3>1
  <2> HIDE DEF Going
  <2>2. out[j] \in Requests(n)
    BY <1>1
  <2>3. /\ LayerInv(after[j], known) /\ Keeps(after[j - 1], after[j])
        /\ out[j].op = "send" /\ {n, out[j].peer} \in after[j].up =>
              out[j].msg \in Range(after[j].net[<<n, out[j].peer>>])
    BY <2>1, <2>2, RequestedKeeps
  <2>4. Keeps(r, after[j])
    BY <2>1, <2>3, KeepsMore
  <2>5. ASSUME NEW i \in 1 .. j, out[i].op = "send", {n, out[i].peer} \in after[j].up
        PROVE  out[i].msg \in Range(after[j].net[<<n, out[i].peer>>])
    <3>1. CASE i = j
      BY <2>3, <2>5, <3>1
    <3>2. CASE i # j
      <4>1. i \in 1 .. j - 1 /\ out[i] \in Requests(n)
        BY <1>1, <3>2
      <4>2. out[i].peer \in Node
        BY <4>1 DEF Requests
      <4>3. {n, out[i].peer} \in after[j - 1].up
        BY <2>3, <2>5, <4>2 DEF Keeps
      <4>4. out[i].msg \in Range(after[j - 1].net[<<n, out[i].peer>>])
        BY <2>1, <2>5, <4>1, <4>3 DEF Going
      <4> QED  BY <2>3, <2>5, <4>2, <4>4 DEF Keeps
    <3> QED  BY <3>1, <3>2
  <2>6. Going(j)
    BY <2>5 DEF Going
  <2> QED  BY <2>1, <2>3, <2>4, <2>6
<1>14. k \in Good
  <2> HIDE DEF Good
  <2>1. 0 .. k \subseteq Good
    BY <1>1, <1>12, <1>13, Climb
  <2> QED  BY <1>1, <2>1
<1>15. \A q \in Range(out) : \E i \in 1 .. k : q = out[i]
  BY DEF Range, k
<1> QED  BY <1>10, <1>14, <1>15
------------------------------------------------------------------------------
(* HyParView: what a handler leaves. *)

SendOf(m, h) == [op |-> "send", peer |-> h, msg |-> m]

\* The attempt of s at h is that of b; or it has been made, over a session if
\* there is one and with a timer if there is none.
Tried(b, s, h) ==
    s.pending[h] # None =>
        \/ b.pending[h] # None /\ (h \in b.timers => h \in s.timers)
        \/ h \in s.sessions /\ \E p \in BOOLEAN : SendOf(Asking(p), h) \in Range(s.out)
        \/ h \notin s.sessions /\ h \in s.timers

\* Node n, at b before, may be at s: its neighbours are of A.
Outcome(n, b, A, H, s) ==
    /\ Sound(n, s)
    /\ s.sessions = b.sessions /\ s.active \subseteq A
    /\ \A h \in H : Tried(b, s, h)

LEMMA RunningParts ==
  ASSUME NEW n \in Node, NEW s \in Running(n)
  PROVE  /\ s.self = n /\ s.active \in SUBSET Node /\ s.passive \in SUBSET Node
         /\ s.sessions \in SUBSET Node /\ s.pending \in [Node -> Intent \cup {None}]
         /\ s.timers \in SUBSET Node /\ s.out \in Seq(Requests(n))
BY DEF Running

\* Changes of one field.
LEMMA RunningWith ==
  ASSUME NEW n \in Node, NEW s \in Running(n)
  PROVE  /\ \A S \in SUBSET Node : /\ [s EXCEPT !.active = S] \in Running(n)
                                   /\ [s EXCEPT !.passive = S] \in Running(n)
                                   /\ [s EXCEPT !.sessions = S] \in Running(n)
                                   /\ [s EXCEPT !.timers = S] \in Running(n)
         /\ \A p \in [Node -> Intent \cup {None}] : [s EXCEPT !.pending = p] \in Running(n)
         /\ \A q \in Seq(Requests(n)) : [s EXCEPT !.out = q] \in Running(n)
BY DEF Running

LEMMA NodeSets ==
  \A S \in SUBSET Node :
     /\ IsFiniteSet(S) /\ Cardinality(S) \in Nat
     /\ \A x : /\ Cardinality(S \ {x}) = IF x \in S THEN Cardinality(S) - 1 ELSE Cardinality(S)
               /\ Cardinality(S \cup {x}) = IF x \in S THEN Cardinality(S) ELSE Cardinality(S) + 1
               /\ x \in S => Cardinality((S \ {x}) \cup {x}) = Cardinality(S)
<1> SUFFICES ASSUME NEW S \in SUBSET Node
             PROVE  /\ IsFiniteSet(S) /\ Cardinality(S) \in Nat
                    /\ \A x : /\ Cardinality(S \ {x}) =
                                    IF x \in S THEN Cardinality(S) - 1 ELSE Cardinality(S)
                              /\ Cardinality(S \cup {x}) =
                                    IF x \in S THEN Cardinality(S) ELSE Cardinality(S) + 1
                              /\ x \in S => Cardinality((S \ {x}) \cup {x}) = Cardinality(S)
  OBVIOUS
<1>1. IsFiniteSet(S) /\ Cardinality(S) \in Nat
  BY NodeAssumption, FS_Subset, FS_CardinalityType
<1>2. \A x : x \in S => (S \ {x}) \cup {x} = S
  OBVIOUS
<1>3. \A x : Cardinality(S \ {x}) = IF x \in S THEN Cardinality(S) - 1 ELSE Cardinality(S)
  BY <1>1, FS_RemoveElement
<1>4. \A x : Cardinality(S \cup {x}) = IF x \in S THEN Cardinality(S) ELSE Cardinality(S) + 1
  BY <1>1, FS_AddElement
<1> QED  BY <1>1, <1>2, <1>3, <1>4

\* A handler changes the views, and may ask for something.
LEMMA ViewsChange ==
  ASSUME NEW n, NEW b, NEW A, NEW H, NEW s, Outcome(n, b, A, H, s),
         NEW t \in Running(n), t.sessions = s.sessions, t.pending = s.pending,
         t.timers = s.timers, Range(s.out) \subseteq Range(t.out),
         t.active \cap t.passive = {}, n \notin t.active \cup t.passive,
         Cardinality(t.active) <= activeSize, Cardinality(t.passive) <= PassiveSize,
         t.active \subseteq A
  PROVE  Outcome(n, b, A, H, t)
<1>1. Sound(n, t) /\ t.sessions = b.sessions
  BY DEF Outcome, Sound
<1>2. ASSUME NEW h \in H PROVE Tried(b, t, h)
  BY DEF Outcome, Tried
<1> QED  BY <1>1, <1>2 DEF Outcome

\* State t is s with one more request.
Longer(s, q, t) ==
    /\ t = [s EXCEPT !.out = Append(s.out, q)]
    /\ q \in Range(t.out) /\ Range(s.out) \subseteq Range(t.out)
    /\ t.active = s.active /\ t.passive = s.passive /\ t.sessions = s.sessions
    /\ t.pending = s.pending /\ t.timers = s.timers

LEMMA AskedMore ==
  ASSUME NEW n \in Node, NEW b, NEW A, NEW H, NEW s, Outcome(n, b, A, H, s),
         NEW q \in Requests(n)
  PROVE  Outcome(n, b, A, H, Asked(s, q)) /\ Longer(s, q, Asked(s, q))
<1>0. PICK t : t = Asked(s, q)
  OBVIOUS
<1>1. s \in Running(n)
  BY DEF Outcome, Sound
<1>2. s.out \in Seq(Requests(n))
  BY <1>1, RunningParts
<1>3. Append(s.out, q) \in Seq(Requests(n)) /\ Range(Append(s.out, q)) = Range(s.out) \cup {q}
  BY <1>2, Ranges
<1>4. t = [s EXCEPT !.out = Append(s.out, q)]
  BY <1>0 DEF Asked
<1>5. t \in Running(n)
  BY <1>1, <1>3, <1>4, RunningWith
<1>6. /\ t.active = s.active /\ t.passive = s.passive /\ t.sessions = s.sessions
      /\ t.pending = s.pending /\ t.timers = s.timers /\ t.out = Append(s.out, q)
  BY <1>1, <1>4 DEF Running
<1>7. Outcome(n, b, A, H, t)
  <2>1. Range(s.out) \subseteq Range(t.out)
    BY <1>3, <1>6
  <2>2. /\ s.active \cap s.passive = {} /\ n \notin s.active \cup s.passive
        /\ Cardinality(s.active) <= activeSize /\ Cardinality(s.passive) <= PassiveSize
        /\ s.active \subseteq A
    BY DEF Outcome, Sound
  <2> QED  BY <1>5, <1>6, <2>1, <2>2, ViewsChange
<1>8. q \in Range(t.out) /\ Range(s.out) \subseteq Range(t.out)
  BY <1>3, <1>6
<1> QED  BY <1>0, <1>4, <1>6, <1>7, <1>8 DEF Longer

\* The passive view takes another host, for one that it had if it is full.
LEMMA Filed ==
  ASSUME NEW n \in Node, NEW b, NEW A, NEW H, NEW s, Outcome(n, b, A, H, s),
         NEW h \in Node, NEW t \in addPassive(s, h)
  PROVE  /\ Outcome(n, b, A, H, t)
         /\ t.active = s.active /\ t.sessions = s.sessions /\ t.pending = s.pending
         /\ t.timers = s.timers /\ t.out = s.out /\ t.passive \subseteq s.passive \cup {h}
<1>1. s \in Running(n)
  BY DEF Outcome, Sound
<1>2. /\ s.self = n /\ s.active \in SUBSET Node /\ s.passive \in SUBSET Node
  BY <1>1, RunningParts
<1>3. /\ s.active \cap s.passive = {} /\ n \notin s.active \cup s.passive
      /\ Cardinality(s.active) <= activeSize /\ Cardinality(s.passive) <= PassiveSize
      /\ s.active \subseteq A
  BY DEF Outcome, Sound
<1>4. CASE h = s.self \/ h \in s.active \cup s.passive
  <2>1. t = s
    BY <1>4 DEF addPassive
  <2> QED  BY <2>1
<1>5. CASE h # n /\ h \notin s.active \cup s.passive
  <2>1. PICK P \in SUBSET Node :
           /\ t = [s EXCEPT !.passive = P] /\ P \subseteq s.passive \cup {h}
           /\ Cardinality(P) <= PassiveSize
    <3>1. CASE Cardinality(s.passive) < PassiveSize
      <4>1. t = [s EXCEPT !.passive = s.passive \cup {h}]
        BY <1>2, <1>5, <3>1 DEF addPassive
      <4>2. Cardinality(s.passive \cup {h}) <= PassiveSize
        BY <1>2, <1>5, <3>1, NodeSets, ConfigAssumption
      <4>3. s.passive \cup {h} \in SUBSET Node
        BY <1>2
      <4> QED  BY <4>1, <4>2, <4>3
    <3>2. CASE ~(Cardinality(s.passive) < PassiveSize)
      <4>1. PICK v \in s.passive : t = [s EXCEPT !.passive = (s.passive \ {v}) \cup {h}]
        BY <1>2, <1>5, <3>2 DEF addPassive
      <4>2. s.passive \ {v} \in SUBSET Node /\ h \notin s.passive \ {v}
        BY <1>2, <1>5
      <4>3. Cardinality((s.passive \ {v}) \cup {h}) = Cardinality(s.passive \ {v}) + 1
        BY <4>2, NodeSets
      <4>4. Cardinality(s.passive \ {v}) = Cardinality(s.passive) - 1 /\ Cardinality(s.passive) \in Nat
        BY <1>2, NodeSets
      <4>5. Cardinality((s.passive \ {v}) \cup {h}) <= PassiveSize
        BY <1>3, <4>3, <4>4, ConfigAssumption
      <4>6. (s.passive \ {v}) \cup {h} \in SUBSET Node
        BY <4>2
      <4>7. (s.passive \ {v}) \cup {h} \subseteq s.passive \cup {h}
        OBVIOUS
      <4> QED  BY <4>1, <4>5, <4>6, <4>7
    <3> QED  BY <3>1, <3>2
  <2>2. t \in Running(n)
    BY <1>1, <2>1, RunningWith
  <2>3. /\ t.active = s.active /\ t.sessions = s.sessions /\ t.pending = s.pending
        /\ t.timers = s.timers /\ t.out = s.out /\ t.passive = P
    BY <1>1, <2>1 DEF Running
  <2>4. t.active \cap t.passive = {} /\ n \notin t.active \cup t.passive
    BY <1>3, <1>5, <2>1, <2>3
  <2>5. Outcome(n, b, A, H, t)
    BY <1>3, <2>1, <2>2, <2>3, <2>4, ViewsChange
  <2> QED  BY <2>1, <2>3, <2>5
<1> QED  BY <1>2, <1>4, <1>5

\* Host h leaves the active view.
LEMMA Removed ==
  ASSUME NEW n \in Node, NEW b, NEW A, NEW H, NEW s, Outcome(n, b, A, H, s),
         activeSize \in Nat, NEW h, NEW t, t = removeActive(s, h)
  PROVE  /\ Outcome(n, b, A \ {h}, H, t)
         /\ t.active = s.active \ {h} /\ t.passive = s.passive /\ t.sessions = s.sessions
         /\ t.pending = s.pending /\ t.timers = s.timers /\ t.out = s.out
<1>1. s \in Running(n)
  BY DEF Outcome, Sound
<1>2. /\ s.self = n /\ s.active \in SUBSET Node /\ s.passive \in SUBSET Node
  BY <1>1, RunningParts
<1>3. /\ s.active \cap s.passive = {} /\ n \notin s.active \cup s.passive
      /\ Cardinality(s.active) <= activeSize /\ Cardinality(s.passive) <= PassiveSize
      /\ s.active \subseteq A
      /\ s.sessions = b.sessions /\ \A k \in H : Tried(b, s, k)
  BY DEF Outcome, Sound
<1>4. PICK S \in SUBSET Node : S = s.active \ {h}
  BY <1>2
<1>5. t \in Running(n) /\ t = [s EXCEPT !.active = S]
  <2>1. t = [s EXCEPT !.active = S]
    BY <1>4 DEF removeActive
  <2> QED  BY <1>1, <2>1 DEF Running
<1>6. /\ t.active = s.active \ {h} /\ t.passive = s.passive /\ t.sessions = s.sessions
      /\ t.pending = s.pending /\ t.timers = s.timers /\ t.out = s.out
  BY <1>1, <1>4, <1>5 DEF Running
<1>7. Cardinality(t.active) <= activeSize
  <2>1. s.active \ {h} \in SUBSET s.active /\ IsFiniteSet(s.active)
    BY <1>2, NodeSets
  <2>2. Cardinality(s.active \ {h}) <= Cardinality(s.active)
    BY <2>1, FS_Subset
  <2>3. Cardinality(s.active \ {h}) \in Nat /\ Cardinality(s.active) \in Nat
    BY <1>2, NodeSets
  <2> QED  BY <1>3, <1>6, <2>2, <2>3
<1>8. Outcome(n, b, A \ {h}, H, t)
  <2>1. /\ t.active \cap t.passive = {} /\ n \notin t.active \cup t.passive
        /\ t.active \subseteq A \ {h}
    BY <1>3, <1>6
  <2>2. Sound(n, t)
    BY <1>3, <1>5, <1>6, <1>7, <2>1 DEF Sound
  <2>3. \A k \in H : Tried(b, t, k)
    BY <1>3, <1>6 DEF Tried
  <2> QED  BY <1>3, <1>6, <2>1, <2>2, <2>3 DEF Outcome
<1> QED  BY <1>6, <1>8

\* A handler may end up with more neighbours.
LEMMA Wider ==
  ASSUME NEW n, NEW b, NEW A, NEW B, A \subseteq B, NEW H, NEW s, Outcome(n, b, A, H, s)
  PROVE  Outcome(n, b, B, H, s)
BY DEF Outcome

\* The messages of a handler are among those that travel.
LEMMA Sendable ==
  /\ \A n, h \in Node : /\ [op |-> "disconnect", peer |-> h] \in Requests(n)
                        /\ h # n => [op |-> "connect", peer |-> h] \in Requests(n)
                        /\ \A m \in ViewMessages : SendOf(m, h) \in Requests(n)
  /\ [type |-> "Join"] \in ViewMessages /\ [type |-> "Disconnect"] \in ViewMessages
  /\ \A p \in BOOLEAN : Asking(p) \in ViewMessages /\ Answer(p) \in ViewMessages
<1>1. \A n, h \in Node : /\ [op |-> "disconnect", peer |-> h] \in Requests(n)
                         /\ h # n => [op |-> "connect", peer |-> h] \in Requests(n)
                         /\ \A m \in ViewMessages : SendOf(m, h) \in Requests(n)
  BY DEF Requests, SendOf
<1>2. [type |-> "Join"] \in ViewMessages /\ [type |-> "Disconnect"] \in ViewMessages
  BY DEF ViewMessages, ViewMessage
<1>3. \A p \in BOOLEAN : Asking(p) \in ViewMessages
  BY DEF ViewMessages, ViewMessage, Asking
<1>4. \A p \in BOOLEAN : Answer(p) \in ViewMessages
  BY DEF ViewMessages, ViewMessage, Answer
<1> QED  BY <1>1, <1>2, <1>3, <1>4

\* A neighbour is let go, and told so.
LEMMA Dropped ==
  ASSUME NEW n \in Node, NEW b, NEW A, NEW H, NEW s, Outcome(n, b, A, H, s),
         activeSize \in Nat, NEW h, NEW u \in dropRandomActive(s, h)
  PROVE  /\ Outcome(n, b, A, H, u)
         /\ Cardinality(u.active) + 1 <= activeSize /\ u.active \subseteq s.active
         /\ Range(s.out) \subseteq Range(u.out)
         /\ u.pending = s.pending /\ u.timers = s.timers
<1>1. PICK v \in s.active \ {h} : \E t \in addPassive(removeActive(s, v), v) :
         u = Disconnect(Send(t, [type |-> "Disconnect"], v), v)
  BY DEF dropRandomActive
<1>2. s \in Running(n) /\ Cardinality(s.active) <= activeSize
  BY DEF Outcome, Sound
<1>3. s.active \in SUBSET Node /\ v \in Node
  BY <1>1, <1>2, RunningParts
<1>4. PICK w : w = removeActive(s, v)
  OBVIOUS
<1>5. /\ Outcome(n, b, A \ {v}, H, w) /\ w.active = s.active \ {v} /\ w.out = s.out
      /\ w.pending = s.pending /\ w.timers = s.timers
  BY <1>4, Removed
<1>6. Outcome(n, b, A, H, w)
  BY <1>5, Wider
<1>7. PICK t \in addPassive(w, v) : u = Disconnect(Send(t, [type |-> "Disconnect"], v), v)
  BY <1>1, <1>4
<1>8. /\ Outcome(n, b, A, H, t) /\ t.active = w.active /\ t.out = w.out
      /\ t.pending = w.pending /\ t.timers = w.timers
  BY <1>3, <1>6, Filed
<1>9. PICK q \in Requests(n) : q = SendOf([type |-> "Disconnect"], v)
  BY <1>3, Sendable
<1>10. PICK x : x = Asked(t, q)
  OBVIOUS
<1>11. Outcome(n, b, A, H, x) /\ Longer(t, q, x)
  BY <1>8, <1>10, AskedMore
<1>12. PICK d \in Requests(n) : d = [op |-> "disconnect", peer |-> v]
  BY <1>3, Sendable
<1>13. u = Asked(x, d)
  BY <1>7, <1>9, <1>10, <1>12 DEF Disconnect, Send, SendOf
<1>14. Outcome(n, b, A, H, u) /\ Longer(x, d, u)
  BY <1>11, <1>13, AskedMore
<1>15. Cardinality(u.active) + 1 <= activeSize
  <2>1. v \in s.active /\ u.active = s.active \ {v}
    BY <1>1, <1>5, <1>8, <1>11, <1>14 DEF Longer
  <2>2. Cardinality(s.active \ {v}) = Cardinality(s.active) - 1 /\ Cardinality(s.active) \in Nat
    BY <1>3, <2>1, NodeSets
  <2> QED  BY <1>2, <2>1, <2>2
<1> QED  BY <1>5, <1>8, <1>11, <1>14, <1>15 DEF Longer

\* Host h becomes a neighbour, for one that there was if there are enough.
LEMMA Admitted ==
  ASSUME NEW n \in Node, NEW b, NEW A, NEW H, NEW s, Outcome(n, b, A, H, s),
         activeSize \in Nat \ {0}, NEW h \in Node, h \in A, NEW u \in addActive(s, h)
  PROVE  /\ Outcome(n, b, A, H, u) /\ Range(s.out) \subseteq Range(u.out)
         /\ u.pending = s.pending /\ u.timers = s.timers
<1>1. s \in Running(n)
  BY DEF Outcome, Sound
<1>2. s.self = n /\ s.active \in SUBSET Node
  BY <1>1, RunningParts
<1>3. CASE h = n \/ h \in s.active
  <2>1. u = s
    BY <1>2, <1>3 DEF addActive
  <2> QED  BY <2>1
<1>4. CASE h # n /\ h \notin s.active
  <2>1. PICK t \in IF Cardinality(s.active) >= activeSize THEN dropRandomActive(s, h) ELSE {s} :
           u = [t EXCEPT !.passive = t.passive \ {h}, !.active = t.active \cup {h}]
    BY <1>2, <1>4 DEF addActive
  <2>2. /\ Outcome(n, b, A, H, t) /\ Range(s.out) \subseteq Range(t.out)
        /\ t.pending = s.pending /\ t.timers = s.timers
        /\ t.active \subseteq s.active /\ Cardinality(t.active) + 1 <= activeSize
    <3>1. CASE Cardinality(s.active) >= activeSize
      <4>1. t \in dropRandomActive(s, h)
        BY <2>1, <3>1
      <4> QED  BY <4>1, Dropped
    <3>2. CASE ~(Cardinality(s.active) >= activeSize)
      <4>1. t = s
        BY <2>1, <3>2
      <4>2. Cardinality(s.active) \in Nat
        BY <1>2, NodeSets
      <4> QED  BY <3>2, <4>1, <4>2
    <3> QED  BY <3>1, <3>2
  <2>3. t \in Running(n)
    BY <2>2 DEF Outcome, Sound
  <2>4. t.active \in SUBSET Node /\ t.passive \in SUBSET Node
    BY <2>3, RunningParts
  <2>5. PICK w : w = [t EXCEPT !.passive = t.passive \ {h}]
    OBVIOUS
  <2>6. w \in Running(n)
    BY <2>3, <2>4, <2>5, RunningWith
  <2>7. u = [w EXCEPT !.active = t.active \cup {h}]
    BY <2>1, <2>3, <2>5 DEF Running
  <2>8. u \in Running(n)
    BY <2>4, <2>6, <2>7, RunningWith
  <2>9. /\ u.active = t.active \cup {h} /\ u.passive = t.passive \ {h}
        /\ u.sessions = t.sessions /\ u.pending = t.pending /\ u.timers = t.timers
        /\ u.out = t.out
    BY <2>1, <2>3 DEF Running
  <2>10. /\ t.active \cap t.passive = {} /\ n \notin t.active \cup t.passive
         /\ Cardinality(t.passive) <= PassiveSize /\ t.active \subseteq A
    BY <2>2 DEF Outcome, Sound
  <2>11. Cardinality(u.active) <= activeSize
    <3>1. h \notin t.active
      BY <1>4, <2>2
    <3>2. Cardinality(t.active \cup {h}) = Cardinality(t.active) + 1
      BY <2>4, <3>1, NodeSets
    <3> QED  BY <2>2, <2>9, <3>2
  <2>12. Cardinality(u.passive) <= PassiveSize
    <3>1. /\ Cardinality(t.passive) \in Nat
          /\ Cardinality(t.passive \ {h}) =
                IF h \in t.passive THEN Cardinality(t.passive) - 1 ELSE Cardinality(t.passive)
      BY <2>4, NodeSets
    <3> QED  BY <2>9, <2>10, <3>1, ConfigAssumption
  <2>13. /\ u.active \cap u.passive = {} /\ n \notin u.active \cup u.passive
         /\ u.active \subseteq A
    BY <1>4, <2>9, <2>10
  <2>14. Outcome(n, b, A, H, u)
    BY <2>2, <2>8, <2>9, <2>11, <2>12, <2>13, ViewsChange
  <2> QED  BY <2>2, <2>9, <2>14
<1> QED  BY <1>3, <1>4

\* The attempt at h is over.
Freed(s, h, t) ==
    /\ t.active = s.active /\ t.passive = s.passive /\ t.sessions = s.sessions
    /\ t.out = s.out /\ t.pending = [s.pending EXCEPT ![h] = None]
    /\ t.timers = s.timers \ {h}

LEMMA Cleared ==
  ASSUME NEW n \in Node, NEW b, NEW A, NEW H \in SUBSET Node, NEW s,
         Outcome(n, b, A, H, s), NEW h \in Node, NEW t, t = clearPending(s, h)
  PROVE  Outcome(n, b, A, H \cup {h}, t) /\ Freed(s, h, t)
<1> DEFINE p == [s.pending EXCEPT ![h] = None]
<1>1. s \in Running(n)
  BY DEF Outcome, Sound
<1>2. s.pending \in [Node -> Intent \cup {None}] /\ s.timers \in SUBSET Node
  BY <1>1, RunningParts
<1>3. p \in [Node -> Intent \cup {None}] /\ p[h] = None /\ \A k \in Node \ {h} : p[k] = s.pending[k]
  BY <1>2
<1>4. PICK T \in SUBSET Node : T = s.timers \ {h}
  BY <1>2
<1> HIDE DEF p
<1>5. PICK w : w = [s EXCEPT !.pending = p]
  OBVIOUS
<1>6. w \in Running(n)
  BY <1>1, <1>3, <1>5, RunningWith
<1>7. t = [s EXCEPT !.pending = p, !.timers = T]
  BY <1>2, <1>4 DEF clearPending, p
<1>8. t = [w EXCEPT !.timers = T]
  BY <1>1, <1>5, <1>7 DEF Running
<1>9. t \in Running(n)
  BY <1>6, <1>8 DEF Running
<1>10. /\ t.active = s.active /\ t.passive = s.passive /\ t.sessions = s.sessions
       /\ t.out = s.out /\ t.pending = p /\ t.timers = s.timers \ {h}
  BY <1>1, <1>4, <1>7 DEF Running
<1>11. Sound(n, t) /\ t.sessions = b.sessions /\ t.active \subseteq A
  BY <1>9, <1>10 DEF Outcome, Sound
<1>12. ASSUME NEW k \in H \cup {h} PROVE Tried(b, t, k)
  <2>1. CASE k = h
    BY <1>3, <1>10, <2>1 DEF Tried
  <2>2. CASE k # h
    BY <1>3, <1>10, <1>12, <2>2 DEF Tried, Outcome
  <2> QED  BY <2>1, <2>2
<1>13. Outcome(n, b, A, H \cup {h}, t)
  BY <1>11, <1>12 DEF Outcome
<1> QED  BY <1>10, <1>13 DEF p, Freed

\* What is asked of a host that there is a session with.
LEMMA Driven ==
  ASSUME NEW n \in Node, NEW b, NEW A, NEW s, NEW h \in Node,
         Outcome(n, b, A, Node \ {h}, s), activeSize \in Nat \ {0},
         h \in s.sessions, s.pending[h] # None, s.pending[h].kind = "Join" => h \in A,
         NEW u \in driveIntent(s, h)
  PROVE  Outcome(n, b, A, Node, u)
<1>1. s \in Running(n)
  BY DEF Outcome, Sound
<1>2. s.pending[h] \in Intent
  BY <1>1, RunningParts
<1>3. CASE s.pending[h].kind = "Join"
  <2>1. PICK q \in Requests(n) : q = SendOf([type |-> "Join"], h)
    BY Sendable
  <2>2. PICK x : x = Asked(s, q)
    OBVIOUS
  <2>3. Outcome(n, b, A, Node \ {h}, x)
    BY <2>2, AskedMore
  <2>4. PICK c : c = clearPending(x, h)
    OBVIOUS
  <2>5. Outcome(n, b, A, (Node \ {h}) \cup {h}, c)
    BY <2>3, <2>4, Cleared
  <2>6. (Node \ {h}) \cup {h} = Node
    OBVIOUS
  <2>7. u \in addActive(c, h)
    BY <1>3, <2>1, <2>2, <2>4 DEF driveIntent, Send, SendOf
  <2> QED  BY <1>3, <2>5, <2>6, <2>7, Admitted
<1>4. CASE s.pending[h].kind # "Join"
  <2>1. PICK p \in BOOLEAN : p = s.pending[h].priority
    BY <1>2 DEF Intent
  <2>2. PICK q \in Requests(n) : q = SendOf(Asking(p), h)
    BY Sendable
  <2>3. u = Asked(s, q)
    BY <1>4, <2>1, <2>2 DEF driveIntent, Send, SendOf, Asking
  <2>4. Outcome(n, b, A, Node \ {h}, u) /\ Longer(s, q, u)
    BY <2>3, AskedMore
  <2>5. Tried(b, u, h)
    BY <2>2, <2>4 DEF Tried, Longer
  <2> QED  BY <2>4, <2>5 DEF Outcome
<1> QED  BY <1>3, <1>4

\* An attempt at h is made, if there is none and it is no neighbour.
LEMMA Opened ==
  ASSUME NEW n \in Node, NEW b, NEW A, NEW s, Outcome(n, b, A, Node, s),
         activeSize \in Nat \ {0}, NEW h \in Node, NEW kind \in {"Join", "Neighbor"},
         NEW priority \in BOOLEAN, kind = "Join" /\ h \in s.sessions => h \in A,
         NEW u \in openActive(s, h, kind, priority)
  PROVE  Outcome(n, b, A, Node, u)
<1>1. s \in Running(n)
  BY DEF Outcome, Sound
<1>2. /\ s.self = n /\ s.pending \in [Node -> Intent \cup {None}] /\ s.timers \in SUBSET Node
  BY <1>1, RunningParts
<1>3. CASE h = s.self \/ h \in s.active \/ s.pending[h] # None
  <2>1. u = s
    BY <1>3 DEF openActive
  <2> QED  BY <2>1
<1>4. CASE ~(h = s.self \/ h \in s.active \/ s.pending[h] # None)
  <2>1. PICK i \in Intent : i = [kind |-> kind, priority |-> priority]
    BY DEF Intent
  <2>2. PICK p : p = [s.pending EXCEPT ![h] = i]
    OBVIOUS
  <2>3. /\ p \in [Node -> Intent \cup {None}] /\ p[h] = i
        /\ \A k \in Node \ {h} : p[k] = s.pending[k]
    BY <1>2, <2>2
  <2>4. PICK w : w = [s EXCEPT !.timers = s.timers \cup {h}]
    OBVIOUS
  <2>5. PICK t : t = [w EXCEPT !.pending = p]
    OBVIOUS
  <2>6. u \in IF h \in s.sessions THEN driveIntent(t, h) ELSE {Connect(t, h)}
    <3>1. t = [s EXCEPT !.timers = @ \cup {h},
                        !.pending[h] = [kind |-> kind, priority |-> priority]]
      BY <1>1, <2>1, <2>2, <2>4, <2>5 DEF Running
    <3> QED  BY <1>4, <3>1 DEF openActive
  <2>7. t \in Running(n)
    <3>1. s.timers \cup {h} \in SUBSET Node
      BY <1>2
    <3>2. w \in Running(n)
      BY <1>1, <2>4, <3>1, RunningWith
    <3> QED  BY <2>3, <2>5, <3>2, RunningWith
  <2>8. /\ t.active = s.active /\ t.passive = s.passive /\ t.sessions = s.sessions
        /\ t.pending = p /\ t.timers = s.timers \cup {h} /\ t.out = s.out
    BY <1>1, <2>4, <2>5 DEF Running
  <2>9. Sound(n, t) /\ t.sessions = b.sessions /\ t.active \subseteq A
    BY <2>7, <2>8 DEF Outcome, Sound
  <2>10. ASSUME NEW k \in Node \ {h} PROVE Tried(b, t, k)
    <3>1. t.pending[k] = s.pending[k] /\ Tried(b, s, k)
      BY <2>3, <2>8 DEF Outcome
    <3> QED  BY <2>8, <3>1 DEF Tried
  <2>11. Outcome(n, b, A, Node \ {h}, t)
    BY <2>9, <2>10 DEF Outcome
  <2>12. CASE h \in s.sessions
    <3>1. u \in driveIntent(t, h) /\ h \in t.sessions
      BY <2>6, <2>8, <2>12
    <3>2. t.pending[h] # None /\ (t.pending[h].kind = "Join" => h \in A)
      BY <2>1, <2>3, <2>8, <2>12, NoneAssumption
    <3> QED  BY <2>11, <3>1, <3>2, Driven
  <2>13. CASE h \notin s.sessions
    <3>1. PICK q \in Requests(n) : q = [op |-> "connect", peer |-> h]
      BY <1>2, <1>4, Sendable
    <3>2. u = Asked(t, q)
      BY <2>6, <2>13, <3>1 DEF Connect
    <3>3. Outcome(n, b, A, Node \ {h}, u) /\ Longer(t, q, u)
      BY <2>11, <3>2, AskedMore
    <3>4. Tried(b, u, h)
      BY <2>8, <2>13, <3>3 DEF Tried, Longer
    <3> QED  BY <3>3, <3>4 DEF Outcome
  <2> QED  BY <2>12, <2>13
<1> QED  BY <1>3, <1>4

\* A host of the passive view is tried.
LEMMA Promoted ==
  ASSUME NEW n \in Node, NEW b, NEW A, NEW s, Outcome(n, b, A, Node, s),
         activeSize \in Nat \ {0}, NEW u \in promote(s)
  PROVE  Outcome(n, b, A, Node, u)
<1>1. CASE u = s
  BY <1>1
<1>2. CASE u # s
  <2>1. PICK c \in s.passive \ Pending(s) : u \in openActive(s, c, "Neighbor", s.active = {})
    BY <1>2 DEF promote
  <2>2. PICK p \in BOOLEAN : p = (s.active = {})
    OBVIOUS
  <2>3. u \in openActive(s, c, "Neighbor", p)
    BY <2>1, <2>2
  <2>4. c \in Node
    <3>1. s \in Running(n)
      BY DEF Outcome, Sound
    <3> QED  BY <2>1, <3>1, RunningParts
  <2> QED  BY <2>3, <2>4, Opened
<1> QED  BY <1>1, <1>2

\* A sample that is received goes to the passive view.
LEMMA Integrated ==
  ASSUME NEW n \in Node, NEW b, NEW A, NEW s, Outcome(n, b, A, Node, s),
         NEW nodes \in Seq(Node), NEW u \in integratePassive(s, nodes)
  PROVE  Outcome(n, b, A, Node, u)
<1> DEFINE G == {t \in Running(n) : Outcome(n, b, A, Node, t)}
           T == SUBSET G
           k == Len(nodes)
           F == [p \in (1 .. k) \X T |-> UNION {addPassive(t, nodes[p[1]]) : t \in p[2]}]
           Step(f, i) == IF i = 0 THEN {s}
                         ELSE Then(f[i - 1], LAMBDA t : addPassive(t, nodes[i]))
<1>1. k \in Nat /\ \A i \in 1 .. k : nodes[i] \in Node
  OBVIOUS
<1>2. \A t : Outcome(n, b, A, Node, t) <=> t \in G
  BY DEF Outcome, Sound
<1> HIDE DEF k, G
<1>3. ASSUME NEW i \in 1 .. k, NEW S \in T
      PROVE  UNION {addPassive(t, nodes[i]) : t \in S} \in T
  <2> SUFFICES ASSUME NEW t \in S, NEW v \in addPassive(t, nodes[i]) PROVE v \in G
    OBVIOUS
  <2> QED  BY <1>1, <1>2, Filed
<1> HIDE DEF T
<1>4. F \in [(1 .. k) \X T -> T]
  BY <1>3
<1>5. {s} \in T
  BY <1>2 DEF T
<1>6. PICK f : Iterate(f, k, T, {s}, F)
  <2> HIDE DEF F
  <2> QED  BY <1>1, <1>4, <1>5, Iterates
<1>7. ASSUME NEW j \in 1 .. k
      PROVE  f[j] = Then(f[j - 1], LAMBDA t : addPassive(t, nodes[j]))
  <2>1. j - 1 \in 0 .. k
    BY <1>1
  <2>2. f[j - 1] \in T /\ f[j] = F[<<j, f[j - 1]>>]
    BY <1>6, <2>1 DEF Iterate
  <2> QED  BY <2>2 DEF Then
<1>8. f = [i \in 0 .. k |-> Step(f, i)]
  <2>1. ASSUME NEW i \in 0 .. k PROVE f[i] = Step(f, i)
    <3>1. CASE i = 0
      BY <1>6, <3>1 DEF Iterate
    <3>2. CASE i # 0
      <4>1. i \in 1 .. k
        BY <1>1, <3>2
      <4> QED  BY <1>7, <3>2, <4>1
    <3> QED  BY <3>1, <3>2
  <2> HIDE DEF Step
  <2> QED  BY <1>6, <2>1 DEF Iterate
<1> DEFINE after == CHOOSE g : g = [i \in 0 .. k |-> Step(g, i)]
<1>9. after = [i \in 0 .. k |-> Step(after, i)]
  <2> HIDE DEF Step
  <2> QED  BY <1>8
<1>10. integratePassive(s, nodes) = after[k]
  BY DEF integratePassive, k
<1> HIDE DEF after
<1>11. ASSUME NEW i \in 0 .. k PROVE after[i] = Step(after, i)
  <2> HIDE DEF Step
  <2> QED  BY <1>9
<1> DEFINE Good == {j \in 0 .. k : after[j] \in T}
<1>12. 0 \in Good
  <2>1. 0 \in 0 .. k
    BY <1>1
  <2>2. after[0] = {s}
    BY <1>11, <2>1
  <2> QED  BY <1>5, <2>1, <2>2
<1>13. ASSUME NEW j \in 1 .. k, j - 1 \in Good PROVE j \in Good
  <2>1. j \in 0 .. k /\ j # 0 /\ after[j - 1] \in T
    BY <1>1, <1>13
  <2>2. after[j] = UNION {addPassive(t, nodes[j]) : t \in after[j - 1]}
    BY <1>11, <2>1 DEF Then
  <2>3. after[j] \in T
    BY <1>3, <2>1, <2>2
  <2> QED  BY <2>1, <2>3
<1>14. k \in Good
  <2> HIDE DEF Good
  <2>1. 0 .. k \subseteq Good
    BY <1>1, <1>12, <1>13, Climb
  <2> QED  BY <1>1, <2>1
<1> QED  BY <1>2, <1>10, <1>14 DEF T

\* A set in some order.
LEMMA Ordered ==
  ASSUME NEW S \in SUBSET Node
  PROVE  SetToSeq(S) \in Seq(S) /\ SetToSeqs(S) \subseteq Seq(S)
<1>1. IsFiniteSet(S) /\ Cardinality(S) \in Nat
  BY NodeSets
<1>2. ExistsBijection(1 .. Cardinality(S), S)
  BY <1>1, FS_CardinalityType
<1>3. \E f \in [1 .. Cardinality(S) -> S] : IsInjective(f)
  BY <1>2 DEF ExistsBijection, Bijection, Injection
<1>4. SetToSeq(S) \in [1 .. Cardinality(S) -> S]
  BY <1>3 DEF SetToSeq
<1>5. \A f \in [1 .. Cardinality(S) -> S] : f \in Seq(S)
  BY <1>1, SeqDef
<1>6. SetToSeqs(S) \subseteq [1 .. Cardinality(S) -> S]
  BY DEF SetToSeqs
<1> QED  BY <1>4, <1>5, <1>6

\* A sample of a view.
LEMMA Sampled ==
  ASSUME NEW S \in SUBSET Node, NEW k, NEW q \in Samples(S, k)
  PROVE  q \in Seq(Node)
<1>1. PICK c : q \in UNION {SetToSeqs(W) : W \in kSubset(c, S)}
  BY DEF Samples
<1>2. PICK W \in SUBSET S : q \in SetToSeqs(W)
  BY <1>1 DEF kSubset
<1>3. q \in Seq(W) /\ W \subseteq Node
  BY <1>2, Ordered
<1> QED  BY <1>3, SeqParts

\* Every contact is tried.
LEMMA ContactsOpened ==
  ASSUME NEW n \in Node, NEW b, NEW A, NEW s, Outcome(n, b, A, Node, s),
         activeSize \in Nat \ {0}, b.sessions \subseteq A, NEW u \in openContacts(s)
  PROVE  Outcome(n, b, A, Node, u)
<1>0. PICK hosts : hosts = SetToSeq(Contacts[s.self])
  OBVIOUS
<1> DEFINE G == {t \in Running(n) : Outcome(n, b, A, Node, t)}
           T == SUBSET G
           k == Len(hosts)
           F == [p \in (1 .. k) \X T |-> UNION {openActive(t, hosts[p[1]], "Join", FALSE) : t \in p[2]}]
           Step(f, i) == IF i = 0 THEN {s}
                         ELSE Then(f[i - 1], LAMBDA t : openActive(t, hosts[i], "Join", FALSE))
<1>1. k \in Nat /\ \A i \in 1 .. k : hosts[i] \in Node
  <2>1. s.self = n /\ Contacts[n] \in SUBSET Node
    BY ConfigAssumption DEF Outcome, Sound, Running
  <2>2. hosts \in Seq(Contacts[n])
    BY <1>0, <2>1, Ordered
  <2>3. hosts \in Seq(Node)
    BY <2>1, <2>2, SeqParts
  <2> QED  BY <2>3
<1>2. \A t : Outcome(n, b, A, Node, t) <=> t \in G
  BY DEF Outcome, Sound
<1> HIDE DEF k, G
<1>3. ASSUME NEW i \in 1 .. k, NEW S \in T
      PROVE  UNION {openActive(t, hosts[i], "Join", FALSE) : t \in S} \in T
  <2> SUFFICES ASSUME NEW t \in S, NEW v \in openActive(t, hosts[i], "Join", FALSE) PROVE v \in G
    OBVIOUS
  <2>1. Outcome(n, b, A, Node, t) /\ hosts[i] \in Node
    BY <1>1, <1>2 DEF T
  <2>2. t.sessions \subseteq A
    BY <2>1 DEF Outcome
  <2>3. PICK p \in BOOLEAN : p = FALSE
    OBVIOUS
  <2>4. v \in openActive(t, hosts[i], "Join", p)
    BY <2>3
  <2>5. "Join" \in {"Join", "Neighbor"}
    OBVIOUS
  <2> QED  BY <1>2, <2>1, <2>2, <2>4, <2>5, Opened
<1> HIDE DEF T
<1>4. F \in [(1 .. k) \X T -> T]
  BY <1>3
<1>5. {s} \in T
  BY <1>2 DEF T
<1>6. PICK f : Iterate(f, k, T, {s}, F)
  <2> HIDE DEF F
  <2> QED  BY <1>1, <1>4, <1>5, Iterates
<1>7. ASSUME NEW j \in 1 .. k
      PROVE  f[j] = Then(f[j - 1], LAMBDA t : openActive(t, hosts[j], "Join", FALSE))
  <2>1. j - 1 \in 0 .. k
    BY <1>1
  <2>2. f[j - 1] \in T /\ f[j] = F[<<j, f[j - 1]>>]
    BY <1>6, <2>1 DEF Iterate
  <2> QED  BY <2>2 DEF Then
<1>8. f = [i \in 0 .. k |-> Step(f, i)]
  <2>1. ASSUME NEW i \in 0 .. k PROVE f[i] = Step(f, i)
    <3>1. CASE i = 0
      BY <1>6, <3>1 DEF Iterate
    <3>2. CASE i # 0
      <4>1. i \in 1 .. k
        BY <1>1, <3>2
      <4> QED  BY <1>7, <3>2, <4>1
    <3> QED  BY <3>1, <3>2
  <2> HIDE DEF Step
  <2> QED  BY <1>6, <2>1 DEF Iterate
<1> DEFINE after == CHOOSE g : g = [i \in 0 .. k |-> Step(g, i)]
<1>9. after = [i \in 0 .. k |-> Step(after, i)]
  <2> HIDE DEF Step
  <2> QED  BY <1>8
<1>10. openContacts(s) = after[k]
  BY <1>0 DEF openContacts, k
<1> HIDE DEF after
<1>11. ASSUME NEW i \in 0 .. k PROVE after[i] = Step(after, i)
  <2> HIDE DEF Step
  <2> QED  BY <1>9
<1> DEFINE Good == {j \in 0 .. k : after[j] \in T}
<1>12. 0 \in Good
  <2>1. 0 \in 0 .. k
    BY <1>1
  <2>2. after[0] = {s}
    BY <1>11, <2>1
  <2> QED  BY <1>5, <2>1, <2>2
<1>13. ASSUME NEW j \in 1 .. k, j - 1 \in Good PROVE j \in Good
  <2>1. j \in 0 .. k /\ j # 0 /\ after[j - 1] \in T
    BY <1>1, <1>13
  <2>2. after[j] = UNION {openActive(t, hosts[j], "Join", FALSE) : t \in after[j - 1]}
    BY <1>11, <2>1 DEF Then
  <2>3. after[j] \in T
    BY <1>3, <2>1, <2>2
  <2> QED  BY <2>1, <2>3
<1>14. k \in Good
  <2> HIDE DEF Good
  <2>1. 0 .. k \subseteq Good
    BY <1>1, <1>12, <1>13, Climb
  <2> QED  BY <1>1, <2>1
<1> QED  BY <1>2, <1>10, <1>14 DEF T
------------------------------------------------------------------------------
(* HyParView: a handler. *)

\* Before the requests of node n, at b, whose neighbours will be of A and which
\* is about to answer the nodes V, the layer is at r.
Ready(n, b, A, V, r) ==
    /\ LayerInv(r, [SessionsOf(state) EXCEPT ![n] = b.sessions])
    /\ r.late \/
        /\ \A h \in A : Live(r, n, h)
        /\ \A h \in Node :
              b.pending[h] # None /\ ({n, h} \in r.up \/ h \notin b.timers) => Awaits(r, n, h)
        /\ \A m \in Node \ {n}, h \in Node :
            /\ h \in state[m].active => Live(r, m, h)
            /\ state[m].pending[h] # None /\ ({m, h} \in r.up \/ h \notin state[m].timers) =>
                  Awaits(r, m, h) \/ (h = n /\ m \in V /\ {m, n} \in r.up)

\* A handler that answers V.
Answers(n, b, A, V, s) ==
    /\ Outcome(n, b, A, Node, s)
    /\ \A v \in V : \E a \in BOOLEAN : SendOf(Answer(a), v) \in Range(s.out)

\* What ViewInv says of the next state.
LEMMA ViewInvNext ==
  ASSUME activeSize' \in ActiveSizes,
         state' \in [Node -> UNION {Running(n) : n \in Node}],
         \A n \in Node : Sound(n, state[n])' /\ state'[n].out = <<>>,
         LayerInv(layer', SessionsOf(state')), Backed(layer', state')
  PROVE  ViewInv'
BY DEF ViewInv

\* The sessions a node knows of decide, with what it is told last.
LEMMA ToBeTold ==
  ASSUME NEW L, NEW known, LayerInv(L, known), NEW n \in Node, NEW h \in Node,
         ~(h \in known[n] <=> {n, h} \in L.up)
  PROVE  Awaits(L, n, h) /\ (h \in known[n] => Live(L, n, h))
<1>1. Verdict(L.up, n, h) \in Range(L.events[n])
  BY DEF LayerInv, Tracks
<1>2. Awaits(L, n, h)
  BY <1>1 DEF Verdict, Awaits
<1>3. h \in known[n] => Live(L, n, h)
  BY <1>1 DEF Verdict, Live
<1> QED  BY <1>2, <1>3

LEMMA RunKeeps ==
  ASSUME ViewInv, NEW n \in Node, NEW b, NEW A, NEW V \in SUBSET Node, NEW r,
         Ready(n, b, A, V, r), NEW outcomes, Runs(n, r, outcomes),
         \A s \in outcomes : Answers(n, b, A, V, s)
  PROVE  ViewInv'
<1>1. PICK s \in outcomes :
        \E keep \in {TRUE, \A i \in DOMAIN s.out : s.out[i].op # "disconnect"} :
          /\ state' = [state EXCEPT ![n] = [s EXCEPT !.out = <<>>]]
          /\ layer' = AllRequested(n, r, s.out, keep)
          /\ UNCHANGED activeSize
  BY DEF Runs
<1>2. PICK keep :
        /\ state' = [state EXCEPT ![n] = [s EXCEPT !.out = <<>>]]
        /\ layer' = AllRequested(n, r, s.out, keep)
        /\ UNCHANGED activeSize
  BY <1>1
<1>3. /\ activeSize \in ActiveSizes
      /\ state \in [Node -> UNION {Running(m) : m \in Node}]
      /\ \A m \in Node : Sound(m, state[m]) /\ state[m].out = <<>>
  BY DEF ViewInv
<1>4. Outcome(n, b, A, Node, s) /\ Sound(n, s) /\ s \in Running(n)
  BY DEF Answers, Outcome, Sound
<1>5. s.out \in Seq(Requests(n)) /\ <<>> \in Seq(Requests(n))
  BY <1>4, RunningParts
<1>6. PICK z : z = [s EXCEPT !.out = <<>>]
  OBVIOUS
<1>7. z \in Running(n)
  BY <1>4, <1>5, <1>6, RunningWith
<1>8. /\ z.active = s.active /\ z.passive = s.passive /\ z.sessions = s.sessions
      /\ z.pending = s.pending /\ z.timers = s.timers /\ z.out = <<>>
  BY <1>4, <1>6 DEF Running
<1>9. PICK S : S = state'
  OBVIOUS
<1>10. /\ S \in [Node -> UNION {Running(m) : m \in Node}]
       /\ S[n] = z /\ \A m \in Node \ {n} : S[m] = state[m]
  <2>1. z \in UNION {Running(m) : m \in Node}
    BY <1>7
  <2>2. S = [state EXCEPT ![n] = z]
    BY <1>2, <1>6, <1>9
  <2> QED  BY <1>3, <2>1, <2>2
<1>11. ASSUME NEW m \in Node PROVE Sound(m, S[m])' /\ S[m].out = <<>>
  <2>1. CASE m = n
    BY <1>2, <1>4, <1>7, <1>8, <1>10, <2>1 DEF Sound
  <2>2. CASE m # n
    BY <1>2, <1>3, <1>10, <2>2 DEF Sound
  <2> QED  BY <2>1, <2>2
<1>12. PICK known : known = [SessionsOf(state) EXCEPT ![n] = b.sessions]
  OBVIOUS
<1>13. SessionsOf(S) = known /\ known[n] = s.sessions
  <2>1. \A m \in Node : SessionsOf(S)[m] = S[m].sessions /\ SessionsOf(state)[m] = state[m].sessions
    BY DEF SessionsOf
  <2>2. known \in [Node -> {known[m] : m \in Node}] /\ SessionsOf(S) \in [Node -> {SessionsOf(S)[m] : m \in Node}]
    BY <1>12 DEF SessionsOf
  <2>3. known[n] = b.sessions /\ \A m \in Node \ {n} : known[m] = state[m].sessions
    BY <1>12 DEF SessionsOf
  <2>4. s.sessions = b.sessions
    BY <1>4 DEF Outcome
  <2>5. \A m \in Node : SessionsOf(S)[m] = known[m]
    BY <1>8, <1>10, <2>1, <2>3, <2>4
  <2> QED  BY <2>2, <2>3, <2>4, <2>5
<1>14. PICK L : L = layer'
  OBVIOUS
<1>15. /\ LayerInv(L, known) /\ Keeps(r, L)
       /\ \A q \in Range(s.out) : q.op = "send" /\ {n, q.peer} \in L.up =>
             q.msg \in Range(L.net[<<n, q.peer>>])
  <2>1. LayerInv(r, known)
    BY <1>12 DEF Ready
  <2> QED  BY <1>2, <1>5, <1>14, <2>1, AllKept
<1>16. \A h \in Node : \A x : SendOf(x, h) \in Range(s.out) /\ {n, h} \in L.up =>
          x \in Range(L.net[<<n, h>>])
  BY <1>15 DEF SendOf
<1>17. L.late => Backed(L, S)
  BY DEF Backed
<1>18. ASSUME ~L.late PROVE Backed(L, S)
  <2>1. /\ \A h \in A : Live(r, n, h)
        /\ \A h \in Node :
              b.pending[h] # None /\ ({n, h} \in r.up \/ h \notin b.timers) => Awaits(r, n, h)
        /\ \A m \in Node \ {n}, h \in Node :
            /\ h \in state[m].active => Live(r, m, h)
            /\ state[m].pending[h] # None /\ ({m, h} \in r.up \/ h \notin state[m].timers) =>
                  Awaits(r, m, h) \/ (h = n /\ m \in V /\ {m, n} \in r.up)
    BY <1>15, <1>18 DEF Ready, Keeps
  <2>2. \A m, h \in Node : {m, h} \in L.up => {m, h} \in r.up
    BY <1>15 DEF Keeps
  <2>3. \A m, h \in Node : (Live(r, m, h) => Live(L, m, h)) /\ (Awaits(r, m, h) => Awaits(L, m, h))
    BY <1>15, KeepsViews
  <2>4. ASSUME NEW h \in Node, h \in S[n].active PROVE Live(L, n, h)
    BY <1>4, <1>8, <1>10, <2>1, <2>3, <2>4 DEF Outcome
  <2>5. ASSUME NEW h \in Node, S[n].pending[h] # None, {n, h} \in L.up \/ h \notin S[n].timers
        PROVE  Awaits(L, n, h)
    <3>1. Tried(b, s, h) /\ s.pending[h] # None /\ ({n, h} \in L.up \/ h \notin s.timers)
      BY <1>4, <1>8, <1>10, <2>5 DEF Outcome
    <3>2. CASE b.pending[h] # None /\ (h \in b.timers => h \in s.timers)
      BY <2>1, <2>2, <2>3, <3>1, <3>2
    <3>3. CASE h \in s.sessions /\ \E p \in BOOLEAN : SendOf(Asking(p), h) \in Range(s.out)
      <4>1. CASE {n, h} \in L.up
        BY <1>16, <3>3, <4>1 DEF Awaits
      <4>2. CASE {n, h} \notin L.up
        BY <1>13, <1>15, <3>3, <4>2, ToBeTold
      <4> QED  BY <4>1, <4>2
    <3>4. CASE h \notin s.sessions /\ h \in s.timers
      BY <1>13, <1>15, <3>1, <3>4, ToBeTold
    <3> QED  BY <3>1, <3>2, <3>3, <3>4 DEF Tried
  <2>6. ASSUME NEW m \in Node \ {n}, NEW h \in Node
        PROVE  /\ h \in S[m].active => Live(L, m, h)
               /\ S[m].pending[h] # None /\ ({m, h} \in L.up \/ h \notin S[m].timers) =>
                     Awaits(L, m, h)
    <3>1. S[m] = state[m]
      BY <1>10
    <3>2. h \in S[m].active => Live(L, m, h)
      BY <2>1, <2>3, <3>1
    <3>3. ASSUME S[m].pending[h] # None, {m, h} \in L.up \/ h \notin S[m].timers
          PROVE  Awaits(L, m, h)
      <4>1. Awaits(r, m, h) \/ (h = n /\ m \in V /\ {m, n} \in r.up)
        BY <2>1, <2>2, <3>1, <3>3
      <4>2. CASE Awaits(r, m, h)
        BY <2>3, <4>2
      <4>3. CASE h = n /\ m \in V /\ {m, n} \in r.up
        <5>1. PICK a \in BOOLEAN : SendOf(Answer(a), m) \in Range(s.out)
          BY <4>3 DEF Answers
        <5>2. {m, n} = {n, m}
          OBVIOUS
        <5>3. CASE {m, n} \in L.up
          <6>1. Answer(a) \in Range(L.net[<<n, m>>])
            BY <1>16, <5>1, <5>2, <5>3
          <6> QED  BY <4>3, <5>3, <6>1 DEF Awaits
        <5>4. CASE {m, n} \notin L.up
          <6>1. DownFrom(n) \in Range(L.events[m])
            BY <1>15, <4>3, <5>4 DEF Keeps
          <6> QED  BY <4>3, <6>1 DEF Awaits, DownFrom
        <5> QED  BY <5>3, <5>4
      <4> QED  BY <4>1, <4>2, <4>3
    <3> QED  BY <3>2, <3>3
  <2> QED  BY <2>4, <2>5, <2>6 DEF Backed
<1>19. Backed(L, S) /\ LayerInv(L, SessionsOf(S)) /\ activeSize' \in ActiveSizes
  BY <1>2, <1>3, <1>13, <1>15, <1>17, <1>18
<1>20. \A m \in Node : Sound(m, state[m])' /\ state'[m].out = <<>>
  BY <1>9, <1>11 DEF Sound
<1> QED  BY <1>9, <1>10, <1>14, <1>19, <1>20, ViewInvNext

\* Node n takes the next message from another one: r, after the layer L.
HandedOn(L, n, from, r, known) ==
    /\ LayerInv(r, known) /\ r.late = L.late /\ r.up = L.up
    /\ \A m, h \in Node : Live(L, m, h) => Live(r, m, h)
    /\ \A m, h \in Node : Awaits(L, m, h) =>
          \/ Awaits(r, m, h)
          \/ /\ m = from /\ h = n /\ {m, n} \in r.up
             /\ Head(L.net[<<from, n>>]).type = "Neighbor"
          \/ m = n /\ h = from /\ Head(L.net[<<from, n>>]).type = "NeighborReply"
    /\ L.late \/ Live(r, n, from)

LEMMA HandedKeeps ==
  ASSUME NEW known, LayerInv(layer, known), NEW n \in Node, NEW from \in Node,
         layer.net[<<from, n>>] # <<>>
  PROVE  HandedOn(layer, n, from, Handed(n, from), known)
<1> DEFINE r == Handed(n, from)
<1> DEFINE e == <<from, n>>
           Q == [layer.net EXCEPT ![e] = Tail(@)]
           O == [layer.old EXCEPT ![e] = IF @ = 0 THEN 0 ELSE @ - 1]
<1>1. LayerType(layer)
  BY DEF LayerInv
<1>2. /\ layer.net \in [Node \X Node -> Seq(ViewMessages)]
      /\ layer.old \in [Node \X Node -> Nat] /\ e \in Node \X Node
      /\ layer = [up |-> layer.up, dialing |-> layer.dialing, events |-> layer.events,
                  net |-> layer.net, old |-> layer.old, late |-> layer.late]
  BY <1>1, LayerParts
<1>3. PICK q \in Seq(ViewMessages) : q = layer.net[e] /\ q # <<>>
  BY <1>2
<1>4. /\ Tail(q) \in Seq(ViewMessages) /\ Len(q) \in Nat \ {0} /\ Len(Tail(q)) = Len(q) - 1
      /\ Range(q) = {Head(q)} \cup Range(Tail(q))
  BY <1>3, Tailed, Ranges
<1>5. /\ r.up = layer.up /\ r.events = layer.events /\ r.late = layer.late
      /\ r.net = Q /\ r.old = O
  BY <1>2 DEF Handed
<1>6. /\ Q \in [Node \X Node -> Seq(ViewMessages)] /\ Q[e] = Tail(q)
      /\ \A d \in Node \X Node : d # e => Q[d] = layer.net[d]
  BY <1>2, <1>3, <1>4
<1>7. /\ O \in [Node \X Node -> Nat]
      /\ O[e] = IF layer.old[e] = 0 THEN 0 ELSE layer.old[e] - 1
      /\ \A d \in Node \X Node : d # e => O[d] = layer.old[d]
  BY <1>2
<1>8. r = [layer EXCEPT !.net = Q, !.old = O]
  BY DEF Handed
<1> HIDE DEF Q, O, e
<1>9. LayerType(r)
  BY <1>1, <1>6, <1>7, <1>8 DEF LayerType
<1>10. ASSUME NEW m \in Node, NEW h \in Node
       PROVE  /\ {m, h} \notin r.up => Len(r.net[<<h, m>>]) <= r.old[<<h, m>>]
              /\ r.old[<<h, m>>] > 0 =>
                    r.late \/ [type |-> "Down", peer |-> h] \in Range(r.events[m])
  <2>1. /\ {m, h} \notin layer.up => Len(layer.net[<<h, m>>]) <= layer.old[<<h, m>>]
        /\ layer.old[<<h, m>>] > 0 =>
              layer.late \/ [type |-> "Down", peer |-> h] \in Range(layer.events[m])
    BY DEF LayerInv
  <2>2. <<h, m>> \in Node \X Node /\ layer.old[<<h, m>>] \in Nat
    BY <1>2
  <2>3. CASE <<h, m>> = e
    <3>1. /\ r.net[<<h, m>>] = Tail(q) /\ layer.net[<<h, m>>] = q
          /\ r.old[<<h, m>>] = IF layer.old[<<h, m>>] = 0 THEN 0 ELSE layer.old[<<h, m>>] - 1
      BY <1>3, <1>5, <1>6, <1>7, <2>3
    <3> QED  BY <1>4, <1>5, <2>1, <2>2, <3>1
  <2>4. CASE <<h, m>> # e
    <3>1. r.net[<<h, m>>] = layer.net[<<h, m>>] /\ r.old[<<h, m>>] = layer.old[<<h, m>>]
      BY <1>5, <1>6, <1>7, <2>2, <2>4
    <3> QED  BY <1>5, <2>1, <3>1
  <2> QED  BY <2>3, <2>4
<1>11. LayerInv(r, known)
  BY <1>5, <1>9, <1>10 DEF LayerInv
<1>12. \A m, h \in Node : Live(layer, m, h) => Live(r, m, h)
  BY <1>5 DEF Live
<1>13. layer.late \/ Live(r, n, from)
  <2>1. CASE {n, from} \in layer.up
    BY <1>5, <2>1 DEF Live
  <2>2. CASE {n, from} \notin layer.up
    <3>1. Len(q) <= layer.old[e] /\ layer.old[e] \in Nat
      BY <1>2, <1>3, <2>2 DEF LayerInv, e
    <3>2. layer.old[e] > 0
      BY <1>4, <3>1
    <3> QED  BY <1>5, <3>2 DEF LayerInv, Live, e
  <2> QED  BY <2>1, <2>2
<1>14. \A m, h \in Node : \A x \in Range(layer.net[<<m, h>>]) :
          x \in Range(r.net[<<m, h>>]) \/ (x = Head(q) /\ m = from /\ h = n)
  <2> SUFFICES ASSUME NEW m \in Node, NEW h \in Node, NEW x \in Range(layer.net[<<m, h>>])
               PROVE  x \in Range(r.net[<<m, h>>]) \/ (x = Head(q) /\ m = from /\ h = n)
    OBVIOUS
  <2>1. CASE <<m, h>> = e
    <3>1. m = from /\ h = n /\ layer.net[<<m, h>>] = q /\ r.net[<<m, h>>] = Tail(q)
      BY <1>3, <1>5, <1>6, <2>1 DEF e
    <3> QED  BY <1>4, <3>1
  <2>2. CASE <<m, h>> # e
    BY <1>5, <1>6, <2>2
  <2> QED  BY <2>1, <2>2
<1>15. ASSUME NEW m \in Node, NEW h \in Node, Awaits(layer, m, h), ~Awaits(r, m, h)
       PROVE  \/ m = from /\ h = n /\ {m, n} \in r.up /\ Head(q).type = "Neighbor"
              \/ m = n /\ h = from /\ Head(q).type = "NeighborReply"
  <2>1. {m, h} \in layer.up
    BY <1>5, <1>15 DEF Awaits
  <2>2. CASE \E p \in BOOLEAN : Asking(p) \in Range(layer.net[<<m, h>>])
    <3>1. PICK p \in BOOLEAN : Asking(p) \in Range(layer.net[<<m, h>>])
      BY <2>2
    <3>2. Asking(p) \notin Range(r.net[<<m, h>>])
      BY <1>5, <1>15, <2>1 DEF Awaits
    <3>3. Asking(p) = Head(q) /\ m = from /\ h = n
      BY <1>14, <3>1, <3>2
    <3> QED  BY <1>5, <2>1, <3>3 DEF Asking
  <2>3. CASE \E a \in BOOLEAN : Answer(a) \in Range(layer.net[<<h, m>>])
    <3>1. PICK a \in BOOLEAN : Answer(a) \in Range(layer.net[<<h, m>>])
      BY <2>3
    <3>2. Answer(a) \notin Range(r.net[<<h, m>>])
      BY <1>5, <1>15, <2>1 DEF Awaits
    <3>3. Answer(a) = Head(q) /\ h = from /\ m = n
      BY <1>14, <3>1, <3>2
    <3> QED  BY <3>3 DEF Answer
  <2> QED  BY <1>5, <1>15, <2>1, <2>2, <2>3 DEF Awaits
<1> HIDE DEF r
<1>16. \A m, h \in Node : Awaits(layer, m, h) =>
          \/ Awaits(r, m, h)
          \/ m = from /\ h = n /\ {m, n} \in r.up /\ Head(layer.net[<<from, n>>]).type = "Neighbor"
          \/ m = n /\ h = from /\ Head(layer.net[<<from, n>>]).type = "NeighborReply"
  BY <1>3, <1>15 DEF e
<1>17. HandedOn(layer, n, from, r, known)
  BY <1>5, <1>11, <1>12, <1>13, <1>16 DEF HandedOn
<1> QED  BY <1>17 DEF r

\* What node n knows of its sessions.
LEMMA KnownSessions ==
  ASSUME NEW n \in Node, NEW S, S = state[n].sessions
  PROVE  [SessionsOf(state) EXCEPT ![n] = S] = SessionsOf(state)
BY DEF SessionsOf

LEMMA ReadyMessage ==
  ASSUME ViewInv, NEW n \in Node, NEW from \in Node, layer.net[<<from, n>>] # <<>>,
         NEW b, b.sessions = state[n].sessions,
         \A h \in Node : b.pending[h] # None =>
            /\ state[n].pending[h] # None /\ (h \in state[n].timers => h \in b.timers)
            /\ ~(h = from /\ Head(layer.net[<<from, n>>]).type = "NeighborReply"),
         NEW V, Head(layer.net[<<from, n>>]).type = "Neighbor" => from \in V
  PROVE  Ready(n, b, state[n].active \cup {from}, V, Handed(n, from))
<1>1. PICK r : r = Handed(n, from)
  OBVIOUS
<1>2. PICK type : type = Head(layer.net[<<from, n>>]).type
  OBVIOUS
<1>3. LayerInv(layer, SessionsOf(state)) /\ Backed(layer, state)
  BY DEF ViewInv
<1>4. /\ LayerInv(r, SessionsOf(state)) /\ r.late = layer.late /\ r.up = layer.up
      /\ \A m, h \in Node : Live(layer, m, h) => Live(r, m, h)
      /\ \A m, h \in Node : Awaits(layer, m, h) =>
            \/ Awaits(r, m, h)
            \/ m = from /\ h = n /\ {m, n} \in r.up /\ type = "Neighbor"
            \/ m = n /\ h = from /\ type = "NeighborReply"
      /\ layer.late \/ Live(r, n, from)
  <2>1. HandedOn(layer, n, from, r, SessionsOf(state))
    BY <1>1, <1>3, HandedKeeps
  <2> QED  BY <1>2, <2>1 DEF HandedOn
<1>5. LayerInv(r, [SessionsOf(state) EXCEPT ![n] = b.sessions])
  BY <1>4, KnownSessions
<1>6. CASE layer.late
  BY <1>1, <1>4, <1>5, <1>6 DEF Ready
<1>7. CASE ~layer.late
  <2>1. \A m, h \in Node :
          /\ h \in state[m].active => Live(layer, m, h)
          /\ state[m].pending[h] # None /\ ({m, h} \in layer.up \/ h \notin state[m].timers) =>
                Awaits(layer, m, h)
    BY <1>3, <1>7 DEF Backed
  <2>2. \A h \in state[n].active \cup {from} : h \in Node => Live(r, n, h)
    BY <1>4, <1>7, <2>1
  <2>3. state[n].active \subseteq Node
    BY DEF ViewInv, Sound, Running
  <2>4. ASSUME NEW h \in Node, b.pending[h] # None, {n, h} \in r.up \/ h \notin b.timers
        PROVE  Awaits(r, n, h)
    <3>1. Awaits(layer, n, h) /\ ~(h = from /\ type = "NeighborReply")
      BY <1>2, <1>4, <2>1, <2>4
    <3>2. ~(n = from /\ h = n /\ {n, n} \in r.up)
      <4>1. {n, n} \notin Pairs
        BY PairsAre
      <4> QED  BY <1>3, <1>4, <4>1, LayerParts DEF LayerInv
    <3> QED  BY <1>4, <3>1, <3>2
  <2>5. ASSUME NEW m \in Node \ {n}, NEW h \in Node
        PROVE  /\ h \in state[m].active => Live(r, m, h)
               /\ state[m].pending[h] # None /\ ({m, h} \in r.up \/ h \notin state[m].timers) =>
                     Awaits(r, m, h) \/ (h = n /\ m \in V /\ {m, n} \in r.up)
    BY <1>2, <1>4, <2>1
  <2> QED  BY <1>1, <1>5, <2>2, <2>3, <2>4, <2>5 DEF Ready
<1> QED  BY <1>6, <1>7

\* Where a handler starts.
LEMMA Starts ==
  ASSUME ViewInv, NEW n \in Node, NEW A, state[n].active \subseteq A
  PROVE  /\ Outcome(n, state[n], A, Node, state[n]) /\ activeSize \in Nat \ {0}
         /\ state[n] \in Running(n)
<1>1. Sound(n, state[n])
  BY DEF ViewInv
<1>2. \A h \in Node : Tried(state[n], state[n], h)
  BY DEF Tried
<1> QED  BY <1>1, <1>2, ConfigAssumption DEF ViewInv, Outcome, Sound

\* What a tick starts from: nothing has been taken.
LEMMA ReadyNow ==
  ASSUME ViewInv, NEW n \in Node, NEW b, b.sessions = state[n].sessions,
         \A h \in Node : b.pending[h] # None =>
            /\ state[n].pending[h] # None
            /\ h \in state[n].timers => h \in b.timers \/ h \in state[n].active
  PROVE  Ready(n, b, state[n].active \cup state[n].sessions, {}, layer)
<1>1. LayerInv(layer, SessionsOf(state)) /\ Backed(layer, state)
  BY DEF ViewInv
<1>2. LayerInv(layer, [SessionsOf(state) EXCEPT ![n] = b.sessions])
  BY <1>1, KnownSessions
<1>3. CASE layer.late
  BY <1>2, <1>3 DEF Ready
<1>4. CASE ~layer.late
  <2>1. \A m, h \in Node :
          /\ h \in state[m].active => Live(layer, m, h)
          /\ state[m].pending[h] # None /\ ({m, h} \in layer.up \/ h \notin state[m].timers) =>
                Awaits(layer, m, h)
    BY <1>1, <1>4 DEF Backed
  <2>2. state[n].active \subseteq Node /\ state[n].sessions \subseteq Node
    BY DEF ViewInv, Sound, Running
  <2>3. ASSUME NEW h \in state[n].sessions PROVE Live(layer, n, h)
    <3>1. h \in Node /\ h \in SessionsOf(state)[n]
      BY <2>2 DEF SessionsOf
    <3>2. CASE {n, h} \in layer.up
      BY <3>2 DEF Live
    <3>3. CASE {n, h} \notin layer.up
      BY <1>1, <3>1, <3>3, ToBeTold
    <3> QED  BY <3>2, <3>3
  <2>4. \A h \in state[n].active \cup state[n].sessions : Live(layer, n, h)
    BY <2>1, <2>2, <2>3
  <2>5. ASSUME NEW h \in Node, b.pending[h] # None, {n, h} \in layer.up \/ h \notin b.timers
        PROVE  Awaits(layer, n, h)
    <3>1. state[n].pending[h] # None
      BY <2>5
    <3>2. CASE {n, h} \in layer.up \/ h \notin state[n].timers
      BY <2>1, <3>1, <3>2
    <3>3. CASE {n, h} \notin layer.up /\ h \in state[n].active
      BY <2>1, <3>3 DEF Live, Awaits
    <3> QED  BY <2>5, <3>2, <3>3
  <2>6. \A m \in Node \ {n}, h \in Node :
          /\ h \in state[m].active => Live(layer, m, h)
          /\ state[m].pending[h] # None /\ ({m, h} \in layer.up \/ h \notin state[m].timers) =>
                Awaits(layer, m, h) \/ (h = n /\ m \in {} /\ {m, n} \in layer.up)
    BY <2>1
  <2> QED  BY <1>2, <2>4, <2>5, <2>6 DEF Ready
<1> QED  BY <1>3, <1>4

\* Node n takes its next event: r, after the layer L.
Shifted(L, n, r) ==
    /\ LayerType(r)
    /\ r.up = L.up /\ r.net = L.net /\ r.old = L.old
    /\ r.events[n] = Tail(L.events[n]) /\ \A m \in Node \ {n} : r.events[m] = L.events[m]
    /\ L.late => r.late
    /\ \A h : Head(L.events[n]) = DownFrom(h) /\ L.old[<<h, n>>] > 0 => r.late

LEMMA UpShifted ==
  ASSUME LayerType(layer), NEW n \in Node, layer.events[n] # <<>>,
         Head(layer.events[n]).type = "Up"
  PROVE  Shifted(layer, n, [layer EXCEPT !.events[n] = Tail(@)])
<1> DEFINE E == [layer.events EXCEPT ![n] = Tail(@)]
           r == [layer EXCEPT !.events[n] = Tail(@)]
<1>1. layer.events \in [Node -> Seq(SessionEvents)] /\ Tail(layer.events[n]) \in Seq(SessionEvents)
  BY LayerParts, Tailed
<1>2. E \in [Node -> Seq(SessionEvents)] /\ E[n] = Tail(layer.events[n])
      /\ \A m \in Node \ {n} : E[m] = layer.events[m]
  BY <1>1
<1>3. layer = [up |-> layer.up, dialing |-> layer.dialing, events |-> layer.events,
               net |-> layer.net, old |-> layer.old, late |-> layer.late]
  BY LayerParts
<1>4. r = [layer EXCEPT !.events = E]
  OBVIOUS
<1>5. r.up = layer.up /\ r.net = layer.net /\ r.old = layer.old /\ r.events = E
      /\ r.late = layer.late
  BY <1>3
<1> HIDE DEF E, r
<1>6. LayerType(r)
  BY <1>2, <1>4, LayerWith
<1>7. \A h : Head(layer.events[n]) # DownFrom(h)
  BY DEF DownFrom
<1>8. Shifted(layer, n, r)
  BY <1>2, <1>5, <1>6, <1>7 DEF Shifted
<1> QED  BY <1>8 DEF r

LEMMA DownShifted ==
  ASSUME LayerType(layer), NEW n \in Node, layer.events[n] # <<>>,
         NEW h, h = Head(layer.events[n]).peer
  PROVE  Shifted(layer, n, [layer EXCEPT !.events[n] = Tail(@),
                                         !.late = @ \/ layer.old[<<h, n>>] > 0])
<1> DEFINE E == [layer.events EXCEPT ![n] = Tail(@)]
           lost == layer.late \/ layer.old[<<h, n>>] > 0
           r == [layer EXCEPT !.events[n] = Tail(@), !.late = @ \/ layer.old[<<h, n>>] > 0]
<1>1. layer.events \in [Node -> Seq(SessionEvents)] /\ Tail(layer.events[n]) \in Seq(SessionEvents)
  BY LayerParts, Tailed
<1>2. E \in [Node -> Seq(SessionEvents)] /\ E[n] = Tail(layer.events[n])
      /\ \A m \in Node \ {n} : E[m] = layer.events[m]
  BY <1>1
<1>3. layer = [up |-> layer.up, dialing |-> layer.dialing, events |-> layer.events,
               net |-> layer.net, old |-> layer.old, late |-> layer.late]
  BY LayerParts
<1>4. lost \in BOOLEAN
  OBVIOUS
<1>5. r = [layer EXCEPT !.events = E, !.late = lost]
  BY <1>3
<1>6. r.up = layer.up /\ r.net = layer.net /\ r.old = layer.old /\ r.events = E
      /\ (r.late <=> lost)
  BY <1>3, <1>5
<1> HIDE DEF E, r, lost
<1>7. LayerType(r)
  BY <1>2, <1>3, <1>4, <1>5 DEF LayerType
<1>8. \A k : Head(layer.events[n]) = DownFrom(k) => k = h
  BY DEF DownFrom
<1>9. Shifted(layer, n, r)
  BY <1>2, <1>6, <1>7, <1>8 DEF Shifted, lost
<1> QED  BY <1>9 DEF r

\* It knows of a session with the peer of the event now, or of none.
Heard(n, h) ==
    IF Head(layer.events[n]).type = "Up" THEN state[n].sessions \cup {h}
    ELSE state[n].sessions \ {h}

LEMMA ShiftedKeeps ==
  ASSUME ViewInv, NEW n \in Node, layer.events[n] # <<>>, NEW h,
         h = Head(layer.events[n]).peer, NEW r, Shifted(layer, n, r)
  PROVE  /\ h \in Node
         /\ LayerInv(r, [SessionsOf(state) EXCEPT ![n] = Heard(n, h)])
         /\ \A m, k \in Node : ~(m = n /\ k = h) =>
               /\ Live(layer, m, k) => Live(r, m, k)
               /\ Awaits(layer, m, k) => Awaits(r, m, k)
<1>1. LayerInv(layer, SessionsOf(state)) /\ LayerType(layer)
  BY DEF ViewInv, LayerInv
<1>2. PICK ev \in Seq(SessionEvents) : ev = layer.events[n] /\ ev # <<>>
  BY <1>1, LayerParts
<1>3. /\ Head(ev) \in SessionEvents /\ Tail(ev) \in Seq(SessionEvents)
      /\ Range(ev) = {Head(ev)} \cup Range(Tail(ev))
  BY <1>2, Tailed, Ranges
<1>4. h \in Node /\ h = Head(ev).peer
  BY <1>2, <1>3 DEF SessionEvents
<1>5. /\ LayerType(r) /\ r.up = layer.up /\ r.net = layer.net /\ r.old = layer.old
      /\ r.events[n] = Tail(ev) /\ \A m \in Node \ {n} : r.events[m] = layer.events[m]
      /\ layer.late => r.late
      /\ \A k : Head(ev) = DownFrom(k) /\ layer.old[<<k, n>>] > 0 => r.late
  BY <1>2 DEF Shifted
<1>6. PICK known : known = [SessionsOf(state) EXCEPT ![n] = Heard(n, h)]
  OBVIOUS
<1>7. known[n] = Heard(n, h) /\ \A m \in Node \ {n} : known[m] = SessionsOf(state)[m]
  BY <1>6 DEF SessionsOf
<1>8. ASSUME NEW m \in Node, NEW k \in Node
      PROVE  /\ Tracks(r.events[m], known[m], r.up, m, k)
             /\ {m, k} \notin r.up => Len(r.net[<<k, m>>]) <= r.old[<<k, m>>]
             /\ r.old[<<k, m>>] > 0 =>
                   r.late \/ [type |-> "Down", peer |-> k] \in Range(r.events[m])
  <2>1. /\ Tracks(layer.events[m], SessionsOf(state)[m], layer.up, m, k)
        /\ {m, k} \notin layer.up => Len(layer.net[<<k, m>>]) <= layer.old[<<k, m>>]
        /\ layer.old[<<k, m>>] > 0 => layer.late \/ DownFrom(k) \in Range(layer.events[m])
    BY <1>1 DEF LayerInv, DownFrom
  <2>2. CASE m = n
    <3>1. k \in Heard(n, h) <=>
            IF Head(ev).peer = k THEN Head(ev).type = "Up" ELSE k \in SessionsOf(state)[n]
      BY <1>2, <1>4 DEF Heard, SessionsOf
    <3>2. Tracks(ev, SessionsOf(state)[n], layer.up, n, k)
      BY <1>2, <2>1, <2>2
    <3>3. Tracks(Tail(ev), Heard(n, h), layer.up, n, k)
      BY <1>2, <3>1, <3>2, TracksTaken
    <3>4. r.old[<<k, m>>] > 0 => r.late \/ DownFrom(k) \in Range(Tail(ev))
      BY <1>2, <1>3, <1>5, <2>1, <2>2
    <3> QED  BY <1>5, <1>7, <2>1, <2>2, <3>3, <3>4 DEF DownFrom
  <2>3. CASE m # n
    BY <1>5, <1>7, <2>1, <2>3 DEF DownFrom
  <2> QED  BY <2>2, <2>3
<1>9. LayerInv(r, known)
  BY <1>5, <1>8 DEF LayerInv
<1>10. ASSUME NEW m \in Node, NEW k \in Node, ~(m = n /\ k = h)
       PROVE  \A t : [type |-> t, peer |-> k] \in Range(layer.events[m]) =>
                        [type |-> t, peer |-> k] \in Range(r.events[m])
  <2>1. CASE m = n
    <3>1. \A t : [type |-> t, peer |-> k] # Head(ev)
      BY <1>4, <1>10, <2>1
    <3> QED  BY <1>2, <1>3, <1>5, <2>1, <3>1
  <2>2. CASE m # n
    BY <1>5, <2>2
  <2> QED  BY <2>1, <2>2
<1>11. ASSUME NEW m \in Node, NEW k \in Node, ~(m = n /\ k = h)
       PROVE  /\ Live(layer, m, k) => Live(r, m, k)
              /\ Awaits(layer, m, k) => Awaits(r, m, k)
  <2>1. \A t : [type |-> t, peer |-> k] \in Range(layer.events[m]) =>
                        [type |-> t, peer |-> k] \in Range(r.events[m])
    BY <1>10, <1>11
  <2> QED  BY <1>5, <2>1 DEF Live, Awaits
<1> QED  BY <1>4, <1>6, <1>9, <1>11

LEMMA ReadyEvent ==
  ASSUME ViewInv, NEW n \in Node, layer.events[n] # <<>>, NEW h,
         h = Head(layer.events[n]).peer, NEW r, Shifted(layer, n, r),
         NEW b, b.sessions = Heard(n, h), b.pending[h] = None,
         \A k \in Node \ {h} : b.pending[k] # None =>
            /\ state[n].pending[k] # None
            /\ k \in state[n].timers => k \in b.timers,
         NEW A, A \subseteq (state[n].active \ {h}) \cup (b.sessions \cap {h})
  PROVE  Ready(n, b, A, {}, r)
<1>1. LayerInv(layer, SessionsOf(state)) /\ Backed(layer, state)
  BY DEF ViewInv
<1>2. /\ h \in Node
      /\ LayerInv(r, [SessionsOf(state) EXCEPT ![n] = Heard(n, h)])
      /\ \A m, k \in Node : ~(m = n /\ k = h) =>
            /\ Live(layer, m, k) => Live(r, m, k)
            /\ Awaits(layer, m, k) => Awaits(r, m, k)
  BY ShiftedKeeps
<1>3. PICK known : known = [SessionsOf(state) EXCEPT ![n] = b.sessions]
  OBVIOUS
<1>4. LayerInv(r, known) /\ known[n] = b.sessions
  BY <1>2, <1>3 DEF SessionsOf
<1>5. r.up = layer.up /\ (layer.late => r.late)
  BY DEF Shifted
<1>6. CASE r.late
  BY <1>3, <1>4, <1>6 DEF Ready
<1>7. CASE ~r.late
  <2>1. \A m, k \in Node :
          /\ k \in state[m].active => Live(layer, m, k)
          /\ state[m].pending[k] # None /\ ({m, k} \in layer.up \/ k \notin state[m].timers) =>
                Awaits(layer, m, k)
    BY <1>1, <1>5, <1>7 DEF Backed
  <2>2. state[n].active \subseteq Node
    BY DEF ViewInv, Sound, Running
  <2>3. ASSUME NEW k \in A PROVE Live(r, n, k)
    <3>1. CASE k = h
      <4>1. h \in known[n]
        BY <1>4, <2>3, <3>1
      <4>2. CASE {n, h} \in r.up
        BY <3>1, <4>2 DEF Live
      <4>3. CASE {n, h} \notin r.up
        BY <1>2, <1>4, <3>1, <4>1, <4>3, ToBeTold
      <4> QED  BY <4>2, <4>3
    <3>2. CASE k # h
      BY <1>2, <2>1, <2>2, <2>3, <3>2
    <3> QED  BY <3>1, <3>2
  <2>4. ASSUME NEW k \in Node, b.pending[k] # None, {n, k} \in r.up \/ k \notin b.timers
        PROVE  Awaits(r, n, k)
    <3>1. k # h
      BY <2>4
    <3> QED  BY <1>2, <1>5, <2>1, <2>4, <3>1
  <2>5. \A m \in Node \ {n}, k \in Node :
          /\ k \in state[m].active => Live(r, m, k)
          /\ state[m].pending[k] # None /\ ({m, k} \in r.up \/ k \notin state[m].timers) =>
                Awaits(r, m, k) \/ (k = n /\ m \in {} /\ {m, n} \in r.up)
    BY <1>2, <1>5, <2>1
  <2> QED  BY <1>3, <1>4, <2>3, <2>4, <2>5 DEF Ready
<1> QED  BY <1>6, <1>7
------------------------------------------------------------------------------
(* HyParView: session events and timers. *)

\* A handler that answers nobody.
LEMMA SilentKeeps ==
  ASSUME ViewInv, NEW n \in Node, NEW b, NEW A, NEW r,
         Ready(n, b, A, {}, r), NEW outcomes, Runs(n, r, outcomes),
         \A s \in outcomes : Outcome(n, b, A, Node, s)
  PROVE  ViewInv'
<1>1. \A s \in outcomes : Answers(n, b, A, {}, s)
  BY DEF Answers
<1>2. {} \in SUBSET Node
  OBVIOUS
<1> QED  BY <1>1, <1>2, RunKeeps

\* Node n knows of other sessions.
LEMMA SessionsSet ==
  ASSUME ViewInv, NEW n \in Node, NEW S \in SUBSET Node,
         NEW s, s = [state[n] EXCEPT !.sessions = S]
  PROVE  /\ Sound(n, s) /\ s.sessions = S /\ s.active = state[n].active
         /\ s.pending = state[n].pending /\ s.timers = state[n].timers
<1>1. Sound(n, state[n]) /\ state[n] \in Running(n)
  BY DEF ViewInv, Sound
<1>2. s \in Running(n)
  BY <1>1, RunningWith
<1>3. /\ s.sessions = S /\ s.active = state[n].active /\ s.passive = state[n].passive
      /\ s.pending = state[n].pending /\ s.timers = state[n].timers
  BY <1>1 DEF Running
<1> QED  BY <1>1, <1>2, <1>3 DEF Sound

LEMMA ConnectedKeeps ==
  ASSUME ViewInv, NEW n \in Node, OnSessionConnected(n)
  PROVE  ViewInv'
<1>1. PICK h : h = Head(layer.events[n]).peer
  OBVIOUS
<1>2. PICK s : s = [state[n] EXCEPT !.sessions = state[n].sessions \cup {h}]
  OBVIOUS
<1>3. PICK r : r = [layer EXCEPT !.events[n] = Tail(@)]
  OBVIOUS
<1>4. PICK outcomes : outcomes = IF s.pending[h] # None THEN driveIntent(s, h) ELSE {s}
  OBVIOUS
<1>5. /\ layer.events[n] # <<>> /\ Head(layer.events[n]).type = "Up"
      /\ Runs(n, r, outcomes)
  BY <1>1, <1>2, <1>3, <1>4 DEF OnSessionConnected, Told
<1>6. LayerType(layer) /\ state[n] \in Running(n)
  BY DEF ViewInv, LayerInv, Sound
<1>7. Shifted(layer, n, r)
  BY <1>3, <1>5, <1>6, UpShifted
<1>8. h \in Node
  BY <1>1, <1>5, <1>7, ShiftedKeeps
<1>9. state[n].sessions \cup {h} \in SUBSET Node
  BY <1>6, <1>8, RunningParts
<1>10. /\ Sound(n, s) /\ s.sessions = state[n].sessions \cup {h} /\ s.active = state[n].active
       /\ s.pending = state[n].pending /\ s.timers = state[n].timers
  BY <1>2, <1>9, SessionsSet
<1>11. s \in Running(n) /\ s.pending \in [Node -> Intent \cup {None}]
  BY <1>10, RunningParts DEF Sound
<1>12. PICK b : b = [s EXCEPT !.pending[h] = None]
  OBVIOUS
<1>13. /\ b.sessions = s.sessions /\ b.timers = s.timers /\ b.pending[h] = None
       /\ \A k \in Node \ {h} : b.pending[k] = s.pending[k]
  BY <1>8, <1>11, <1>12 DEF Running
<1>14. PICK A : A = (state[n].active \ {h}) \cup {h}
  OBVIOUS
<1>15. Ready(n, b, A, {}, r)
  <2>1. b.sessions = Heard(n, h)
    BY <1>5, <1>10, <1>13 DEF Heard
  <2>2. A \subseteq (state[n].active \ {h}) \cup (b.sessions \cap {h})
    BY <1>10, <1>13, <1>14
  <2>3. \A k \in Node \ {h} : b.pending[k] # None =>
           state[n].pending[k] # None /\ (k \in state[n].timers => k \in b.timers)
    BY <1>10, <1>13
  <2> QED  BY <1>1, <1>5, <1>7, <1>13, <2>1, <2>2, <2>3, ReadyEvent
<1>16. Outcome(n, b, A, Node \ {h}, s)
  <2>1. \A k \in Node \ {h} : Tried(b, s, k)
    BY <1>13 DEF Tried
  <2>2. s.active \subseteq A
    BY <1>10, <1>14
  <2> QED  BY <1>10, <1>13, <2>1, <2>2 DEF Outcome
<1>17. activeSize \in Nat \ {0}
  BY ConfigAssumption DEF ViewInv
<1>18. ASSUME NEW u \in outcomes PROVE Outcome(n, b, A, Node, u)
  <2>1. CASE s.pending[h] # None
    <3>1. u \in driveIntent(s, h) /\ h \in s.sessions /\ h \in A
      BY <1>4, <1>10, <1>14, <1>18, <2>1
    <3> QED  BY <1>8, <1>16, <1>17, <2>1, <3>1, Driven
  <2>2. CASE s.pending[h] = None
    <3>1. u = s
      BY <1>4, <1>18, <2>2
    <3>2. Tried(b, s, h)
      BY <2>2 DEF Tried
    <3> QED  BY <1>16, <3>1, <3>2 DEF Outcome
  <2> QED  BY <2>1, <2>2
<1> QED  BY <1>5, <1>15, <1>18, SilentKeeps

LEMMA DownKeeps ==
  ASSUME ViewInv, NEW n \in Node, onSessionDown(n)
  PROVE  ViewInv'
<1>1. PICK h : h = Head(layer.events[n]).peer
  OBVIOUS
<1>2. PICK s : s = [state[n] EXCEPT !.sessions = state[n].sessions \ {h}]
  OBVIOUS
<1>3. PICK r : r = [layer EXCEPT !.events[n] = Tail(@),
                                 !.late = @ \/ layer.old[<<h, n>>] > 0]
  OBVIOUS
<1>4. PICK t : t = IF s.pending[h] # None THEN clearPending(s, h) ELSE s
  OBVIOUS
<1>5. PICK outcomes : outcomes = IF h \in t.active THEN promote(removeActive(t, h)) ELSE {t}
  OBVIOUS
<1>6. /\ layer.events[n] # <<>> /\ Head(layer.events[n]).type = "Down"
      /\ Runs(n, r, outcomes)
  BY <1>1, <1>2, <1>3, <1>4, <1>5 DEF onSessionDown, Told
<1>7. LayerType(layer) /\ state[n] \in Running(n)
  BY DEF ViewInv, LayerInv, Sound
<1>8. Shifted(layer, n, r)
  BY <1>1, <1>3, <1>6, <1>7, DownShifted
<1>9. h \in Node
  BY <1>1, <1>6, <1>8, ShiftedKeeps
<1>10. state[n].sessions \ {h} \in SUBSET Node
  BY <1>7, RunningParts
<1>11. /\ Sound(n, s) /\ s.sessions = state[n].sessions \ {h} /\ s.active = state[n].active
       /\ s.pending = state[n].pending /\ s.timers = state[n].timers
  BY <1>2, <1>10, SessionsSet
<1>12. s.pending \in [Node -> Intent \cup {None}]
  BY <1>11, RunningParts DEF Sound
<1>13. PICK A : A = state[n].active
  OBVIOUS
<1>14. /\ Sound(n, t) /\ t.sessions = s.sessions /\ t.active = s.active
       /\ t.pending[h] = None
       /\ \A k \in Node \ {h} : t.pending[k] = s.pending[k] /\ (k \in s.timers => k \in t.timers)
  <2>1. CASE s.pending[h] # None
    <3>1. \A k \in Node : Tried(s, s, k)
      BY DEF Tried
    <3>2. Outcome(n, s, A, Node, s)
      BY <1>11, <1>13, <3>1 DEF Outcome
    <3>3. t = clearPending(s, h)
      BY <1>4, <2>1
    <3>4. PICK H \in SUBSET Node : H = Node
      OBVIOUS
    <3>5. Outcome(n, s, A, H, s)
      BY <3>2, <3>4
    <3>6. Outcome(n, s, A, H \cup {h}, t) /\ Freed(s, h, t)
      BY <1>9, <3>3, <3>5, Cleared
    <3> QED  BY <1>9, <1>12, <3>6 DEF Outcome, Freed
  <2>2. CASE s.pending[h] = None
    BY <1>4, <1>11, <2>2
  <2> QED  BY <2>1, <2>2
<1>15. Ready(n, t, A \ {h}, {}, r)
  <2>1. t.sessions = Heard(n, h)
    BY <1>6, <1>11, <1>14 DEF Heard
  <2>2. A \ {h} \subseteq (state[n].active \ {h}) \cup (t.sessions \cap {h})
    BY <1>13
  <2>3. \A k \in Node \ {h} : t.pending[k] # None =>
           state[n].pending[k] # None /\ (k \in state[n].timers => k \in t.timers)
    BY <1>11, <1>14
  <2> QED  BY <1>1, <1>6, <1>8, <1>14, <2>1, <2>2, <2>3, ReadyEvent
<1>16. Outcome(n, t, A, Node, t)
  <2>1. \A k \in Node : Tried(t, t, k)
    BY DEF Tried
  <2> QED  BY <1>11, <1>13, <1>14, <2>1 DEF Outcome
<1>17. activeSize \in Nat \ {0}
  BY ConfigAssumption DEF ViewInv
<1>18. ASSUME NEW u \in outcomes PROVE Outcome(n, t, A \ {h}, Node, u)
  <2>1. CASE h \in t.active
    <3>1. PICK x : x = removeActive(t, h)
      OBVIOUS
    <3>2. Outcome(n, t, A \ {h}, Node, x)
      BY <1>16, <1>17, <3>1, Removed
    <3>3. u \in promote(x)
      BY <1>5, <1>18, <2>1, <3>1
    <3> QED  BY <1>17, <3>2, <3>3, Promoted
  <2>2. CASE h \notin t.active
    <3>1. u = t
      BY <1>5, <1>18, <2>2
    <3>2. t.active \subseteq A \ {h}
      BY <1>11, <1>13, <1>14, <2>2
    <3> QED  BY <1>16, <3>1, <3>2 DEF Outcome
  <2> QED  BY <2>1, <2>2
<1> QED  BY <1>6, <1>15, <1>18, SilentKeeps

\* A handler may as well have started at s.
LEMMA Restart ==
  ASSUME NEW n, NEW b, NEW A, NEW H, NEW s, Outcome(n, b, A, H, s)
  PROVE  Outcome(n, s, A, Node, s)
<1>1. \A h \in Node : Tried(s, s, h)
  BY DEF Tried
<1> QED  BY <1>1 DEF Outcome

LEMMA MaintenanceKeeps ==
  ASSUME ViewInv, NEW n \in Node, onMaintenanceTick(n)
  PROVE  ViewInv'
<1>1. PICK s : s = state[n]
  OBVIOUS
<1>2. PICK A : A = s.active \cup s.sessions
  OBVIOUS
<1>3. Ready(n, s, A, {}, layer)
  BY <1>1, <1>2, ReadyNow
<1>4. Outcome(n, s, A, Node, s) /\ activeSize \in Nat \ {0}
  BY <1>1, <1>2, Starts
<1>5. PICK outcomes :
        outcomes = CASE s.active = {} /\ Pending(s) = {} -> openContacts(s)
                     [] s.active # {} \/ Pending(s) # {} ->
                           IF Cardinality(s.active) < activeSize THEN promote(s) ELSE {s}
  OBVIOUS
<1>6. Runs(n, layer, outcomes)
  BY <1>1, <1>5 DEF onMaintenanceTick
<1>7. ASSUME NEW u \in outcomes PROVE Outcome(n, s, A, Node, u)
  <2>1. CASE s.active = {} /\ Pending(s) = {}
    <3>1. u \in openContacts(s)
      BY <1>5, <1>7, <2>1
    <3>2. s.sessions \subseteq A
      BY <1>2
    <3> QED  BY <1>4, <3>1, <3>2, ContactsOpened
  <2>2. CASE ~(s.active = {} /\ Pending(s) = {})
    <3>1. u \in promote(s) \/ u = s
      BY <1>5, <1>7, <2>2
    <3> QED  BY <1>4, <3>1, Promoted
  <2> QED  BY <2>1, <2>2
<1> QED  BY <1>3, <1>6, <1>7, SilentKeeps

LEMMA ShuffleTickKeeps ==
  ASSUME ViewInv, NEW n \in Node, onShuffleTick(n)
  PROVE  ViewInv'
<1>1. PICK s : s = state[n]
  OBVIOUS
<1>2. PICK A : A = s.active \cup s.sessions
  OBVIOUS
<1>3. Ready(n, s, A, {}, layer)
  BY <1>1, <1>2, ReadyNow
<1>4. Outcome(n, s, A, Node, s) /\ s \in Running(n)
  BY <1>1, <1>2, Starts
<1>5. s.active \in SUBSET Node /\ s.passive \in SUBSET Node
  BY <1>4, RunningParts
<1>6. PICK q \in s.active :
        \E fromActive \in Samples(s.active \ {q}, ShuffleActive),
           fromPassive \in Samples(s.passive, ShufflePassive) :
              Runs(n, layer, {Send(s, [type |-> "Shuffle", origin |-> n, ttl |-> ARWL,
                                       nodes |-> <<n>> \o fromActive \o fromPassive,
                                       path |-> <<n>>], q)})
  BY <1>1 DEF onShuffleTick
<1>7. PICK fromActive \in Samples(s.active \ {q}, ShuffleActive),
            fromPassive \in Samples(s.passive, ShufflePassive) :
         Runs(n, layer, {Send(s, [type |-> "Shuffle", origin |-> n, ttl |-> ARWL,
                                  nodes |-> <<n>> \o fromActive \o fromPassive,
                                  path |-> <<n>>], q)})
  BY <1>6
<1>8. fromActive \in Seq(Node) /\ fromPassive \in Seq(Node)
  <2>1. s.active \ {q} \in SUBSET Node
    BY <1>5
  <2> QED  BY <1>5, <1>7, <2>1, Sampled
<1>9. PICK nodes \in Seq(Node) : nodes = <<n>> \o fromActive \o fromPassive
  <2>1. <<n>> \in Seq(Node)
    BY Short
  <2>2. <<n>> \o fromActive \in Seq(Node)
    BY <1>8, <2>1, SeqParts
  <2> QED  BY <1>8, <2>2, SeqParts
<1>10. PICK x : x = [type |-> "Shuffle", origin |-> n, ttl |-> ARWL, nodes |-> nodes,
                    path |-> <<n>>]
  OBVIOUS
<1>11. x \in ViewMessages
  <2>1. <<n>> \in Seq(Node) /\ <<n>> # <<>>
    BY Short
  <2>2. ARWL \in 0 .. ARWL
    BY ConfigAssumption
  <2>3. x \in ShuffleMessage
    BY <1>9, <1>10, <2>1, <2>2 DEF ShuffleMessage
  <2> QED  BY <1>10, <2>1, <2>3 DEF ViewMessages
<1>12. PICK w \in Requests(n) : w = SendOf(x, q)
  BY <1>5, <1>6, <1>11, Sendable
<1>13. Runs(n, layer, {Asked(s, w)})
  BY <1>7, <1>9, <1>10, <1>12 DEF Send, SendOf
<1>14. Outcome(n, s, A, Node, Asked(s, w))
  BY <1>4, AskedMore
<1>15. \A u \in {Asked(s, w)} : Outcome(n, s, A, Node, u)
  BY <1>14
<1> QED  BY <1>3, <1>13, <1>15, SilentKeeps

LEMMA TimeoutKeeps ==
  ASSUME ViewInv, NEW n \in Node, NEW h \in Node, onAttemptTimeout(n, h)
  PROVE  ViewInv'
<1>1. PICK o : o = state[n]
  OBVIOUS
<1>2. PICK A : A = o.active \cup o.sessions
  OBVIOUS
<1>3. Outcome(n, o, A, Node, o) /\ activeSize \in Nat \ {0} /\ o \in Running(n)
  BY <1>1, <1>2, Starts
<1>4. PICK s : s = [o EXCEPT !.timers = o.timers \ {h}]
  OBVIOUS
<1>5. o.timers \ {h} \in SUBSET Node
  BY <1>3, RunningParts
<1>6. s \in Running(n)
  BY <1>3, <1>4, <1>5, RunningWith
<1>7. /\ s.active = o.active /\ s.passive = o.passive /\ s.sessions = o.sessions
      /\ s.pending = o.pending /\ s.timers = o.timers \ {h} /\ s.out = o.out
  BY <1>3, <1>4 DEF Running
<1>8. PICK w : w = [s EXCEPT !.pending[h] = None]
  OBVIOUS
<1>9. w = clearPending(o, h)
  BY <1>3, <1>4, <1>8 DEF clearPending, Running
<1>10. PICK q \in Requests(n) : q = [op |-> "disconnect", peer |-> h]
  BY Sendable
<1>11. PICK t : t = Asked(w, q)
  OBVIOUS
<1>12. PICK outcomes :
         outcomes = CASE s.pending[h] = None \/ h \in s.active -> {s}
                      [] s.pending[h] # None /\ h \notin s.active
                            /\ s.pending[h].kind = "Neighbor" -> promote(t)
                      [] OTHER -> {t}
  OBVIOUS
<1>13. Runs(n, layer, outcomes)
  BY <1>1, <1>4, <1>8, <1>10, <1>11, <1>12 DEF onAttemptTimeout, Disconnect
<1>14. CASE s.pending[h] = None \/ h \in s.active
  <2>1. Ready(n, s, A, {}, layer)
    <3>1. \A k \in Node : s.pending[k] # None =>
             /\ o.pending[k] # None
             /\ k \in o.timers => k \in s.timers \/ k \in o.active
      BY <1>7, <1>14
    <3> QED  BY <1>1, <1>2, <1>7, <3>1, ReadyNow
  <2>2. Outcome(n, s, A, Node, s)
    <3>1. \A k \in Node : Tried(s, s, k)
      BY DEF Tried
    <3>2. Sound(n, s)
      BY <1>3, <1>6, <1>7 DEF Outcome, Sound
    <3> QED  BY <1>2, <1>7, <3>1, <3>2 DEF Outcome
  <2>3. \A u \in outcomes : u = s
    BY <1>12, <1>14
  <2> QED  BY <1>13, <2>1, <2>2, <2>3, SilentKeeps
<1>15. CASE ~(s.pending[h] = None \/ h \in s.active)
  <2>1. PICK H \in SUBSET Node : H = Node
    OBVIOUS
  <2>2. Outcome(n, o, A, H, o)
    BY <1>3, <2>1
  <2>3. Outcome(n, o, A, H \cup {h}, w) /\ Freed(o, h, w)
    BY <1>9, <2>2, Cleared
  <2>4. Outcome(n, w, A, Node, w)
    BY <2>3, Restart
  <2>5. /\ w.sessions = o.sessions /\ w.pending[h] = None
        /\ \A k \in Node \ {h} : w.pending[k] = o.pending[k] /\ (k \in o.timers => k \in w.timers)
    <3>1. o.pending \in [Node -> Intent \cup {None}]
      BY <1>3, RunningParts
    <3> QED  BY <2>3, <3>1 DEF Freed
  <2>6. Ready(n, w, A, {}, layer)
    <3>1. \A k \in Node : w.pending[k] # None =>
             /\ o.pending[k] # None
             /\ k \in o.timers => k \in w.timers \/ k \in o.active
      BY <2>5
    <3> QED  BY <1>1, <1>2, <2>5, <3>1, ReadyNow
  <2>7. Outcome(n, w, A, Node, t)
    BY <1>11, <2>4, AskedMore
  <2>8. ASSUME NEW u \in outcomes PROVE Outcome(n, w, A, Node, u)
    <3>1. u \in promote(t) \/ u = t
      BY <1>12, <1>15, <2>8
    <3> QED  BY <1>3, <2>7, <3>1, Promoted
  <2> QED  BY <1>13, <2>6, <2>8, SilentKeeps
<1> QED  BY <1>14, <1>15
------------------------------------------------------------------------------
(* HyParView: messages. *)

LEMMA MessageParts ==
  \A m \in ViewMessages :
     /\ m.type = "ForwardJoin" =>
           m \in [type : {"ForwardJoin"}, newNode : Node, ttl : 0 .. ARWL]
     /\ m.type = "Shuffle" =>
           /\ m \in [type : {"Shuffle"}, origin : Node, ttl : 0 .. ARWL, nodes : Seq(Node),
                     path : Seq(Node)]
           /\ m.path # <<>>
     /\ m.type = "ShuffleReply" =>
           m \in [type : {"ShuffleReply"}, nodes : Seq(Node), route : Seq(Node)]
BY DEF ViewMessages, ViewMessage, ShuffleMessage

LEMMA Travelled ==
  ASSUME ViewInv, NEW n \in Node, NEW from \in Node, layer.net[<<from, n>>] # <<>>
  PROVE  Head(layer.net[<<from, n>>]) \in ViewMessages
<1>1. layer.net[<<from, n>>] \in Seq(ViewMessages)
  BY LayerParts DEF ViewInv, LayerInv
<1> QED  BY <1>1, Tailed

\* A message that no answer is due to, and that is none itself.
LEMMA MessageKeeps ==
  ASSUME ViewInv, NEW n \in Node, NEW from \in Node, layer.net[<<from, n>>] # <<>>,
         Head(layer.net[<<from, n>>]).type \notin {"Neighbor", "NeighborReply"},
         NEW outcomes, Runs(n, Handed(n, from), outcomes),
         \A u \in outcomes : Outcome(n, state[n], state[n].active \cup {from}, Node, u)
  PROVE  ViewInv'
<1>1. PICK V : V = {}
  OBVIOUS
<1>2. Ready(n, state[n], state[n].active \cup {from}, V, Handed(n, from))
  BY ReadyMessage
<1> QED  BY <1>1, <1>2, SilentKeeps

\* Where the handler of a message starts.
LEMMA MessageStarts ==
  ASSUME ViewInv, NEW n \in Node, NEW from \in Node, NEW b, b = state[n], NEW A,
         A = b.active \cup {from}
  PROVE  Outcome(n, b, A, Node, b) /\ activeSize \in Nat \ {0} /\ b \in Running(n)
BY Starts

\* More is asked for at once.
LEMMA AskedAll ==
  ASSUME NEW n \in Node, NEW b, NEW A, NEW H, NEW s, Outcome(n, b, A, H, s),
         NEW q \in Seq(Requests(n)), NEW t, t = [s EXCEPT !.out = s.out \o q]
  PROVE  Outcome(n, b, A, H, t)
<1>1. s \in Running(n) /\ Sound(n, s) /\ s.active \subseteq A
  BY DEF Outcome, Sound
<1>2. s.out \in Seq(Requests(n))
  BY <1>1, RunningParts
<1>3. PICK w \in Seq(Requests(n)) : w = s.out \o q
  BY <1>2, SeqParts
<1>4. Range(s.out) \subseteq Range(w)
  BY <1>2, <1>3, Ranges
<1>5. t \in Running(n)
  BY <1>1, <1>3, RunningWith
<1>6. /\ t.active = s.active /\ t.passive = s.passive /\ t.sessions = s.sessions
      /\ t.pending = s.pending /\ t.timers = s.timers /\ t.out = w
  BY <1>1, <1>3 DEF Running
<1> QED  BY <1>1, <1>4, <1>5, <1>6, ViewsChange DEF Sound

LEMMA JoinKeeps ==
  ASSUME ViewInv, NEW n \in Node, NEW from \in Node, onJoin(n, from)
  PROVE  ViewInv'
<1> DEFINE walk == [type |-> "ForwardJoin", newNode |-> from, ttl |-> ARWL]
           walks(hosts) ==
             [i \in 1 .. Len(hosts) |-> [op |-> "send", peer |-> hosts[i], msg |-> walk]]
           forwarded(s) == [s EXCEPT !.out = s.out \o walks(SetToSeq(s.active \ {from}))]
           outcomes == {forwarded(s) : s \in addActive(state[n], from)}
<1>1. /\ layer.net[<<from, n>>] # <<>> /\ Head(layer.net[<<from, n>>]).type = "Join"
      /\ Runs(n, Handed(n, from), outcomes)
  BY DEF onJoin, Received
<1>2. PICK b : b = state[n]
  OBVIOUS
<1>3. PICK A : A = b.active \cup {from}
  OBVIOUS
<1>4. Outcome(n, b, A, Node, b) /\ activeSize \in Nat \ {0}
  BY <1>2, <1>3, MessageStarts
<1>5. walk \in ViewMessages
  <2>1. ARWL \in 0 .. ARWL
    BY ConfigAssumption
  <2> QED  BY <2>1 DEF ViewMessages, ViewMessage
<1>6. ASSUME NEW s \in addActive(b, from) PROVE Outcome(n, b, A, Node, forwarded(s))
  <2>1. from \in A
    BY <1>3
  <2>2. Outcome(n, b, A, Node, s)
    BY <1>4, <2>1, Admitted
  <2>3. s.active \ {from} \in SUBSET Node
    BY <2>2, RunningParts DEF Outcome, Sound
  <2>4. PICK hosts \in Seq(Node) : hosts = SetToSeq(s.active \ {from})
    BY <2>3, Ordered, SeqParts
  <2>5. PICK q : q = walks(hosts)
    OBVIOUS
  <2>6. q \in Seq(Requests(n))
    <3>1. PICK k \in Nat : k = Len(hosts)
      OBVIOUS
    <3>2. \A i \in 1 .. k : hosts[i] \in Node
      BY <3>1
    <3>3. \A h \in Node : [op |-> "send", peer |-> h, msg |-> walk] \in Requests(n)
      BY <1>5, Sendable DEF SendOf
    <3> HIDE DEF walk
    <3>4. q = [i \in 1 .. k |-> [op |-> "send", peer |-> hosts[i], msg |-> walk]]
      BY <2>5, <3>1
    <3>5. q \in [1 .. k -> Requests(n)]
      BY <3>2, <3>3, <3>4
    <3> QED  BY <3>1, <3>5, SeqDef
  <2>7. forwarded(s) = [s EXCEPT !.out = s.out \o q]
    BY <2>4, <2>5
  <2> HIDE DEF forwarded
  <2> QED  BY <2>2, <2>6, <2>7, AskedAll
<1>7. \A u \in outcomes : Outcome(n, b, A, Node, u)
  <2> HIDE DEF forwarded
  <2> QED  BY <1>2, <1>6
<1> HIDE DEF outcomes
<1>8. Head(layer.net[<<from, n>>]).type \notin {"Neighbor", "NeighborReply"}
  BY <1>1
<1> QED  BY <1>1, <1>2, <1>3, <1>7, <1>8, MessageKeeps

LEMMA ForwardJoinKeeps ==
  ASSUME ViewInv, NEW n \in Node, NEW from \in Node,
         onForwardJoin(n, from) \/ forwardJoin(n, from) \/ ignoreForwardJoin(n, from)
  PROVE  ViewInv'
<1>1. PICK m : m = Head(layer.net[<<from, n>>])
  OBVIOUS
<1>2. PICK b : b = state[n]
  OBVIOUS
<1>3. PICK A : A = b.active \cup {from}
  OBVIOUS
<1>4. layer.net[<<from, n>>] # <<>> /\ m.type = "ForwardJoin"
  BY <1>1 DEF onForwardJoin, forwardJoin, ignoreForwardJoin, Received
<1>5. m \in ViewMessages /\ m \in [type : {"ForwardJoin"}, newNode : Node, ttl : 0 .. ARWL]
  BY <1>1, <1>4, Travelled, MessageParts
<1>6. Outcome(n, b, A, Node, b) /\ activeSize \in Nat \ {0} /\ b \in Running(n)
  BY <1>2, <1>3, MessageStarts
<1>7. PICK h \in Node : h = m.newNode
  BY <1>5
<1>8. PICK filed : filed = IF m.ttl = PRWL THEN addPassive(state[n], m.newNode) ELSE {state[n]}
  OBVIOUS
<1>9. ASSUME NEW s \in filed PROVE Outcome(n, b, A, Node, s)
  <2>1. s = b \/ s \in addPassive(b, h)
    BY <1>2, <1>7, <1>8, <1>9
  <2> QED  BY <1>6, <2>1, Filed
<1>10. \A outcomes : /\ Runs(n, Handed(n, from), outcomes)
                     /\ \A u \in outcomes : Outcome(n, b, A, Node, u)
                     => ViewInv'
  BY <1>1, <1>2, <1>3, <1>4, MessageKeeps
<1>11. CASE onForwardJoin(n, from)
  <2>1. PICK outcomes : outcomes = UNION {openActive(s, h, "Neighbor", FALSE) : s \in filed}
    OBVIOUS
  <2>2. Runs(n, Handed(n, from), outcomes)
    BY <1>1, <1>7, <1>8, <1>11, <2>1 DEF onForwardJoin, Then
  <2>3. ASSUME NEW u \in outcomes PROVE Outcome(n, b, A, Node, u)
    <3>1. PICK s \in filed : u \in openActive(s, h, "Neighbor", FALSE)
      BY <2>1, <2>3
    <3>2. Outcome(n, b, A, Node, s) /\ FALSE \in BOOLEAN
      BY <1>9
    <3> QED  BY <1>6, <3>1, <3>2, Opened
  <2> QED  BY <1>10, <2>2, <2>3
<1>12. CASE forwardJoin(n, from)
  <2>1. /\ m.ttl > 0
        /\ \E k \in state[n].active \ {from, m.newNode} :
             Runs(n, Handed(n, from), {Send(s, [m EXCEPT !.ttl = @ - 1], k) :
                s \in IF m.ttl = PRWL THEN addPassive(state[n], m.newNode) ELSE {state[n]}})
    <3> DEFINE w == Head(layer.net[<<from, n>>])
    <3>1. /\ w.ttl > 0
          /\ \E k \in state[n].active \ {from, w.newNode} :
               Runs(n, Handed(n, from), {Send(s, [w EXCEPT !.ttl = @ - 1], k) :
                s \in IF w.ttl = PRWL THEN addPassive(state[n], w.newNode) ELSE {state[n]}})
      BY <1>12, Zenon DEF forwardJoin
    <3> HIDE DEF w
    <3>2. m = w
      BY <1>1 DEF w
    <3> QED  BY <3>1, <3>2
  <2>2. PICK k \in b.active \ {from, m.newNode} :
          Runs(n, Handed(n, from), {Send(s, [m EXCEPT !.ttl = @ - 1], k) : s \in filed})
    BY <1>2, <1>8, <2>1
  <2>3. PICK x : x = [m EXCEPT !.ttl = @ - 1]
    OBVIOUS
  <2>4. x \in ViewMessages
    <3>1. m.ttl - 1 \in 0 .. ARWL
      BY <1>5, <2>1, ConfigAssumption
    <3>2. x \in [type : {"ForwardJoin"}, newNode : Node, ttl : 0 .. ARWL]
      BY <1>5, <2>3, <3>1
    <3> QED  BY <3>2 DEF ViewMessages, ViewMessage
  <2>5. k \in Node
    BY <1>6, <2>2, RunningParts
  <2>6. PICK q \in Requests(n) : q = SendOf(x, k)
    BY <2>4, <2>5, Sendable
  <2>7. PICK outcomes : outcomes = {Asked(s, q) : s \in filed}
    OBVIOUS
  <2>8. Runs(n, Handed(n, from), outcomes)
    BY <2>3, <2>6, <2>7, <2>2 DEF Send, SendOf
  <2>9. ASSUME NEW u \in outcomes PROVE Outcome(n, b, A, Node, u)
    <3>1. PICK s \in filed : u = Asked(s, q)
      BY <2>7, <2>9
    <3>2. Outcome(n, b, A, Node, s)
      BY <1>9
    <3> QED  BY <3>1, <3>2, AskedMore
  <2> QED  BY <1>10, <2>8, <2>9
<1>13. CASE ignoreForwardJoin(n, from)
  <2>1. Runs(n, Handed(n, from), {b})
    BY <1>2, <1>13 DEF ignoreForwardJoin
  <2> QED  BY <1>6, <1>10, <2>1
<1> QED  BY <1>11, <1>12, <1>13

LEMMA DisconnectKeeps ==
  ASSUME ViewInv, NEW n \in Node, NEW from \in Node, onDisconnect(n, from)
  PROVE  ViewInv'
<1>1. PICK b : b = state[n]
  OBVIOUS
<1>2. PICK A : A = b.active \cup {from}
  OBVIOUS
<1>3. layer.net[<<from, n>>] # <<>> /\ Head(layer.net[<<from, n>>]).type = "Disconnect"
  BY DEF onDisconnect, Received
<1>4. Outcome(n, b, A, Node, b) /\ activeSize \in Nat \ {0}
  BY <1>1, <1>2, MessageStarts
<1>5. PICK t : t = removeActive(b, from)
  OBVIOUS
<1>6. PICK outcomes : outcomes = IF from \notin b.active THEN {b}
                                 ELSE UNION {promote(s) : s \in addPassive(t, from)}
  OBVIOUS
<1>7. Runs(n, Handed(n, from), outcomes)
  BY <1>1, <1>5, <1>6 DEF onDisconnect, Then
<1>8. Outcome(n, b, A, Node, t)
  <2>1. Outcome(n, b, A \ {from}, Node, t)
    BY <1>4, <1>5, Removed
  <2>2. A \ {from} \subseteq A
    OBVIOUS
  <2> QED  BY <2>1, <2>2, Wider
<1>9. ASSUME NEW u \in outcomes PROVE Outcome(n, b, A, Node, u)
  <2>1. CASE u = b
    BY <1>4, <2>1
  <2>2. CASE u # b
    <3>1. PICK s \in addPassive(t, from) : u \in promote(s)
      BY <1>6, <1>9, <2>2
    <3>2. Outcome(n, b, A, Node, s)
      BY <1>8, Filed
    <3> QED  BY <1>4, <3>1, <3>2, Promoted
  <2> QED  BY <2>1, <2>2
<1>10. Head(layer.net[<<from, n>>]).type \notin {"Neighbor", "NeighborReply"}
  BY <1>3
<1> QED  BY <1>1, <1>2, <1>3, <1>7, <1>9, <1>10, MessageKeeps

LEMMA ForwardShuffleKeeps ==
  ASSUME ViewInv, NEW n \in Node, NEW from \in Node, forwardShuffle(n, from)
  PROVE  ViewInv'
<1>1. PICK m : m = Head(layer.net[<<from, n>>])
  OBVIOUS
<1>2. PICK b : b = state[n]
  OBVIOUS
<1>3. PICK A : A = b.active \cup {from}
  OBVIOUS
<1>4. layer.net[<<from, n>>] # <<>> /\ m.type = "Shuffle"
  BY <1>1 DEF forwardShuffle, Received
<1>5. m \in [type : {"Shuffle"}, origin : Node, ttl : 0 .. ARWL, nodes : Seq(Node),
             path : Seq(Node)]
  BY <1>1, <1>4, Travelled, MessageParts
<1>6. Outcome(n, b, A, Node, b) /\ b \in Running(n)
  BY <1>2, <1>3, MessageStarts
<1>7. /\ m.ttl > 0
      /\ \E h \in state[n].active \ {from, m.origin} :
            Runs(n, Handed(n, from),
                 {Send(state[n], [m EXCEPT !.ttl = @ - 1, !.path = Append(@, n)], h)})
  <2> DEFINE w == Head(layer.net[<<from, n>>])
  <2>1. /\ w.ttl > 0
        /\ \E h \in state[n].active \ {from, w.origin} :
              Runs(n, Handed(n, from),
                   {Send(state[n], [w EXCEPT !.ttl = @ - 1, !.path = Append(@, n)], h)})
    BY Zenon DEF forwardShuffle
  <2> HIDE DEF w
  <2>2. m = w
    BY <1>1 DEF w
  <2> QED  BY <2>1, <2>2
<1>8. PICK h \in b.active :
        Runs(n, Handed(n, from), {Send(b, [m EXCEPT !.ttl = @ - 1, !.path = Append(@, n)], h)})
  BY <1>2, <1>7
<1>9. PICK x : x = [m EXCEPT !.ttl = @ - 1, !.path = Append(@, n)]
  OBVIOUS
<1>10. x \in ViewMessages
  <2>1. m.ttl - 1 \in 0 .. ARWL
    BY <1>5, <1>7, ConfigAssumption
  <2>2. Append(m.path, n) \in Seq(Node) /\ Append(m.path, n) # <<>>
    <3>1. m.path \in Seq(Node)
      BY <1>5
    <3>2. Len(<<>>) = 0
      OBVIOUS
    <3> QED  BY <3>1, <3>2, Appended
  <2>3. x \in ShuffleMessage /\ x.path # <<>>
    BY <1>5, <1>9, <2>1, <2>2 DEF ShuffleMessage
  <2> QED  BY <2>3 DEF ViewMessages
<1>11. h \in Node
  BY <1>6, RunningParts
<1>12. PICK q \in Requests(n) : q = SendOf(x, h)
  BY <1>10, <1>11, Sendable
<1>13. PICK outcomes : outcomes = {Asked(b, q)}
  OBVIOUS
<1>14. Runs(n, Handed(n, from), outcomes)
  BY <1>8, <1>9, <1>12, <1>13 DEF Send, SendOf
<1>15. ASSUME NEW u \in outcomes PROVE Outcome(n, b, A, Node, u)
  <2>1. u = Asked(b, q)
    BY <1>13
  <2> QED  BY <1>6, <2>1, AskedMore
<1>16. Head(layer.net[<<from, n>>]).type \notin {"Neighbor", "NeighborReply"}
  BY <1>1, <1>4
<1> QED  BY <1>2, <1>3, <1>4, <1>14, <1>15, <1>16, MessageKeeps

LEMMA ShuffleKeeps ==
  ASSUME ViewInv, NEW n \in Node, NEW from \in Node, onShuffle(n, from)
  PROVE  ViewInv'
<1>1. PICK m : m = Head(layer.net[<<from, n>>])
  OBVIOUS
<1>2. PICK b : b = state[n]
  OBVIOUS
<1>3. PICK A : A = b.active \cup {from}
  OBVIOUS
<1>4. layer.net[<<from, n>>] # <<>> /\ m.type = "Shuffle"
  BY <1>1 DEF onShuffle, Received
<1>5. /\ m \in [type : {"Shuffle"}, origin : Node, ttl : 0 .. ARWL, nodes : Seq(Node),
                path : Seq(Node)]
      /\ m.path # <<>>
  BY <1>1, <1>4, Travelled, MessageParts
<1>6. Outcome(n, b, A, Node, b) /\ b \in Running(n)
  BY <1>2, <1>3, MessageStarts
<1>7. PICK h \in Node : h = Last(m.path)
  BY <1>5 DEF Last
<1> DEFINE outcomes ==
             {Send(s, [type |-> "ShuffleReply", nodes |-> nodes, route |-> m.path], h) :
                 s \in integratePassive(b, m.nodes), nodes \in Samples(b.passive, Len(m.nodes))}
<1>8. Runs(n, Handed(n, from), outcomes)
  BY <1>1, <1>2, <1>7 DEF onShuffle
<1>9. ASSUME NEW u \in outcomes PROVE Outcome(n, b, A, Node, u)
  <2>1. PICK s \in integratePassive(b, m.nodes), nodes \in Samples(b.passive, Len(m.nodes)) :
          u = Send(s, [type |-> "ShuffleReply", nodes |-> nodes, route |-> m.path], h)
    BY <1>9
  <2> HIDE DEF outcomes
  <2>2. m.nodes \in Seq(Node) /\ m.path \in Seq(Node)
    BY <1>5
  <2>3. Outcome(n, b, A, Node, s)
    BY <1>6, <2>2, Integrated
  <2>4. nodes \in Seq(Node)
    <3>1. b.passive \in SUBSET Node
      BY <1>6, RunningParts
    <3> QED  BY <3>1, Sampled
  <2>5. PICK x : x = [type |-> "ShuffleReply", nodes |-> nodes, route |-> m.path]
    OBVIOUS
  <2>6. x \in ViewMessages
    BY <2>2, <2>4, <2>5 DEF ViewMessages, ShuffleMessage
  <2>7. PICK q \in Requests(n) : q = SendOf(x, h)
    BY <2>6, Sendable
  <2>8. u = Asked(s, q)
    BY <2>1, <2>5, <2>7 DEF Send, SendOf
  <2> QED  BY <2>3, <2>8, AskedMore
<1>10. Head(layer.net[<<from, n>>]).type \notin {"Neighbor", "NeighborReply"}
  BY <1>1, <1>4
<1> HIDE DEF outcomes
<1> QED  BY <1>2, <1>3, <1>4, <1>8, <1>9, <1>10, MessageKeeps

LEMMA ShuffleReplyKeeps ==
  ASSUME ViewInv, NEW n \in Node, NEW from \in Node, onShuffleReply(n, from)
  PROVE  ViewInv'
<1>1. PICK m : m = Head(layer.net[<<from, n>>])
  OBVIOUS
<1>2. PICK b : b = state[n]
  OBVIOUS
<1>3. PICK A : A = b.active \cup {from}
  OBVIOUS
<1>4. layer.net[<<from, n>>] # <<>> /\ m.type = "ShuffleReply"
  BY <1>1 DEF onShuffleReply, Received
<1>5. /\ m \in [type : {"ShuffleReply"}, nodes : Seq(Node), route : Seq(Node)]
      /\ m.nodes \in Seq(Node) /\ m.route \in Seq(Node)
  BY <1>1, <1>4, Travelled, MessageParts
<1>6. Outcome(n, b, A, Node, b)
  BY <1>2, <1>3, MessageStarts
<1>7. PICK route : route = IF m.route # <<>> /\ Last(m.route) = n THEN Front(m.route)
                           ELSE m.route
  OBVIOUS
<1>8. route \in Seq(Node)
  <2>1. m.route # <<>> => Front(m.route) \in Seq(Node)
    <3>1. PICK k \in Nat : k = Len(m.route)
      BY <1>5
    <3>2. \A i \in 1 .. k : m.route[i] \in Node
      BY <1>5, <3>1
    <3>3. m.route # <<>> => k - 1 \in Nat
      BY <1>5, <3>1
    <3>4. Front(m.route) = [i \in 1 .. k - 1 |-> m.route[i]]
      <4>1. \A i \in 1 .. k - 1 : (1 + i) - 1 = i
        OBVIOUS
      <4> QED  BY <1>5, <3>1, <4>1 DEF Front
    <3>5. Front(m.route) \in [1 .. k - 1 -> Node]
      BY <3>1, <3>2, <3>4
    <3> QED  BY <3>3, <3>5, SeqDef
  <2> QED  BY <1>5, <1>7, <2>1
<1>9. PICK outcomes : outcomes = IF route = <<>> THEN integratePassive(b, m.nodes)
                                 ELSE {Send(b, [m EXCEPT !.route = route], Last(route))}
  OBVIOUS
<1>10. Runs(n, Handed(n, from), outcomes)
  BY <1>1, <1>2, <1>7, <1>9 DEF onShuffleReply
<1>11. ASSUME NEW u \in outcomes PROVE Outcome(n, b, A, Node, u)
  <2>1. CASE route = <<>>
    <3>1. u \in integratePassive(b, m.nodes)
      BY <1>9, <1>11, <2>1
    <3> QED  BY <1>5, <1>6, <3>1, Integrated
  <2>2. CASE route # <<>>
    <3>1. PICK h \in Node : h = Last(route)
      BY <1>8, <2>2 DEF Last
    <3>2. PICK x : x = [m EXCEPT !.route = route]
      OBVIOUS
    <3>3. x \in ViewMessages
      BY <1>5, <1>8, <3>2 DEF ViewMessages, ShuffleMessage
    <3>4. PICK q \in Requests(n) : q = SendOf(x, h)
      BY <3>3, Sendable
    <3>5. u = Asked(b, q)
      BY <1>9, <1>11, <2>2, <3>1, <3>2, <3>4 DEF Send, SendOf
    <3> QED  BY <1>6, <3>5, AskedMore
  <2> QED  BY <2>1, <2>2
<1>12. Head(layer.net[<<from, n>>]).type \notin {"Neighbor", "NeighborReply"}
  BY <1>1, <1>4
<1> QED  BY <1>2, <1>3, <1>4, <1>10, <1>11, <1>12, MessageKeeps

LEMMA NeighborKeeps ==
  ASSUME ViewInv, NEW n \in Node, NEW from \in Node, onNeighbor(n, from)
  PROVE  ViewInv'
<1>1. PICK m : m = Head(layer.net[<<from, n>>])
  OBVIOUS
<1>2. PICK b : b = state[n]
  OBVIOUS
<1>3. PICK A : A = b.active \cup {from}
  OBVIOUS
<1>4. layer.net[<<from, n>>] # <<>> /\ m.type = "Neighbor"
  BY <1>1 DEF onNeighbor, Received
<1>5. Outcome(n, b, A, Node, b) /\ activeSize \in Nat \ {0}
  BY <1>2, <1>3, MessageStarts
<1>6. PICK V \in SUBSET Node : V = {from}
  OBVIOUS
<1>7. Ready(n, b, A, V, Handed(n, from))
  <2>1. /\ b.sessions = state[n].sessions /\ from \in V
        /\ \A h \in Node : b.pending[h] # None =>
              /\ state[n].pending[h] # None /\ (h \in state[n].timers => h \in b.timers)
              /\ ~(h = from /\ Head(layer.net[<<from, n>>]).type = "NeighborReply")
    BY <1>1, <1>2, <1>4, <1>6
  <2>2. Ready(n, b, state[n].active \cup {from}, V, Handed(n, from))
    BY <1>4, <2>1, ReadyMessage
  <2> QED  BY <1>2, <1>3, <2>2
<1>8. PICK yes \in Requests(n) : yes = SendOf(Answer(TRUE), from)
  BY Sendable
<1>9. PICK no \in Requests(n) : no = SendOf(Answer(FALSE), from)
  BY Sendable
<1>10. PICK outcomes :
         /\ Runs(n, Handed(n, from), outcomes)
         /\ \/ outcomes = {Asked(t, yes) : t \in addActive(b, from)}
            \/ outcomes = addPassive(Asked(b, no), from)
  BY <1>2, <1>8, <1>9 DEF onNeighbor, Send, SendOf, Answer
<1>11. ASSUME NEW u \in outcomes PROVE Answers(n, b, A, V, u)
  <2>1. CASE outcomes = {Asked(t, yes) : t \in addActive(b, from)}
    <3>1. PICK t \in addActive(b, from) : u = Asked(t, yes)
      BY <1>11, <2>1
    <3>2. Outcome(n, b, A, Node, t)
      <4>1. from \in A
        BY <1>3
      <4> QED  BY <1>5, <4>1, Admitted
    <3>3. Outcome(n, b, A, Node, u) /\ yes \in Range(u.out)
      BY <3>1, <3>2, AskedMore DEF Longer
    <3> QED  BY <1>6, <1>8, <3>3 DEF Answers
  <2>2. CASE outcomes = addPassive(Asked(b, no), from)
    <3>1. PICK t : t = Asked(b, no)
      OBVIOUS
    <3>2. Outcome(n, b, A, Node, t) /\ no \in Range(t.out)
      BY <1>5, <3>1, AskedMore DEF Longer
    <3>3. u \in addPassive(t, from)
      BY <1>11, <2>2, <3>1
    <3>4. Outcome(n, b, A, Node, u) /\ no \in Range(u.out)
      BY <3>2, <3>3, Filed
    <3> QED  BY <1>6, <1>9, <3>4 DEF Answers
  <2> QED  BY <1>10, <2>1, <2>2
<1> QED  BY <1>7, <1>10, <1>11, RunKeeps

LEMMA NeighborReplyKeeps ==
  ASSUME ViewInv, NEW n \in Node, NEW from \in Node, onNeighborReply(n, from)
  PROVE  ViewInv'
<1>1. PICK m : m = Head(layer.net[<<from, n>>])
  OBVIOUS
<1>2. PICK o : o = state[n]
  OBVIOUS
<1>3. PICK A : A = o.active \cup {from}
  OBVIOUS
<1>4. PICK s : s = clearPending(o, from)
  OBVIOUS
<1>5. layer.net[<<from, n>>] # <<>> /\ m.type = "NeighborReply"
  BY <1>1 DEF onNeighborReply, Received
<1>6. Outcome(n, o, A, Node, o) /\ activeSize \in Nat \ {0} /\ o \in Running(n)
  BY <1>2, <1>3, MessageStarts
<1>7. PICK outcomes : outcomes =
        CASE o.pending[from] = None -> {o}
          [] o.pending[from] # None /\ m.accepted -> addActive(s, from)
          [] OTHER -> UNION {promote(Disconnect(t, from)) : t \in addPassive(s, from)}
  OBVIOUS
<1>8. Runs(n, Handed(n, from), outcomes)
  BY <1>1, <1>2, <1>4, <1>7 DEF onNeighborReply, Then
<1>9. CASE o.pending[from] = None
  <2>1. /\ o.sessions = state[n].sessions
        /\ \A h \in Node : o.pending[h] # None =>
              /\ state[n].pending[h] # None /\ (h \in state[n].timers => h \in o.timers)
              /\ ~(h = from /\ Head(layer.net[<<from, n>>]).type = "NeighborReply")
    BY <1>2, <1>9
  <2>2. PICK V : V = {}
    OBVIOUS
  <2>3. Head(layer.net[<<from, n>>]).type = "Neighbor" => from \in V
    BY <1>1, <1>5
  <2>4. Ready(n, o, state[n].active \cup {from}, V, Handed(n, from))
    BY <1>5, <2>1, <2>3, ReadyMessage
  <2>5. Ready(n, o, A, {}, Handed(n, from))
    BY <1>2, <1>3, <2>2, <2>4
  <2>6. \A u \in outcomes : u = o
    BY <1>7, <1>9
  <2> QED  BY <1>6, <1>8, <2>5, <2>6, SilentKeeps
<1>10. CASE o.pending[from] # None
  <2>1. PICK H \in SUBSET Node : H = Node
    OBVIOUS
  <2>2. Outcome(n, o, A, H, o)
    BY <1>6, <2>1
  <2>3. Outcome(n, o, A, H \cup {from}, s) /\ Freed(o, from, s)
    BY <1>4, <2>2, Cleared
  <2>4. Outcome(n, s, A, Node, s)
    BY <2>3, Restart
  <2>5. /\ s.sessions = o.sessions /\ s.pending[from] = None
        /\ \A k \in Node \ {from} : s.pending[k] = o.pending[k] /\ (k \in o.timers => k \in s.timers)
    <3>1. o.pending \in [Node -> Intent \cup {None}]
      BY <1>6, RunningParts
    <3> QED  BY <2>3, <3>1 DEF Freed
  <2>6. /\ s.sessions = state[n].sessions
        /\ \A h \in Node : s.pending[h] # None =>
              /\ state[n].pending[h] # None /\ (h \in state[n].timers => h \in s.timers)
              /\ ~(h = from /\ Head(layer.net[<<from, n>>]).type = "NeighborReply")
    BY <1>2, <2>5
  <2>7. PICK V : V = {}
    OBVIOUS
  <2>8. Head(layer.net[<<from, n>>]).type = "Neighbor" => from \in V
    BY <1>1, <1>5
  <2>9. Ready(n, s, state[n].active \cup {from}, V, Handed(n, from))
    BY <1>5, <2>6, <2>8, ReadyMessage
  <2>10. Ready(n, s, A, {}, Handed(n, from))
    BY <1>2, <1>3, <2>7, <2>9
  <2>11. PICK q \in Requests(n) : q = [op |-> "disconnect", peer |-> from]
    BY Sendable
  <2>12. ASSUME NEW u \in outcomes PROVE Outcome(n, s, A, Node, u)
    <3>1. CASE u \in addActive(s, from)
      <4>1. from \in A
        BY <1>3
      <4> QED  BY <1>6, <2>4, <3>1, <4>1, Admitted
    <3>2. CASE u \notin addActive(s, from)
      <4>1. PICK t \in addPassive(s, from) : u \in promote(Disconnect(t, from))
        BY <1>7, <1>10, <2>12, <3>2
      <4>2. Outcome(n, s, A, Node, t)
        BY <2>4, Filed
      <4>3. PICK x : x = Asked(t, q)
        OBVIOUS
      <4>4. Outcome(n, s, A, Node, x)
        BY <4>2, <4>3, AskedMore
      <4>5. u \in promote(x)
        BY <2>11, <4>1, <4>3 DEF Disconnect
      <4> QED  BY <1>6, <4>4, <4>5, Promoted
    <3> QED  BY <3>1, <3>2
  <2> QED  BY <1>8, <2>10, <2>12, SilentKeeps
<1> QED  BY <1>9, <1>10
------------------------------------------------------------------------------
(* HyParView: the session layer alone. *)

\* What keeps the layer keeps the invariant.
LEMMA Carried ==
  ASSUME ViewInv, LayerInv(layer', SessionsOf(state)), UNCHANGED <<activeSize, state>>,
         \A n, h \in Node :
            /\ Live(layer, n, h) => Live(layer', n, h)
            /\ Awaits(layer, n, h) => Awaits(layer', n, h)
            /\ {n, h} \in layer'.up => {n, h} \in layer.up \/ Awaits(layer', n, h),
         layer.late => layer'.late
  PROVE  ViewInv'
<1>1. Backed(layer', state)
  BY DEF ViewInv, Backed
<1>2. \A n \in Node : Sound(n, state[n])' /\ state'[n].out = <<>>
  BY DEF ViewInv, Sound
<1> QED  BY <1>1, <1>2, ViewInvNext DEF ViewInv

\* Requests, and losses.
LEMMA KeptCarried ==
  ASSUME ViewInv, NEW M, layer' = M, LayerInv(M, SessionsOf(state)), Keeps(layer, M),
         UNCHANGED <<activeSize, state>>
  PROVE  ViewInv'
<1>1. \A n, h \in Node : /\ Live(layer, n, h) => Live(M, n, h)
                         /\ Awaits(layer, n, h) => Awaits(M, n, h)
  BY KeepsViews
<1>2. M.up \subseteq layer.up /\ M.late = layer.late
  BY DEF Keeps
<1> QED  BY <1>1, <1>2, Carried

LEMMA DialFailsKeeps ==
  ASSUME ViewInv, NEW n \in Node, NEW h \in Node, DialFails(n, h)
  PROVE  ViewInv'
<1>1. LayerInv(layer, SessionsOf(state)) /\ LayerType(layer)
  BY DEF ViewInv, LayerInv
<1>2. PICK D \in SUBSET {e \in Node \X Node : e[1] # e[2]} : D = layer.dialing \ {<<n, h>>}
  BY <1>1, LayerParts
<1>3. PICK M : M = [layer EXCEPT !.dialing = D]
  OBVIOUS
<1>4. layer' = M /\ UNCHANGED <<activeSize, state>>
  BY <1>2, <1>3 DEF DialFails
<1>5. LayerInv(M, SessionsOf(state)) /\ Keeps(layer, M)
  BY <1>1, <1>3, DialingKeeps
<1> QED  BY <1>4, <1>5, KeptCarried

LEMMA LostKeeps ==
  ASSUME ViewInv, NEW n \in Node, NEW h \in Node, SessionLost(n, h)
  PROVE  ViewInv'
<1>1. LayerInv(layer, SessionsOf(state))
  BY DEF ViewInv
<1>2. PICK toN \in 0 .. Len(layer.net[<<h, n>>]), toH \in 0 .. Len(layer.net[<<n, h>>]) :
        layer' = Ended(layer, n, h, toN, toH)
  BY DEF SessionLost
<1>3. PICK M : M = Ended(layer, n, h, toN, toH)
  OBVIOUS
<1>4. {n, h} \in layer.up /\ UNCHANGED <<activeSize, state>>
  BY DEF SessionLost
<1>5. LayerInv(M, SessionsOf(state)) /\ Keeps(layer, M)
  BY <1>1, <1>3, <1>4, EndedKeeps
<1> QED  BY <1>2, <1>3, <1>4, <1>5, KeptCarried

UpFrom(h) == [type |-> "Up", peer |-> h]

\* Nodes n and h have a session now, and both are told.
Joined(L, M, n, h) ==
    /\ LayerType(M)
    /\ M.up = L.up \cup {{n, h}} /\ M.late = L.late /\ M.net = L.net /\ M.old = L.old
    /\ M.events[n] = Append(L.events[n], UpFrom(h))
    /\ M.events[h] = Append(L.events[h], UpFrom(n))
    /\ \A m \in Node \ {n, h} : M.events[m] = L.events[m]

LEMMA JoinedParts ==
  ASSUME NEW L, LayerType(L), NEW n \in Node, NEW h \in Node, n # h, NEW M,
         M = Tells(Tells([L EXCEPT !.dialing = @ \ {<<n, h>>}, !.up = @ \cup {{n, h}}],
                         n, "Up", h), h, "Up", n)
  PROVE  Joined(L, M, n, h)
<1> DEFINE E == [L.events EXCEPT ![n] = Append(@, UpFrom(h))]
           F == [E EXCEPT ![h] = Append(@, UpFrom(n))]
<1>1. /\ L.up \subseteq Pairs
      /\ L.dialing \in SUBSET {e \in Node \X Node : e[1] # e[2]}
      /\ L.events \in [Node -> Seq(SessionEvents)]
      /\ L.net \in [Node \X Node -> Seq(ViewMessages)]
      /\ L.old \in [Node \X Node -> Nat] /\ L.late \in BOOLEAN
      /\ L = [up |-> L.up, dialing |-> L.dialing, events |-> L.events, net |-> L.net,
              old |-> L.old, late |-> L.late]
  BY LayerParts
<1>2. PICK D \in SUBSET {e \in Node \X Node : e[1] # e[2]} : D = L.dialing \ {<<n, h>>}
  BY <1>1
<1>3. PICK U \in SUBSET Pairs : U = L.up \cup {{n, h}}
  BY <1>1, PairsAre
<1>4. M = [up |-> U, dialing |-> D, events |-> F, net |-> L.net,
           old |-> L.old, late |-> L.late]
  BY <1>1, <1>2, <1>3 DEF Tells, UpFrom
<1>5. UpFrom(h) \in SessionEvents /\ UpFrom(n) \in SessionEvents
  BY EventTypes DEF UpFrom
<1>6. /\ F \in [Node -> Seq(SessionEvents)]
      /\ F[n] = Append(L.events[n], UpFrom(h)) /\ F[h] = Append(L.events[h], UpFrom(n))
      /\ \A m \in Node \ {n, h} : F[m] = L.events[m]
  <2>1. /\ Append(L.events[n], UpFrom(h)) \in Seq(SessionEvents)
        /\ Append(L.events[h], UpFrom(n)) \in Seq(SessionEvents)
    BY <1>1, <1>5
  <2>2. /\ E \in [Node -> Seq(SessionEvents)]
        /\ E[n] = Append(L.events[n], UpFrom(h)) /\ E[h] = L.events[h]
        /\ \A m \in Node \ {n, h} : E[m] = L.events[m]
    BY <1>1, <2>1
  <2> HIDE DEF E
  <2>3. F = [E EXCEPT ![h] = Append(L.events[h], UpFrom(n))]
    BY <2>2
  <2> HIDE DEF F
  <2>4. F \in [Node -> Seq(SessionEvents)]
    BY <2>1, <2>2, <2>3
  <2>5. /\ F[h] = Append(L.events[h], UpFrom(n))
        /\ \A m \in Node \ {h} : F[m] = E[m]
    BY <2>2, <2>3
  <2> QED  BY <2>2, <2>4, <2>5
<1> HIDE DEF F
<1>7. LayerType(M)
  BY <1>1, <1>4, <1>6 DEF LayerType
<1> QED  BY <1>3, <1>4, <1>6, <1>7 DEF Joined

LEMMA JoinedKeeps ==
  ASSUME NEW L, NEW known, LayerInv(L, known), NEW n \in Node, NEW h \in Node, n # h,
         NEW M, Joined(L, M, n, h)
  PROVE  /\ LayerInv(M, known)
         /\ \A m, k \in Node :
              /\ Live(L, m, k) => Live(M, m, k)
              /\ Awaits(L, m, k) => Awaits(M, m, k)
              /\ {m, k} \in M.up => {m, k} \in L.up \/ Awaits(M, m, k)
<1>1. /\ LayerType(M)
      /\ M.up = L.up \cup {{n, h}} /\ M.late = L.late /\ M.net = L.net /\ M.old = L.old
      /\ M.events[n] = Append(L.events[n], UpFrom(h))
      /\ M.events[h] = Append(L.events[h], UpFrom(n))
      /\ \A m \in Node \ {n, h} : M.events[m] = L.events[m]
  BY DEF Joined
<1>2. L.events \in [Node -> Seq(SessionEvents)]
  BY LayerParts DEF LayerInv
<1>3. \A k \in Node : UpFrom(k) \in SessionEvents
  BY EventTypes DEF UpFrom
<1>4. /\ Range(M.events[n]) = Range(L.events[n]) \cup {UpFrom(h)}
      /\ Range(M.events[h]) = Range(L.events[h]) \cup {UpFrom(n)}
      /\ \A m \in Node : Range(L.events[m]) \subseteq Range(M.events[m])
  <2>1. /\ Range(M.events[n]) = Range(L.events[n]) \cup {UpFrom(h)}
        /\ Range(M.events[h]) = Range(L.events[h]) \cup {UpFrom(n)}
    <3>1. L.events[n] \in Seq(SessionEvents) /\ L.events[h] \in Seq(SessionEvents)
      BY <1>2
    <3> QED  BY <1>1, <1>3, <3>1, Ranges
  <2>2. \A m \in Node \ {n, h} : M.events[m] = L.events[m]
    BY <1>1
  <2> QED  BY <2>1, <2>2
<1>5. \A m, k \in Node : {m, k} = {n, h} => <<m, k>> \in {<<n, h>>, <<h, n>>}
  OBVIOUS
<1>6. ASSUME NEW m \in Node, NEW k \in Node PROVE Tracks(M.events[m], known[m], M.up, m, k)
  <2>1. Tracks(L.events[m], known[m], L.up, m, k) /\ L.events[m] \in Seq(SessionEvents)
    BY <1>2 DEF LayerInv
  <2>2. CASE {m, k} = {n, h}
    <3>1. Verdict(M.up, m, k) = UpFrom(k)
      BY <1>1, <2>2 DEF Verdict, UpFrom
    <3>2. M.events[m] = Append(L.events[m], Verdict(M.up, m, k))
      BY <1>1, <1>5, <2>2, <3>1
    <3> QED  BY <1>3, <2>1, <3>1, <3>2, TracksNew
  <2>3. CASE {m, k} # {n, h} /\ m \in {n, h}
    <3>1. PICK p \in Node : p # k /\ M.events[m] = Append(L.events[m], UpFrom(p))
      BY <1>1, <2>3
    <3>2. UpFrom(p) \in SessionEvents /\ UpFrom(p).peer # k
      BY <1>3, <3>1 DEF UpFrom
    <3>3. {m, k} \in L.up <=> {m, k} \in M.up
      BY <1>1, <2>3
    <3> QED  BY <2>1, <3>1, <3>2, <3>3, TracksOther
  <2>4. CASE m \notin {n, h}
    <3>1. {m, k} \in L.up <=> {m, k} \in M.up
      BY <1>1, <2>4
    <3>2. M.events[m] = L.events[m]
      BY <1>1, <2>4
    <3> QED  BY <2>1, <3>1, <3>2, TracksSame
  <2> QED  BY <2>2, <2>3, <2>4
<1>7. ASSUME NEW m \in Node, NEW k \in Node
      PROVE  /\ {m, k} \notin M.up => Len(M.net[<<k, m>>]) <= M.old[<<k, m>>]
             /\ M.old[<<k, m>>] > 0 => M.late \/ DownFrom(k) \in Range(M.events[m])
  BY <1>1, <1>4 DEF LayerInv, DownFrom
<1>8. LayerInv(M, known)
  BY <1>1, <1>6, <1>7 DEF LayerInv, DownFrom
<1>9. ASSUME NEW m \in Node, NEW k \in Node
      PROVE  /\ Live(L, m, k) => Live(M, m, k)
             /\ Awaits(L, m, k) => Awaits(M, m, k)
             /\ {m, k} \in M.up => {m, k} \in L.up \/ Awaits(M, m, k)
  <2>1. {m, k} = {n, h} => UpFrom(k) \in Range(M.events[m])
    BY <1>4, <1>5
  <2>2. {m, k} \in M.up => {m, k} \in L.up \/ UpFrom(k) \in Range(M.events[m])
    BY <1>1, <2>1
  <2>3. Live(L, m, k) => Live(M, m, k)
    BY <1>1, <1>4 DEF Live
  <2>4. Awaits(L, m, k) => Awaits(M, m, k)
    BY <1>1, <1>4 DEF Awaits
  <2> QED  BY <2>2, <2>3, <2>4 DEF Awaits, UpFrom
<1> QED  BY <1>8, <1>9

LEMMA EstablishedKeeps ==
  ASSUME ViewInv, NEW n \in Node, NEW h \in Node, Established(n, h)
  PROVE  ViewInv'
<1>1. LayerInv(layer, SessionsOf(state)) /\ LayerType(layer)
  BY DEF ViewInv, LayerInv
<1>2. n # h
  <2>1. <<n, h>> \in layer.dialing
    BY DEF Established
  <2> QED  BY <1>1, <2>1, LayerParts
<1>3. UNCHANGED <<activeSize, state>>
  BY DEF Established
<1>4. CASE {n, h} \in layer.up
  <2>1. PICK D \in SUBSET {e \in Node \X Node : e[1] # e[2]} : D = layer.dialing \ {<<n, h>>}
    BY <1>1, LayerParts
  <2>2. PICK M : M = [layer EXCEPT !.dialing = D]
    OBVIOUS
  <2>3. layer' = M
    BY <1>4, <2>1, <2>2 DEF Established
  <2>4. LayerInv(M, SessionsOf(state)) /\ Keeps(layer, M)
    BY <1>1, <2>2, DialingKeeps
  <2> QED  BY <1>3, <2>3, <2>4, KeptCarried
<1>5. CASE {n, h} \notin layer.up
  <2>1. PICK M :
          M = Tells(Tells([layer EXCEPT !.dialing = @ \ {<<n, h>>}, !.up = @ \cup {{n, h}}],
                          n, "Up", h), h, "Up", n)
    OBVIOUS
  <2>2. layer' = M
    BY <1>5, <2>1 DEF Established
  <2>3. Joined(layer, M, n, h)
    BY <1>1, <1>2, <2>1, JoinedParts
  <2>4. /\ LayerInv(M, SessionsOf(state))
        /\ \A m, k \in Node :
             /\ Live(layer, m, k) => Live(M, m, k)
             /\ Awaits(layer, m, k) => Awaits(M, m, k)
             /\ {m, k} \in M.up => {m, k} \in layer.up \/ Awaits(M, m, k)
    BY <1>1, <1>2, <2>3, JoinedKeeps
  <2>5. M.late = layer.late
    BY <2>3 DEF Joined
  <2> QED  BY <1>3, <2>2, <2>4, <2>5, Carried
<1> QED  BY <1>4, <1>5
------------------------------------------------------------------------------
(* HyParView: the theorems. *)

LEMMA ViewInitInv == ASSUME NEW running, ViewBooted(running) PROVE ViewInv
<1> DEFINE contacts(n) == IF n \in running THEN Contacts[n] \ {n} ELSE {}
           attempts(n) == [h \in Node |-> IF h \in contacts(n)
                                          THEN [kind |-> "Join", priority |-> FALSE] ELSE None]
           dials == {e \in Node \X Node : e[2] \in contacts(e[1])}
<1>1. /\ activeSize \in ActiveSizes
      /\ state = [n \in Node |-> [Fresh(n) EXCEPT !.timers = contacts(n),
                                                  !.pending = attempts(n)]]
      /\ layer = NewLayer(dials)
  BY DEF ViewBooted
<1>2. ASSUME NEW n \in Node
      PROVE  /\ contacts(n) \in SUBSET Node /\ n \notin contacts(n)
             /\ attempts(n) \in [Node -> Intent \cup {None}]
             /\ \A h \in Node : attempts(n)[h] # None => h \in contacts(n)
  <2>1. contacts(n) \in SUBSET Node /\ n \notin contacts(n)
    BY ConfigAssumption
  <2>2. [kind |-> "Join", priority |-> FALSE] \in Intent
    BY DEF Intent
  <2> QED  BY <2>1, <2>2
<1>3. dials \in SUBSET {e \in Node \X Node : e[1] # e[2]}
  BY <1>2
<1> HIDE DEF contacts, attempts, dials
<1>4. ASSUME NEW n \in Node
      PROVE  \E p \in [Node -> Intent \cup {None}], c \in SUBSET Node :
                /\ state[n] = [self |-> n, active |-> {}, passive |-> {}, sessions |-> {},
                               pending |-> p, timers |-> c, out |-> <<>>]
                /\ \A h \in Node : p[h] # None => h \in c
  <2>1. PICK p \in [Node -> Intent \cup {None}] : p = attempts(n)
    BY <1>2
  <2>2. PICK c \in SUBSET Node : c = contacts(n)
    BY <1>2
  <2>3. state[n] = [Fresh(n) EXCEPT !.timers = c, !.pending = p]
    BY <1>1, <2>1, <2>2
  <2>4. state[n] = [self |-> n, active |-> {}, passive |-> {}, sessions |-> {},
                    pending |-> p, timers |-> c, out |-> <<>>]
    BY <2>3 DEF Fresh
  <2>5. \A h \in Node : p[h] # None => h \in c
    BY <1>2, <2>1, <2>2
  <2> QED  BY <2>4, <2>5
<1>5. activeSize \in Nat \ {0} /\ PassiveSize \in Nat \ {0}
  BY <1>1, ConfigAssumption
<1>6. ASSUME NEW n \in Node PROVE Sound(n, state[n]) /\ state[n].out = <<>>
  <2>1. <<>> \in Seq(Requests(n))
    BY Short
  <2>2. PICK p \in [Node -> Intent \cup {None}], c \in SUBSET Node :
          state[n] = [self |-> n, active |-> {}, passive |-> {}, sessions |-> {},
                      pending |-> p, timers |-> c, out |-> <<>>]
    BY <1>4
  <2>3. PICK s : s = state[n]
    OBVIOUS
  <2>4. s \in Running(n)
    BY <2>1, <2>2, <2>3 DEF Running
  <2>5. s.active = {} /\ s.passive = {} /\ s.out = <<>>
    BY <2>2, <2>3
  <2>6. Cardinality({}) = 0
    BY FS_EmptySet
  <2>7. Cardinality(s.active) <= activeSize /\ Cardinality(s.passive) <= PassiveSize
    BY <1>5, <2>5, <2>6
  <2> QED  BY <2>3, <2>4, <2>5, <2>7 DEF Sound
<1>7. state \in [Node -> UNION {Running(n) : n \in Node}]
  <2>1. \A n \in Node : state[n] \in UNION {Running(m) : m \in Node}
    BY <1>6 DEF Sound
  <2>2. state = [n \in Node |-> state[n]]
    BY <1>1
  <2> QED  BY <2>1, <2>2
<1>8. /\ layer.up = {} /\ layer.dialing = dials /\ layer.late = FALSE
      /\ layer.events = [n \in Node |-> <<>>]
      /\ layer.net = [e \in Node \X Node |-> <<>>] /\ layer.old = [e \in Node \X Node |-> 0]
      /\ layer = [up |-> {}, dialing |-> dials, events |-> [n \in Node |-> <<>>],
                  net |-> [e \in Node \X Node |-> <<>>],
                  old |-> [e \in Node \X Node |-> 0], late |-> FALSE]
  BY <1>1 DEF NewLayer
<1>9. LayerType(layer)
  <2>1. <<>> \in Seq(SessionEvents) /\ <<>> \in Seq(ViewMessages)
    BY Short
  <2>2. /\ [n \in Node |-> <<>>] \in [Node -> Seq(SessionEvents)]
        /\ [e \in Node \X Node |-> <<>>] \in [Node \X Node -> Seq(ViewMessages)]
        /\ [e \in Node \X Node |-> 0] \in [Node \X Node -> Nat]
    BY <2>1
  <2> QED  BY <1>3, <1>8, <2>2 DEF LayerType
<1>10. LayerInv(layer, SessionsOf(state))
  <2>1. ASSUME NEW n \in Node, NEW h \in Node
        PROVE  /\ Tracks(layer.events[n], SessionsOf(state)[n], layer.up, n, h)
               /\ Len(layer.net[<<h, n>>]) <= layer.old[<<h, n>>]
               /\ ~(layer.old[<<h, n>>] > 0)
    <3>1. SessionsOf(state)[n] = {} /\ layer.events[n] = <<>> /\ layer.up = {}
      <4>1. PICK p \in [Node -> Intent \cup {None}], c \in SUBSET Node :
              state[n] = [self |-> n, active |-> {}, passive |-> {}, sessions |-> {},
                          pending |-> p, timers |-> c, out |-> <<>>]
        BY <1>4
      <4>2. state[n].sessions = {}
        BY <4>1
      <4> QED  BY <1>8, <4>2 DEF SessionsOf
    <3>2. layer.net[<<h, n>>] = <<>> /\ layer.old[<<h, n>>] = 0
      BY <1>8
    <3>3. 1 .. Len(<<>>) = {}
      OBVIOUS
    <3>4. Tracks(<<>>, {}, {}, n, h)
      BY <3>3 DEF Tracks
    <3> QED  BY <3>1, <3>2, <3>4
  <2> QED  BY <1>9, <2>1 DEF LayerInv
<1>11. Backed(layer, state)
  <2>1. ASSUME NEW n \in Node, NEW h \in Node
        PROVE  /\ h \notin state[n].active
               /\ state[n].pending[h] # None => h \in state[n].timers /\ {n, h} \notin layer.up
    <3>1. PICK p \in [Node -> Intent \cup {None}], c \in SUBSET Node :
            /\ state[n] = [self |-> n, active |-> {}, passive |-> {}, sessions |-> {},
                           pending |-> p, timers |-> c, out |-> <<>>]
            /\ \A k \in Node : p[k] # None => k \in c
      BY <1>4
    <3>2. state[n].active = {} /\ state[n].pending = p /\ state[n].timers = c
      BY <3>1
    <3> QED  BY <1>8, <3>1, <3>2
  <2> QED  BY <2>1 DEF Backed
<1> QED  BY <1>1, <1>6, <1>7, <1>10, <1>11 DEF ViewInv

LEMMA ViewNextInv == ViewInv /\ [ViewNext]_viewVars => ViewInv'
<1> SUFFICES ASSUME ViewInv, [ViewNext]_viewVars PROVE ViewInv'
  OBVIOUS
<1>1. ASSUME NEW n \in Node, Dispatch(n) PROVE ViewInv'
  <2>1. CASE OnSessionConnected(n)
    BY <2>1, ConnectedKeeps
  <2>2. CASE onSessionDown(n)
    BY <2>2, DownKeeps
  <2>3. ASSUME NEW from \in Node, Handle(n, from) PROVE ViewInv'
    <3>1. CASE onJoin(n, from)
      BY <3>1, JoinKeeps
    <3>2. CASE onForwardJoin(n, from) \/ forwardJoin(n, from) \/ ignoreForwardJoin(n, from)
      BY <3>2, ForwardJoinKeeps
    <3>3. CASE onNeighbor(n, from)
      BY <3>3, NeighborKeeps
    <3>4. CASE onNeighborReply(n, from)
      BY <3>4, NeighborReplyKeeps
    <3>5. CASE onDisconnect(n, from)
      BY <3>5, DisconnectKeeps
    <3>6. CASE onShuffle(n, from)
      BY <3>6, ShuffleKeeps
    <3>7. CASE forwardShuffle(n, from)
      BY <3>7, ForwardShuffleKeeps
    <3>8. CASE onShuffleReply(n, from)
      BY <3>8, ShuffleReplyKeeps
    <3> QED  BY <2>3, <3>1, <3>2, <3>3, <3>4, <3>5, <3>6, <3>7, <3>8 DEF Handle
  <2> QED  BY <1>1, <2>1, <2>2, <2>3 DEF Dispatch
<1>2. ASSUME NEW n \in Node, onMaintenanceTick(n) \/ onShuffleTick(n) PROVE ViewInv'
  BY <1>2, MaintenanceKeeps, ShuffleTickKeeps
<1>3. ASSUME NEW n \in Node, NEW h \in Node, onAttemptTimeout(n, h) PROVE ViewInv'
  BY <1>3, TimeoutKeeps
<1>4. ASSUME NEW n \in Node, NEW h \in Node,
             Established(n, h) \/ DialFails(n, h) \/ SessionLost(n, h)
      PROVE  ViewInv'
  BY <1>4, EstablishedKeeps, DialFailsKeeps, LostKeeps
<1>5. CASE UNCHANGED viewVars
  <2>1. UNCHANGED <<activeSize, state>> /\ layer' = layer
    BY <1>5 DEF viewVars
  <2>2. LayerInv(layer, SessionsOf(state))
    BY DEF ViewInv
  <2> QED  BY <2>1, <2>2, Carried
<1> QED  BY <1>1, <1>2, <1>3, <1>4, <1>5 DEF ViewNext

\* ViewInv is an invariant of HyParView: every handler, timer and step of the
\* session layer keeps it.
THEOREM ViewsInvariant == ViewSpec => []ViewInv
<1>1. ViewInit => ViewInv
  BY ViewInitInv DEF ViewInit
<1> QED  BY <1>1, ViewNextInv, PTL DEF ViewSpec

LEMMA ViewInvSound == ViewInv => ViewsAreSound
<1> SUFFICES ASSUME ViewInv PROVE ViewsAreSound
  OBVIOUS
<1>1. LayerType(layer) /\ activeSize \in ActiveSizes
      /\ state \in [Node -> UNION {Running(n) : n \in Node}]
      /\ \A n \in Node : Sound(n, state[n]) /\ state[n].out = <<>>
  BY DEF ViewInv, LayerInv
<1>2. ASSUME NEW n \in Node PROVE state[n] \in Protocol /\ state[n].self = n
  BY <1>1 DEF Sound, Running, Protocol
<1>3. state \in [Node -> Protocol]
  BY <1>1, <1>2
<1>4. /\ layer.up \subseteq Pairs /\ layer.dialing \subseteq Node \X Node
      /\ layer.events \in [Node -> Seq(SessionEvents)]
      /\ layer.net \in [Node \X Node -> Seq(ViewMessages)]
  BY <1>1, LayerParts
<1>5. ViewMessages \subseteq ViewMessage \cup ShuffleMessage
  BY DEF ViewMessages
<1>6. \A e \in Node \X Node : layer.net[e] \in Seq(ViewMessage \cup ShuffleMessage)
  BY <1>4, <1>5, SeqParts
<1>7. ViewTypeOK
  BY <1>1, <1>3, <1>4, <1>6 DEF ViewTypeOK, Pairs, SessionEvents
<1> QED  BY <1>1, <1>2, <1>7 DEF ViewsAreSound, Sound

\* What a node will hear of h is there to be handled, by it or by h.
LEMMA Unsettled ==
  ASSUME LayerType(layer), NEW n \in Node, NEW h \in Node
  PROVE  /\ \A t : [type |-> t, peer |-> h] \in Range(layer.events[n]) => ~Settled(n, h)
         /\ Awaits(layer, n, h) => ~Settled(n, h) \/ ~Settled(h, n)
<1>1. layer.events[n] \in Seq(SessionEvents)
      /\ layer.net[<<n, h>>] \in Seq(ViewMessages) /\ layer.net[<<h, n>>] \in Seq(ViewMessages)
  BY LayerParts
<1>2. ASSUME NEW t, [type |-> t, peer |-> h] \in Range(layer.events[n]) PROVE ~Settled(n, h)
  <2>1. PICK i \in DOMAIN layer.events[n] : layer.events[n][i] = [type |-> t, peer |-> h]
    BY <1>2 DEF Range
  <2>2. i \in 1 .. Len(layer.events[n]) /\ layer.events[n][i].peer = h
    BY <1>1, <2>1
  <2> QED  BY <2>2 DEF Settled
<1>3. ASSUME NEW m \in Node, NEW k \in Node, NEW x \in Range(layer.net[<<k, m>>])
      PROVE  ~Settled(m, k)
  <2>1. layer.net[<<k, m>>] # <<>>
    BY <1>3, Ranges, Short
  <2> QED  BY <2>1 DEF Settled
<1> QED  BY <1>2, <1>3 DEF Awaits

LEMMA ViewInvBacked == ViewInv => ActiveIsBacked
<1> SUFFICES ASSUME ViewInv, ~layer.late, NEW n \in Node, NEW h \in Node
             PROVE  /\ h \in state[n].active /\ Settled(n, h) => {n, h} \in layer.up
                    /\ state[n].pending[h] # None /\ h \notin state[n].timers =>
                          ~Settled(n, h) \/ ~Settled(h, n)
  BY DEF ActiveIsBacked
<1>1. LayerType(layer)
  BY DEF ViewInv, LayerInv
<1>2. /\ h \in state[n].active => Live(layer, n, h)
      /\ state[n].pending[h] # None /\ h \notin state[n].timers => Awaits(layer, n, h)
  BY DEF ViewInv, Backed
<1> QED  BY <1>1, <1>2, Unsettled DEF Live

\* ViewsAreSound: however joins, evictions, rejections and shuffles overlap, and
\* whatever the session layer does, the views of a node are disjoint, within their
\* sizes and without the node itself (addActive evicts at random, addPassive files
\* who is in neither view).
THEOREM ViewsStaySound == ViewSpec => []ViewsAreSound
BY ViewsInvariant, ViewInvSound, PTL

\* ActiveIsBacked: a node that has handled what there is has a session with each
\* neighbour, and an attempt without a timer has something on its way that ends
\* it: unless a message was handled after the loss of its session (openActive,
\* onSessionDown, onAttemptTimeout).
THEOREM ActiveStaysBacked == ViewSpec => []ActiveIsBacked
BY ViewsInvariant, ViewInvBacked, PTL
==============================================================================
