---------------------------- MODULE MailboxProofs ----------------------------
(****************************************************************************)
(* Proofs about Mailbox, for any set of producers, capacity and policy: the  *)
(* types, the wake-up protocol of the deque, and the exactness of the        *)
(* inFlight counter, from which Quiescent's contract follows.                *)
(****************************************************************************)
EXTENDS Mailbox, TLAPS, FiniteSetTheorems, SequenceTheorems

PC == {"idle", "push", "signal", "undo", "report", "abort"}

\* What a goroutine holds at each place of enqueue.
HandInv ==
    \A p \in Enqueuer :
        /\ pc[p] = "idle" => hand[p] = NoEvent
        /\ pc[p] \in {"push", "undo", "report", "abort"} => hand[p] \in Event

\* The loop has an event in hand exactly while it dispatches, and parks only
\* on a deque.
LoopInv ==
    /\ loop \in {"dispatch", "balance"} => cur \in Event
    /\ loop = "parked" => policy # "block"

\* Goroutines inside enqueue with a counted event that is not in the queue.
Holding ==
    {p \in Enqueuer :
        pc[p] \in {"push", "undo", "abort"} \/ (pc[p] = "signal" /\ hand[p] # NoEvent)}

Busy == IF loop \in {"dispatch", "balance"} THEN 1 ELSE 0

\* The type invariant without the sign of the counter.
Types ==
    /\ policy \in Policies
    /\ queue \in Seq(Event)
    /\ signal \in BOOLEAN
    /\ cancelled \in BOOLEAN
    /\ pc \in [Enqueuer -> PC]
    /\ hand \in [Enqueuer -> Event \cup {NoEvent}]
    /\ sent \in [Enqueuer -> 0 .. MaxEvents]
    /\ loop \in {"next", "parked", "dispatch", "balance", "exited"}
    /\ cur \in Event \cup {NoEvent}
    /\ handled \in Seq(Event)
    /\ dead \subseteq Event
    /\ aborted \subseteq Event

\* The counter is exact: it equals the events queued, dispatched and held.
InFlightExact == inFlight = Len(queue) + Busy + Cardinality(Holding)

IInv == Types /\ HandInv /\ LoopInv /\ InFlightExact /\ NoLostWakeup
------------------------------------------------------------------------------
\* Under the lock, a push leaves a queue of events that is not empty, and
\* drops an event or none.
LEMMA PushResult ==
  ASSUME NEW pol \in OverflowPolicy, NEW q \in Seq(Event), NEW e \in Event
  PROVE  /\ enqueueLocked(pol, q, e) \in Seq(Event)
         /\ enqueueLocked(pol, q, e) # <<>>
         /\ Dropped(pol, q, e) \in Event \cup {NoEvent}
         /\ Dropped(pol, q, e) = NoEvent => Len(enqueueLocked(pol, q, e)) = Len(q) + 1
         /\ Dropped(pol, q, e) # NoEvent => Len(enqueueLocked(pol, q, e)) = Len(q)
<1>1. CASE ~Full(pol, q)
  <2>1. /\ enqueueLocked(pol, q, e) = Append(q, e)
        /\ Dropped(pol, q, e) = NoEvent
    BY <1>1 DEF enqueueLocked, Dropped
  <2> QED  BY <2>1
<1>2. CASE Full(pol, q)
  <2>1. q # <<>> /\ Len(q) > 0
    BY <1>2, CapacityAssumption DEF Full
  <2>2. CASE pol = "drop_newest"
    <3>1. enqueueLocked(pol, q, e) = q /\ Dropped(pol, q, e) = e
      BY <1>2, <2>2 DEF enqueueLocked, Dropped
    <3> QED  BY <3>1, <2>1, NoEventAssumption
  <2>3. CASE pol # "drop_newest"
    <3>1. enqueueLocked(pol, q, e) = Append(Tail(q), e) /\ Dropped(pol, q, e) = Head(q)
      BY <1>2, <2>3 DEF enqueueLocked, Dropped
    <3>2. Tail(q) \in Seq(Event) /\ Len(Tail(q)) = Len(q) - 1 /\ Head(q) \in Event
      BY <2>1, HeadTailProperties
    <3>3. /\ Append(Tail(q), e) \in Seq(Event)
          /\ Len(Append(Tail(q), e)) = Len(q)
          /\ Append(Tail(q), e) # <<>>
      BY <3>2, <2>1
    <3> QED  BY <3>1, <3>2, <3>3, NoEventAssumption
  <2> QED  BY <2>2, <2>3
<1> QED  BY <1>1, <1>2

\* Every step keeps the types.
LEMMA TypesStep ==
  ASSUME Types, HandInv, LoopInv, [Next]_vars
  PROVE  Types'
<1> USE DEF Types, PC
<1>1. ASSUME NEW p \in Enqueuer, Count(p)
      PROVE  Types'
  <2>1. sent[p] + 1 \in 1 .. MaxEvents
    BY <1>1, MaxEventsAssumption DEF Count
  <2>2. [from |-> p, num |-> sent[p] + 1] \in Event
    BY <2>1 DEF Event
  <2> QED  BY <1>1, <2>1, <2>2 DEF Count, mailboxVars, loopVars, lossVars
<1>2. ASSUME NEW p \in Enqueuer, pushBlock(p)
      PROVE  Types'
  BY <1>2 DEF pushBlock, HandInv, loopVars, lossVars
<1>3. ASSUME NEW p \in Enqueuer, pushAborted(p)
      PROVE  Types'
  BY <1>3 DEF pushAborted, HandInv, mailboxVars, loopVars
<1>4. ASSUME NEW p \in Enqueuer, pushDeque(p)
      PROVE  Types'
  <2>1. hand[p] \in Event /\ policy \in OverflowPolicy
    BY <1>4, PolicyAssumption DEF pushDeque, HandInv
  <2>2. /\ enqueueLocked(policy, queue, hand[p]) \in Seq(Event)
        /\ Dropped(policy, queue, hand[p]) \in Event \cup {NoEvent}
    BY <2>1, PushResult
  <2> QED  BY <1>4, <2>2 DEF pushDeque, loopVars, lossVars
<1>5. ASSUME NEW p \in Enqueuer, Signal(p)
      PROVE  Types'
  BY <1>5 DEF Signal, loopVars, lossVars
<1>6. ASSUME NEW p \in Enqueuer, Uncount(p)
      PROVE  Types'
  BY <1>6 DEF Uncount, mailboxVars, loopVars, lossVars
<1>7. ASSUME NEW p \in Enqueuer, Report(p)
      PROVE  Types'
  BY <1>7 DEF Report, HandInv, mailboxVars, loopVars
<1>8. CASE Take
  BY <1>8, HeadTailProperties DEF Take, enqueueVars, lossVars
<1>9. CASE Park \/ Wake \/ Exit \/ Cancel
  BY <1>9 DEF Park, Wake, Exit, Cancel, mailboxVars, enqueueVars, loopVars, lossVars
<1>10. CASE dispatch
  BY <1>10 DEF dispatch, LoopInv, mailboxVars, enqueueVars, lossVars
<1>11. CASE Balance
  BY <1>11 DEF Balance, mailboxVars, enqueueVars, lossVars
<1>12. CASE UNCHANGED vars
  BY <1>12 DEF vars, mailboxVars, enqueueVars, loopVars, lossVars
<1> QED
  BY <1>1, <1>2, <1>3, <1>4, <1>5, <1>6, <1>7, <1>8, <1>9, <1>10, <1>11, <1>12
     DEF Next, enqueue, eventHandler

\* Every step keeps what goroutines and the loop hold.
LEMMA HandStep ==
  ASSUME Types, HandInv, LoopInv, [Next]_vars
  PROVE  HandInv' /\ LoopInv'
<1> USE DEF Types, PC, HandInv, LoopInv
<1>1. ASSUME NEW p \in Enqueuer, Count(p)
      PROVE  HandInv' /\ LoopInv'
  <2>1. sent[p] + 1 \in 1 .. MaxEvents
    BY <1>1, MaxEventsAssumption DEF Count
  <2>2. [from |-> p, num |-> sent[p] + 1] \in Event
    BY <2>1 DEF Event
  <2> QED  BY <1>1, <2>2 DEF Count, loopVars
<1>2. ASSUME NEW p \in Enqueuer, pushBlock(p)
      PROVE  HandInv' /\ LoopInv'
  BY <1>2 DEF pushBlock, loopVars
<1>3. ASSUME NEW p \in Enqueuer, pushAborted(p)
      PROVE  HandInv' /\ LoopInv'
  BY <1>3 DEF pushAborted, loopVars
<1>4. ASSUME NEW p \in Enqueuer, pushDeque(p)
      PROVE  HandInv' /\ LoopInv'
  BY <1>4 DEF pushDeque, loopVars
<1>5. ASSUME NEW p \in Enqueuer, Signal(p)
      PROVE  HandInv' /\ LoopInv'
  BY <1>5 DEF Signal, loopVars
<1>6. ASSUME NEW p \in Enqueuer, Uncount(p)
      PROVE  HandInv' /\ LoopInv'
  BY <1>6 DEF Uncount, loopVars
<1>7. ASSUME NEW p \in Enqueuer, Report(p)
      PROVE  HandInv' /\ LoopInv'
  BY <1>7 DEF Report, loopVars
<1>8. CASE Take
  BY <1>8, HeadTailProperties DEF Take, enqueueVars
<1>9. CASE Park \/ Wake \/ Exit \/ Cancel
  BY <1>9 DEF Park, Wake, Exit, Cancel, enqueueVars, loopVars
<1>10. CASE dispatch \/ Balance
  BY <1>10 DEF dispatch, Balance, enqueueVars
<1>11. CASE UNCHANGED vars
  BY <1>11 DEF vars, enqueueVars, loopVars
<1> QED
  BY <1>1, <1>2, <1>3, <1>4, <1>5, <1>6, <1>7, <1>8, <1>9, <1>10, <1>11
     DEF Next, enqueue, eventHandler
------------------------------------------------------------------------------
\* The wake-up protocol: the loop parks on an empty queue only, and a push
\* that fills it is followed by a signal that nobody but the loop consumes.
LEMMA WakeupStep ==
  ASSUME Types, HandInv, LoopInv, NoLostWakeup, [Next]_vars
  PROVE  NoLostWakeup'
<1> USE DEF Types, PC, NoLostWakeup
<1>1. ASSUME NEW p \in Enqueuer, Count(p)
      PROVE  NoLostWakeup'
  BY <1>1 DEF Count, mailboxVars, loopVars
<1>2. ASSUME NEW p \in Enqueuer, pushBlock(p)
      PROVE  NoLostWakeup'
  BY <1>2 DEF pushBlock, LoopInv, loopVars
<1>3. ASSUME NEW p \in Enqueuer, pushAborted(p)
      PROVE  NoLostWakeup'
  BY <1>3 DEF pushAborted, mailboxVars, loopVars
<1>4. ASSUME NEW p \in Enqueuer, pushDeque(p)
      PROVE  NoLostWakeup'
  <2>1. pc'[p] = "signal"
    BY <1>4 DEF pushDeque
  <2> QED  BY <2>1
<1>5. ASSUME NEW p \in Enqueuer, Signal(p)
      PROVE  NoLostWakeup'
  BY <1>5 DEF Signal
<1>6. ASSUME NEW p \in Enqueuer, Uncount(p) \/ Report(p)
      PROVE  NoLostWakeup'
  BY <1>6 DEF Uncount, Report, mailboxVars, loopVars
<1>7. CASE Take \/ Park \/ Wake \/ Exit \/ dispatch \/ Balance
  BY <1>7 DEF Take, Park, Wake, Exit, dispatch, Balance, mailboxVars
<1>8. CASE Cancel \/ UNCHANGED vars
  BY <1>8 DEF Cancel, vars, mailboxVars, enqueueVars, loopVars
<1> QED
  BY <1>1, <1>2, <1>3, <1>4, <1>5, <1>6, <1>7, <1>8 DEF Next, enqueue, eventHandler
------------------------------------------------------------------------------
\* A goroutine that begins to hold an event raises the count by one, ...
LEMMA HoldingAdd ==
  ASSUME NEW p \in Enqueuer, p \notin Holding, Holding' = Holding \cup {p}
  PROVE  Cardinality(Holding') = Cardinality(Holding) + 1
<1>1. IsFiniteSet(Enqueuer)
  BY ProducerAssumption, FS_AddElement DEF Enqueuer
<1>2. IsFiniteSet(Holding)
  BY <1>1, FS_Subset DEF Holding
<1> QED  BY <1>2, FS_AddElement

\* ... and one that lets go of it lowers the count by one.
LEMMA HoldingRemove ==
  ASSUME NEW p \in Enqueuer, p \in Holding, Holding' = Holding \ {p}
  PROVE  Cardinality(Holding') = Cardinality(Holding) - 1
<1>1. IsFiniteSet(Enqueuer)
  BY ProducerAssumption, FS_AddElement DEF Enqueuer
<1>2. IsFiniteSet(Holding)
  BY <1>1, FS_Subset DEF Holding
<1> QED  BY <1>2, FS_RemoveElement

\* The set of holders is finite, so its cardinality is a natural number.
LEMMA HoldingNat == Cardinality(Holding) \in Nat
<1>1. IsFiniteSet(Enqueuer)
  BY ProducerAssumption, FS_AddElement DEF Enqueuer
<1>2. IsFiniteSet(Holding)
  BY <1>1, FS_Subset DEF Holding
<1> QED  BY <1>2, FS_CardinalityType

\* enqueue counts before it pushes and uncounts exactly what it drops; the
\* loop uncounts exactly what it has dispatched.
LEMMA CountStep ==
  ASSUME Types, HandInv, LoopInv, InFlightExact, [Next]_vars
  PROVE  InFlightExact'
<1> USE DEF Types, PC, HandInv, InFlightExact
<1>0. Cardinality(Holding) \in Nat /\ Len(queue) \in Nat /\ Busy \in Nat
  BY HoldingNat, LenProperties DEF Busy
<1>1. ASSUME NEW p \in Enqueuer, Count(p)
      PROVE  InFlightExact'
  <2>1. p \notin Holding /\ Holding' = Holding \cup {p}
    BY <1>1 DEF Count, Holding
  <2>2. Cardinality(Holding') = Cardinality(Holding) + 1
    BY <2>1, HoldingAdd
  <2>3. queue' = queue /\ Busy' = Busy /\ inFlight' = inFlight + 1
    BY <1>1 DEF Count, Busy, mailboxVars, loopVars
  <2> QED  BY <1>0, <2>2, <2>3
<1>2. ASSUME NEW p \in Enqueuer, pushBlock(p)
      PROVE  InFlightExact'
  <2>1. p \in Holding /\ Holding' = Holding \ {p}
    BY <1>2 DEF pushBlock, Holding
  <2>2. Cardinality(Holding') = Cardinality(Holding) - 1
    BY <2>1, HoldingRemove
  <2>3. Len(queue') = Len(queue) + 1 /\ Busy' = Busy /\ inFlight' = inFlight
    BY <1>2 DEF pushBlock, Busy, loopVars
  <2> QED  BY <1>0, <2>2, <2>3
<1>3. ASSUME NEW p \in Enqueuer, pushAborted(p)
      PROVE  InFlightExact'
  <2>1. Holding' = Holding
    BY <1>3 DEF pushAborted, Holding
  <2>2. queue' = queue /\ Busy' = Busy /\ inFlight' = inFlight
    BY <1>3 DEF pushAborted, Busy, mailboxVars, loopVars
  <2> QED  BY <2>1, <2>2
<1>4. ASSUME NEW p \in Enqueuer, pushDeque(p)
      PROVE  InFlightExact'
  <2>1. hand[p] \in Event /\ policy \in OverflowPolicy
    BY <1>4, PolicyAssumption DEF pushDeque
  <2>2. /\ queue' = enqueueLocked(policy, queue, hand[p])
        /\ hand'[p] = Dropped(policy, queue, hand[p])
        /\ Busy' = Busy /\ inFlight' = inFlight
        /\ p \in Holding
    BY <1>4 DEF pushDeque, Busy, loopVars, Holding
  <2>3. CASE hand'[p] = NoEvent
    <3>1. Holding' = Holding \ {p}
      BY <1>4, <2>3 DEF pushDeque, Holding
    <3>2. Cardinality(Holding') = Cardinality(Holding) - 1
      BY <3>1, <2>2, HoldingRemove
    <3>3. Len(queue') = Len(queue) + 1
      BY <2>1, <2>2, <2>3, PushResult
    <3> QED  BY <1>0, <2>2, <3>2, <3>3
  <2>4. CASE hand'[p] # NoEvent
    <3>1. Holding' = Holding
      BY <1>4, <2>4 DEF pushDeque, Holding
    <3>2. Len(queue') = Len(queue)
      BY <2>1, <2>2, <2>4, PushResult
    <3> QED  BY <2>2, <3>1, <3>2
  <2> QED  BY <2>3, <2>4
<1>5. ASSUME NEW p \in Enqueuer, Signal(p)
      PROVE  InFlightExact'
  <2>1. Holding' = Holding
    BY <1>5 DEF Signal, Holding
  <2>2. queue' = queue /\ Busy' = Busy /\ inFlight' = inFlight
    BY <1>5 DEF Signal, Busy, loopVars
  <2> QED  BY <2>1, <2>2
<1>6. ASSUME NEW p \in Enqueuer, Uncount(p)
      PROVE  InFlightExact'
  <2>1. p \in Holding /\ Holding' = Holding \ {p}
    BY <1>6 DEF Uncount, Holding
  <2>2. Cardinality(Holding') = Cardinality(Holding) - 1
    BY <2>1, HoldingRemove
  <2>3. queue' = queue /\ Busy' = Busy /\ inFlight' = inFlight - 1
    BY <1>6 DEF Uncount, Busy, mailboxVars, loopVars
  <2> QED  BY <1>0, <2>2, <2>3
<1>7. ASSUME NEW p \in Enqueuer, Report(p)
      PROVE  InFlightExact'
  <2>1. Holding' = Holding
    BY <1>7 DEF Report, Holding
  <2>2. queue' = queue /\ Busy' = Busy /\ inFlight' = inFlight
    BY <1>7 DEF Report, Busy, mailboxVars, loopVars
  <2> QED  BY <2>1, <2>2
<1>8. CASE Take
  <2>1. Holding' = Holding
    BY <1>8 DEF Take, Holding, enqueueVars
  <2>2. Len(queue') = Len(queue) - 1
    BY <1>8, HeadTailProperties DEF Take
  <2>3. Busy = 0 /\ Busy' = 1 /\ inFlight' = inFlight
    BY <1>8 DEF Take, Busy
  <2> QED  BY <1>0, <2>1, <2>2, <2>3
<1>9. CASE Park \/ Wake \/ Exit \/ dispatch \/ Cancel \/ UNCHANGED vars
  <2>1. Holding' = Holding
    BY <1>9 DEF Park, Wake, Exit, dispatch, Cancel, vars, Holding, enqueueVars
  <2>2. queue' = queue /\ Busy' = Busy /\ inFlight' = inFlight
    BY <1>9 DEF Park, Wake, Exit, dispatch, Cancel, vars, Busy, mailboxVars, loopVars
  <2> QED  BY <2>1, <2>2
<1>10. CASE Balance
  <2>1. Holding' = Holding
    BY <1>10 DEF Balance, Holding, enqueueVars
  <2>2. queue' = queue /\ Busy = 1 /\ Busy' = 0 /\ inFlight' = inFlight - 1
    BY <1>10 DEF Balance, Busy, mailboxVars
  <2> QED  BY <1>0, <2>1, <2>2
<1> QED
  BY <1>1, <1>2, <1>3, <1>4, <1>5, <1>6, <1>7, <1>8, <1>9, <1>10
     DEF Next, enqueue, eventHandler
------------------------------------------------------------------------------
\* An empty mailbox before the first enqueue satisfies the invariant.
LEMMA InvInit == Init => IInv
<1> SUFFICES ASSUME Init
             PROVE  IInv
  OBVIOUS
<1>1. Types
  <2>1. <<>> \in Seq(Event) /\ 0 \in 0 .. MaxEvents
    BY MaxEventsAssumption
  <2> QED  BY <2>1 DEF Init, Types, PC
<1>2. HandInv /\ LoopInv /\ NoLostWakeup
  BY DEF Init, HandInv, LoopInv, NoLostWakeup
<1>3. Holding = {}
  BY DEF Init, Holding
<1>4. InFlightExact
  BY <1>3, FS_EmptySet DEF Init, InFlightExact, Busy
<1> QED  BY <1>1, <1>2, <1>4 DEF IInv

\* The inductive invariant holds throughout, for every policy.
THEOREM Invariance == Spec => []IInv
<1>1. IInv /\ [Next]_vars => IInv'
  BY TypesStep, HandStep, WakeupStep, CountStep DEF IInv
<1> QED  BY <1>1, InvInit, PTL DEF Spec

\* Types of the mailbox and the loop; inFlight never goes below zero.
THEOREM TypeCorrect == Spec => []TypeOK
<1>1. IInv => TypeOK
  <2> SUFFICES ASSUME IInv
               PROVE  TypeOK
    OBVIOUS
  <2>1. inFlight \in Nat
    BY HoldingNat, LenProperties DEF IInv, Types, InFlightExact, Busy
  <2> QED  BY <2>1 DEF IInv, Types, TypeOK, PC
<1> QED  BY <1>1, Invariance, PTL

\* The coalescing wake-up of dequeMailbox loses no wake-up.
THEOREM WakeupsArrive == Spec => []NoLostWakeup
<1>1. IInv => NoLostWakeup
  BY DEF IInv
<1> QED  BY <1>1, Invariance, PTL

\* Runtime.Quiescent is sound: a zero counter means nothing queued, nothing
\* dispatched and no push to come.
THEOREM QuiescentIsSound == Spec => []QuiescentSound
<1>1. IInv => QuiescentSound
  <2> SUFFICES ASSUME IInv, inFlight = 0
               PROVE  /\ queue = <<>>
                      /\ loop \notin {"dispatch", "balance"}
                      /\ \A p \in Enqueuer : pc[p] # "push"
    BY DEF QuiescentSound
  <2>1. /\ Cardinality(Holding) \in Nat /\ Len(queue) \in Nat /\ Busy \in {0, 1}
        /\ 0 = Len(queue) + Busy + Cardinality(Holding)
    BY HoldingNat, LenProperties DEF IInv, Types, InFlightExact, Busy
  <2>2. Len(queue) = 0 /\ Busy = 0 /\ Cardinality(Holding) = 0
    BY <2>1
  <2>3. queue = <<>>
    BY <2>2, EmptySeq DEF IInv, Types
  <2>4. loop \notin {"dispatch", "balance"}
    BY <2>2 DEF Busy
  <2>5. Holding = {}
    <3>1. IsFiniteSet(Enqueuer)
      BY ProducerAssumption, FS_AddElement DEF Enqueuer
    <3>2. IsFiniteSet(Holding)
      BY <3>1, FS_Subset DEF Holding
    <3> QED  BY <2>2, <3>2, FS_EmptySet
  <2> QED  BY <2>3, <2>4, <2>5 DEF Holding
<1> QED  BY <1>1, Invariance, PTL
------------------------------------------------------------------------------
(* The order of events. *)

\* What has been handed to the handler.
Given == IF loop = "dispatch" THEN Append(handled, cur) ELSE handled

\* Every event of t comes after those of s from the same goroutine.
Ahead(s, t) ==
    \A i \in 1 .. Len(s), j \in 1 .. Len(t) : s[i].from = t[j].from => s[i].num < t[j].num

Before(s, e) == \A i \in 1 .. Len(s) : s[i].from = e.from => s[i].num < e.num

\* The goroutine of e has pushed it.
Past(e) == e.num <= sent[e.from] /\ (pc[e.from] = "push" => e.num # sent[e.from])

\* Events that a push dropped, reported or about to be.
Lost == dead \cup {hand[p] : p \in {r \in Enqueuer :
                     /\ pc[r] \in {"signal", "undo", "report"}
                     /\ hand[r] # NoEvent}}

OrderInv ==
    /\ InOrder(Given) /\ InOrder(queue) /\ Ahead(Given, queue)
    /\ \A i \in 1 .. Len(Given) : Past(Given[i])
    /\ \A i \in 1 .. Len(queue) : Past(queue[i])
    /\ \A e \in Lost : Past(e)
    /\ \A p \in Enqueuer : pc[p] = "push" => hand[p] = [from |-> p, num |-> sent[p]]

\* A later event at the end of the queue keeps the order.
LEMMA PushOrder ==
  ASSUME NEW s \in Seq(Event), NEW t \in Seq(Event), NEW e \in Event,
         InOrder(t), Ahead(s, t), Before(s, e), Before(t, e)
  PROVE  InOrder(Append(t, e)) /\ Ahead(s, Append(t, e))
<1>1. /\ Len(t) \in Nat /\ Len(Append(t, e)) = Len(t) + 1
      /\ \A i \in 1 .. Len(t) : Append(t, e)[i] = t[i]
      /\ Append(t, e)[Len(t) + 1] = e
  BY AppendProperties, LenProperties
<1> DEFINE u == Append(t, e)
<1> HIDE DEF u
<1>2. \A i \in 1 .. Len(t) + 1 : i \in 1 .. Len(t) \/ i = Len(t) + 1
  BY <1>1
<1>3. Len(u) = Len(t) + 1 /\ (\A i \in 1 .. Len(t) : u[i] = t[i]) /\ u[Len(t) + 1] = e
  BY <1>1 DEF u
<1>4. InOrder(u)
  <2> SUFFICES ASSUME NEW i \in 1 .. Len(u), NEW j \in 1 .. Len(u), i < j, u[i].from = u[j].from
               PROVE  u[i].num < u[j].num
    BY DEF InOrder
  <2>1. i \in 1 .. Len(t)
    BY <1>1, <1>3
  <2>2. CASE j \in 1 .. Len(t)
    BY <1>3, <2>1, <2>2 DEF InOrder
  <2>3. CASE j = Len(t) + 1
    BY <1>3, <2>1, <2>3 DEF Before
  <2> QED  BY <1>2, <1>3, <2>2, <2>3
<1>5. Ahead(s, u)
  BY <1>2, <1>3 DEF Ahead, Before
<1> QED  BY <1>4, <1>5 DEF u

\* So does taking the head, ...
LEMMA TailOrder ==
  ASSUME NEW s \in Seq(Event), NEW t \in Seq(Event), t # <<>>,
         InOrder(t), Ahead(s, t)
  PROVE  InOrder(Tail(t)) /\ Ahead(s, Tail(t)) /\ Before(s, Head(t))
<1>1. /\ Len(t) \in Nat \ {0} /\ Len(Tail(t)) = Len(t) - 1 /\ Head(t) = t[1]
      /\ \A i \in 1 .. Len(Tail(t)) : Tail(t)[i] = t[i + 1]
  BY HeadTailProperties, EmptySeq
<1> DEFINE u == Tail(t)
<1> HIDE DEF u
<1>2. Len(u) = Len(t) - 1 /\ \A i \in 1 .. Len(u) : u[i] = t[i + 1] /\ i + 1 \in 1 .. Len(t)
  BY <1>1 DEF u
<1>3. InOrder(u)
  <2> SUFFICES ASSUME NEW i \in 1 .. Len(u), NEW j \in 1 .. Len(u), i < j, u[i].from = u[j].from
               PROVE  u[i].num < u[j].num
    BY DEF InOrder
  <2>1. i + 1 < j + 1
    BY <1>1, <1>2
  <2> QED  BY <1>2, <2>1 DEF InOrder
<1>4. Ahead(s, u)
  BY <1>2 DEF Ahead
<1>5. Before(s, Head(t))
  BY <1>1 DEF Ahead, Before
<1> QED  BY <1>3, <1>4, <1>5 DEF u

\* ... and handing it to the handler.
LEMMA TakeOrder ==
  ASSUME NEW s \in Seq(Event), NEW t \in Seq(Event), t # <<>>,
         InOrder(s), InOrder(t), Ahead(s, t)
  PROVE  InOrder(Append(s, Head(t))) /\ Ahead(Append(s, Head(t)), Tail(t))
<1> DEFINE e == Head(t)
           u == Tail(t)
           v == Append(s, e)
<1>1. e \in Event /\ u \in Seq(Event)
  BY HeadTailProperties
<1>2. /\ Len(t) \in Nat \ {0} /\ Len(u) = Len(t) - 1 /\ e = t[1]
      /\ \A i \in 1 .. Len(u) : u[i] = t[i + 1]
  BY HeadTailProperties, EmptySeq
<1>3. Ahead(s, u) /\ Before(s, e)
  BY TailOrder
<1> HIDE DEF e, u
<1>4. InOrder(v)
  <2>1. Ahead(<<>>, s) /\ Before(<<>>, e) /\ <<>> \in Seq(Event)
    BY DEF Ahead, Before
  <2> QED  BY <1>1, <1>3, <2>1, PushOrder
<1>5. /\ Len(s) \in Nat /\ Len(v) = Len(s) + 1
      /\ \A i \in 1 .. Len(s) : v[i] = s[i]
      /\ v[Len(s) + 1] = e
  BY <1>1, AppendProperties, LenProperties
<1> HIDE DEF v
<1>6. Ahead(v, u)
  <2> SUFFICES ASSUME NEW i \in 1 .. Len(v), NEW j \in 1 .. Len(u), v[i].from = u[j].from
               PROVE  v[i].num < u[j].num
    BY DEF Ahead
  <2>1. CASE i \in 1 .. Len(s)
    BY <1>3, <1>5, <2>1 DEF Ahead
  <2>2. CASE i = Len(s) + 1
    <3>1. 1 \in 1 .. Len(t) /\ j + 1 \in 1 .. Len(t) /\ 1 < j + 1
      BY <1>2
    <3>2. v[i] = t[1] /\ u[j] = t[j + 1]
      BY <1>2, <1>5, <2>2
    <3> QED  BY <3>1, <3>2 DEF InOrder
  <2> QED  BY <1>5, <2>1, <2>2
<1> QED  BY <1>4, <1>6 DEF v, e, u

\* The two in a row.
LEMMA CatOrder ==
  ASSUME NEW s \in Seq(Event), NEW t \in Seq(Event), InOrder(s), InOrder(t), Ahead(s, t)
  PROVE  InOrder(s \o t)
<1>1. /\ Len(s) \in Nat /\ Len(t) \in Nat /\ Len(s \o t) = Len(s) + Len(t)
      /\ \A i \in 1 .. Len(s) + Len(t) :
           (s \o t)[i] = IF i <= Len(s) THEN s[i] ELSE t[i - Len(s)]
  BY ConcatProperties, LenProperties
<1> DEFINE u == s \o t
<1> HIDE DEF u
<1>2. Len(u) = Len(s) + Len(t)
  BY <1>1 DEF u
<1>3. \A i \in 1 .. Len(u) :
        \/ i \in 1 .. Len(s) /\ u[i] = s[i]
        \/ i > Len(s) /\ i - Len(s) \in 1 .. Len(t) /\ u[i] = t[i - Len(s)]
  BY <1>1 DEF u
<1> SUFFICES ASSUME NEW i \in 1 .. Len(u), NEW j \in 1 .. Len(u), i < j, u[i].from = u[j].from
             PROVE  u[i].num < u[j].num
  BY DEF InOrder, u
<1>4. CASE i \in 1 .. Len(s) /\ u[i] = s[i] /\ j \in 1 .. Len(s) /\ u[j] = s[j]
  BY <1>4 DEF InOrder
<1>5. CASE /\ i \in 1 .. Len(s) /\ u[i] = s[i]
           /\ j - Len(s) \in 1 .. Len(t) /\ u[j] = t[j - Len(s)]
  BY <1>5 DEF Ahead
<1>6. CASE /\ i - Len(s) \in 1 .. Len(t) /\ u[i] = t[i - Len(s)]
           /\ j - Len(s) \in 1 .. Len(t) /\ u[j] = t[j - Len(s)]
  <2>1. i - Len(s) < j - Len(s)
    BY <1>1, <1>2
  <2> QED  BY <1>6, <2>1 DEF InOrder
<1> QED  BY <1>1, <1>2, <1>3, <1>4, <1>5, <1>6

AtCapacity == policy # "unbounded" /\ Len(queue) >= Capacity

\* The push of p: into the queue, into a full queue in vain, or in place of
\* its oldest event.
Pushes(p) ==
    /\ pc[p] = "push" /\ pc'[p] # "push" /\ sent' = sent /\ hand[p] \in Event
    /\ Given' = Given /\ cancelled' = cancelled
    /\ \/ ~AtCapacity /\ queue' = Append(queue, hand[p]) /\ Lost' = Lost
       \/ AtCapacity /\ queue' = queue /\ Lost' = Lost \cup {hand[p]}
       \/ /\ AtCapacity /\ queue # <<>>
          /\ queue' = Append(Tail(queue), hand[p]) /\ Lost' = Lost \cup {Head(queue)}

Hands ==
    /\ queue # <<>> /\ queue' = Tail(queue) /\ Given' = Append(Given, Head(queue))
    /\ Lost' = Lost /\ cancelled' = cancelled

\* What is lost, one event at a time.
LEMMA LostIs ==
  ASSUME NEW e
  PROVE  e \in Lost <=>
           \/ e \in dead
           \/ \E r \in Enqueuer : /\ pc[r] \in {"signal", "undo", "report"}
                                  /\ hand[r] # NoEvent /\ e = hand[r]
BY DEF Lost

\* The same of the next state.
LEMMA LostNext ==
  (\A e : e \in Lost <=>
           \/ e \in dead
           \/ \E r \in Enqueuer : /\ pc[r] \in {"signal", "undo", "report"}
                                  /\ hand[r] # NoEvent /\ e = hand[r])'
<1>1. \A e : e \in Lost <=>
           \/ e \in dead
           \/ \E r \in Enqueuer : /\ pc[r] \in {"signal", "undo", "report"}
                                  /\ hand[r] # NoEvent /\ e = hand[r]
  BY LostIs
<1> QED  BY <1>1, PTL

\* A step is a push, the loop's take, or none of the queue's business.
LEMMA QueueEffect ==
  ASSUME Types, HandInv, LoopInv, [Next]_vars
  PROVE  /\ policy' = policy
         /\ \/ /\ queue' = queue /\ Given' = Given /\ Lost' = Lost
               /\ cancelled' = cancelled \/ cancelled' = TRUE
            \/ Hands
            \/ \E p \in Enqueuer : Pushes(p)
<1> DEFINE G == /\ policy' = policy
                /\ \/ /\ queue' = queue /\ Given' = Given /\ Lost' = Lost
                      /\ cancelled' = cancelled \/ cancelled' = TRUE
                   \/ Hands
                   \/ \E p \in Enqueuer : Pushes(p)
<1> SUFFICES G
  OBVIOUS
<1>0. /\ \A e : e \in Lost <=>
           \/ e \in dead
           \/ \E r \in Enqueuer : /\ pc[r] \in {"signal", "undo", "report"}
                                  /\ hand[r] # NoEvent /\ e = hand[r]
      /\ \A e : e \in Lost' <=>
           \/ e \in dead'
           \/ \E r \in Enqueuer : /\ pc'[r] \in {"signal", "undo", "report"}
                                  /\ hand'[r] # NoEvent /\ e = hand'[r]
  BY LostIs, LostNext
<1>a. /\ pc \in [Enqueuer -> PC] /\ hand \in [Enqueuer -> Event \cup {NoEvent}]
      /\ queue \in Seq(Event)
  BY DEF Types
<1>1. ASSUME NEW p \in Enqueuer, Count(p)
      PROVE  G
  <2>1. /\ pc[p] = "idle" /\ pc' = [pc EXCEPT ![p] = "push"] /\ dead' = dead
        /\ hand' = [hand EXCEPT ![p] = [from |-> p, num |-> sent[p] + 1]]
    BY <1>1 DEF Count, lossVars
  <2>2. \A e : e \in Lost' <=> e \in Lost
    BY <1>0, <1>a, <2>1
  <2>3. Given' = Given /\ UNCHANGED <<policy, queue, cancelled>>
    BY <1>1 DEF Count, Given, mailboxVars, loopVars
  <2> QED  BY <2>2, <2>3
<1>2. ASSUME NEW p \in Enqueuer, pushBlock(p)
      PROVE  G
  <2>1. /\ pc[p] = "push" /\ pc' = [pc EXCEPT ![p] = "idle"] /\ dead' = dead
        /\ hand' = [hand EXCEPT ![p] = NoEvent]
        /\ Len(queue) < Capacity /\ queue' = Append(queue, hand[p])
        /\ UNCHANGED <<policy, cancelled, sent>>
    BY <1>2 DEF pushBlock, lossVars
  <2>2. \A e : e \in Lost' <=> e \in Lost
    BY <1>0, <1>a, <2>1
  <2>3. Given' = Given
    BY <1>2 DEF pushBlock, Given, loopVars
  <2>4. hand[p] \in Event /\ pc'[p] # "push"
    BY <1>a, <2>1 DEF HandInv
  <2>5. ~AtCapacity
    BY <1>a, <2>1, LenProperties, CapacityAssumption DEF AtCapacity
  <2>6. Lost' = Lost
    BY <2>2
  <2>7. Pushes(p)
    BY <2>1, <2>3, <2>4, <2>5, <2>6 DEF Pushes
  <2> QED  BY <2>1, <2>7
<1>3. ASSUME NEW p \in Enqueuer, pushAborted(p)
      PROVE  G
  <2>1. /\ pc[p] = "push" /\ pc' = [pc EXCEPT ![p] = "abort"]
        /\ UNCHANGED <<dead, hand>>
    BY <1>3 DEF pushAborted
  <2>2. \A e : e \in Lost' <=> e \in Lost
    BY <1>0, <1>a, <2>1
  <2>3. Given' = Given /\ UNCHANGED <<policy, queue, cancelled>>
    BY <1>3 DEF pushAborted, Given, mailboxVars, loopVars
  <2> QED  BY <2>2, <2>3
<1>4. ASSUME NEW p \in Enqueuer, pushDeque(p)
      PROVE  G
  <2>1. /\ pc[p] = "push" /\ pc' = [pc EXCEPT ![p] = "signal"] /\ dead' = dead
        /\ hand' = [hand EXCEPT ![p] = Dropped(policy, queue, hand[p])]
        /\ queue' = enqueueLocked(policy, queue, hand[p])
        /\ policy # "block"
        /\ UNCHANGED <<policy, cancelled, sent>>
    BY <1>4 DEF pushDeque, lossVars
  <2>2. Given' = Given
    BY <1>4 DEF pushDeque, Given, loopVars
  <2>3. hand[p] \in Event /\ pc'[p] = "signal" /\ hand'[p] = Dropped(policy, queue, hand[p])
    BY <1>a, <2>1 DEF HandInv
  <2>4. policy \in OverflowPolicy /\ Len(queue) \in Nat
    BY PolicyAssumption, LenProperties DEF Types
  <2>5. AtCapacity <=> Full(policy, queue)
    BY <2>1, <2>4 DEF AtCapacity, Full, OverflowPolicy
  <2>6. CASE ~AtCapacity
    <3>1. queue' = Append(queue, hand[p]) /\ hand'[p] = NoEvent
      BY <2>1, <2>3, <2>5, <2>6 DEF enqueueLocked, Dropped
    <3>2. \A e : e \in Lost' <=> e \in Lost
      BY <1>0, <1>a, <2>1, <3>1
    <3>3. Lost' = Lost
      BY <3>2
    <3>4. Pushes(p)
      BY <2>1, <2>2, <2>3, <2>6, <3>1, <3>3 DEF Pushes
    <3> QED  BY <2>1, <3>4
  <2>7. CASE AtCapacity /\ policy = "drop_newest"
    <3>1. queue' = queue /\ hand'[p] = hand[p]
      BY <2>1, <2>3, <2>5, <2>7 DEF enqueueLocked, Dropped
    <3>2. \A e : e \in Lost' <=> e \in Lost \cup {hand[p]}
      BY <1>0, <1>a, <2>1, <2>3, <3>1, NoEventAssumption
    <3>3. Lost' = Lost \cup {hand[p]}
      BY <3>2
    <3>4. Pushes(p)
      BY <2>1, <2>2, <2>3, <2>7, <3>1, <3>3 DEF Pushes
    <3> QED  BY <2>1, <3>4
  <2>8. CASE AtCapacity /\ policy # "drop_newest"
    <3>1. queue' = Append(Tail(queue), hand[p]) /\ hand'[p] = Head(queue)
      BY <2>1, <2>3, <2>5, <2>8 DEF enqueueLocked, Dropped
    <3>2. queue # <<>>
      BY <2>4, <2>8, EmptySeq, CapacityAssumption DEF AtCapacity
    <3>3. Head(queue) \in Event
      BY <1>a, <3>2, HeadTailProperties
    <3>4. \A e : e \in Lost' <=> e \in Lost \cup {Head(queue)}
      BY <1>0, <1>a, <2>1, <2>3, <3>1, <3>3, NoEventAssumption
    <3>5. Lost' = Lost \cup {Head(queue)}
      BY <3>4
    <3>6. Pushes(p)
      BY <2>1, <2>2, <2>3, <2>8, <3>1, <3>2, <3>5 DEF Pushes
    <3> QED  BY <2>1, <3>6
  <2> QED  BY <2>6, <2>7, <2>8
<1>5. ASSUME NEW p \in Enqueuer, Signal(p)
      PROVE  G
  <2>1. /\ pc[p] = "signal" /\ pc' = [pc EXCEPT ![p] = IF hand[p] = NoEvent THEN "idle" ELSE "undo"]
        /\ UNCHANGED <<dead, hand>>
    BY <1>5 DEF Signal, lossVars
  <2>2. \A e : e \in Lost' <=> e \in Lost
    BY <1>0, <1>a, <2>1
  <2>3. Given' = Given /\ UNCHANGED <<policy, queue, cancelled>>
    BY <1>5 DEF Signal, Given, loopVars
  <2> QED  BY <2>2, <2>3
<1>6. ASSUME NEW p \in Enqueuer, Uncount(p)
      PROVE  G
  <2>1. /\ dead' = dead
        /\ \/ pc[p] = "undo" /\ pc' = [pc EXCEPT ![p] = "report"] /\ hand' = hand
           \/ /\ pc[p] = "abort" /\ pc' = [pc EXCEPT ![p] = "idle"]
              /\ hand' = [hand EXCEPT ![p] = NoEvent]
    BY <1>6 DEF Uncount, lossVars
  <2>2. \A e : e \in Lost' <=> e \in Lost
    BY <1>0, <1>a, <2>1
  <2>3. Given' = Given /\ UNCHANGED <<policy, queue, cancelled>>
    BY <1>6 DEF Uncount, Given, mailboxVars, loopVars
  <2> QED  BY <2>2, <2>3
<1>7. ASSUME NEW p \in Enqueuer, Report(p)
      PROVE  G
  <2>1. /\ pc[p] = "report" /\ pc' = [pc EXCEPT ![p] = "idle"]
        /\ dead' = dead \cup {hand[p]} /\ hand' = [hand EXCEPT ![p] = NoEvent]
    BY <1>7 DEF Report
  <2>2. hand[p] # NoEvent
    BY <2>1, NoEventAssumption DEF HandInv
  <2>3. \A e : e \in Lost' <=> e \in Lost
    BY <1>0, <1>a, <2>1, <2>2
  <2>4. Given' = Given /\ UNCHANGED <<policy, queue, cancelled>>
    BY <1>7 DEF Report, Given, mailboxVars, loopVars
  <2> QED  BY <2>3, <2>4
<1>b. ASSUME UNCHANGED <<dead, pc, hand>>
      PROVE  Lost' = Lost
  BY <1>b DEF Lost
<1>8. CASE Take
  <2>1. /\ queue # <<>> /\ queue' = Tail(queue) /\ Given' = Append(Given, Head(queue))
        /\ UNCHANGED <<policy, cancelled, dead, pc, hand>>
    BY <1>8 DEF Take, Given, enqueueVars, lossVars
  <2> QED  BY <1>b, <2>1 DEF Hands
<1>9. CASE Park \/ Wake \/ Exit \/ Balance \/ UNCHANGED vars
  <2>1. /\ Given' = Given
        /\ UNCHANGED <<policy, queue, cancelled, dead, pc, hand>>
    BY <1>9 DEF Park, Wake, Exit, Balance, vars, Given, mailboxVars, enqueueVars, loopVars,
                lossVars
  <2> QED  BY <1>b, <2>1
<1>10. CASE dispatch
  <2>1. /\ Given' = Given
        /\ UNCHANGED <<policy, queue, cancelled, dead, pc, hand>>
    BY <1>10 DEF dispatch, Given, mailboxVars, enqueueVars, lossVars
  <2> QED  BY <1>b, <2>1
<1>11. CASE Cancel
  <2>1. /\ Given' = Given /\ cancelled' = TRUE
        /\ UNCHANGED <<policy, queue, dead, pc, hand>>
    BY <1>11 DEF Cancel, Given, mailboxVars, enqueueVars, loopVars, lossVars
  <2> QED  BY <1>b, <2>1
<1> QED
  BY <1>1, <1>2, <1>3, <1>4, <1>5, <1>6, <1>7, <1>8, <1>9, <1>10, <1>11
     DEF Next, enqueue, eventHandler

\* An event that was pushed stays so: the next one has a higher number.
LEMMA PastKept ==
  ASSUME Types, [Next]_vars
  PROVE  /\ \A e \in Event : Past(e) => Past(e)'
         /\ \A p \in Enqueuer : pc'[p] = "push" =>
              \/ hand'[p] = [from |-> p, num |-> sent'[p]]
              \/ pc[p] = "push" /\ hand'[p] = hand[p] /\ sent'[p] = sent[p]
<1> DEFINE G == /\ \A e \in Event : Past(e) => Past(e)'
                /\ \A p \in Enqueuer : pc'[p] = "push" =>
                     \/ hand'[p] = [from |-> p, num |-> sent'[p]]
                     \/ pc[p] = "push" /\ hand'[p] = hand[p] /\ sent'[p] = sent[p]
<1> SUFFICES G
  OBVIOUS
<1>1. /\ pc \in [Enqueuer -> PC] /\ hand \in [Enqueuer -> Event \cup {NoEvent}]
      /\ sent \in [Enqueuer -> 0 .. MaxEvents]
  BY DEF Types
<1>2. \A e \in Event : e.from \in Enqueuer /\ e.num \in 1 .. MaxEvents
  BY DEF Event
<1>3. ASSUME NEW p \in Enqueuer, Count(p)
      PROVE  G
  <2>1. /\ sent' = [sent EXCEPT ![p] = @ + 1] /\ pc' = [pc EXCEPT ![p] = "push"]
        /\ hand' = [hand EXCEPT ![p] = [from |-> p, num |-> sent[p] + 1]]
    BY <1>3 DEF Count
  <2>2. ASSUME NEW e \in Event, Past(e)  PROVE Past(e)'
    <3>1. e.num <= sent[e.from] /\ sent[e.from] \in 0 .. MaxEvents /\ e.num \in 1 .. MaxEvents
      BY <1>1, <1>2, <2>2 DEF Past
    <3>2. CASE e.from = p
      <4>1. sent'[e.from] = sent[e.from] + 1
        BY <1>1, <2>1, <3>2
      <4>2. e.num <= sent'[e.from] /\ e.num # sent'[e.from]
        BY <3>1, <4>1, MaxEventsAssumption
      <4> QED  BY <4>2 DEF Past
    <3>3. CASE e.from # p
      BY <1>1, <1>2, <2>1, <2>2, <3>3 DEF Past
    <3> QED  BY <3>2, <3>3
  <2> QED  BY <1>1, <2>1, <2>2
<1>4. ASSUME sent' = sent, NEW p, NEW l \in PC, l # "push",
             pc' = [pc EXCEPT ![p] = l] \/ pc' = pc,
             \A q \in Enqueuer \ {p} : hand'[q] = hand[q],
             pc' = pc => hand' = hand
      PROVE  G
  BY <1>1, <1>2, <1>4 DEF Past
<1>5. ASSUME NEW p \in Enqueuer, pushBlock(p) \/ Report(p)
      PROVE  G
  <2>1. /\ sent' = sent /\ pc' = [pc EXCEPT ![p] = "idle"]
        /\ hand' = [hand EXCEPT ![p] = NoEvent]
    BY <1>5 DEF pushBlock, Report
  <2>2. pc'[p] # "push" /\ \A q \in Enqueuer \ {p} : hand'[q] = hand[q] /\ pc'[q] = pc[q]
    BY <1>1, <2>1
  <2> QED  BY <1>1, <1>2, <2>1, <2>2 DEF Past
<1>6. ASSUME NEW p \in Enqueuer, pushAborted(p)
      PROVE  G
  <2>1. sent' = sent /\ pc' = [pc EXCEPT ![p] = "abort"] /\ hand' = hand
    BY <1>6 DEF pushAborted
  <2> QED  BY <1>1, <1>4, <2>1 DEF PC
<1>7. ASSUME NEW p \in Enqueuer, pushDeque(p)
      PROVE  G
  <2>1. /\ sent' = sent /\ pc' = [pc EXCEPT ![p] = "signal"]
        /\ hand' = [hand EXCEPT ![p] = Dropped(policy, queue, @)]
    BY <1>7 DEF pushDeque
  <2>2. pc'[p] = "signal"
    BY <1>1, <2>1
  <2>3. \A q \in Enqueuer \ {p} : hand'[q] = hand[q] /\ pc'[q] = pc[q]
    BY <1>1, <2>1
  <2> QED  BY <1>1, <1>2, <2>1, <2>2, <2>3 DEF Past
<1>8. ASSUME NEW p \in Enqueuer, Signal(p)
      PROVE  G
  <2>1. /\ sent' = sent /\ hand' = hand
        /\ pc' = [pc EXCEPT ![p] = "idle"] \/ pc' = [pc EXCEPT ![p] = "undo"]
    BY <1>8 DEF Signal
  <2> QED  BY <1>1, <1>4, <2>1 DEF PC
<1>9. ASSUME NEW p \in Enqueuer, Uncount(p)
      PROVE  G
  <2>1. /\ sent' = sent
        /\ \/ pc' = [pc EXCEPT ![p] = "report"] /\ hand' = hand
           \/ pc' = [pc EXCEPT ![p] = "idle"] /\ hand' = [hand EXCEPT ![p] = NoEvent]
    BY <1>9 DEF Uncount
  <2>2. pc'[p] # "push" /\ \A q \in Enqueuer \ {p} : hand'[q] = hand[q] /\ pc'[q] = pc[q]
    BY <1>1, <2>1
  <2> QED  BY <1>1, <1>2, <2>1, <2>2 DEF Past
<1>10. CASE eventHandler \/ Cancel \/ UNCHANGED vars
  <2>1. UNCHANGED <<sent, pc, hand>>
    BY <1>10 DEF eventHandler, Take, Park, Wake, Exit, dispatch, Balance, Cancel, vars,
                 enqueueVars
  <2> QED  BY <2>1 DEF Past
<1> QED
  BY <1>3, <1>5, <1>6, <1>7, <1>8, <1>9, <1>10 DEF Next, enqueue

\* What has been handed over is a sequence of events.
LEMMA GivenType ==
  ASSUME Types, LoopInv
  PROVE  Given \in Seq(Event)
BY AppendProperties DEF Types, LoopInv, Given

\* Every step keeps the order.
LEMMA OrderStep ==
  ASSUME Types, HandInv, LoopInv, OrderInv, [Next]_vars
  PROVE  OrderInv'
<1>1. /\ \A e \in Event : Past(e) => Past(e)'
      /\ \A p \in Enqueuer : pc'[p] = "push" =>
           \/ hand'[p] = [from |-> p, num |-> sent'[p]]
           \/ pc[p] = "push" /\ hand'[p] = hand[p] /\ sent'[p] = sent[p]
  BY PastKept
<1>2. \A p \in Enqueuer : pc'[p] = "push" => hand'[p] = [from |-> p, num |-> sent'[p]]
  BY <1>1 DEF OrderInv
<1>3. /\ Given \in Seq(Event) /\ queue \in Seq(Event)
      /\ \A i \in 1 .. Len(Given) : Given[i] \in Event
      /\ \A i \in 1 .. Len(queue) : queue[i] \in Event
      /\ \A e \in Lost : e \in Event
  <2>1. Given \in Seq(Event) /\ queue \in Seq(Event)
    BY GivenType DEF Types
  <2>2. \A e \in Lost : e \in Event
    BY DEF Types, Lost
  <2> QED  BY <2>1, <2>2, ElementOfSeq
<1>4. /\ \A i \in 1 .. Len(Given) : Past(Given[i])
      /\ \A i \in 1 .. Len(queue) : Past(queue[i])
      /\ \A e \in Lost : Past(e)
      /\ InOrder(Given) /\ InOrder(queue) /\ Ahead(Given, queue)
      /\ \A p \in Enqueuer : pc[p] = "push" => hand[p] = [from |-> p, num |-> sent[p]]
  BY DEF OrderInv
<1> DEFINE P(e) == e.num <= sent'[e.from] /\ (pc'[e.from] = "push" => e.num # sent'[e.from])
<1>5. \A e \in Event : Past(e) => P(e)
  BY <1>1 DEF Past
<1>6. /\ \A i \in 1 .. Len(Given) : P(Given[i])
      /\ \A i \in 1 .. Len(queue) : P(queue[i])
      /\ \A e \in Lost : P(e)
  BY <1>3, <1>4, <1>5
<1> HIDE DEF P
<1>7. SUFFICES /\ InOrder(Given') /\ InOrder(queue') /\ Ahead(Given', queue')
               /\ \A i \in 1 .. Len(Given') : P(Given'[i])
               /\ \A i \in 1 .. Len(queue') : P(queue'[i])
               /\ \A e \in Lost' : P(e)
  BY <1>2 DEF OrderInv, Past, P, InOrder, Ahead
<1>8. CASE queue' = queue /\ Given' = Given /\ Lost' = Lost
  BY <1>4, <1>6, <1>8
<1>9. CASE Hands
  <2>1. /\ queue # <<>> /\ queue' = Tail(queue) /\ Given' = Append(Given, Head(queue))
        /\ Lost' = Lost
    BY <1>9 DEF Hands
  <2>2. /\ InOrder(Given') /\ InOrder(queue') /\ Ahead(Given', queue')
    BY <1>3, <1>4, <2>1, TailOrder, TakeOrder
  <2>3. /\ Head(queue) \in Event /\ Head(queue) = queue[1]
        /\ Len(queue) \in Nat \ {0} /\ Len(queue') = Len(queue) - 1
        /\ \A i \in 1 .. Len(queue') : queue'[i] = queue[i + 1]
    BY <1>3, <2>1, HeadTailProperties, EmptySeq
  <2>4. \A i \in 1 .. Len(queue') : P(queue'[i])
    BY <1>6, <2>3
  <2>5. /\ Len(Given) \in Nat /\ Len(Given') = Len(Given) + 1
        /\ \A i \in 1 .. Len(Given) : Given'[i] = Given[i]
        /\ Given'[Len(Given) + 1] = queue[1]
    BY <1>3, <2>1, <2>3, AppendProperties, LenProperties
  <2>6. \A i \in 1 .. Len(Given') : P(Given'[i])
    BY <1>6, <2>3, <2>5
  <2> QED  BY <1>6, <2>1, <2>2, <2>4, <2>6
<1>10. ASSUME NEW p \in Enqueuer, Pushes(p)
       PROVE  /\ InOrder(Given') /\ InOrder(queue') /\ Ahead(Given', queue')
              /\ \A i \in 1 .. Len(Given') : P(Given'[i])
              /\ \A i \in 1 .. Len(queue') : P(queue'[i])
              /\ \A e \in Lost' : P(e)
  <2>1. PICK e : e = hand[p]
    OBVIOUS
  <2>2. /\ pc[p] = "push" /\ pc'[p] # "push" /\ sent' = sent /\ e \in Event
        /\ Given' = Given
        /\ \/ queue' = Append(queue, e) /\ Lost' = Lost
           \/ queue' = queue /\ Lost' = Lost \cup {e}
           \/ /\ queue # <<>>
              /\ queue' = Append(Tail(queue), e) /\ Lost' = Lost \cup {Head(queue)}
    BY <1>10, <2>1 DEF Pushes
  <2>3. e.from = p /\ e.num = sent[p] /\ sent[p] \in Nat
    <3>1. e = [from |-> p, num |-> sent[p]]
      BY <1>4, <2>1, <2>2
    <3> QED  BY <3>1, MaxEventsAssumption DEF Types
  <2>4. P(e)
    BY <2>2, <2>3 DEF P
  <2>5. \A f \in Event : Past(f) /\ f.from = e.from => f.num < e.num
    BY <2>2, <2>3, MaxEventsAssumption DEF Past, Event
  <2>6. Before(Given, e) /\ Before(queue, e)
    BY <1>3, <1>4, <2>5 DEF Before
  <2>7. ASSUME NEW s \in Seq(Event), \A i \in 1 .. Len(s) : P(s[i])
        PROVE  \A i \in 1 .. Len(Append(s, e)) : P(Append(s, e)[i])
    <3>1. /\ Len(s) \in Nat /\ Len(Append(s, e)) = Len(s) + 1
          /\ \A i \in 1 .. Len(s) : Append(s, e)[i] = s[i]
          /\ Append(s, e)[Len(s) + 1] = e
      BY <2>2, AppendProperties, LenProperties
    <3> QED  BY <2>4, <2>7, <3>1
  <2>8. CASE queue' = Append(queue, e) /\ Lost' = Lost
    BY <1>3, <1>4, <1>6, <2>2, <2>6, <2>7, <2>8, PushOrder
  <2>9. CASE queue' = queue /\ Lost' = Lost \cup {e}
    BY <1>4, <1>6, <2>2, <2>4, <2>9
  <2>10. CASE /\ queue # <<>>
              /\ queue' = Append(Tail(queue), e) /\ Lost' = Lost \cup {Head(queue)}
    <3> DEFINE t == Tail(queue)
    <3>1. t \in Seq(Event) /\ InOrder(t) /\ Ahead(Given, t)
      BY <1>3, <1>4, <2>10, HeadTailProperties, TailOrder
    <3>2. /\ Len(queue) \in Nat \ {0} /\ Len(t) = Len(queue) - 1 /\ Head(queue) = queue[1]
          /\ \A i \in 1 .. Len(t) : t[i] = queue[i + 1]
      BY <1>3, <2>10, HeadTailProperties, EmptySeq
    <3> HIDE DEF t
    <3>3. \A i \in 1 .. Len(t) : i + 1 \in 1 .. Len(queue)
      BY <3>2
    <3>4. (\A i \in 1 .. Len(t) : P(t[i])) /\ Before(t, e)
      BY <1>6, <2>6, <3>2, <3>3 DEF Before
    <3>5. P(Head(queue))
      BY <1>6, <3>2
    <3>6. queue' = Append(t, e)
      BY <2>10 DEF t
    <3>7. /\ InOrder(queue') /\ Ahead(Given, queue')
      BY <1>3, <2>2, <2>6, <3>1, <3>4, <3>6, PushOrder
    <3>8. \A i \in 1 .. Len(queue') : P(queue'[i])
      BY <2>7, <3>1, <3>4, <3>6
    <3>9. \A f \in Lost' : P(f)
      BY <1>6, <2>10, <3>5
    <3> QED  BY <1>4, <1>6, <2>2, <3>7, <3>8, <3>9
  <2> QED  BY <2>2, <2>8, <2>9, <2>10
<1> QED  BY <1>8, <1>9, <1>10, QueueEffect

\* No event before the first enqueue.
LEMMA OrderInit == Init => OrderInv
<1> SUFFICES ASSUME Init  PROVE OrderInv
  OBVIOUS
<1>1. Given = <<>> /\ queue = <<>> /\ \A p \in Enqueuer : pc[p] = "idle"
  BY DEF Init, Given
<1>2. Lost = {}
  BY <1>1 DEF Init, Lost
<1> QED  BY <1>1, <1>2 DEF OrderInv, InOrder, Ahead

\* The order holds throughout.
LEMMA OrderAlways == Spec => [](IInv /\ OrderInv)
<1>1. IInv /\ OrderInv /\ [Next]_vars => OrderInv'
  BY OrderStep DEF IInv
<1> QED  BY <1>1, OrderInit, Invariance, PTL DEF Spec

\* SenderOrder: handled, dispatched and queued events of one goroutine are in
\* the order of its sends, whatever was dropped in between (mailbox.go's
\* arrival order), for every policy, capacity and number of producers.
THEOREM OrderIsKept == Spec => []SenderOrder
<1>1. IInv /\ OrderInv => SenderOrder
  <2> SUFFICES ASSUME IInv, OrderInv  PROVE SenderOrder
    OBVIOUS
  <2>1. /\ handled \in Seq(Event) /\ queue \in Seq(Event) /\ Given \in Seq(Event)
        /\ loop = "dispatch" => cur \in Event
    BY GivenType DEF IInv, Types, LoopInv
  <2>2. InOrder(Given \o queue)
    BY <2>1, CatOrder DEF OrderInv
  <2>3. Given = handled \o (IF loop = "dispatch" THEN <<cur>> ELSE <<>>)
    <3>1. CASE loop = "dispatch"
      BY <2>1, <3>1 DEF Given
    <3>2. CASE loop # "dispatch"
      BY <2>1, <3>2, ConcatEmptySeq DEF Given
    <3> QED  BY <3>1, <3>2
  <2> QED  BY <2>2, <2>3 DEF SenderOrder
<1> QED  BY <1>1, OrderAlways, PTL

\* ImplementsQueue but for its fairness: for every policy, the deque with its
\* signal, and the buffered channel, are the promised queue, step for step.
\* In particular an event enters the queue once and is lost only to a full one.
THEOREM QueueIsKept == Spec => Abstract!Init /\ [][Abstract!Next]_(Abstract!vars)
<1>1. Init => Abstract!Init
  <2> SUFFICES ASSUME Init  PROVE Abstract!Init
    OBVIOUS
  <2>1. Lost = {} /\ Given = <<>>
    BY DEF Init, Lost, Given
  <2> QED  BY <2>1 DEF Init, Abstract!Init, Lost, Given
<1>2. IInv /\ OrderInv /\ [Next]_vars => [Abstract!Next]_(Abstract!vars)
  <2> SUFFICES ASSUME IInv, OrderInv, [Next]_vars  PROVE [Abstract!Next]_(Abstract!vars)
    OBVIOUS
  <2>1. Types /\ HandInv /\ LoopInv
    BY DEF IInv
  <2>2. /\ policy' = policy
        /\ \/ /\ queue' = queue /\ Given' = Given /\ Lost' = Lost
              /\ cancelled' = cancelled \/ cancelled' = TRUE
           \/ Hands
           \/ \E p \in Enqueuer : Pushes(p)
    BY <2>1, QueueEffect
  <2>3. CASE queue' = queue /\ Given' = Given /\ Lost' = Lost /\ cancelled' = cancelled
    BY <2>2, <2>3 DEF Abstract!vars, Given, Lost
  <2>4. CASE queue' = queue /\ Given' = Given /\ Lost' = Lost /\ cancelled' = TRUE
    <3>1. Abstract!Close
      BY <2>2, <2>4 DEF Abstract!Close, Given, Lost
    <3> QED  BY <3>1 DEF Abstract!Next
  <2>5. CASE Hands
    <3>1. Abstract!Take
      BY <2>2, <2>5 DEF Abstract!Take, Hands, Given, Lost
    <3> QED  BY <3>1 DEF Abstract!Next
  <2>6. ASSUME NEW p \in Enqueuer, Pushes(p)
        PROVE  Abstract!Next
    <3>1. PICK e : e = hand[p]
      OBVIOUS
    <3>2. /\ pc[p] = "push" /\ e \in Event /\ Given' = Given /\ cancelled' = cancelled
          /\ \/ ~AtCapacity /\ queue' = Append(queue, e) /\ Lost' = Lost
             \/ AtCapacity /\ queue' = queue /\ Lost' = Lost \cup {e}
             \/ /\ AtCapacity /\ queue # <<>>
                /\ queue' = Append(Tail(queue), e) /\ Lost' = Lost \cup {Head(queue)}
      BY <2>6, <3>1 DEF Pushes
    <3>3. ~Past(e)
      <4>1. e = [from |-> p, num |-> sent[p]]
        BY <3>1, <3>2 DEF OrderInv
      <4>2. e.from = p /\ e.num = sent[p]
        BY <4>1
      <4> QED  BY <3>2, <4>2 DEF Past
    <3>4. e \notin Abstract!ToSet(queue) \cup Abstract!ToSet(Given) \cup Lost
      <4>1. /\ DOMAIN queue = 1 .. Len(queue) /\ DOMAIN Given = 1 .. Len(Given)
        BY <2>1, GivenType, LenProperties DEF Types
      <4> QED  BY <3>3, <4>1 DEF OrderInv, Abstract!ToSet
    <3>5. e \notin Abstract!Seen
      BY <3>4 DEF Abstract!Seen, Given, Lost
    <3>6. Abstract!Full <=> AtCapacity
      BY DEF Abstract!Full, AtCapacity
    <3>7. Abstract!Accept(e) \/ Abstract!Reject(e) \/ Abstract!Evict(e)
      BY <3>2, <3>6 DEF Abstract!Accept, Abstract!Reject, Abstract!Evict, Lost
    <3>8. Abstract!Put(e)
      BY <2>2, <3>2, <3>5, <3>7 DEF Abstract!Put, Given
    <3> QED  BY <3>2, <3>8 DEF Abstract!Next
  <2> QED  BY <2>2, <2>3, <2>4, <2>5, <2>6
<1> QED  BY <1>1, <1>2, OrderAlways, PTL DEF Spec
==============================================================================
