------------------------------- MODULE Mailbox -------------------------------
(****************************************************************************)
(* A protocol's mailbox and event loop (pkg/protorun/mailbox.go and the     *)
(* enqueue / eventHandler pair of protocol.go): producers of any goroutine  *)
(* push, one loop takes and dispatches.  One step is one access to shared   *)
(* memory: the inFlight counter, the locked queue, the signal channel, the  *)
(* dead-letter hook.                                                        *)
(*                                                                          *)
(* The blocking policy is a buffered channel; the other three share a       *)
(* mutex-guarded deque and a 1-buffered, coalescing wake-up channel.        *)
(****************************************************************************)
EXTENDS Overflow, FiniteSets

CONSTANTS
    Producer,    \* goroutines that enqueue: pumps, timers, other protocols
    Loop,        \* the event loop, which enqueues too when a handler sends to self
    Policies,    \* the overflow policies a run considers
    SelfSenders, \* the policies under which its handlers send to self
    MaxEvents    \* events one goroutine enqueues (bound)

ASSUME ProducerAssumption == IsFiniteSet(Producer) /\ Loop \notin Producer

ASSUME MaxEventsAssumption == MaxEvents \in Nat

ASSUME PolicyAssumption ==
    Policies \subseteq OverflowPolicy /\ SelfSenders \subseteq Policies

Enqueuer == Producer \cup {Loop}

Event == [from : Enqueuer, num : 1 .. MaxEvents]

ASSUME NoEventAssumption == NoEvent \notin Event

VARIABLES
    policy,    \* fixed at registration
    queue, signal, cancelled,
    inFlight,
    pc, hand,  \* per enqueuing goroutine: its place in enqueue, and the event
               \* it holds: the one to push, later the one push dropped
    sent,      \* events each goroutine has begun to enqueue
    loop, cur, \* the event loop's place, and the event it dispatches
    handled,   \* history: events whose handler returned, in order
    dead, aborted  \* history: dead-lettered, and given up on shutdown

mailboxVars == <<queue, signal>>
enqueueVars == <<pc, hand, sent>>
loopVars    == <<loop, cur, handled>>
lossVars    == <<dead, aborted>>
vars == <<policy, mailboxVars, cancelled, inFlight, enqueueVars, loopVars, lossVars>>

Init ==
    /\ policy \in Policies
    /\ queue = <<>>
    /\ signal = FALSE
    /\ cancelled = FALSE
    /\ inFlight = 0
    /\ pc = [p \in Enqueuer |-> "idle"]
    /\ hand = [p \in Enqueuer |-> NoEvent]
    /\ sent = [p \in Enqueuer |-> 0]
    /\ loop = "next"
    /\ cur = NoEvent
    /\ handled = <<>>
    /\ dead = {}
    /\ aborted = {}
------------------------------------------------------------------------------
(* enqueue. *)

\* A goroutine enters enqueue with its next event and counts it.  The loop
\* does so from inside a handler.
Count(p) ==
    /\ pc[p] = "idle"
    /\ sent[p] < MaxEvents
    /\ p = Loop => loop = "dispatch" /\ policy \in SelfSenders
    /\ sent' = [sent EXCEPT ![p] = @ + 1]
    /\ hand' = [hand EXCEPT ![p] = [from |-> p, num |-> sent[p] + 1]]
    /\ inFlight' = inFlight + 1
    /\ pc' = [pc EXCEPT ![p] = "push"]
    /\ UNCHANGED <<policy, mailboxVars, cancelled, loopVars, lossVars>>

\* blockingMailbox.push: there is room, ...
pushBlock(p) ==
    /\ pc[p] = "push"
    /\ policy = "block"
    /\ Len(queue) < Capacity
    /\ queue' = Append(queue, hand[p])
    /\ hand' = [hand EXCEPT ![p] = NoEvent]
    /\ pc' = [pc EXCEPT ![p] = "idle"]
    /\ UNCHANGED <<policy, signal, cancelled, inFlight, sent, loopVars, lossVars>>

\* ... or the runtime context is done.
pushAborted(p) ==
    /\ pc[p] = "push"
    /\ policy = "block"
    /\ cancelled
    /\ aborted' = aborted \cup {hand[p]}
    /\ pc' = [pc EXCEPT ![p] = "abort"]
    /\ UNCHANGED <<policy, mailboxVars, cancelled, inFlight, hand, sent, loopVars, dead>>

\* dequeMailbox.push, under the lock.
pushDeque(p) ==
    /\ pc[p] = "push"
    /\ policy # "block"
    /\ queue' = enqueueLocked(policy, queue, hand[p])
    /\ hand' = [hand EXCEPT ![p] = Dropped(policy, queue, @)]
    /\ pc' = [pc EXCEPT ![p] = "signal"]
    /\ UNCHANGED <<policy, signal, cancelled, inFlight, sent, loopVars, lossVars>>

\* Mutant: wake the loop only when the queue was empty before this event.
SignalOnFirst(p) ==
    /\ pc[p] = "signal"
    /\ signal' = (signal \/ Len(queue) = 1)
    /\ pc' = [pc EXCEPT ![p] = IF hand[p] = NoEvent THEN "idle" ELSE "undo"]
    /\ UNCHANGED <<policy, queue, cancelled, inFlight, hand, sent, loopVars, lossVars>>

\* dequeMailbox.push, after the unlock: wake the loop without blocking.
Signal(p) ==
    /\ pc[p] = "signal"
    /\ signal' = TRUE
    /\ pc' = [pc EXCEPT ![p] = IF hand[p] = NoEvent THEN "idle" ELSE "undo"]
    /\ UNCHANGED <<policy, queue, cancelled, inFlight, hand, sent, loopVars, lossVars>>

\* Mutant: a dropped event is not reported.
UncountSilently(p) ==
    /\ pc[p] \in {"undo", "abort"}
    /\ inFlight' = inFlight - 1
    /\ pc' = [pc EXCEPT ![p] = "idle"]
    /\ hand' = [hand EXCEPT ![p] = NoEvent]
    /\ UNCHANGED <<policy, mailboxVars, cancelled, sent, loopVars, lossVars>>

\* One event left the pipeline without dispatch: undo one count.
Uncount(p) ==
    /\ pc[p] \in {"undo", "abort"}
    /\ inFlight' = inFlight - 1
    /\ IF pc[p] = "undo"
       THEN pc' = [pc EXCEPT ![p] = "report"] /\ UNCHANGED hand
       ELSE /\ pc' = [pc EXCEPT ![p] = "idle"]
            /\ hand' = [hand EXCEPT ![p] = NoEvent]
    /\ UNCHANGED <<policy, mailboxVars, cancelled, sent, loopVars, lossVars>>

\* emitDeadLetter.
Report(p) ==
    /\ pc[p] = "report"
    /\ dead' = dead \cup {hand[p]}
    /\ hand' = [hand EXCEPT ![p] = NoEvent]
    /\ pc' = [pc EXCEPT ![p] = "idle"]
    /\ UNCHANGED <<policy, mailboxVars, cancelled, inFlight, sent, loopVars, aborted>>
------------------------------------------------------------------------------
(* eventHandler. *)

\* Mutant: the count is undone when the event is taken, and again after it.
TakeUncounts ==
    /\ loop = "next"
    /\ queue # <<>>
    /\ cur' = Head(queue)
    /\ queue' = Tail(queue)
    /\ loop' = "dispatch"
    /\ inFlight' = inFlight - 1
    /\ UNCHANGED <<policy, signal, cancelled, enqueueVars, handled, lossVars>>

\* next finds an event (under the lock, or on the channel).
Take ==
    /\ loop = "next"
    /\ queue # <<>>
    /\ cur' = Head(queue)
    /\ queue' = Tail(queue)
    /\ loop' = "dispatch"
    /\ UNCHANGED <<policy, signal, cancelled, inFlight, enqueueVars, handled, lossVars>>

\* The deque is empty: release the lock and wait for a signal.
Park ==
    /\ loop = "next"
    /\ policy # "block"
    /\ queue = <<>>
    /\ loop' = "parked"
    /\ UNCHANGED <<policy, mailboxVars, cancelled, inFlight, enqueueVars, cur,
                   handled, lossVars>>

\* Consume the signal and look at the queue again.
Wake ==
    /\ loop = "parked"
    /\ signal
    /\ signal' = FALSE
    /\ loop' = "next"
    /\ UNCHANGED <<policy, queue, cancelled, inFlight, enqueueVars, cur, handled,
                   lossVars>>

\* Either select also waits for the context.
Exit ==
    /\ cancelled
    /\ loop = IF policy = "block" THEN "next" ELSE "parked"
    /\ loop' = "exited"
    /\ UNCHANGED <<policy, mailboxVars, cancelled, inFlight, enqueueVars, cur,
                   handled, lossVars>>

\* The handler returns: not before the sends it makes have.
dispatch ==
    /\ loop = "dispatch"
    /\ pc[Loop] = "idle"
    /\ handled' = Append(handled, cur)
    /\ loop' = "balance"
    /\ UNCHANGED <<policy, mailboxVars, cancelled, inFlight, enqueueVars, cur, lossVars>>

Balance ==
    /\ loop = "balance"
    /\ inFlight' = inFlight - 1
    /\ cur' = NoEvent
    /\ loop' = "next"
    /\ UNCHANGED <<policy, mailboxVars, cancelled, enqueueVars, handled, lossVars>>

Cancel ==
    /\ ~cancelled
    /\ cancelled' = TRUE
    /\ UNCHANGED <<policy, mailboxVars, inFlight, enqueueVars, loopVars, lossVars>>
------------------------------------------------------------------------------
enqueue(p) ==
    \/ Count(p)
    \/ pushBlock(p)
    \/ pushAborted(p)
    \/ pushDeque(p)
    \/ Signal(p)
    \/ Uncount(p)
    \/ Report(p)

eventHandler == Take \/ Park \/ Wake \/ Exit \/ dispatch \/ Balance

Next == (\E p \in Enqueuer : enqueue(p)) \/ eventHandler \/ Cancel

Spec == Init /\ [][Next]_vars

\* Every goroutine is scheduled.  A blocked sender gets the slot in the end:
\* a channel serves its senders in FIFO order, and senders are finitely many.
Fairness == WF_vars(eventHandler) /\ \A p \in Enqueuer : WF_vars(enqueue(p))

FairSpec == Spec /\ Fairness
------------------------------------------------------------------------------
TypeOK ==
    /\ policy \in Policies
    /\ queue \in Seq(Event)
    /\ signal \in BOOLEAN
    /\ cancelled \in BOOLEAN
    /\ inFlight \in Nat
    /\ pc \in [Enqueuer -> {"idle", "push", "signal", "undo", "report", "abort"}]
    /\ hand \in [Enqueuer -> Event \cup {NoEvent}]
    /\ sent \in [Enqueuer -> 0 .. MaxEvents]
    /\ loop \in {"next", "parked", "dispatch", "balance", "exited"}
    /\ cur \in Event \cup {NoEvent}
    /\ handled \in Seq(Event)
    /\ dead \subseteq Event
    /\ aborted \subseteq Event

\* The coalescing signal never loses a wake-up: a loop that waits while the
\* deque holds events has a signal pending, or a producer about to send one.
NoLostWakeup ==
    loop = "parked" /\ queue # <<>> =>
        signal \/ \E p \in Enqueuer : pc[p] = "signal"

\* Quiescent's memory-model contract: whoever reads zero sees no event queued,
\* none being dispatched, and no enqueue that has still to push.
QuiescentSound ==
    inFlight = 0 =>
        /\ queue = <<>>
        /\ loop \notin {"dispatch", "balance"}
        /\ \A p \in Enqueuer : pc[p] # "push"

\* Arrival order is delivery order for the events of one goroutine, whatever
\* was evicted in between: handlers, the queue and the push under way hold
\* them in the order of their numbers.
InOrder(s) ==
    \A i, j \in 1 .. Len(s) :
        i < j /\ s[i].from = s[j].from => s[i].num < s[j].num

SenderOrder ==
    InOrder(handled \o (IF loop = "dispatch" THEN <<cur>> ELSE <<>>) \o queue)

\* Every event that enters enqueue is handled or reported to the dead-letter
\* hook; only shutdown releases it.
EveryEventSettles ==
    \A e \in Event :
        sent[e.from] >= e.num ~>
            \/ e \in {handled[i] : i \in 1 .. Len(handled)}
            \/ e \in dead
            \/ cancelled

\* The deque with its signal, and the channel, are the queue of EventQueue.
Abstract == INSTANCE EventQueue WITH
    bounded   <- policy # "unbounded",
    q         <- queue,
    delivered <- IF loop = "dispatch" THEN Append(handled, cur) ELSE handled,
    lost      <- dead \cup {hand[p] : p \in {r \in Enqueuer :
                     /\ pc[r] \in {"signal", "undo", "report"}
                     /\ hand[r] # NoEvent}},
    closed    <- cancelled

ImplementsQueue == Abstract!Spec
==============================================================================
