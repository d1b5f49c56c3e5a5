---------------------------- MODULE Supervision ----------------------------
(****************************************************************************)
(* One supervised protocol: its supervisor goroutine (supervisor.go), the    *)
(* event loop of each incarnation, and the goroutines that enqueue into it:  *)
(* the message dispatcher, the session-event pump, one-shot timers of the    *)
(* instances, and the supervisor's own session replay.                       *)
(*                                                                          *)
(* A mailbox is the atomic queue that Mailbox shows it to be.  What stays    *)
(* fine-grained is what a restart races with: enqueue tests the quarantine   *)
(* flag, then loads the current mailbox, then pushes.                        *)
(****************************************************************************)
EXTENDS Overflow, FiniteSets

CONSTANTS
    Policies,     \* overflow policies of the protocol's mailboxes considered
    Host,         \* peers whose sessions come and go
    Messages,     \* number of messages peers send (bound)
    MaxInst,      \* incarnations after the first (bound)
    MaxFlaps,     \* session events (bound)
    MaxPanics,    \* handler, Start and Init panics (bound)
    MaxRestarts,  \* Supervision.MaxRestarts
    OnPanic,      \* the directives considered: subset of Restart, Stop, Escalate
    OnGiveUp,     \* subset of Stop, Escalate
    TimerInst,    \* the incarnations whose Init arms a timer
    MayCancel     \* whether the runtime may be shut down from outside

ASSUME PolicyAssumption == Policies \subseteq OverflowPolicy

ASSUME BoundAssumption ==
    {Messages, MaxInst, MaxFlaps, MaxPanics, MaxRestarts} \subseteq Nat

ASSUME DirectiveAssumption ==
    /\ OnPanic \subseteq {"Restart", "Stop", "Escalate"}
    /\ OnGiveUp \subseteq {"Stop", "Escalate"}
    /\ MayCancel \in BOOLEAN

Inst == 0 .. MaxInst

Event ==
    [kind : {"message"}, arg : 1 .. Messages]
    \cup [kind : {"up", "down"}, arg : Host]
    \cup [kind : {"timer", "callback"}, arg : Inst]

ASSUME NoEventAssumption == NoEvent \notin Event

\* The goroutines that call enqueue.
dispatcher(m) == <<"dispatcher", m>>
timer(i)      == <<"timer", i>>
pump          == <<"pump", 0>>
replayer      == <<"supervisor", 0>>
Goroutine ==
    {dispatcher(m) : m \in 1 .. Messages} \cup {timer(i) : i \in Inst}
    \cup {pump, replayer}

VARIABLES
    policy, onPanic, onGiveUp,  \* the protocol's registration options
    inst,                       \* the current instance, and its mailbox
    mail, quarantined, exitLoop, inFlight,
    registered,                 \* codecs and IPC routes of the protocol
    removed, cancelled,
    loop, cur, stopping,        \* per incarnation: the event loop, its event,
                                \* loopCancel called
    signals,                    \* the 1-buffered panic report: who panicked
    sup, failed, count, outcome, replay, \* the supervisor's place, the instance
                                \* it acts for, panics in the window, what it is
                                \* about to do, hosts still to replay
    epc, eev, ebox,             \* per goroutine: place in enqueue, event, mailbox
    armed,                      \* per instance: its one-shot timer
    established, view,          \* the runtime's peers, and the instance's
    fromPeers, flaps, panics    \* bounds

directiveVars == <<policy, onPanic, onGiveUp>>
protoVars == <<inst, mail, quarantined, exitLoop, inFlight, registered>>
loopVars  == <<loop, cur, stopping>>
supVars   == <<signals, sup, failed, count, outcome, replay>>
enqVars   == <<epc, eev, ebox>>
sessVars  == <<established, view>>
bounds    == <<fromPeers, flaps, panics>>
vars == <<directiveVars, protoVars, removed, cancelled, loopVars, supVars, enqVars,
          armed, sessVars, bounds>>

NoInst == -1

\* The timer table of an instance whose Init has returned.
Timer(i) == IF i \in TimerInst THEN "armed" ELSE "none"

\* Boot: Start and Init succeeded, or Start panicked (no loop), or Init did
\* (with the loop running); the supervisors start after that.
Init ==
    /\ policy \in Policies
    /\ onPanic \in OnPanic
    /\ onGiveUp \in OnGiveUp
    /\ \E boot \in {"ok", "Start", "Init"} :
        /\ panics = IF boot = "ok" THEN 0 ELSE 1
        /\ quarantined = (boot # "ok")
        /\ exitLoop = (boot = "Init")
        /\ signals = IF boot = "ok" THEN NoInst ELSE 0
        /\ loop = [i \in Inst |-> IF i = 0 /\ boot # "Start" THEN "next" ELSE "none"]
        /\ armed = [i \in Inst |-> IF i = 0 /\ boot = "ok" THEN Timer(0) ELSE "none"]
    /\ inst = 0
    /\ mail = [i \in Inst |-> <<>>]
    /\ inFlight = 0
    /\ registered = TRUE
    /\ removed = FALSE
    /\ cancelled = FALSE
    /\ cur = [i \in Inst |-> NoEvent]
    /\ stopping = [i \in Inst |-> FALSE]
    /\ sup = "wait"
    /\ failed = NoInst
    /\ count = 0
    /\ outcome = "none"
    /\ replay = {}
    /\ epc = [g \in Goroutine |-> "idle"]
    /\ eev = [g \in Goroutine |-> NoEvent]
    /\ ebox = [g \in Goroutine |-> 0]
    /\ established = {}
    /\ view = {}
    /\ fromPeers = 0
    /\ flaps = 0
------------------------------------------------------------------------------
(* enqueue. *)

\* Goroutine g calls enqueue with e.
Call(g, e) ==
    /\ epc[g] = "idle"
    /\ epc' = [epc EXCEPT ![g] = "check"]
    /\ eev' = [eev EXCEPT ![g] = e]
    /\ UNCHANGED ebox

Return(g) ==
    /\ epc' = [epc EXCEPT ![g] = "idle"]
    /\ eev' = [eev EXCEPT ![g] = NoEvent]
    /\ UNCHANGED ebox

\* A quarantined protocol's event goes to the dead-letter hook.
enqueueCheck(g) ==
    /\ epc[g] = "check"
    /\ IF quarantined
       THEN Return(g)
       ELSE /\ epc' = [epc EXCEPT ![g] = "load"]
            /\ UNCHANGED <<eev, ebox>>
    /\ UNCHANGED <<directiveVars, protoVars, removed, cancelled, loopVars, supVars,
                   armed, sessVars, bounds>>

\* Count the event, load the current mailbox.
enqueueLoad(g) ==
    /\ epc[g] = "load"
    /\ inFlight' = inFlight + 1
    /\ ebox' = [ebox EXCEPT ![g] = inst]
    /\ epc' = [epc EXCEPT ![g] = "push"]
    /\ UNCHANGED <<directiveVars, inst, mail, quarantined, exitLoop, registered,
                   removed, cancelled, loopVars, supVars, eev, armed, sessVars, bounds>>

\* Push: a full channel makes the goroutine wait, a full deque drops an event.
enqueuePush(g) ==
    LET q    == mail[ebox[g]]
        drop == Dropped(policy, q, eev[g])
    IN  /\ epc[g] = "push"
        /\ policy = "block" => Len(q) < Capacity
        /\ mail' = [mail EXCEPT ![ebox[g]] = enqueueLocked(policy, q, eev[g])]
        /\ IF drop = NoEvent
           THEN UNCHANGED inFlight
           ELSE inFlight' = inFlight - 1
        /\ Return(g)
        /\ UNCHANGED <<directiveVars, inst, quarantined, exitLoop, registered,
                       removed, cancelled, loopVars, supVars, armed, sessVars, bounds>>

\* Runtime shutdown releases a goroutine that waits for a full channel.
enqueueAborted(g) ==
    /\ epc[g] = "push"
    /\ policy = "block"
    /\ cancelled
    /\ inFlight' = inFlight - 1
    /\ Return(g)
    /\ UNCHANGED <<directiveVars, inst, mail, quarantined, exitLoop, registered,
                   removed, cancelled, loopVars, supVars, armed, sessVars,
                   bounds>>
------------------------------------------------------------------------------
(* The runtime's producers. *)

\* processMessage: route by wire id, then enqueue.  Every event that is routed
\* comes from a goroutine of its own: the dispatcher, the loop of a protocol
\* that sends a request or publishes.
processMessage(m) ==
    LET e == [kind |-> "message", arg |-> m] IN
    /\ m = fromPeers + 1
    /\ m <= Messages
    /\ fromPeers' = m
    /\ IF registered
       THEN Call(dispatcher(m), e)
       ELSE UNCHANGED enqVars
    /\ UNCHANGED <<directiveVars, protoVars, removed, cancelled, loopVars, supVars,
                   armed, sessVars, flaps, panics>>

\* dispatchSessionEvent: update the established peers, then fan out to the
\* live protocols.
dispatchSessionEvent(h) ==
    LET upNow == h \notin established
        e == [kind |-> IF upNow THEN "up" ELSE "down", arg |-> h]
    IN  /\ flaps < MaxFlaps
        /\ ~cancelled
        /\ epc[pump] = "idle"
        /\ flaps' = flaps + 1
        /\ established' = IF upNow THEN established \cup {h} ELSE established \ {h}
        /\ IF removed THEN UNCHANGED enqVars ELSE Call(pump, e)
        /\ UNCHANGED <<directiveVars, protoVars, removed, cancelled, loopVars,
                       supVars, armed, view, fromPeers, panics>>

\* The clock fires the one-shot timer of i: it leaves the table first, and is
\* then enqueued.
timerFires(i) ==
    /\ armed[i] = "armed"
    /\ armed' = [armed EXCEPT ![i] = "fired"]
    /\ Call(timer(i), [kind |-> "timer", arg |-> i])
    /\ UNCHANGED <<directiveVars, protoVars, removed, cancelled, loopVars, supVars,
                   sessVars, bounds>>
------------------------------------------------------------------------------
(* eventHandler of incarnation i. *)

LoopTake(i) ==
    /\ loop[i] = "next"
    /\ mail[i] # <<>>
    /\ cur' = [cur EXCEPT ![i] = Head(mail[i])]
    /\ mail' = [mail EXCEPT ![i] = Tail(@)]
    /\ loop' = [loop EXCEPT ![i] = "dispatch"]
    /\ UNCHANGED <<directiveVars, inst, quarantined, exitLoop, inFlight, registered,
                   removed, cancelled, stopping, supVars, enqVars, armed, sessVars, bounds>>

\* A cancelled loop leaves from its select: a deque is emptied first.
LoopExit(i) ==
    /\ loop[i] = "next"
    /\ stopping[i] \/ cancelled
    /\ policy # "block" => mail[i] = <<>>
    /\ loop' = [loop EXCEPT ![i] = "exited"]
    /\ UNCHANGED <<directiveVars, protoVars, removed, cancelled, cur, stopping,
                   supVars, enqVars, armed, sessVars, bounds>>

\* The handler of the event runs on the current instance and returns.
dispatch(i) ==
    LET e == cur[i] IN
    /\ loop[i] = "dispatch"
    /\ view' = CASE e.kind = "up"   -> view \cup {e.arg}
                 [] e.kind = "down" -> view \ {e.arg}
                 [] OTHER           -> view
    /\ loop' = [loop EXCEPT ![i] = "balance"]
    /\ UNCHANGED <<directiveVars, protoVars, removed, cancelled, cur, stopping,
                   supVars, enqVars, armed, established, bounds>>

\* safeCall recovers a panic: report it without blocking, ask the loop to exit.
\* What the handler had done by then is unknown; it is taken to be nothing.
safeCall(i) ==
    /\ loop[i] = "dispatch"
    /\ panics < MaxPanics
    /\ panics' = panics + 1
    /\ signals' = IF signals = NoInst THEN i ELSE signals
    /\ exitLoop' = TRUE
    /\ loop' = [loop EXCEPT ![i] = "balance"]
    /\ UNCHANGED <<directiveVars, inst, mail, quarantined, inFlight, registered,
                   removed, cancelled, cur, stopping, sup, failed, count, outcome,
                   replay, enqVars, armed, sessVars, fromPeers, flaps>>

LoopBalance(i) ==
    /\ loop[i] = "balance"
    /\ inFlight' = inFlight - 1
    /\ cur' = [cur EXCEPT ![i] = NoEvent]
    /\ loop' = [loop EXCEPT ![i] = IF exitLoop THEN "exited" ELSE "next"]
    /\ UNCHANGED <<directiveVars, inst, mail, quarantined, exitLoop, registered,
                   removed, cancelled, stopping, supVars, enqVars, armed, sessVars, bounds>>
------------------------------------------------------------------------------
(* The supervisor. *)

\* run: take a panic report and apply the directive.
run ==
    /\ sup = "wait"
    /\ signals # NoInst
    /\ failed' = signals
    /\ signals' = NoInst
    /\ IF onPanic = "Restart"
       THEN sup' = "record" /\ UNCHANGED outcome
       ELSE sup' = "quarantine" /\ outcome' = onPanic
    /\ UNCHANGED <<directiveVars, protoVars, removed, cancelled, loopVars, count,
                   replay, enqVars, armed, sessVars, bounds>>

\* recordPanic: one more panic, the oldest ones may have left the window.
recordPanic ==
    /\ sup = "record"
    /\ \E c \in 1 .. count + 1 :
        /\ count' = c
        /\ outcome' = IF c > MaxRestarts THEN onGiveUp ELSE "Restart"
    /\ sup' = "quarantine"
    /\ UNCHANGED <<directiveVars, protoVars, removed, cancelled, loopVars, signals,
                   failed, replay, enqVars, armed, sessVars, bounds>>

\* Mutant: the loop is awaited but not cancelled.
quarantineOnly ==
    /\ sup = "quarantine"
    /\ quarantined' = TRUE
    /\ sup' = "stopLoop"
    /\ UNCHANGED <<directiveVars, inst, mail, exitLoop, inFlight, registered,
                   removed, cancelled, loopVars, signals, failed, count, outcome,
                   replay, enqVars, armed, sessVars, bounds>>

\* quarantineAndClean: set the flag, cancel the loop, ...
quarantine ==
    /\ sup = "quarantine"
    /\ quarantined' = TRUE
    /\ stopping' = [stopping EXCEPT ![inst] = TRUE]
    /\ sup' = "stopLoop"
    /\ UNCHANGED <<directiveVars, inst, mail, exitLoop, inFlight, registered,
                   removed, cancelled, loop, cur, signals, failed, count, outcome,
                   replay, enqVars, armed, sessVars, bounds>>

\* Mutant: the loop is not awaited.
stopLoopAsync ==
    /\ sup = "stopLoop"
    /\ sup' = "drain"
    /\ UNCHANGED <<directiveVars, protoVars, removed, cancelled, loopVars, signals,
                   failed, count, outcome, replay, enqVars, armed, sessVars,
                   bounds>>

\* ... wait for it to exit, ...
stopLoop ==
    /\ sup = "stopLoop"
    /\ loop[inst] \in {"none", "exited"}
    /\ sup' = "drain"
    /\ UNCHANGED <<directiveVars, protoVars, removed, cancelled, loopVars, signals,
                   failed, count, outcome, replay, enqVars, armed, sessVars,
                   bounds>>

\* Mutant: drained events keep their count.
drainKeepsCount ==
    /\ sup = "drain"
    /\ mail' = [mail EXCEPT ![inst] = <<>>]
    /\ sup' = "clean"
    /\ UNCHANGED <<directiveVars, inst, quarantined, exitLoop, inFlight, registered,
                   removed, cancelled, loopVars, signals, failed, count, outcome,
                   replay, enqVars, armed, sessVars, bounds>>

\* ... empty its mailbox to the dead-letter hook, ...
drainMailboxToDeadLetter ==
    /\ sup = "drain"
    /\ inFlight' = inFlight - Len(mail[inst])
    /\ mail' = [mail EXCEPT ![inst] = <<>>]
    /\ sup' = "clean"
    /\ UNCHANGED <<directiveVars, inst, quarantined, exitLoop, registered, removed,
                   cancelled, loopVars, signals, failed, count, outcome, replay,
                   enqVars, armed, sessVars, bounds>>

\* ... cancel the timers still in the table, and drop codecs and routes.
cleanUp ==
    /\ sup = "clean"
    /\ armed' = [i \in Inst |-> IF armed[i] = "armed" THEN "cancelled" ELSE armed[i]]
    /\ registered' = FALSE
    /\ sup' = IF outcome = "Restart" THEN "backoff" ELSE "remove"
    /\ UNCHANGED <<directiveVars, inst, mail, quarantined, exitLoop, inFlight,
                   removed, cancelled, loopVars, signals, failed, count, outcome,
                   replay, enqVars, sessVars, bounds>>

\* backoff, and resetForRestart with the factory's fresh instance.
resetForRestart ==
    /\ sup = "backoff"
    /\ ~cancelled
    /\ inst < MaxInst
    /\ inst' = inst + 1
    /\ exitLoop' = FALSE
    /\ view' = {}
    /\ sup' = "start"
    /\ UNCHANGED <<directiveVars, mail, quarantined, inFlight, registered, removed,
                   cancelled, loopVars, signals, failed, count, outcome, replay,
                   enqVars, armed, established, bounds>>

\* callStart: it registers the instance's handlers; a panic leaves some of
\* them registered, the quarantine set, and re-enters the contract.
callStart ==
    /\ sup = "start"
    /\ \/ /\ registered' = TRUE
          /\ sup' = "lift"
          /\ UNCHANGED <<failed, panics>>
       \/ /\ panics < MaxPanics
          /\ panics' = panics + 1
          /\ registered' \in BOOLEAN
          /\ failed' = inst
          /\ sup' = "record"
    /\ UNCHANGED <<directiveVars, inst, mail, quarantined, exitLoop, inFlight,
                   removed, cancelled, loopVars, signals, count, outcome, replay,
                   enqVars, armed, sessVars, fromPeers, flaps>>

\* Lift the quarantine and start the fresh loop, before Init.
startLoop ==
    /\ sup = "lift"
    /\ quarantined' = FALSE
    /\ loop' = [loop EXCEPT ![inst] = "next"]
    /\ sup' = "init"
    /\ UNCHANGED <<directiveVars, inst, mail, exitLoop, inFlight, registered,
                   removed, cancelled, cur, stopping, signals, failed, count,
                   outcome, replay, enqVars, armed, sessVars, bounds>>

\* callInit, concurrently with the loop: it arms the instance's timer, or
\* panics and re-enters the contract.
callInit ==
    /\ sup = "init"
    /\ \/ /\ armed' = [armed EXCEPT ![inst] = Timer(inst)]
          /\ sup' = "snapshot"
          /\ UNCHANGED <<failed, panics>>
       \/ /\ panics < MaxPanics
          /\ panics' = panics + 1
          /\ failed' = inst
          /\ sup' = "record"
          /\ UNCHANGED armed
    /\ UNCHANGED <<directiveVars, protoVars, removed, cancelled, loopVars, signals,
                   count, outcome, replay, enqVars, sessVars, fromPeers,
                   flaps>>

\* Mutant: nothing is replayed.
snapshotNothing ==
    /\ sup = "snapshot"
    /\ replay' = {}
    /\ sup' = "replay"
    /\ UNCHANGED <<directiveVars, protoVars, removed, cancelled, loopVars, signals,
                   failed, count, outcome, enqVars, armed, sessVars, bounds>>

\* finishRestart: a snapshot of the established peers, ...
snapshotEstablished ==
    /\ sup = "snapshot"
    /\ replay' = established
    /\ sup' = "replay"
    /\ UNCHANGED <<directiveVars, protoVars, removed, cancelled, loopVars, signals,
                   failed, count, outcome, enqVars, armed, sessVars, bounds>>

\* ... a synthetic SessionConnected for each, ...
replaySession(h) ==
    /\ sup = "replay"
    /\ h \in replay
    /\ replay' = replay \ {h}
    /\ Call(replayer, [kind |-> "up", arg |-> h])
    /\ UNCHANGED <<directiveVars, protoVars, removed, cancelled, loopVars, signals,
                   sup, failed, count, outcome, armed, sessVars, bounds>>

\* ... and OnRestart behind them; then wait for the next report.
finishRestart ==
    /\ sup = "replay"
    /\ replay = {}
    /\ Call(replayer, [kind |-> "callback", arg |-> inst])
    /\ sup' = "finish"
    /\ UNCHANGED <<directiveVars, protoVars, removed, cancelled, loopVars, signals,
                   failed, count, outcome, replay, armed, sessVars, bounds>>

Restarted ==
    /\ sup = "finish"
    /\ epc[replayer] = "idle"
    /\ sup' = "wait"
    /\ failed' = NoInst
    /\ outcome' = "none"
    /\ UNCHANGED <<directiveVars, protoVars, removed, cancelled, loopVars, signals,
                   count, replay, enqVars, armed, sessVars, bounds>>

\* stop and escalate: the protocol leaves the runtime; escalate cancels it.
removeProtocol ==
    /\ sup = "remove"
    /\ removed' = TRUE
    /\ cancelled' = (cancelled \/ outcome = "Escalate")
    /\ sup' = "gone"
    /\ UNCHANGED <<directiveVars, protoVars, loopVars, signals, failed, count,
                   outcome, replay, enqVars, armed, sessVars, bounds>>

\* Runtime shutdown, seen by a parked supervisor or one in its backoff.
supervisorEnds ==
    /\ sup \in {"wait", "backoff"}
    /\ cancelled
    /\ sup' = "gone"
    /\ UNCHANGED <<directiveVars, protoVars, removed, cancelled, loopVars, signals,
                   failed, count, outcome, replay, enqVars, armed, sessVars,
                   bounds>>

Cancel ==
    /\ MayCancel
    /\ ~cancelled
    /\ cancelled' = TRUE
    /\ UNCHANGED <<directiveVars, protoVars, removed, loopVars, supVars, enqVars,
                   armed, sessVars, bounds>>
------------------------------------------------------------------------------
enqueue(g) == enqueueCheck(g) \/ enqueueLoad(g) \/ enqueuePush(g) \/ enqueueAborted(g)

eventHandler(i) ==
    LoopTake(i) \/ LoopExit(i) \/ dispatch(i) \/ safeCall(i) \/ LoopBalance(i)

supervisor ==
    \/ run \/ recordPanic
    \/ quarantine \/ stopLoop \/ drainMailboxToDeadLetter \/ cleanUp
    \/ resetForRestart \/ callStart \/ startLoop \/ callInit
    \/ snapshotEstablished \/ (\E h \in Host : replaySession(h)) \/ finishRestart
    \/ Restarted \/ removeProtocol \/ supervisorEnds

environment ==
    \/ \E m \in 1 .. Messages : processMessage(m)
    \/ \E h \in Host : dispatchSessionEvent(h)
    \/ \E i \in Inst : timerFires(i)

Next ==
    \/ \E g \in Goroutine : enqueue(g)
    \/ \E i \in Inst : eventHandler(i)
    \/ supervisor
    \/ environment
    \/ Cancel

Spec == Init /\ [][Next]_vars

\* Goroutines are scheduled; panics, messages and sessions need not happen.
Fairness ==
    /\ \A g \in Goroutine : WF_vars(enqueue(g))
    /\ \A i \in Inst : WF_vars(eventHandler(i))
    /\ WF_vars(supervisor)

FairSpec == Spec /\ Fairness
------------------------------------------------------------------------------
Places == {"wait", "record", "quarantine", "stopLoop", "drain", "clean", "backoff",
           "start", "lift", "init", "snapshot", "replay", "finish", "remove", "gone"}

TypeOK ==
    /\ policy \in Policies /\ onPanic \in OnPanic /\ onGiveUp \in OnGiveUp
    /\ inst \in Inst
    /\ mail \in [Inst -> Seq(Event)]
    /\ {quarantined, exitLoop, registered, removed, cancelled} \subseteq BOOLEAN
    /\ inFlight \in Nat
    /\ loop \in [Inst -> {"none", "next", "dispatch", "balance", "exited"}]
    /\ cur \in [Inst -> Event \cup {NoEvent}]
    /\ stopping \in [Inst -> BOOLEAN]
    /\ signals \in Inst \cup {NoInst} /\ failed \in Inst \cup {NoInst}
    /\ sup \in Places
    /\ count \in Nat
    /\ outcome \in {"none", "Restart", "Stop", "Escalate"}
    /\ replay \subseteq Host
    /\ epc \in [Goroutine -> {"idle", "check", "load", "push"}]
    /\ eev \in [Goroutine -> Event \cup {NoEvent}]
    /\ ebox \in [Goroutine -> Inst]
    /\ armed \in [Inst -> {"none", "armed", "fired", "cancelled"}]
    /\ established \subseteq Host /\ view \subseteq Host
    /\ fromPeers \in 0 .. Messages /\ flaps \in 0 .. MaxFlaps
    /\ panics \in Nat

Running(i) == loop[i] \in {"next", "dispatch", "balance"}

\* Handlers of two incarnations never overlap, so instances may share state
\* behind the factory without a lock: a loop runs only for the current
\* instance, and never while the supervisor swaps it.
OneLoop ==
    \A i \in Inst : Running(i) => /\ i = inst
                                  /\ sup \notin {"drain", "clean", "backoff", "start"}

\* The places of the mailboxes that hold an event, the incarnations whose loop
\* holds one, and the goroutines that hold one they have counted.
Queued  == UNION {{i} \X (1 .. Len(mail[i])) : i \in Inst}
Busy    == {i \in Inst : loop[i] \in {"dispatch", "balance"}}
Pushing == {g \in Goroutine : epc[g] = "push"}

\* Restarts neither leak nor forge a count: inFlight is what is queued, being
\* dispatched or being pushed, over all incarnations.
InFlightExact ==
    /\ TypeOK
    /\ inFlight = Cardinality(Queued) + Cardinality(Busy) + Cardinality(Pushing)

\* Nothing is on its way to the instance, and its supervisor waits.
Settled ==
    /\ sup = "wait" /\ signals = NoInst /\ ~cancelled
    /\ \A g \in Goroutine : epc[g] = "idle"
    /\ mail[inst] = <<>>
    /\ loop[inst] = "next"

\* Session replay misses no peer: whatever a restart dropped, the instance
\* knows every established session once its mailbox, which drops nothing by
\* itself, is empty.
EstablishedKnown ==
    Settled /\ policy \in {"block", "unbounded"} => established \subseteq view
==============================================================================
