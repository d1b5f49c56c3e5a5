-------------------------------- MODULE IPC --------------------------------
(****************************************************************************)
(* Same-runtime communication (pkg/protorun/ipc.go, ipc_router.go, the IPC  *)
(* half of runtime.go): requests with replies and timeouts, notifications,  *)
(* and timers, between supervised protocols that panic and are rebuilt.     *)
(* The closures that travel with an event (a request or notification        *)
(* handler, a reply callback, a timer function) belong to one instance of a *)
(* protocol; `inst' in an event or an entry names it.                       *)
(*                                                                          *)
(* One request type and one notification type.  An enqueue is one step: a   *)
(* producer past the quarantine check (Supervision has that window) does    *)
(* here what one that checks later does, or loses its event.                *)
(****************************************************************************)
EXTENDS Timers

CONSTANTS
    Handlers,      \* protocols whose Start registers the request handler
    Subscribers,   \* protocols whose Start subscribes to the notification
    MaxRequests    \* requests of one protocol (bound)

ASSUME IPCAssumption ==
    /\ Handlers \cup Subscribers \subseteq Proto
    /\ MaxRequests \in Nat

VARIABLES
    loop,           \* per protocol: "up", "exited" by a panic, or "down"
    call,           \* per protocol: the call into the runtime under way
    pending,        \* per protocol: requests without an answer
    nextRequestID,
    requestRoutes,  \* the routes of the request type, none or one
    fanout,         \* the subscriptions, in order
    held,           \* tokens whose responder a handler keeps
    timeouts,       \* tokens whose timeout is armed; no answer disarms it
    supervisor,     \* per protocol: how far its supervisor is
    answers,        \* history: per protocol and request, its callback's runs
    stale           \* history: kinds of closures that ran on the loop of a
                    \* later instance than their own

ipcVars == <<call, pending, nextRequestID, requestRoutes, fanout, held, timeouts>>
vars == <<inst, quarantined, mail, timerVars, loop, ipcVars, supervisor, answers, stale>>

Event(kind, token, i) ==
    [kind |-> kind, id |-> token.id, from |-> token.from, inst |-> i, sender |-> token.sender]

Token(p, id, i) == [from |-> p, id |-> id, sender |-> i]

NoCall == [op |-> "none"]

Entry(p) == [proto |-> p, inst |-> inst[p]]

\* RegisterRequestRoute: the last registration wins.
RegisterRequestRoute(p, i) ==
    requestRoutes' = IF p \in Handlers THEN {[proto |-> p, inst |-> i]} ELSE requestRoutes

\* The subscriptions without p's first entry.
removeSub(subs, p) ==
    LET own   == {n \in DOMAIN subs : subs[n].proto = p}
        first == CHOOSE n \in own : \A m \in own : n <= m
    IN  IF own = {} THEN subs
        ELSE SubSeq(subs, 1, first - 1) \o SubSeq(subs, first + 1, Len(subs))

\* Subscribe: in place of the protocol's earlier subscription, or last.
Subscribe(subs, p, i) ==
    LET new == [proto |-> p, inst |-> i] IN
    IF removeSub(subs, p) # subs
    THEN [n \in DOMAIN subs |-> IF subs[n].proto = p THEN new ELSE subs[n]]
    ELSE Append(subs, new)

Init ==
    /\ inst = [p \in Proto |-> 1]
    /\ quarantined = [p \in Proto |-> FALSE]
    /\ mail = [p \in Proto |-> <<>>]
    /\ TimersInit
    /\ loop = [p \in Proto |-> "up"]
    /\ call = [p \in Proto |-> NoCall]
    /\ pending = [p \in Proto |-> {}]
    /\ nextRequestID = [p \in Proto |-> 0]
    /\ requestRoutes \in
         IF Handlers = {} THEN {{}} ELSE {{[proto |-> p, inst |-> 1]} : p \in Handlers}
    /\ fanout \in {s \in [1 .. Cardinality(Subscribers) -> {Entry(p) : p \in Subscribers}] :
                    \A p \in Subscribers : \E n \in DOMAIN s : s[n].proto = p}
    /\ held = {} /\ timeouts = {}
    /\ supervisor = [p \in Proto |-> "idle"]
    /\ answers = [p \in Proto |-> [n \in 1 .. MaxRequests |-> 0]]
    /\ stale = {}

Cancelling(p) == \E t \in cancelling : timers[t].owner = p

\* The loop can take its next event or, in a handler, make its next call.
Free(p) == loop[p] = "up" /\ call[p] = NoCall /\ ~Cancelling(p)
------------------------------------------------------------------------------
\* Requests.

Reply(p, token) == Enqueued(p, Event("reply", token, 0))

\* sendRequest up to the lookup of the route: the pending entry, then an
\* answer at once, or a timeout and the envelope with the handler it found.
sendRequest(p, by) ==
    LET id    == nextRequestID[p] + 1
        token == Token(p, id, inst[p])
    IN  /\ id <= MaxRequests
        /\ nextRequestID' = [nextRequestID EXCEPT ![p] = id]
        /\ pending' = [pending EXCEPT ![p] = @ \cup {[id |-> id, inst |-> inst[p], by |-> by]}]
        /\ \/ /\ requestRoutes = {}
              /\ Reply(p, token)
              /\ UNCHANGED <<call, timeouts>>
           \/ \E r \in requestRoutes :
                /\ timeouts' = timeouts \cup {token}
                /\ call' = [call EXCEPT ![p] = [op |-> "request", token |-> token, route |-> r]]
                /\ UNCHANGED mail
        /\ UNCHANGED <<inst, quarantined, timerVars, loop, requestRoutes, fanout, held,
                       supervisor, answers, stale>>

SendRequest(p) == Free(p) /\ sendRequest(p, "loop")

\* The envelope reaches the handler's protocol.
RequestEnqueued(p) ==
    /\ call[p].op = "request"
    /\ Enqueued(call[p].route.proto, Event("request", call[p].token, call[p].route.inst))
    /\ call' = [call EXCEPT ![p] = NoCall]
    /\ UNCHANGED <<inst, quarantined, timerVars, loop, pending, nextRequestID, requestRoutes,
                   fanout, held, timeouts, supervisor, answers, stale>>

\* The timeout's callback on the clock's goroutine, answered or not.
RequestTimesOut(token) ==
    /\ token \in timeouts
    /\ timeouts' = timeouts \ {token}
    /\ Reply(token.from, token)
    /\ UNCHANGED <<inst, quarantined, timerVars, loop, call, pending, nextRequestID,
                   requestRoutes, fanout, held, supervisor, answers, stale>>

\* Reply or Fail of a responder the handler kept; `done' lets one through.
Responds(token) ==
    /\ token \in held
    /\ held' = held \ {token}
    /\ Reply(token.from, token)
    /\ UNCHANGED <<inst, quarantined, timerVars, loop, call, pending, nextRequestID,
                   requestRoutes, fanout, timeouts, supervisor, answers, stale>>
------------------------------------------------------------------------------
\* The event loop.

Takes(p, kind) == Free(p) /\ mail[p] # <<>> /\ Head(mail[p]).kind = kind

\* Taking the head and then enqueueing e for q (which may be p).
Exchange(p, q, e) ==
    mail' = [r \in Proto |->
        LET left == IF r = p THEN Tail(mail[r]) ELSE mail[r]
        IN  IF r = q /\ ~quarantined[q] THEN Append(left, e) ELSE left]

Drop(p) == mail' = [mail EXCEPT ![p] = Tail(@)]

Runs(p, e) == stale' = stale \cup (IF e.inst = inst[p] THEN {} ELSE {e.kind})

\* The request handler keeps its responder, ...
HandleRequestLater(p) ==
    LET e == Head(mail[p]) IN
    /\ Takes(p, "request")
    /\ Drop(p)
    /\ held' = held \cup {Token(e.from, e.id, e.sender)}
    /\ Runs(p, e)
    /\ UNCHANGED <<inst, quarantined, timerVars, loop, call, pending, nextRequestID,
                   requestRoutes, fanout, timeouts, supervisor, answers>>

\* ... answers at once, ...
HandleRequest(p) ==
    LET e == Head(mail[p]) IN
    /\ Takes(p, "request")
    /\ Exchange(p, e.from, Event("reply", Token(e.from, e.id, e.sender), 0))
    /\ Runs(p, e)
    /\ UNCHANGED <<inst, quarantined, timerVars, loop, ipcVars, supervisor, answers>>

\* ... or panics: its responder fails, then the supervisor is told.
HandleRequestPanics(p) ==
    LET e == Head(mail[p]) IN
    /\ Takes(p, "request")
    /\ Exchange(p, e.from, Event("reply", Token(e.from, e.id, e.sender), 0))
    /\ Runs(p, e)
    /\ loop' = [loop EXCEPT ![p] = "exited"]
    /\ UNCHANGED <<inst, quarantined, timerVars, ipcVars, supervisor, answers>>

\* deliverReply: the first answer with the pending id takes the entry and runs
\* its callback; any other is dropped.
deliverReply(p) ==
    LET e == Head(mail[p])
        m == {r \in pending[p] : r.id = e.id}
    IN  /\ Takes(p, "reply")
        /\ Drop(p)
        /\ pending' = [pending EXCEPT ![p] = @ \ m]
        /\ answers' = [answers EXCEPT ![p][e.id] = @ + Cardinality(m)]
        /\ stale' = stale \cup (IF \E r \in m : r.inst # inst[p] THEN {"reply"} ELSE {})
        /\ UNCHANGED <<inst, quarantined, timerVars, loop, call, nextRequestID,
                       requestRoutes, fanout, held, timeouts, supervisor>>

\* A timer's function, unless it was cancelled after its fire was queued.
DispatchTimer(p) ==
    LET e == Head(mail[p])
        kind == IF timers[e.id].kind = "every" THEN "every" ELSE "once"
    IN  /\ Takes(p, "timer")
        /\ Drop(p)
        /\ stale' = IF timers[e.id].cancelled \/ e.inst = inst[p]
                    THEN stale ELSE stale \cup {kind}
        /\ UNCHANGED <<inst, quarantined, timerVars, loop, ipcVars, supervisor, answers>>

DispatchNotification(p) ==
    /\ Takes(p, "notification")
    /\ Drop(p)
    /\ Runs(p, Head(mail[p]))
    /\ UNCHANGED <<inst, quarantined, timerVars, loop, ipcVars, supervisor, answers>>

dispatch(p) ==
    \/ HandleRequestLater(p) \/ HandleRequest(p)
    \/ deliverReply(p) \/ DispatchTimer(p) \/ DispatchNotification(p)

\* Some other handler panics.
HandlerPanics(p) ==
    /\ Free(p)
    /\ loop' = [loop EXCEPT ![p] = "exited"]
    /\ UNCHANGED <<inst, quarantined, mail, timerVars, ipcVars, supervisor, answers, stale>>
------------------------------------------------------------------------------
\* Notifications.

\* publishNotification reads the subscriptions once ...
PublishNotification(p) ==
    /\ Free(p)
    /\ fanout # <<>>
    /\ call' = [call EXCEPT ![p] = [op |-> "publish", left |-> fanout]]
    /\ UNCHANGED <<inst, quarantined, mail, timerVars, loop, pending, nextRequestID,
                   requestRoutes, fanout, held, timeouts, supervisor, answers, stale>>

\* ... and enqueues to one after the other.
NotificationEnqueued(p) ==
    /\ call[p].op = "publish"
    /\ LET sub == Head(call[p].left) IN
        Enqueued(sub.proto, Event("notification", Token(p, 0, 0), sub.inst))
    /\ call' = [call EXCEPT ![p] =
                 IF Len(@.left) = 1 THEN NoCall ELSE [op |-> "publish", left |-> Tail(@.left)]]
    /\ UNCHANGED <<inst, quarantined, timerVars, loop, pending, nextRequestID,
                   requestRoutes, fanout, held, timeouts, supervisor, answers, stale>>

Unsubscribe(p) ==
    /\ Free(p)
    /\ fanout' = removeSub(fanout, p)
    /\ UNCHANGED <<inst, quarantined, mail, timerVars, loop, call, pending, nextRequestID,
                   requestRoutes, held, timeouts, supervisor, answers, stale>>
------------------------------------------------------------------------------
\* Timers of a protocol.

notTimers == <<inst, quarantined, loop, ipcVars, supervisor, answers, stale>>

After(p, t) == Free(p) /\ Schedule(p, t, "once") /\ UNCHANGED notTimers
Every(p, t) == Free(p) /\ Schedule(p, t, "every") /\ UNCHANGED notTimers

\* TimerHandle.Cancel on the owner's loop.
Cancel(p, t) ==
    /\ Free(p)
    /\ timers[t].owner = p /\ timers[t].inst = inst[p]
    /\ ~timers[t].cancelled
    /\ Cancels({t})
    /\ UNCHANGED notTimers

clock(t) == (ClockFires(t) \/ CallbackStep(t)) /\ UNCHANGED notTimers
stops(t) == CancelStops(t) /\ UNCHANGED notTimers
------------------------------------------------------------------------------
\* The supervisor (quarantineAndClean, rebuild, stop).

At(p, from, to) == supervisor[p] = from /\ supervisor' = [supervisor EXCEPT ![p] = to]

\* Quarantine, wait for the loop, empty the mailbox.
Quarantine(p) ==
    /\ loop[p] = "exited"
    /\ At(p, "idle", "timers")
    /\ loop' = [loop EXCEPT ![p] = "down"]
    /\ quarantined' = [quarantined EXCEPT ![p] = TRUE]
    /\ mail' = [mail EXCEPT ![p] = <<>>]
    /\ UNCHANGED <<inst, timerVars, ipcVars, answers, stale>>

CancelTimers(p) ==
    /\ At(p, "timers", "requests")
    /\ cancelAllTimers(p)
    /\ UNCHANGED <<inst, quarantined, loop, ipcVars, answers, stale>>

\* Mutant: the pending requests are left to their timeouts.
failPendingLater(p) ==
    /\ ~Cancelling(p)
    /\ At(p, "requests", "failed")
    /\ UNCHANGED <<inst, quarantined, mail, timerVars, loop, ipcVars, answers, stale>>

\* failPendingRestarting: every callback runs, here, on the supervisor.
failPendingRestarting(p) ==
    /\ ~Cancelling(p)
    /\ At(p, "requests", "failed")
    /\ pending' = [pending EXCEPT ![p] = {}]
    /\ answers' = [answers EXCEPT ![p] = [n \in 1 .. MaxRequests |->
                    @[n] + Cardinality({r \in pending[p] : r.id = n})]]
    /\ UNCHANGED <<inst, quarantined, mail, timerVars, loop, call, nextRequestID,
                   requestRoutes, fanout, held, timeouts, stale>>

\* One of those callbacks sends a request of its own.
CallbackSends(p) ==
    /\ supervisor[p] = "failed"
    /\ call[p] = NoCall
    /\ \E n \in 1 .. MaxRequests : answers[p][n] > 0
    /\ sendRequest(p, "callback")

RemoveOwner(p) ==
    /\ call[p] = NoCall
    /\ At(p, "failed", "backoff")
    /\ requestRoutes' = {r \in requestRoutes : r.proto # p}
    /\ fanout' = removeSub(fanout, p)
    /\ UNCHANGED <<inst, quarantined, mail, timerVars, loop, call, pending, nextRequestID,
                   held, timeouts, answers, stale>>

\* Mutant: the table of pending requests outlives the instance.
resetKeepsPending(p) ==
    /\ inst' = [inst EXCEPT ![p] = @ + 1]
    /\ mail' = [mail EXCEPT ![p] = <<>>]
    /\ ForgetTable(p)
    /\ UNCHANGED <<pending, nextRequestID>>

\* Mutant: request ids start again with the instance.
resetRenumbers(p) ==
    /\ inst' = [inst EXCEPT ![p] = @ + 1]
    /\ mail' = [mail EXCEPT ![p] = <<>>]
    /\ pending' = [pending EXCEPT ![p] = {}]
    /\ ForgetTable(p)
    /\ nextRequestID' = [nextRequestID EXCEPT ![p] = 0]

\* A fresh instance, mailbox and tables; the request ids go on.
resetForRestart(p) ==
    /\ inst' = [inst EXCEPT ![p] = @ + 1]
    /\ mail' = [mail EXCEPT ![p] = <<>>]
    /\ pending' = [pending EXCEPT ![p] = {}]
    /\ ForgetTable(p)
    /\ UNCHANGED nextRequestID

\* The fresh instance's Start registers what it serves, ...
Rebuild(p) ==
    /\ At(p, "backoff", "started")
    /\ resetForRestart(p)
    /\ RegisterRequestRoute(p, inst[p] + 1)
    /\ fanout' = IF p \in Subscribers THEN Subscribe(fanout, p, inst[p] + 1) ELSE fanout
    /\ UNCHANGED <<quarantined, loop, call, held, timeouts, answers, stale>>

\* ... and the quarantine ends with a new loop.
Lift(p) ==
    /\ At(p, "started", "idle")
    /\ quarantined' = [quarantined EXCEPT ![p] = FALSE]
    /\ loop' = [loop EXCEPT ![p] = "up"]
    /\ UNCHANGED <<inst, mail, timerVars, ipcVars, answers, stale>>

\* Out of its budget the protocol stays down.
GivesUp(p) ==
    /\ At(p, "backoff", "stopped")
    /\ UNCHANGED <<inst, quarantined, mail, timerVars, loop, ipcVars, answers, stale>>

supervises(p) ==
    \/ Quarantine(p) \/ CancelTimers(p) \/ failPendingRestarting(p)
    \/ RemoveOwner(p) \/ Rebuild(p) \/ Lift(p)

returns(p) == RequestEnqueued(p) \/ NotificationEnqueued(p)
------------------------------------------------------------------------------
\* What a handler, or a callback the supervisor runs, asks of the runtime.
asks(p) ==
    \/ SendRequest(p) \/ CallbackSends(p) \/ PublishNotification(p) \/ Unsubscribe(p)
    \/ \E t \in TimerId : After(p, t) \/ Every(p, t) \/ Cancel(p, t)

Next ==
    \/ \E p \in Proto :
        \/ asks(p) \/ returns(p) \/ dispatch(p)
        \/ HandleRequestPanics(p) \/ HandlerPanics(p)
        \/ supervises(p) \/ GivesUp(p)
    \/ \E t \in TimerId : clock(t) \/ stops(t)
    \/ \E token \in timeouts : RequestTimesOut(token)
    \/ \E token \in held : Responds(token)

Spec == Init /\ [][Next]_vars
------------------------------------------------------------------------------
\* What waits for a callback: goroutines that can run do (the Go scheduler),
\* armed clock timers fire, and a supervisor finishes what it began.
Fairness ==
    /\ \A p \in Proto : WF_vars(dispatch(p) \/ returns(p)) /\ WF_vars(supervises(p))
    /\ \A t \in TimerId : WF_vars(clock(t)) /\ WF_vars(stops(t))
    /\ WF_vars(\E token \in timeouts : RequestTimesOut(token))
------------------------------------------------------------------------------
TokensOf(p) ==
    {t \in held \cup timeouts : t.from = p}
        \cup {Token(p, e.id, e.sender) :
                e \in {mail[p][n] : n \in {k \in DOMAIN mail[p] : mail[p][k].kind = "reply"}}}

\* deliverReply's "First-arrival wins": whatever answers a request races with
\* (its timeout, a responder kept for later, a panic, a restart of either
\* side), its callback runs at most once, and an answer never finds the entry
\* of another request under its id, an earlier instance's answers included.
RequestsAnsweredOnce ==
    \A p \in Proto :
        /\ \A n \in 1 .. MaxRequests : answers[p][n] <= 1
        /\ \A r \in pending[p], t \in TokensOf(p) : t.id = r.id => t.sender = r.inst

\* failPendingRestarting's "would run stale closures against the wrong
\* receiver": no reply callback and no function of a periodic timer runs on
\* the loop of an instance built after its own.  (A one-shot timer that fired
\* before the restart, and a handler looked up before it, can.)
NoStaleClosure == {"reply", "every"} \cap stale = {}

\* A request sent by a handler gets its callback run: by an answer, by the
\* missing handler's error, by its timeout, or by the requester's supervisor.
RequestsResolve ==
    \A p \in Proto, n \in 1 .. MaxRequests :
        (\E r \in pending[p] : r.id = n /\ r.by = "loop") ~> answers[p][n] = 1
==============================================================================
