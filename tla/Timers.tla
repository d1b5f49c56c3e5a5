------------------------------- MODULE Timers -------------------------------
(****************************************************************************)
(* The timers of pkg/protorun/timer.go: After and Every arm a clock timer   *)
(* whose callback, on a goroutine of its own, puts a fire into the owner's  *)
(* mailbox; Cancel races with the callback, and a supervised restart of the *)
(* owner with both.  Mailboxes are unbounded here (Mailbox has the others). *)
(****************************************************************************)
EXTENDS Integers, Sequences, FiniteSets

CONSTANTS
    Proto,     \* the protocols of the runtime
    TimerId,   \* the ids of the timers a behaviour may create (bound)
    MaxArms    \* clock timers one handle may arm (bound)

ASSUME TimerAssumption ==
    /\ IsFiniteSet(Proto)
    /\ TimerId \subseteq Nat
    /\ MaxArms \in Nat \ {0}

VARIABLES
    inst,         \* per protocol: the instance its factory built last
    quarantined,  \* per protocol: enqueue drops everything
    mail,         \* per protocol: its mailbox
    timers,       \* per timer: its handle
    callbacks,    \* per timer: the callbacks under way, by the clock timer
                  \* each is about, and their places
    cancelling    \* timers whose cancel has yet to stop the clock timer

timerVars == <<timers, callbacks, cancelling>>

NoTimer == [kind |-> "none", owner |-> "nobody", inst |-> 0, tracked |-> FALSE,
            cancelled |-> FALSE, clock |-> {}, arms |-> 0, stop |-> 0]

TimersInit ==
    /\ timers = [t \in TimerId |-> NoTimer]
    /\ callbacks = [t \in TimerId |-> {}]
    /\ cancelling = {}

Callback(g, place) == [clock |-> g, at |-> place]

\* enqueue, with its quarantine check.
Enqueued(p, e) ==
    mail' = [mail EXCEPT ![p] = IF quarantined[p] THEN @ ELSE Append(@, e)]

Fire(t) == [kind |-> "timer", id |-> t, from |-> timers[t].owner,
            inst |-> timers[t].inst, sender |-> 0]

\* after, every: a handle in the owner's table, and its first clock timer.
Schedule(p, t, kind) ==
    /\ timers[t] = NoTimer
    /\ \A s \in TimerId : s < t => timers[s] # NoTimer
    /\ timers' = [timers EXCEPT ![t] =
                    [kind |-> kind, owner |-> p, inst |-> inst[p], tracked |-> TRUE,
                     cancelled |-> FALSE, clock |-> {1}, arms |-> 1, stop |-> 1]]
    /\ UNCHANGED <<mail, callbacks, cancelling>>

\* The clock runs the callback of an armed timer.
ClockFires(t) ==
    /\ \E g \in timers[t].clock :
        /\ timers' = [timers EXCEPT ![t].clock = @ \ {g}]
        /\ callbacks' = [callbacks EXCEPT ![t] = @ \cup {Callback(g, "start")}]
    /\ UNCHANGED <<mail, cancelling>>

Goes(t, c, place) == callbacks' = [callbacks EXCEPT ![t] = (@ \ {c}) \cup {place}]

Done(t, c) == callbacks' = [callbacks EXCEPT ![t] = @ \ {c}]

\* The callback looks at the flag; a one-shot leaves the table before that.
CallbackStarts(t, c) ==
    /\ c.at = "start"
    /\ timers' = [timers EXCEPT ![t].tracked = @ /\ timers[t].kind = "every"]
    /\ IF timers[t].cancelled THEN Done(t, c) ELSE Goes(t, c, Callback(c.clock, "push"))
    /\ UNCHANGED <<mail, cancelling>>

CallbackPushes(t, c) ==
    /\ c.at = "push"
    /\ Enqueued(timers[t].owner, Fire(t))
    /\ IF timers[t].kind = "once" THEN Done(t, c) ELSE Goes(t, c, Callback(c.clock, "rearm"))
    /\ UNCHANGED <<timers, cancelling>>

\* Mutant: a tick that finds its fire still queued does not arm the next one.
CallbackRearmsUnlessQueued(t, c) ==
    LET g == timers[t].arms + 1 IN
    /\ c.at = "rearm"
    /\ IF timers[t].cancelled \/ Fire(t) \in {mail[timers[t].owner][i] :
                                  i \in DOMAIN mail[timers[t].owner]}
       THEN Done(t, c) /\ UNCHANGED timers
       ELSE /\ g <= MaxArms
            /\ timers' = [timers EXCEPT ![t].clock = @ \cup {g}, ![t].arms = g]
            /\ Goes(t, c, Callback(g, "setStop"))
    /\ UNCHANGED <<mail, cancelling>>

\* A periodic timer arms its next clock timer unless it was cancelled, ...
CallbackRearms(t, c) ==
    LET g == timers[t].arms + 1 IN
    /\ c.at = "rearm"
    /\ IF timers[t].cancelled
       THEN Done(t, c) /\ UNCHANGED timers
       ELSE /\ g <= MaxArms
            /\ timers' = [timers EXCEPT ![t].clock = @ \cup {g}, ![t].arms = g]
            /\ Goes(t, c, Callback(g, "setStop"))
    /\ UNCHANGED <<mail, cancelling>>

\* ... lets cancel stop that one, ...
CallbackSetsStop(t, c) ==
    /\ c.at = "setStop"
    /\ timers' = [timers EXCEPT ![t].stop = c.clock]
    /\ Goes(t, c, Callback(c.clock, "recheck"))
    /\ UNCHANGED <<mail, cancelling>>

\* ... and stops it itself if a cancel came in between.
CallbackRechecks(t, c) ==
    /\ c.at = "recheck"
    /\ timers' = [timers EXCEPT ![t].clock =
                    IF timers[t].cancelled THEN @ \ {c.clock} ELSE @]
    /\ Done(t, c)
    /\ UNCHANGED <<mail, cancelling>>

CallbackStep(t) ==
    \E c \in callbacks[t] :
        \/ CallbackStarts(t, c) \/ CallbackPushes(t, c) \/ CallbackRearms(t, c)
        \/ CallbackSetsStop(t, c) \/ CallbackRechecks(t, c)

\* cancel of several handles: flag and forget them, ...
Cancels(T) ==
    /\ timers' = [t \in TimerId |-> IF t \in T
                    THEN [timers[t] EXCEPT !.cancelled = TRUE, !.tracked = FALSE]
                    ELSE timers[t]]
    /\ cancelling' = cancelling \cup {t \in T : ~timers[t].cancelled}
    /\ UNCHANGED <<mail, callbacks>>

\* ... then stop the clock timer each one names.
CancelStops(t) ==
    /\ t \in cancelling
    /\ cancelling' = cancelling \ {t}
    /\ timers' = [timers EXCEPT ![t].clock = @ \ {timers[t].stop}]
    /\ UNCHANGED <<mail, callbacks>>

Owned(p) == {t \in TimerId : timers[t].owner = p /\ timers[t].tracked}

cancelAllTimers(p) == Cancels(Owned(p))

\* resetForRestart forgets the table without looking at it.
ForgetTable(p) ==
    /\ timers' = [t \in TimerId |->
                    [timers[t] EXCEPT !.tracked = @ /\ timers[t].owner # p]]
    /\ UNCHANGED <<callbacks, cancelling>>
------------------------------------------------------------------------------
\* Until it is cancelled, a periodic timer's next clock timer is armed or a callback
\* that may arm it is under way, whatever else a cancel or a restart is about.
GoesOn(t) ==
    timers[t].kind = "every" /\ ~timers[t].cancelled =>
        timers[t].clock # {} \/ callbacks[t] # {}

\* A periodic timer neither dies nor survives: it goes on until it is cancelled,
\* and "no fire outlives the cancel": whatever cancel raced with, in the end no
\* clock timer of a cancelled handle is armed and none of its callbacks arms
\* another.  (Two overlapping callbacks may leave one armed that cancel does not
\* stop; its own callback finds the flag.)
TimersObey ==
    \A t \in TimerId :
        /\ []GoesOn(t)
        /\ timers[t].cancelled ~> timers[t].clock = {} /\ callbacks[t] = {}
==============================================================================
