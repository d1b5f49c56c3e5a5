------------------------------- MODULE MCIPC -------------------------------
(****************************************************************************)
(* Instances of IPC for TLC.  A scenario says how often each operation may  *)
(* happen, and by which protocols.                                          *)
(****************************************************************************)
EXTENDS IPC

CONSTANTS
    p, q,        \* protocols
    Scenarios    \* the scenarios of the run

VARIABLES
    scenario,
    left         \* per operation: how often it may still happen

mcVars == <<vars, scenario, left>>

Both == {p, q}
JustQ == {q}

Ops == {"request", "later", "panic", "resend", "publish", "unsubscribe", "once", "every",
        "cancel", "giveup"}

Budget(b) == [o \in Ops |-> IF o \in DOMAIN b THEN b[o] ELSE 0]

\* Requests of p, which q handles, with a panic of either.
Asking == [by |-> {p}, panics |-> {p, q},
           times |-> Budget([request |-> 2, later |-> 1, panic |-> 2, resend |-> 1])]

\* Requests of both to q, one of them to itself, and a protocol that stays down.
GivingUp == [by |-> {p, q}, panics |-> {p, q},
             times |-> Budget([request |-> 2, panic |-> 1, giveup |-> 1])]

\* Notifications across a restart.
Publishing == [by |-> {p, q}, panics |-> {p, q},
               times |-> Budget([publish |-> 2, panic |-> 1, unsubscribe |-> 1])]

\* A periodic timer, and one-shot ones, across a restart.
Ticking == [by |-> {p}, panics |-> {p},
            times |-> Budget([every |-> 1, cancel |-> 1, panic |-> 1])]
OneShot == [by |-> {p}, panics |-> {p},
            times |-> Budget([once |-> 2, cancel |-> 1, panic |-> 1])]

All == {Asking, GivingUp, Publishing, Ticking, OneShot}

MCInit ==
    /\ Init
    /\ scenario \in Scenarios
    /\ scenario = Publishing \/ fanout[1].proto = p
    /\ left = scenario.times

Spend(o) == left[o] > 0 /\ left' = [left EXCEPT ![o] = @ - 1]

MCOperation(r) ==
    \/ Spend("request") /\ SendRequest(r)
    \/ Spend("publish") /\ PublishNotification(r)
    \/ Spend("unsubscribe") /\ Unsubscribe(r)
    \/ \E t \in TimerId :
        \/ Spend("once") /\ After(r, t)
        \/ Spend("every") /\ Every(r, t)
        \/ Spend("cancel") /\ Cancel(r, t)

MCStep(r) ==
    \/ Spend("later") /\ HandleRequestLater(r)
    \/ r \in scenario.panics /\ Spend("panic") /\ (HandleRequestPanics(r) \/ HandlerPanics(r))
    \/ Spend("resend") /\ CallbackSends(r)
    \/ Spend("giveup") /\ GivesUp(r)
    \/ /\ \/ HandleRequest(r) \/ deliverReply(r) \/ DispatchTimer(r) \/ DispatchNotification(r)
          \/ returns(r) \/ supervises(r)
          \/ \E token \in timeouts : RequestTimesOut(token)
          \/ \E token \in held : Responds(token)
          \/ \E t \in TimerId : clock(t) \/ stops(t)
       /\ UNCHANGED left

MCNext ==
    /\ (\E r \in scenario.by : MCOperation(r)) \/ (\E r \in Proto : MCStep(r))
    /\ UNCHANGED scenario

MCFairSpec == MCInit /\ [][MCNext]_mcVars /\ Fairness
==============================================================================
