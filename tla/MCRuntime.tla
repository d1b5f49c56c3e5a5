------------------------------ MODULE MCRuntime ------------------------------
(****************************************************************************)
(* Instances of Runtime for TLC.  A scenario gives the policy of the        *)
(* mailbox, which calls the protocol makes and how many, and how much of    *)
(* the environment it sees.                                                 *)
(****************************************************************************)
EXTENDS Runtime, FiniteSets

CONSTANTS
    h1,          \* a peer
    Scenarios    \* the scenarios of the run

VARIABLES
    scenario,
    called, failed, arrived, received   \* how often, against the bounds

counters == <<called, failed, arrived, received>>
mcVars == <<vars, scenario, counters, blurred>>

OneHost == {h1}

\* Dials, retries, disconnects and a session of the peer.
Sessions(p, n, stop) ==
    [policy |-> p, ops |-> {"connect", "retry", "disconnect"}, calls |-> n,
     faults |-> n - 1, arrivals |-> 1, messages |-> 0, shutdown |-> stop]

\* More messages and events than fit, while the protocol sends.
Load(p, ops, stop) ==
    [policy |-> p, ops |-> ops, calls |-> 1, faults |-> 1, arrivals |-> 1,
     messages |-> 3, shutdown |-> stop]

Passing == {Sessions("unbounded", 2, FALSE), Sessions("block", 1, TRUE),
            Load("drop_newest", {"send", "loopback"}, FALSE),
            Load("block", {"send", "loopback"}, TRUE)}
Backpressure == {Load("block", {"send"}, FALSE)}

MCInit ==
    /\ Init
    /\ scenario \in Scenarios
    /\ policy = scenario.policy
    /\ called = 0 /\ failed = 0 /\ arrived = 0 /\ received = 0
    /\ blurred = {}

Counted(n, bound) == n < bound /\ n' = n + 1

MCCalls ==
    /\ \E h \in Host :
        \/ "connect" \in scenario.ops /\ Connect(h)
        \/ "retry" \in scenario.ops /\ connectWithRetry(h)
        \/ "disconnect" \in scenario.ops /\ disconnect(h)
        \/ "send" \in scenario.ops /\ sendMessage(h)
        \/ "loopback" \in scenario.ops /\ sendMessage(Self)
    /\ Counted(called, scenario.calls)
    /\ UNCHANGED <<failed, arrived, received>>

MCFaults ==
    /\ \E h \in Host : faults(h)
    /\ Counted(failed, scenario.faults)
    /\ UNCHANGED <<called, arrived, received>>

MCArrivals ==
    /\ \E h \in Host : InboundArrives(h)
    /\ Counted(arrived, scenario.arrivals)
    /\ UNCHANGED <<called, failed, received>>

MCMessages ==
    /\ \E h \in Host : MessageArrives(h)
    /\ Counted(received, scenario.messages)
    /\ UNCHANGED <<called, failed, arrived>>

MCSteps ==
    /\ \/ \E h \in Host : layer(h) \/ served(h) \/ retry(h)
       \/ emitEvent \/ returns \/ Deliver
       \/ sessionPump \/ messageDispatcher
       \/ scenario.shutdown /\ Cancel
       \/ teardown
       \/ \E g \in {"handler", "pump", "dispatcher", "loop"} : Exits(g)
    /\ UNCHANGED counters

MCNext ==
    /\ MCCalls \/ MCFaults \/ MCArrivals \/ MCMessages \/ MCSteps
    /\ Blurs
    /\ UNCHANGED scenario

MCFairSpec == MCInit /\ [][MCNext]_mcVars /\ Fairness
==============================================================================
