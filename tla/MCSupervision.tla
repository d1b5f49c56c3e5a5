---------------------------- MODULE MCSupervision ----------------------------
(****************************************************************************)
(* Instances of Supervision for TLC.  A scenario gives the policy of the    *)
(* mailbox, the directives, and how much of the environment it sees.        *)
(****************************************************************************)
EXTENDS Supervision

CONSTANTS
    h1, h2,      \* peers
    Scenarios    \* the scenarios of the run

VARIABLE scenario

mcVars == <<vars, scenario>>

OneHost  == {h1}
TwoHosts == {h1, h2}

\* Sessions come and go, around restarts, over a mailbox that drops nothing.
Flapping == [policy |-> "block", onPanic |-> {"Restart"}, messages |-> 0,
             flaps |-> 3, timers |-> FALSE, shutdown |-> FALSE]

\* A message and a shutdown race with a restart.
ShuttingDown == [policy |-> "block", onPanic |-> {"Restart"}, messages |-> 1,
                 flaps |-> 1, timers |-> FALSE, shutdown |-> TRUE]

\* Every directive, over a full mailbox that drops.
GivingUp == [policy |-> "drop_newest", onPanic |-> {"Restart", "Stop", "Escalate"},
             messages |-> 1, flaps |-> 1, timers |-> FALSE, shutdown |-> FALSE]

\* A timer of an instance fires around the instance's replacement.
Ticking == [policy |-> "drop_newest", onPanic |-> {"Restart"}, messages |-> 0,
            flaps |-> 1, timers |-> TRUE, shutdown |-> FALSE]

\* The replay meets a full mailbox that blocks.
Replaying == [policy |-> "block", onPanic |-> {"Restart"}, messages |-> 0,
              flaps |-> 2, timers |-> FALSE, shutdown |-> FALSE]

Contract  == {Flapping, ShuttingDown, GivingUp, Ticking}
ReplayOnly == {Replaying}

MCInit ==
    /\ Init
    /\ scenario \in Scenarios
    /\ policy = scenario.policy
    /\ onPanic \in scenario.onPanic

MCNext ==
    /\ Next
    /\ UNCHANGED scenario
    /\ fromPeers' <= scenario.messages
    /\ flaps' <= scenario.flaps
    /\ scenario.timers \/ \A i \in Inst : armed'[i] # "fired"
    /\ scenario.shutdown \/ (cancelled' => cancelled \/ outcome = "Escalate")

MCFairSpec == MCInit /\ [][MCNext]_mcVars /\ Fairness

\* Every panic is resolved: the supervisor rebuilds or removes the protocol
\* and comes back to wait, or the runtime stops.
FailuresResolve == sup = "record" \/ signals # NoInst ~> sup \in {"wait", "gone"}

\* The same, unless the supervisor can be held up by a mailbox that blocks.
FailuresResolveUnlessBlocked ==
    policy # "block" /\ (sup = "record" \/ signals # NoInst)
        ~> sup \in {"wait", "gone"}
==============================================================================
