------------------------------ MODULE Consensus ------------------------------
(****************************************************************************)
(* What pkg/protocols/paxos promises its clients: one value is chosen, once *)
(* and for ever, and a node's Decided notification carries that value.  A   *)
(* node that restarts no longer knows the decision and may learn it again.  *)
(****************************************************************************)
CONSTANTS Node, Value, None

VARIABLES
    chosen,   \* {} until the synod chooses, then the singleton of its choice
    learned   \* learned[n]: the value n has decided, or None

Init ==
    /\ chosen = {}
    /\ learned = [n \in Node |-> None]

Choose == chosen = {} /\ \E v \in Value : chosen' = {v}

\* The node that casts the deciding vote may learn in the same step.
Learn(n) ==
    /\ learned[n] = None
    /\ \E v \in chosen' : learned' = [learned EXCEPT ![n] = v]

Forget(n) == learned' = [learned EXCEPT ![n] = None]

Next ==
    /\ Choose \/ UNCHANGED chosen
    /\ UNCHANGED learned \/ \E n \in Node : Learn(n) \/ Forget(n)

Spec == Init /\ [][Next]_<<chosen, learned>>
==============================================================================
