---------------------------- MODULE ReplicatedLog ----------------------------
(****************************************************************************)
(* What Raft promises its applications: one sequence of committed entries   *)
(* that only grows, of which every node's state machine applies a prefix.    *)
(* A node that restarts applies it again from the start.                     *)
(****************************************************************************)
EXTENDS Naturals, Sequences

CONSTANTS Node, Entry

VARIABLES
    committed,  \* the committed entries
    machine     \* per node: the entries its state machine has applied

Prefix(s, t) == Len(s) <= Len(t) /\ s = SubSeq(t, 1, Len(s))

Init ==
    /\ committed = <<>>
    /\ machine = [n \in Node |-> <<>>]

\* Node n applies the entries from; those past the committed ones are
\* committed by it.
Apply(n, from) ==
    /\ machine' = [machine EXCEPT ![n] = @ \o from]
    /\ \/ Prefix(machine'[n], committed) /\ UNCHANGED committed
       \/ Prefix(committed, machine'[n]) /\ committed' = machine'[n]

Forget(n) ==
    /\ machine' = [machine EXCEPT ![n] = <<>>]
    /\ UNCHANGED committed

\* What machine n gains in a step.
Gain(n) == SubSeq(machine'[n], Len(machine[n]) + 1, Len(machine'[n]))

Next ==
    \E n \in Node :
        \/ Forget(n)
        \/ Gain(n) \in Seq(Entry) /\ Apply(n, Gain(n))

Spec == Init /\ [][Next]_<<committed, machine>>
==============================================================================
