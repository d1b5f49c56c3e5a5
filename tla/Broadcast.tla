------------------------------ MODULE Broadcast ------------------------------
(****************************************************************************)
(* What a broadcast protocol promises its application: nodes deliver only    *)
(* what was broadcast, each message once, and an origin delivers its own      *)
(* message when it broadcasts it.                                            *)
(****************************************************************************)
EXTENDS Naturals, Sequences

CONSTANTS Node, MessageID

VARIABLES
    sent,  \* the messages broadcast
    log    \* per node: the messages delivered, in order

Init ==
    /\ sent = {}
    /\ log = [n \in Node |-> <<>>]

Delivered(n) == {log[n][i] : i \in 1 .. Len(log[n])}

Send(n, id) ==
    /\ id \notin sent
    /\ sent' = sent \cup {id}
    /\ log' = [log EXCEPT ![n] = Append(@, id)]

Deliver(n, id) ==
    /\ id \in sent \ Delivered(n)
    /\ log' = [log EXCEPT ![n] = Append(@, id)]
    /\ UNCHANGED sent

Next == \E n \in Node, id \in MessageID : Send(n, id) \/ Deliver(n, id)

Spec == Init /\ [][Next]_<<sent, log>>
==============================================================================
