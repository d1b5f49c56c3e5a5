----------------------------- MODULE EventQueue -----------------------------
(***************************************************************************)
(* What a protocol is promised of its mailbox: one FIFO queue over all      *)
(* kinds of events, each event handled at most once and in the order of     *)
(* arrival, lost only to a full queue, and no event left waiting while the  *)
(* runtime lives.                                                           *)
(***************************************************************************)
EXTENDS Integers, Sequences, SequencesExt

CONSTANTS Event, Capacity

VARIABLES
    bounded,    \* FALSE for the unbounded policy
    q,          \* arrived and not yet handed to a handler
    delivered,  \* handed to a handler, in order
    lost,       \* evicted or rejected
    closed      \* the runtime context is done

vars == <<bounded, q, delivered, lost, closed>>

Seen == ToSet(q) \cup ToSet(delivered) \cup lost

Full == bounded /\ Len(q) >= Capacity

Init ==
    /\ bounded \in BOOLEAN
    /\ q = <<>>
    /\ delivered = <<>>
    /\ lost = {}
    /\ closed = FALSE

Accept(e) ==
    /\ ~Full
    /\ q' = Append(q, e)
    /\ UNCHANGED lost

Reject(e) ==
    /\ Full
    /\ lost' = lost \cup {e}
    /\ UNCHANGED q

Evict(e) ==
    /\ Full
    /\ lost' = lost \cup {Head(q)}
    /\ q' = Append(Tail(q), e)

Put(e) ==
    /\ e \notin Seen
    /\ Accept(e) \/ Reject(e) \/ Evict(e)
    /\ UNCHANGED <<bounded, delivered, closed>>

Take ==
    /\ q # <<>>
    /\ delivered' = Append(delivered, Head(q))
    /\ q' = Tail(q)
    /\ UNCHANGED <<bounded, lost, closed>>

Close ==
    /\ closed' = TRUE
    /\ UNCHANGED <<bounded, q, delivered, lost>>

Next == (\E e \in Event : Put(e)) \/ Take \/ Close

Spec == Init /\ [][Next]_vars /\ WF_vars(~closed /\ Take)
==============================================================================
