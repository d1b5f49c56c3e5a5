------------------------------ MODULE Overflow ------------------------------
(* The overflow policies of pkg/protorun/mailbox.go, as pure operators. *)
EXTENDS Integers, Sequences

CONSTANTS
    Capacity,  \* Mailbox.Capacity, normalised to a positive bound
    NoEvent    \* the zero protoEvent of a push that drops nothing

OverflowPolicy == {"block", "drop_oldest", "drop_newest", "unbounded"}

ASSUME CapacityAssumption == Capacity \in Nat \ {0}

\* Mutant: the capacity is checked one event too late.
FullLate(pol, q) == pol \in {"drop_oldest", "drop_newest"} /\ Len(q) > Capacity

Full(pol, q) == pol \in {"drop_oldest", "drop_newest"} /\ Len(q) >= Capacity

\* Mutant: the newest event is put at the head.
enqueueLockedFront(pol, q, e) ==
    IF ~Full(pol, q) THEN <<e>> \o q
    ELSE IF pol = "drop_newest" THEN q ELSE Append(Tail(q), e)

\* enqueueLocked: the queue it leaves and the event it drops.
enqueueLocked(pol, q, e) ==
    IF ~Full(pol, q) THEN Append(q, e)
    ELSE IF pol = "drop_newest" THEN q ELSE Append(Tail(q), e)

Dropped(pol, q, e) ==
    IF ~Full(pol, q) THEN NoEvent
    ELSE IF pol = "drop_newest" THEN e ELSE Head(q)
==============================================================================
