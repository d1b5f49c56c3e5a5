------------------------------ MODULE MCMailbox ------------------------------
(* Model-checking instance of Mailbox: two producers and a self-sending loop. *)
EXTENDS Mailbox

CONSTANTS p1, p2

MCProducer == {p1, p2}
==============================================================================
