----------------------------- MODULE EventStream -----------------------------
(***************************************************************************)
(* The event stream between the outbox and the consumer (JetStream, used   *)
(* as a library): all that its two sides share is how many copies of each  *)
(* event it has stored.                                                    *)
(***************************************************************************)
EXTENDS Naturals

CONSTANTS
    Event,       \* domain events: one outbox row, one event_id each
    MaxCopies    \* bound: stream messages per event

ASSUME StreamConstants == MaxCopies \in Nat \ {0}

VARIABLE log     \* number of stream messages stored for each event
=============================================================================
