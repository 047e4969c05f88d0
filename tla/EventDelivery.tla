---------------------------- MODULE EventDelivery ----------------------------
(***************************************************************************)
(* What the event pipeline promises, without its machinery: an event that  *)
(* a domain transaction accepted takes effect at most once, and nothing    *)
(* else takes effect.                                                      *)
(***************************************************************************)
CONSTANT Event

VARIABLE delivery    \* "none", "accepted" or "applied"

TypeOK == delivery \in [Event -> {"none", "accepted", "applied"}]

Init == delivery = [e \in Event |-> "none"]

Accept(e) ==
    /\ delivery[e] = "none"
    /\ delivery' = [delivery EXCEPT ![e] = "accepted"]

Apply(e) ==
    /\ delivery[e] = "accepted"
    /\ delivery' = [delivery EXCEPT ![e] = "applied"]

Next == \E e \in Event : Accept(e) \/ Apply(e)

Spec == Init /\ [][Next]_delivery
=============================================================================
