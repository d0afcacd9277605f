--------------------------- MODULE MCEventDelivery --------------------------
(* Instances of EventDelivery for TLC. *)
EXTENDS EventDelivery, TLC

CONSTANTS p1, p2, k1, k2

\* One publisher sends for more keys than the queue has places.
BothKeys == p1 :> {k1, k2}

\* Two requests for the same key run at the same time.
SharedKey == (p1 :> {k1}) @@ (p2 :> {k1})

\* The first key has a successor event.
FirstTwice == [k \in Keys |-> IF k = k1 THEN 2 ELSE 1]
=============================================================================
