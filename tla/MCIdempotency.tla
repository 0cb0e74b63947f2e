---------------------------- MODULE MCIdempotency ----------------------------
(* Model checking instances of Idempotency. *)
EXTENDS Idempotency

CONSTANTS r1, r2, r3, p1, p2

\* Two requests with one payload, a third with another.
MCFingerprint == [r \in Requests |-> IF r = r3 THEN p2 ELSE p1]
=============================================================================
