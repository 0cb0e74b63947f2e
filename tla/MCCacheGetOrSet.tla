--------------------------- MODULE MCCacheGetOrSet ---------------------------
(* Model checking instances of CacheGetOrSet. *)
EXTENDS CacheGetOrSet

CONSTANTS c1, c2, c3, t1

\* All callers serve requests of one tenant.
MCOneTenant == [c \in Callers |-> t1]

\* A request without a tenant among requests with one.
MCMixed == [c \in Callers |-> IF c = c1 THEN Raw ELSE t1]
=============================================================================
