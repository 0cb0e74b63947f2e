----------------------------- MODULE RedisStore -----------------------------
(***************************************************************************)
(* The part of Redis the backend's services rely on: string keys with an   *)
(* expiry.  Each command runs atomically at the server; what is not atomic *)
(* is a service that sends several of them.  An entry is the value under   *)
(* one key and the time units it has left; an entry with no time left is   *)
(* the same thing as a key that is not there.                              *)
(***************************************************************************)
EXTENDS Naturals

CONSTANT NoValue    \* the reply to a GET of a key that is not there

\* A key that was never set, was deleted, or has expired.
Missing == [val |-> NoValue, ttl |-> 0]

\* EXISTS key
Live(e) == e.ttl > 0

\* SET key v PX ttl
Put(v, ttl) == [val |-> v, ttl |-> ttl]

\* SET key v PX ttl NX: an entry that is there stays as it is.
SetNX(e, v, ttl) == IF Live(e) THEN e ELSE Put(v, ttl)

\* One unit of time passes at the server.
Aged(e) == IF e.ttl > 1 THEN [e EXCEPT !.ttl = @ - 1] ELSE Missing
=============================================================================
