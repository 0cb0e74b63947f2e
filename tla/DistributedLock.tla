--------------------------- MODULE DistributedLock ---------------------------
(***************************************************************************)
(* DistributedLockService: a lock with an expiry on one Redis key per      *)
(* resource.  Each caller is a call chain withLock -> acquireLock -> fn -> *)
(* releaseLock in some process; pc[c] is the await it is suspended at.     *)
(* Time is counted down instead of up: an entry holds the time its key has *)
(* left, and lease[c] what is left of the TTL that c was granted, a value  *)
(* no code reads.                                                          *)
(***************************************************************************)
EXTENDS RedisStore

CONSTANTS Callers,      \* call chains, of any number of processes
          Keys,         \* lock keys
          TTL,          \* time units a lock lives, the ttl argument
          MaxCalls      \* bound: calls of withLock per caller

ASSUME TTLAssumption == TTL \in Nat \ {0}
ASSUME MaxCallsAssumption == MaxCalls \in Nat
ASSUME NoValueAssumption == NoValue \notin Callers \X Nat

VARIABLES store,    \* Redis: the entry under each lock key
          pc,       \* where each caller is suspended
          key,      \* the key of the caller's current call
          calls,    \* calls each caller has made
          lease     \* what is left of the TTL the caller was granted

vars == <<store, pc, key, calls, lease>>

Tokens == Callers \X Nat

\* randomUUID() of acquireLock: no two calls draw the same token.
Token(c) == <<c, calls[c]>>

Phases == {"idle", "acquiring", "granted", "refused", "in_fn", "releasing"}

Entries == [val : Tokens \cup {NoValue}, ttl : 0..TTL]

TypeOK == /\ store \in [Keys -> Entries]
          /\ pc \in [Callers -> Phases]
          /\ key \in [Callers -> Keys]
          /\ calls \in [Callers -> 0..MaxCalls]
          /\ lease \in [Callers -> 0..TTL]

Init == /\ store = [k \in Keys |-> Missing]
        /\ pc = [c \in Callers |-> "idle"]
        /\ key \in [Callers -> Keys]
        /\ calls = [c \in Callers |-> 0]
        /\ lease = [c \in Callers |-> 0]

-----------------------------------------------------------------------------
\* A mutant: DEL without the comparison.
ReleaseWithoutToken(e, t) == Missing

\* The Lua script of releaseLock: delete the key if it still holds the token.
ReleaseScript(e, t) == IF Live(e) /\ e.val = t THEN Missing ELSE e

GoTo(c, phase) == pc' = [pc EXCEPT ![c] = phase]

\* withLock(k, ttl, fn) is called; acquireLock sends SET k token PX ttl NX.
Request(c, k) ==
  /\ pc[c] = "idle"
  /\ calls[c] < MaxCalls
  /\ calls' = [calls EXCEPT ![c] = @ + 1]
  /\ key' = [key EXCEPT ![c] = k]
  /\ lease' = [lease EXCEPT ![c] = 0]
  /\ GoTo(c, "acquiring")
  /\ UNCHANGED store

\* A mutant: SET without NX.
RunSetWithoutNX(c) ==
  /\ pc[c] = "acquiring"
  /\ store' = [store EXCEPT ![key[c]] = Put(Token(c), TTL)]
  /\ lease' = [lease EXCEPT ![c] = TTL]
  /\ GoTo(c, "granted")
  /\ UNCHANGED <<key, calls>>

\* Redis runs the SET: the reply is OK, or null when the key is there.
RunSet(c) ==
  LET free == ~Live(store[key[c]])
  IN  /\ pc[c] = "acquiring"
      /\ store' = [store EXCEPT ![key[c]] = SetNX(@, Token(c), TTL)]
      /\ lease' = [lease EXCEPT ![c] = IF free THEN TTL ELSE 0]
      /\ GoTo(c, IF free THEN "granted" ELSE "refused")
      /\ UNCHANGED <<key, calls>>

\* The token is back: withLock starts fn.
StartFn(c) ==
  /\ pc[c] = "granted"
  /\ GoTo(c, "in_fn")
  /\ UNCHANGED <<store, key, calls, lease>>

\* null is back: withLock throws "Could not acquire lock".
Refuse(c) ==
  /\ pc[c] = "refused"
  /\ GoTo(c, "idle")
  /\ UNCHANGED <<store, key, calls, lease>>

\* fn returned or threw: the finally block sends the release script.
EndFn(c) ==
  /\ pc[c] = "in_fn"
  /\ GoTo(c, "releasing")
  /\ UNCHANGED <<store, key, calls, lease>>

\* Redis runs the script; withLock ends when the reply arrives, and the client
\* sends the script again when the connection broke before it did.
RunRelease(c) ==
  /\ pc[c] = "releasing"
  /\ store' = [store EXCEPT ![key[c]] = ReleaseScript(@, Token(c))]
  /\ \E phase \in {"idle", "releasing"} : GoTo(c, phase)
  /\ UNCHANGED <<key, calls, lease>>

\* The connection broke after the SET ran: the client sends the same SET again.
ResendSet(c) ==
  /\ pc[c] \in {"granted", "refused"}
  /\ GoTo(c, "acquiring")
  /\ UNCHANGED <<store, key, calls, lease>>

\* A command is rejected, and withLock with it, before or after it ran; or the
\* process dies at any await.  No one releases the lock then.
Abandon(c) ==
  /\ pc[c] # "idle"
  /\ GoTo(c, "idle")
  /\ UNCHANGED <<store, key, calls, lease>>

\* A mutant: SET without PX, so that no lock ever expires.
TickWithoutExpiry ==
  /\ lease' = [c \in Callers |-> IF lease[c] > 0 THEN lease[c] - 1 ELSE 0]
  /\ UNCHANGED <<store, pc, key, calls>>

\* Time passes, at Redis and for every lease.
Tick ==
  /\ store' = [k \in Keys |-> Aged(store[k])]
  /\ lease' = [c \in Callers |-> IF lease[c] > 0 THEN lease[c] - 1 ELSE 0]
  /\ UNCHANGED <<pc, key, calls>>

Call(c) == \/ \E k \in Keys : Request(c, k)
           \/ RunSet(c) \/ StartFn(c) \/ Refuse(c)
           \/ EndFn(c) \/ RunRelease(c)
           \/ ResendSet(c) \/ Abandon(c)

Next == Tick \/ \E c \in Callers : Call(c)

Spec == Init /\ [][Next]_vars

\* Clocks do not stop: nothing else is assumed, fn may never end.
FairSpec == Spec /\ WF_vars(Tick)

-----------------------------------------------------------------------------
InFn(c) == pc[c] = "in_fn"

\* As long as a caller's lease lasts, the key holds its token, with exactly
\* the time of the lease left: neither a competing SET nor a late release of
\* an earlier holder can touch it.
LeaseIsBacked ==
  \A c \in Callers :
    pc[c] \in {"granted", "in_fn"} /\ lease[c] > 0 =>
      store[key[c]] = Put(Token(c), lease[c])

\* "two concurrent callers can never both believe they hold it": two callers
\* are inside fn for one key only if one of them has outlived its TTL.
MutualExclusionWithinLease ==
  \A c, d \in Callers :
    c # d /\ InFn(c) /\ InFn(d) /\ key[c] = key[d] =>
      lease[c] = 0 \/ lease[d] = 0

\* The promise without the proviso about the TTL, which the code cannot keep:
\* nothing stops fn, or tells it, when the TTL has run out.
MutualExclusion ==
  \A c, d \in Callers :
    c # d /\ InFn(c) /\ InFn(d) => key[c] # key[d]

\* "This prevents releasing a lock that has since expired and been acquired by
\* another caller": a lock with time left disappears only by the release of
\* the very call it was granted to.
ReleasedOnlyByItsHolder ==
  [][\A k \in Keys :
       store[k].ttl > 1 /\ ~Live(store'[k]) =>
         \E c \in Callers : /\ pc[c] = "releasing"
                            /\ key[c] = k
                            /\ store[k].val = Token(c)]_vars

\* Whatever becomes of its holders (an fn that never ends, a rejected release,
\* a dead process), a key keeps coming free.
KeyComesFree == \A k \in Keys : []<>~Live(store[k])
=============================================================================
