---------------------------- MODULE CacheGetOrSet ----------------------------
(***************************************************************************)
(* CachingService.getOrSet for one logical key, with the lock of           *)
(* DistributedLockService around the factory, and the invalidation that    *)
(* CacheInvalidationService runs when the data behind the key was written. *)
(* The cache is cache-manager over Redis.  A caller is one call of         *)
(* getOrSet, in some process, in the scope of a tenant or of none; pc is   *)
(* the await it is suspended at.                                           *)
(***************************************************************************)
EXTENDS RedisStore

CONSTANTS Callers,
          Scopes,       \* tenants, and Raw
          Raw,          \* no tenant context: the key as it was passed
          ScopeOf,      \* the tenant context each caller runs in
          LockTTL,      \* resolveLockTtl, in time units
          CacheTTL,     \* ttlSeconds
          MaxWrites,    \* bound: writes of the data behind the key
          MayFail,      \* whether Redis commands and processes may fail
          PollsMayFail  \* whether a GET of the polling loop may fail

ASSUME ScopeAssumption == Raw \in Scopes /\ ScopeOf \in [Callers -> Scopes]
ASSUME TTLAssumption == LockTTL \in Nat \ {0} /\ CacheTTL \in Nat \ {0}
ASSUME WritesAssumption == MaxWrites \in Nat
ASSUME MayAssumption == MayFail \in BOOLEAN /\ PollsMayFail \in BOOLEAN

VARIABLES cache,     \* Redis: the entry under the key of each scope
          lock,      \* Redis: the entry under cache:lock:<key>
          source,    \* the version of the data the factory reads
          pending,   \* writes whose invalidation event is still to be handled
          pc,        \* where each caller is suspended
          asked,     \* callers that called acquireLock
          holder,    \* callers whose finally block will release the lock
          lease,     \* what is left of the TTL the lock was granted for
          window,    \* what is left of the caller's polling time
          made,      \* the value the caller's factory produced
          got        \* the value the caller returned

vars == <<cache, lock, source, pending, pc, asked, holder, lease, window, made, got>>

Values == [scope : Scopes, version : 0..MaxWrites]

Phases == {"start", "locking", "acquired", "contended", "polling", "computing",
           "publishing", "releasing", "done"}

Token(c) == <<c, 1>>

TypeOK == /\ cache \in [Scopes -> [val : Values \cup {NoValue}, ttl : 0..CacheTTL]]
          /\ lock \in [val : (Callers \X {1}) \cup {NoValue}, ttl : 0..LockTTL]
          /\ source \in 0..MaxWrites
          /\ pending \in 0..MaxWrites
          /\ pc \in [Callers -> Phases]
          /\ asked \in SUBSET Callers
          /\ holder \in SUBSET Callers
          /\ lease \in [Callers -> 0..LockTTL]
          /\ window \in [Callers -> 0..LockTTL]
          /\ made \in [Callers -> Values \cup {NoValue}]
          /\ got \in [Callers -> Values \cup {NoValue}]

Init == /\ cache = [s \in Scopes |-> Missing]
        /\ lock = Missing
        /\ source = 0
        /\ pending = 0
        /\ pc = [c \in Callers |-> "start"]
        /\ asked = {}
        /\ holder = {}
        /\ lease = [c \in Callers |-> 0]
        /\ window = [c \in Callers |-> 0]
        /\ made = [c \in Callers |-> NoValue]
        /\ got = [c \in Callers |-> NoValue]

-----------------------------------------------------------------------------
data == <<source, pending>>

\* buildTenantScopedKey: get and set go through it, the polls do not.
ReadScope(c) == ScopeOf[c]
PollScope(c) == Raw

GoTo(c, phase) == pc' = [pc EXCEPT ![c] = phase]

Return(c, v) == GoTo(c, "done") /\ got' = [got EXCEPT ![c] = v]

\* this.get(key): a hit ends the call, a miss sends the SET of acquireLock.
Get(c) ==
  LET e == cache[ReadScope(c)]
  IN  /\ pc[c] = "start"
      /\ IF Live(e)
         THEN Return(c, e.val) /\ UNCHANGED asked
         ELSE /\ GoTo(c, "locking")
              /\ asked' = asked \cup {c}
              /\ UNCHANGED got
      /\ UNCHANGED <<cache, lock, data, holder, lease, window, made>>

\* Redis runs SET cache:lock:<key> token PX ttl NX.
AcquireLock(c) ==
  LET free == ~Live(lock)
  IN  /\ pc[c] = "locking"
      /\ lock' = SetNX(lock, Token(c), LockTTL)
      /\ lease' = [lease EXCEPT ![c] = IF free THEN LockTTL ELSE 0]
      /\ GoTo(c, IF free THEN "acquired" ELSE "contended")
      /\ UNCHANGED <<cache, data, asked, holder, window, made, got>>

\* The token is back: the factory starts, under the try whose finally releases.
StartFactory(c) ==
  /\ pc[c] = "acquired"
  /\ GoTo(c, "computing")
  /\ holder' = holder \cup {c}
  /\ UNCHANGED <<cache, lock, data, asked, lease, window, made, got>>

\* The lock is taken: one look at the cache, then polling for the lock's TTL.
Recheck(c) ==
  LET e == cache[PollScope(c)]
  IN  /\ pc[c] = "contended"
      /\ IF Live(e)
         THEN Return(c, e.val) /\ UNCHANGED window
         ELSE /\ GoTo(c, "polling")
              /\ window' = [window EXCEPT ![c] = LockTTL]
              /\ UNCHANGED got
      /\ UNCHANGED <<cache, lock, data, asked, holder, lease, made>>

\* pollUntilValuePresent finds a value.
PollHit(c) ==
  LET e == cache[PollScope(c)]
  IN  /\ pc[c] = "polling"
      /\ Live(e)
      /\ Return(c, e.val)
      /\ UNCHANGED <<cache, lock, data, asked, holder, lease, window, made>>

\* pollUntilValuePresent ends without one: the caller runs its own factory.
FallBack(c) ==
  /\ pc[c] = "polling"
  /\ window[c] = 0
  /\ ~Live(cache[PollScope(c)])
  /\ GoTo(c, "computing")
  /\ UNCHANGED <<cache, lock, data, asked, holder, lease, window, made, got>>

\* The last GET of pollUntilValuePresent failed, and its error was swallowed.
FallBackBlindly(c) ==
  /\ PollsMayFail
  /\ pc[c] = "polling"
  /\ window[c] = 0
  /\ GoTo(c, "computing")
  /\ UNCHANGED <<cache, lock, data, asked, holder, lease, window, made, got>>

\* The factory reads the data; its value is published with this.set(key).
RunFactory(c) ==
  /\ pc[c] = "computing"
  /\ made' = [made EXCEPT ![c] = [scope |-> ScopeOf[c], version |-> source]]
  /\ GoTo(c, "publishing")
  /\ UNCHANGED <<cache, lock, data, asked, holder, lease, window, got>>

\* Leaving the try block: a lock holder sends the release script first.
Leave(c) == GoTo(c, IF c \in holder THEN "releasing" ELSE "done")

\* A mutant: milliseconds where cache-manager takes seconds.
PublishInOtherUnit(c) ==
  /\ pc[c] = "publishing"
  /\ cache' = [cache EXCEPT ![ReadScope(c)] = Put(made[c], 10 * CacheTTL)]
  /\ got' = [got EXCEPT ![c] = made[c]]
  /\ Leave(c)
  /\ UNCHANGED <<lock, data, asked, holder, lease, window, made>>

\* this.set(key): the value is stored and will be returned.
Publish(c) ==
  /\ pc[c] = "publishing"
  /\ cache' = [cache EXCEPT ![ReadScope(c)] = Put(made[c], CacheTTL)]
  /\ got' = [got EXCEPT ![c] = made[c]]
  /\ Leave(c)
  /\ UNCHANGED <<lock, data, asked, holder, lease, window, made>>

\* The factory or the SET throws: getOrSet throws, after its finally block.
FactoryOrPublishFails(c) ==
  /\ MayFail
  /\ pc[c] \in {"computing", "publishing"}
  /\ Leave(c)
  /\ UNCHANGED <<cache, lock, data, asked, holder, lease, window, made, got>>

\* A mutant: the lock is deleted whoever holds it.
ReleaseWithoutToken(c) ==
  /\ pc[c] = "releasing"
  /\ lock' = Missing
  /\ holder' = holder \ {c}
  /\ GoTo(c, "done")
  /\ UNCHANGED <<cache, data, asked, lease, window, made, got>>

\* safeRelease: the release script runs.
Release(c) ==
  /\ pc[c] = "releasing"
  /\ lock' = IF Live(lock) /\ lock.val = Token(c) THEN Missing ELSE lock
  /\ holder' = holder \ {c}
  /\ GoTo(c, "done")
  /\ UNCHANGED <<cache, data, asked, lease, window, made, got>>

\* safeRelease swallows an error of the script, any other command's error ends
\* the call, and so does the death of the process.
Abandon(c) ==
  /\ MayFail
  /\ pc[c] \notin {"start", "done"}
  /\ GoTo(c, "done")
  /\ holder' = holder \ {c}
  /\ UNCHANGED <<cache, lock, data, asked, lease, window, made, got>>

\* A service writes the data and emits its event.
WriteSource ==
  /\ source < MaxWrites
  /\ source' = source + 1
  /\ pending' = pending + 1
  /\ UNCHANGED <<cache, lock, pc, asked, holder, lease, window, made, got>>

\* CacheInvalidationListener: invalidateKey deletes the key it is given.
Invalidate ==
  /\ pending > 0
  /\ pending' = pending - 1
  /\ cache' = [cache EXCEPT ![Raw] = Missing]
  /\ UNCHANGED <<lock, source, pc, asked, holder, lease, window, made, got>>

Less(n) == IF n > 0 THEN n - 1 ELSE 0

\* A mutant: the value is stored without an expiry.
TickWithoutCacheExpiry ==
  /\ lock' = Aged(lock)
  /\ lease' = [c \in Callers |-> Less(lease[c])]
  /\ window' = [c \in Callers |-> Less(window[c])]
  /\ UNCHANGED <<cache, data, pc, asked, holder, made, got>>

\* A mutant: the deadline moves on with every turn of the polling loop.
TickWithSlidingDeadline ==
  /\ cache' = [s \in Scopes |-> Aged(cache[s])]
  /\ lock' = Aged(lock)
  /\ lease' = [c \in Callers |-> Less(lease[c])]
  /\ UNCHANGED <<window, data, pc, asked, holder, made, got>>

\* Time passes, at Redis and for those who poll.
Tick ==
  /\ cache' = [s \in Scopes |-> Aged(cache[s])]
  /\ lock' = Aged(lock)
  /\ lease' = [c \in Callers |-> Less(lease[c])]
  /\ window' = [c \in Callers |-> Less(window[c])]
  /\ UNCHANGED <<data, pc, asked, holder, made, got>>

\* The steps of the service itself.
Serve(c) == \/ Get(c) \/ AcquireLock(c) \/ StartFactory(c) \/ Recheck(c)
            \/ PollHit(c) \/ FallBack(c) \/ FallBackBlindly(c)
            \/ Publish(c) \/ Release(c)

Next == \/ Tick \/ WriteSource \/ Invalidate
        \/ \E c \in Callers : \/ Serve(c) \/ RunFactory(c)
                              \/ FactoryOrPublishFails(c) \/ Abandon(c)

Spec == Init /\ [][Next]_vars

\* Redis answers, clocks run, events are handled; a factory may never end.
FairSpec == /\ Spec
            /\ WF_vars(Tick) /\ WF_vars(Invalidate)
            /\ \A c \in Callers : WF_vars(Serve(c))

-----------------------------------------------------------------------------
\* Where the lock service sees each caller.
LockPhase(c) ==
  CASE pc[c] = "locking"   -> "acquiring"
    [] pc[c] = "acquired"  -> "granted"
    [] pc[c] = "contended" -> "refused"
    [] c \in holder        -> IF pc[c] = "releasing" THEN "releasing" ELSE "in_fn"
    [] OTHER               -> "idle"

Lock == INSTANCE DistributedLock
          WITH Keys     <- {Raw},
               TTL      <- LockTTL,
               MaxCalls <- 1,
               store    <- [k \in {Raw} |-> lock],
               pc       <- [c \in Callers |-> LockPhase(c)],
               key      <- [c \in Callers |-> Raw],
               calls    <- [c \in Callers |-> IF c \in asked THEN 1 ELSE 0]

\* getOrSet is a client the lock service was made for: it releases only what
\* it was granted, once, after its factory, and nothing else touches the lock;
\* what DistributedLock promises, it promises around the factory.
UsesLockProperly == Lock!Spec

\* "they fall back to local computation only if the lock holder fails to
\* publish within that window": a caller runs the factory a second time only
\* when its own cache entry is missing at the end of its waiting.
FallsBackOnlyIfUnpublished ==
  [][\A c \in Callers :
       pc[c] = "polling" /\ pc'[c] = "computing" => ~Live(cache[ScopeOf[c]])]_vars

\* Whatever becomes of the lock holder, a caller does not poll for ever.
NobodyPollsForEver ==
  \A c \in Callers : pc[c] = "polling" ~> pc[c] # "polling"

\* Once the data is written no more, old values disappear from every scope,
\* also those that were published after their invalidation.
StaleValuesDieOut ==
  <>[](\A s \in Scopes : Live(cache[s]) => cache[s].val.version = source)

\* "only one caller in the fleet runs the factory for a given key": with the
\* lock in hand, the factory is not started for a value that is there.
OneFactoryRun ==
  [][\A c \in Callers :
       pc[c] = "acquired" /\ pc'[c] = "computing" => ~Live(cache[ScopeOf[c]])]_vars

\* "clears stale entries on write": once the events of all writes have been
\* handled, no old value is served.
InvalidationClearsStale ==
  pending = 0 => \A s \in Scopes : Live(cache[s]) => cache[s].val.version = source
=============================================================================
