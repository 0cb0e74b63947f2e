----------------------------- MODULE Idempotency -----------------------------
(***************************************************************************)
(* IdempotencyInterceptor with IdempotencyService: requests that carry the *)
(* same idempotency key, on any number of server instances.  They meet in  *)
(* two Redis entries, the record (the stored response) and the lock.  pc   *)
(* is the await a request is suspended at; every action is what happens    *)
(* between two of them.  The key is the same for all requests here, for    *)
(* requests with different scope keys share nothing.                       *)
(***************************************************************************)
EXTENDS RedisStore

CONSTANTS Requests,
          Fingerprints,   \* hashes of method, route and payload
          Fingerprint,    \* the fingerprint of each request
          LockTTL,        \* lockTtlMs, in time units
          RecordTTL,      \* ttl of the stored response
          WaitTimeout,    \* waitTimeoutMs
          MayFail         \* whether Redis commands and instances may fail

ASSUME FingerprintAssumption == Fingerprint \in [Requests -> Fingerprints]
ASSUME TTLAssumption == /\ LockTTL \in Nat \ {0}
                        /\ RecordTTL \in Nat \ {0}
                        /\ WaitTimeout \in Nat
ASSUME MayFailAssumption == MayFail \in BOOLEAN

VARIABLES record,    \* Redis: idempotency:record:<key>
          lock,      \* Redis: idempotency:lock:<key>
          pc,        \* where each request is suspended
          wait,      \* what is left of the request's waiting time
          lease,     \* what is left of the lock TTL it was given; no code reads it
          release,   \* requests whose DEL of the lock is under way
          effects,   \* requests whose handler did its work
          result,    \* the response each request got
          body       \* the request whose handler produced that response

idempotencyVars == <<record, lock, pc, wait, lease, release, effects, result, body>>

\* The two kinds of payload stored: a lock record has no statusCode and no
\* cachedAt.  `by` is the request that wrote it, which the code does not store.
Stored == [kind : {"record", "lock"}, fingerprint : Fingerprints, by : Requests]

RecordOf(r) == [kind |-> "record", fingerprint |-> Fingerprint[r], by |-> r]
LockOf(r)   == [kind |-> "lock", fingerprint |-> Fingerprint[r], by |-> r]

Phases == {"arrived", "locking", "contending", "deleting", "waiting",
           "handling", "saving", "detached", "done"}

Results == {"none", "fresh", "replayed", "conflict", "busy", "error",
            "timeout", "lost"}

Entries(T) == [val : Stored \cup {NoValue}, ttl : 0..T]

IdempotencyTypeOK == /\ record \in Entries(RecordTTL)
                     /\ lock \in Entries(LockTTL)
                     /\ pc \in [Requests -> Phases]
                     /\ wait \in [Requests -> 0..WaitTimeout]
                     /\ lease \in [Requests -> 0..LockTTL]
                     /\ release \in SUBSET Requests
                     /\ effects \in SUBSET Requests
                     /\ result \in [Requests -> Results]
                     /\ body \in [Requests -> Requests]

IdempotencyInit == /\ record = Missing
                   /\ lock = Missing
                   /\ pc = [r \in Requests |-> "arrived"]
                   /\ wait = [r \in Requests |-> 0]
                   /\ lease = [r \in Requests |-> 0]
                   /\ release = {}
                   /\ effects = {}
                   /\ result = [r \in Requests |-> "none"]
                   /\ body = [r \in Requests |-> r]

-----------------------------------------------------------------------------
GoTo(r, phase) == pc' = [pc EXCEPT ![r] = phase]

\* The request is over, with the response res if its client still waits for one.
Answer(r, res) == /\ GoTo(r, "done")
                  /\ result' = [result EXCEPT ![r] = IF @ = "none" THEN res ELSE @]

\* isValidRecordShape, used for both kinds of payload: statusCode and cachedAt
\* must be there.
IsValidRecordShape(v) == v.kind = "record"

\* A mutant: no assertFingerprintMatch.
ReplayUnchecked(r) ==
  /\ Answer(r, "replayed")
  /\ body' = [body EXCEPT ![r] = record.val.by]

\* A record was found: assertFingerprintMatch, then applyCachedResponse.
Replay(r) ==
  /\ Answer(r, IF record.val.fingerprint = Fingerprint[r] THEN "replayed" ELSE "conflict")
  /\ body' = [body EXCEPT ![r] = record.val.by]

\* getRecord: a record, or null when there is none.
Lookup(r) ==
  /\ pc[r] = "arrived"
  /\ IF Live(record)
     THEN Replay(r)
     ELSE GoTo(r, "locking") /\ UNCHANGED <<result, body>>
  /\ UNCHANGED <<record, lock, wait, lease, release, effects>>

\* getRecord catches an error of the GET and answers null as well.
LookupFails(r) ==
  /\ MayFail
  /\ pc[r] = "arrived"
  /\ GoTo(r, "locking")
  /\ UNCHANGED <<record, lock, wait, lease, release, effects, result, body>>

\* acquireLock: with the lock the handler starts, unless the request has timed
\* out: then no one subscribes to the stream, neither handler nor finalize runs.
AcquireLock(r) ==
  LET free == ~Live(lock)
      next == IF result[r] = "none" THEN "handling" ELSE "done"
  IN  /\ pc[r] = "locking"
      /\ lock' = SetNX(lock, LockOf(r), LockTTL)
      /\ lease' = [lease EXCEPT ![r] = IF free THEN LockTTL ELSE 0]
      /\ GoTo(r, IF free THEN next ELSE "contending")
      /\ UNCHANGED <<record, wait, release, effects, result, body>>

\* acquireLock catches an error and answers false, whether the SET ran or not.
AcquireLockFails(r) ==
  /\ MayFail
  /\ pc[r] = "locking"
  /\ lock' \in {lock, SetNX(lock, LockOf(r), LockTTL)}
  /\ GoTo(r, "contending")
  /\ UNCHANGED <<record, wait, lease, release, effects, result, body>>

StartWaiting(r) == GoTo(r, "waiting") /\ wait' = [wait EXCEPT ![r] = WaitTimeout]

\* getLockRecord: null, a payload that parses, or one that is "malformed".
GetLockRecord(r) ==
  LET valid    == Live(lock) /\ IsValidRecordShape(lock.val)
      mismatch == valid /\ lock.val.fingerprint # Fingerprint[r]
  IN  /\ pc[r] = "contending"
      /\ IF Live(lock) /\ ~valid
         THEN GoTo(r, "deleting") /\ UNCHANGED <<wait, result>>
         ELSE IF mismatch
              THEN Answer(r, "conflict") /\ UNCHANGED wait
              ELSE StartWaiting(r) /\ UNCHANGED result
      /\ UNCHANGED <<record, lock, lease, release, effects, body>>

\* deleteLockRecord, or its error, or an error of the GET before it.
DeleteLockRecord(r) ==
  /\ pc[r] = "deleting"
  /\ lock' \in {Missing} \cup (IF MayFail THEN {lock} ELSE {})
  /\ StartWaiting(r)
  /\ UNCHANGED <<record, lease, release, effects, result, body>>

\* One turn of waitForRecord that finds the record; the others change nothing.
Poll(r) ==
  /\ pc[r] = "waiting"
  /\ wait[r] > 0
  /\ Live(record)
  /\ Replay(r)
  /\ UNCHANGED <<record, lock, wait, lease, release, effects>>

\* A mutant: waiting ends only while someone holds the lock.
GiveUpWhileLocked(r) ==
  /\ pc[r] = "waiting"
  /\ wait[r] = 0
  /\ Live(lock)
  /\ Answer(r, "busy")
  /\ UNCHANGED <<record, lock, wait, lease, release, effects, body>>

\* waitForRecord ran out of time: "Request is being processed, please retry".
GiveUp(r) ==
  /\ pc[r] = "waiting"
  /\ wait[r] = 0
  /\ Answer(r, "busy")
  /\ UNCHANGED <<record, lock, wait, lease, release, effects, body>>

\* The handler's work is done.  When no one listens any more (the request
\* timed out) nothing follows; else mergeMap sends the SET of saveRecord.
HandlerSucceeds(r) ==
  /\ pc[r] \in {"handling", "detached"}
  /\ effects' = effects \cup {r}
  /\ GoTo(r, IF pc[r] = "handling" THEN "saving" ELSE "done")
  /\ UNCHANGED <<record, lock, wait, lease, release, result, body>>

\* The stream ends with the response res and finalize sends the DEL of the
\* lock; after a timeout both have happened already.
Finalize(r, res) ==
  IF result[r] = "none"
  THEN /\ result' = [result EXCEPT ![r] = res]
       /\ release' = release \cup {r}
  ELSE UNCHANGED <<result, release>>

\* A mutant: an error response is saved like any other.
HandlerFailsSaved(r) ==
  /\ pc[r] \in {"handling", "detached"}
  /\ GoTo(r, "saving")
  /\ UNCHANGED <<record, lock, wait, lease, release, effects, result, body>>

\* The handler throws: no record is saved.
HandlerFails(r) ==
  /\ pc[r] \in {"handling", "detached"}
  /\ GoTo(r, "done")
  /\ Finalize(r, "error")
  /\ UNCHANGED <<record, lock, wait, lease, effects, body>>

\* saveRecord runs, or fails and swallows the error; then the response goes
\* out.
SaveRecord(r) ==
  /\ pc[r] = "saving"
  /\ record' \in {Put(RecordOf(r), RecordTTL)} \cup (IF MayFail THEN {record} ELSE {})
  /\ GoTo(r, "done")
  /\ Finalize(r, "fresh")
  /\ UNCHANGED <<lock, wait, lease, effects, body>>

\* RequestTimeoutInterceptor, registered around this one, answers 504 and
\* unsubscribes.  finalize sends the DEL once there is a stream; what is under
\* way (a command, the waiting, the handler) runs on.
RequestTimeout(r) ==
  /\ pc[r] # "done"
  /\ result[r] = "none"
  /\ result' = [result EXCEPT ![r] = "timeout"]
  /\ release' = IF pc[r] \in {"handling", "saving"} THEN release \cup {r} ELSE release
  /\ pc' = [pc EXCEPT ![r] = IF @ = "handling" THEN "detached" ELSE @]
  /\ UNCHANGED <<record, lock, wait, lease, effects, body>>

\* releaseLock: DEL whatever lock is there.
ReleaseLock(r) ==
  /\ r \in release
  /\ lock' = Missing
  /\ release' = release \ {r}
  /\ UNCHANGED <<record, pc, wait, lease, effects, result, body>>

\* releaseLock swallows an error of the DEL.
ReleaseLockFails(r) ==
  /\ MayFail
  /\ r \in release
  /\ release' = release \ {r}
  /\ UNCHANGED <<record, lock, pc, wait, lease, effects, result, body>>

\* The server instance dies with the request.
Crash(r) ==
  /\ MayFail
  /\ pc[r] # "done" \/ r \in release
  /\ GoTo(r, "done")
  /\ result' = [result EXCEPT ![r] = IF @ = "none" THEN "lost" ELSE @]
  /\ release' = release \ {r}
  /\ UNCHANGED <<record, lock, wait, lease, effects, body>>

Less(n) == IF n > 0 THEN n - 1 ELSE 0

\* Time passes, at Redis and for those who wait.
RedisTick ==
  /\ record' = Aged(record)
  /\ lock' = Aged(lock)
  /\ wait' = [r \in Requests |-> Less(wait[r])]
  /\ lease' = [r \in Requests |-> Less(lease[r])]
  /\ UNCHANGED <<pc, release, effects, result, body>>

\* The steps of the interceptor itself.
Serve(r) == \/ Lookup(r) \/ LookupFails(r)
            \/ AcquireLock(r) \/ AcquireLockFails(r)
            \/ GetLockRecord(r) \/ DeleteLockRecord(r)
            \/ Poll(r) \/ GiveUp(r)
            \/ SaveRecord(r) \/ ReleaseLock(r) \/ ReleaseLockFails(r)

Handle(r) == HandlerSucceeds(r) \/ HandlerFails(r)

IdempotencyNext == \/ RedisTick
                   \/ \E r \in Requests : \/ Serve(r) \/ Handle(r)
                                          \/ RequestTimeout(r) \/ Crash(r)

IdempotencySpec == IdempotencyInit /\ [][IdempotencyNext]_idempotencyVars

\* Redis answers or fails each command and clocks run; nothing makes a handler
\* end, nor does a request rely on its timeout.
IdempotencyFairSpec == /\ IdempotencySpec
                       /\ WF_idempotencyVars(RedisTick)
                       /\ \A r \in Requests : WF_idempotencyVars(Serve(r))

-----------------------------------------------------------------------------
\* A client is never served another payload's response, nor one that no
\* handler produced: whatever was overwritten, deleted or expired meanwhile,
\* the response it gets was made by a handler that did its work, for a request
\* with the same fingerprint.
AnswersAreBacked ==
  \A r \in Requests :
    result[r] \in {"fresh", "replayed"} =>
      /\ body[r] \in effects
      /\ Fingerprint[body[r]] = Fingerprint[r]

\* What AnswersAreBacked rests on, first: only a handler that did its work
\* goes on to save its response.
SavingAfterEffect == \A r \in Requests : pc[r] = "saving" => r \in effects

\* What it rests on, second: a stored response is one of a handler that
\* did its work, under that handler's own fingerprint.
RecordIsBacked ==
  Live(record) => /\ record.val.by \in effects
                  /\ record.val.fingerprint = Fingerprint[record.val.by]

\* Nothing but its own handler keeps a client without an answer for ever: not a
\* handler of another request that never ends, not a lock that is never
\* released, not a Redis that fails.
OnlyHandlersBlock ==
  \A r \in Requests : <>[](result[r] # "none" \/ pc[r] = "handling")

\* "Acquire lock: Prevent concurrent processing of same key": two handlers run
\* at once only when the lock of one has outlived its TTL.
ExclusiveWhileLocked ==
  \A q, r \in Requests :
    q # r /\ pc[q] = "handling" /\ pc[r] = "handling" =>
      lease[q] = 0 \/ lease[r] = 0

\* "Duplicate request (same key): Returns cached response without
\* re-processing": no handler starts while there is a stored response.
NoReprocessing ==
  [][\A r \in Requests :
       pc[r] # "handling" /\ pc'[r] = "handling" => ~Live(record)]_idempotencyVars

\* "Storage failure: Gracefully degrades (errors logged, request continues)":
\* a request is told that it is being processed only when another one was.
BusyOnlyBehindAnother ==
  \A r \in Requests :
    result[r] = "busy" =>
      \E q \in Requests \ {r} :
        \/ pc[q] \in {"handling", "saving", "detached"}
        \/ result[q] \in {"fresh", "error", "timeout", "lost"}
=============================================================================
