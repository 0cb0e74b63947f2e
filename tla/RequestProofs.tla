--------------------------- MODULE RequestProofs ----------------------------
(***************************************************************************)
(* What a request meets before its handler: the idempotency interceptor,   *)
(* for any requests, fingerprints and TTLs, and the quota, for any         *)
(* workers, clients, periods and limits.                                   *)
(***************************************************************************)
EXTENDS Idempotency, Quota, FiniteSetTheorems, TLAPS

-----------------------------------------------------------------------------
(* IdempotencyInterceptor. *)

\* The entries that the commands of the service leave behind are entries.
LEMMA RecordEntries ==
  ASSUME NEW e \in Entries(RecordTTL), NEW r \in Requests
  PROVE  /\ Missing \in Entries(RecordTTL)
         /\ Aged(e) \in Entries(RecordTTL)
         /\ Put(RecordOf(r), RecordTTL) \in Entries(RecordTTL)
BY TTLAssumption, FingerprintAssumption
   DEF Entries, Missing, Aged, Put, RecordOf, Stored

LEMMA LockEntries ==
  ASSUME NEW e \in Entries(LockTTL), NEW r \in Requests
  PROVE  /\ Missing \in Entries(LockTTL)
         /\ Aged(e) \in Entries(LockTTL)
         /\ SetNX(e, LockOf(r), LockTTL) \in Entries(LockTTL)
BY TTLAssumption, FingerprintAssumption
   DEF Entries, Missing, Aged, SetNX, Put, Live, LockOf, Stored

-----------------------------------------------------------------------------
\* A request that is not over was not served a response, its own or another's.
OwnBodyUntilDone ==
  \A r \in Requests : pc[r] # "done" => body[r] = r /\ result[r] \in {"none", "timeout"}

\* The inductive invariant.  Types alone are not inductive: that the response
\* served comes from a request (body) needs that a live record has a writer.
IdempotencyInv == /\ IdempotencyTypeOK
        /\ OwnBodyUntilDone
        /\ SavingAfterEffect
        /\ RecordIsBacked
        /\ AnswersAreBacked

LEMMA IdempotencyInitInv == IdempotencyInit => IdempotencyInv
BY TTLAssumption
   DEF IdempotencyInit, IdempotencyInv, IdempotencyTypeOK, SavingAfterEffect,
       OwnBodyUntilDone, RecordIsBacked,
       AnswersAreBacked,
       Entries, Missing, Live, Phases, Results

\* Serving a live record keeps the invariant: the one step that hands one
\* request's response to another.
LEMMA ReplayInv ==
  ASSUME IdempotencyInv, NEW r \in Requests, pc[r] # "done", Live(record), Replay(r),
         UNCHANGED <<record, lock, wait, lease, release, effects>>
  PROVE  IdempotencyInv'
<1> USE DEF IdempotencyInv, IdempotencyTypeOK
<1>1. record.val.by \in effects /\ record.val.fingerprint = Fingerprint[record.val.by]
  BY DEF RecordIsBacked
<1>2. IdempotencyTypeOK'
  BY <1>1 DEF Replay, Answer, GoTo, Phases, Results
<1>3. SavingAfterEffect' /\ OwnBodyUntilDone' /\ RecordIsBacked'
  BY DEF Replay, Answer, GoTo, SavingAfterEffect, OwnBodyUntilDone, RecordIsBacked
<1>4. AnswersAreBacked'
  <2>1. \A q \in Requests \ {r} : result'[q] = result[q] /\ body'[q] = body[q]
    BY DEF Replay, Answer
  <2>2. body'[r] = record.val.by
    BY DEF Replay
  <2>3. result'[r] = "replayed" => record.val.fingerprint = Fingerprint[r]
    BY DEF Replay, Answer, OwnBodyUntilDone
  <2>4. result'[r] # "fresh"
    BY DEF Replay, Answer, OwnBodyUntilDone
  <2> QED
    BY <1>1, <2>1, <2>2, <2>3, <2>4 DEF AnswersAreBacked
<1> QED
  BY <1>2, <1>3, <1>4

\* Every step keeps the invariant.
LEMMA IdempotencyStepInv == IdempotencyInv /\ [IdempotencyNext]_idempotencyVars => IdempotencyInv'
<1> SUFFICES ASSUME IdempotencyInv, [IdempotencyNext]_idempotencyVars PROVE IdempotencyInv'
  OBVIOUS
<1> USE TTLAssumption, FingerprintAssumption, MayFailAssumption
        DEF IdempotencyInv, IdempotencyTypeOK, GoTo, Phases, Results
<1>1. ASSUME NEW r \in Requests, Lookup(r) PROVE IdempotencyInv'
  <2>1. CASE Live(record)
    BY <1>1, <2>1, ReplayInv DEF Lookup
  <2>2. CASE ~Live(record)
    BY <1>1, <2>2
       DEF Lookup, SavingAfterEffect, OwnBodyUntilDone, RecordIsBacked, AnswersAreBacked
  <2> QED
    BY <2>1, <2>2
<1>2. ASSUME NEW r \in Requests, LookupFails(r) PROVE IdempotencyInv'
  BY <1>2 DEF LookupFails, SavingAfterEffect, OwnBodyUntilDone, RecordIsBacked, AnswersAreBacked
<1>3. ASSUME NEW r \in Requests, AcquireLock(r) \/ AcquireLockFails(r) PROVE IdempotencyInv'
  <2>1. lock' \in Entries(LockTTL)
    <3>1. lock' \in {lock, SetNX(lock, LockOf(r), LockTTL)}
      BY <1>3 DEF AcquireLock, AcquireLockFails
    <3> QED
      BY <3>1, LockEntries
  <2>2. lease' \in [Requests -> 0..LockTTL]
    BY <1>3 DEF AcquireLock, AcquireLockFails
  <2>3. UNCHANGED <<record, wait, release, effects, result, body>>
    BY <1>3 DEF AcquireLock, AcquireLockFails
  <2>4. /\ pc' \in [Requests -> Phases]
        /\ \A q \in Requests : /\ pc'[q] = "saving" => pc[q] = "saving"
                               /\ pc'[q] # "done" => pc[q] # "done"
    BY <1>3 DEF AcquireLock, AcquireLockFails
  <2>5. IdempotencyTypeOK'
    BY <2>1, <2>2, <2>3, <2>4
  <2>6. SavingAfterEffect' /\ OwnBodyUntilDone'
    BY <2>3, <2>4 DEF SavingAfterEffect, OwnBodyUntilDone
  <2>7. RecordIsBacked' /\ AnswersAreBacked'
    BY <2>3 DEF RecordIsBacked, AnswersAreBacked
  <2> QED
    BY <2>5, <2>6, <2>7
<1>4. ASSUME NEW r \in Requests, GetLockRecord(r) PROVE IdempotencyInv'
  <2>1. UNCHANGED <<record, lock, lease, release, effects, body>>
    BY <1>4 DEF GetLockRecord
  <2>2. /\ pc' \in [Requests -> Phases]
        /\ \A q \in Requests : /\ pc'[q] = "saving" => pc[q] = "saving"
                               /\ pc'[q] # "done" => pc[q] # "done"
    BY <1>4 DEF GetLockRecord, Answer, StartWaiting
  <2>3. wait' \in [Requests -> 0..WaitTimeout]
    BY <1>4 DEF GetLockRecord, StartWaiting
  <2>4. /\ result' \in [Requests -> Results]
        /\ \A q \in Requests : /\ result'[q] \in {"fresh", "replayed"} => result'[q] = result[q]
                               /\ pc'[q] # "done" => result'[q] = result[q]
    BY <1>4 DEF GetLockRecord, Answer
  <2>5. IdempotencyTypeOK'
    BY <2>1, <2>2, <2>3, <2>4
  <2>6. SavingAfterEffect' /\ OwnBodyUntilDone'
    BY <2>1, <2>2, <2>4 DEF SavingAfterEffect, OwnBodyUntilDone
  <2>7. RecordIsBacked' /\ AnswersAreBacked'
    BY <2>1, <2>4 DEF RecordIsBacked, AnswersAreBacked
  <2> QED
    BY <2>5, <2>6, <2>7
<1>5. ASSUME NEW r \in Requests, DeleteLockRecord(r) PROVE IdempotencyInv'
  <2>1. lock' \in Entries(LockTTL)
    BY <1>5, LockEntries DEF DeleteLockRecord
  <2> QED
    BY <1>5, <2>1 DEF DeleteLockRecord, StartWaiting,
                      SavingAfterEffect, OwnBodyUntilDone, RecordIsBacked, AnswersAreBacked
<1>6. ASSUME NEW r \in Requests, Poll(r) PROVE IdempotencyInv'
  BY <1>6, ReplayInv DEF Poll
<1>7. ASSUME NEW r \in Requests, GiveUp(r) PROVE IdempotencyInv'
  BY <1>7 DEF GiveUp, Answer, SavingAfterEffect, OwnBodyUntilDone, RecordIsBacked,
     AnswersAreBacked
<1>8. ASSUME NEW r \in Requests, HandlerSucceeds(r) PROVE IdempotencyInv'
  BY <1>8 DEF HandlerSucceeds, SavingAfterEffect, OwnBodyUntilDone, RecordIsBacked,
     AnswersAreBacked
<1>9. ASSUME NEW r \in Requests, HandlerFails(r) PROVE IdempotencyInv'
  BY <1>9 DEF HandlerFails, Finalize,
              SavingAfterEffect, OwnBodyUntilDone, RecordIsBacked, AnswersAreBacked
<1>10. ASSUME NEW r \in Requests, SaveRecord(r) PROVE IdempotencyInv'
  <2>1. r \in effects /\ body[r] = r
    BY <1>10 DEF SaveRecord, SavingAfterEffect, OwnBodyUntilDone
  <2>2. record' \in Entries(RecordTTL)
    BY <1>10, RecordEntries DEF SaveRecord
  <2>3. IdempotencyTypeOK'
    BY <1>10, <2>2 DEF SaveRecord, Finalize
  <2>4. SavingAfterEffect' /\ OwnBodyUntilDone'
    BY <1>10 DEF SaveRecord, Finalize, SavingAfterEffect, OwnBodyUntilDone
  <2>5. RecordIsBacked'
    <3>1. CASE record' = record
      BY <1>10, <3>1 DEF SaveRecord, RecordIsBacked
    <3>2. CASE record' = Put(RecordOf(r), RecordTTL)
      BY <1>10, <2>1, <3>2 DEF SaveRecord, RecordIsBacked, Put, RecordOf
    <3> QED
      BY <1>10, <3>1, <3>2 DEF SaveRecord
  <2>6. AnswersAreBacked'
    BY <1>10, <2>1 DEF SaveRecord, Finalize, AnswersAreBacked
  <2> QED
    BY <2>3, <2>4, <2>5, <2>6
<1>11. ASSUME NEW r \in Requests, RequestTimeout(r) PROVE IdempotencyInv'
  BY <1>11 DEF RequestTimeout, Finalize,
               SavingAfterEffect, OwnBodyUntilDone, RecordIsBacked, AnswersAreBacked
<1>12. ASSUME NEW r \in Requests, ReleaseLock(r) \/ ReleaseLockFails(r) PROVE IdempotencyInv'
  <2>1. lock' \in Entries(LockTTL)
    BY <1>12, LockEntries DEF ReleaseLock, ReleaseLockFails
  <2> QED
    BY <1>12, <2>1 DEF ReleaseLock, ReleaseLockFails,
                       SavingAfterEffect, OwnBodyUntilDone, RecordIsBacked, AnswersAreBacked
<1>13. ASSUME NEW r \in Requests, Crash(r) PROVE IdempotencyInv'
  BY <1>13 DEF Crash, SavingAfterEffect, OwnBodyUntilDone, RecordIsBacked, AnswersAreBacked
<1>14. ASSUME RedisTick PROVE IdempotencyInv'
  <2>1. record' \in Entries(RecordTTL)
    BY <1>14 DEF RedisTick, Aged, Entries, Missing
  <2>2. lock' \in Entries(LockTTL)
    BY <1>14 DEF RedisTick, Aged, Entries, Missing
  <2>3. IdempotencyTypeOK'
    BY <1>14, <2>1, <2>2 DEF RedisTick, Less
  <2>4. Live(record') => Live(record) /\ record'.val = record.val
    BY <1>14 DEF RedisTick, Aged, Live, Missing, Entries
  <2> QED
    BY <1>14, <2>3, <2>4
       DEF RedisTick, SavingAfterEffect, OwnBodyUntilDone, RecordIsBacked, AnswersAreBacked
<1>15. CASE UNCHANGED idempotencyVars
  BY <1>15 DEF idempotencyVars, SavingAfterEffect, OwnBodyUntilDone, RecordIsBacked,
     AnswersAreBacked
<1> QED
  BY <1>1, <1>2, <1>3, <1>4, <1>5, <1>6, <1>7, <1>8, <1>9, <1>10, <1>11, <1>12,
     <1>13, <1>14, <1>15
     DEF IdempotencyNext, Serve, Handle

\* No client is ever served a response to another payload, or one that no
\* handler produced.
THEOREM AnswersTheorem == IdempotencySpec => []AnswersAreBacked
<1>1. IdempotencyInv => AnswersAreBacked
  BY DEF IdempotencyInv
<1> QED
  BY <1>1, IdempotencyInitInv, IdempotencyStepInv, PTL DEF IdempotencySpec

\* Types: among them that the response served has a maker among the requests.
THEOREM IdempotencyTypeCorrect == IdempotencySpec => []IdempotencyTypeOK
<1>1. IdempotencyInv => IdempotencyTypeOK
  BY DEF IdempotencyInv
<1> QED
  BY <1>1, IdempotencyInitInv, IdempotencyStepInv, PTL DEF IdempotencySpec

\* Every stored response is one of a handler that did its work, stored under
\* that handler's fingerprint.
THEOREM RecordTheorem == IdempotencySpec => []RecordIsBacked
<1>1. IdempotencyInv => RecordIsBacked
  BY DEF IdempotencyInv
<1> QED
  BY <1>1, IdempotencyInitInv, IdempotencyStepInv, PTL DEF IdempotencySpec

-----------------------------------------------------------------------------
(* QuotaTrackingService. *)

\* A load of at most 100 percent never raises a limit.
LEMMA AdjustedBelow ==
  ASSUME NEW p \in Period, NEW load \in Loads[p]
  PROVE  Adjusted(p, load) \in Nat /\ Adjusted(p, load) =< Limit[p]
<1>1. load \in 0..100 /\ Limit[p] \in Nat
  BY LimitAssumption
<1>2. \A l \in Nat, n \in 0..100 : (l * n) \div 100 \in Nat /\ (l * n) \div 100 =< l
  <2> TAKE l \in Nat, n \in 0..100
  <2>1. l * n \in Nat /\ l * n =< l * 100
    OBVIOUS
  <2> QED
    BY <2>1
<1> QED
  BY <1>1, <1>2 DEF Adjusted

LEMMA WindowEndType ==
  ASSUME NEW p \in Period, NEW now \in Nat
  PROVE  WindowEnd(p, now) \in Nat
<1>1. Length[p] \in Nat \ {0}
  BY PeriodAssumption
<1>2. \A n \in Nat, l \in Nat \ {0} : (n \div l) * l + l - 1 \in Nat
  OBVIOUS
<1> QED
  BY <1>1, <1>2 DEF WindowEnd

-----------------------------------------------------------------------------
\* What a copy still says of its row: the counter only grows, and ids are not used again.
CopyOK(c) == /\ c.id =< issued
             /\ \A r \in rows : r.id = c.id => /\ r.client = c.client
                                               /\ r.period = c.period
                                               /\ r.count >= c.count

InProgress(w) == op[w].at \in {"reading", "deleting", "saving"}

ReadingOK(w) == LET o == op[w]
                IN  /\ Len(o.read) < Len(Periods)
                    /\ o.now =< clock
                    /\ o.looked =< issued /\ o.expired =< issued
                    /\ \A p \in Period : \E load \in Loads[p] : o.limits[p] = Adjusted(p, load)
                    /\ \A i \in 1..Len(o.read) : CopyOK(o.read[i]) /\ o.read[i].period = Periods[i]
                    /\ \A i, j \in 1..Len(o.read) : o.read[i].id = o.read[j].id => i = j

DeletingOK(w) == /\ \A r \in rows : r.id = op[w].expired => r.end =< op[w].now
                 /\ \A r \in Own(w) : r.id = op[w].expired \/ r.id > op[w].looked

LeftOK(w) == /\ op[w].left # {}
             /\ \A s \in op[w].left : CopyOK(s)
             /\ \A s, t \in op[w].left : s.id = t.id => s = t

\* A request that found a row over one of its limits; it was full by that limit.
MarkingOK(w) ==
  \A s \in op[w].left : \E load \in Loads[s.period] : s.count >= Adjusted(s.period, load)

RequestsOK == \A w \in Workers :
                /\ InProgress(w) => ReadingOK(w)
                /\ op[w].at = "deleting" => DeletingOK(w)
                /\ op[w].at \in {"counting", "marking"} => LeftOK(w)
                /\ op[w].at = "marking" => MarkingOK(w)

\* The requests that may still be counted in the row of that id.
Engaged(id) ==
  {w \in Workers :
     \/ InProgress(w) /\ \E i \in 1..Len(op[w].read) : /\ op[w].read[i].id = id
                                                       /\ op[w].read[i].count < Limit[Periods[i]]
     \/ op[w].at = "counting" /\ \E s \in op[w].left : s.id = id}

RoomIsKept ==
  \A r \in rows : r.count + Cardinality(Engaged(r.id)) =< Limit[r.period] - 1 + Cardinality(Workers)

IInv == /\ TypeOK
        /\ RequestsOK
        /\ RoomIsKept
        /\ BlockedRowsWereFull
        /\ RefusedOnlyWhenRaced

LEMMA InitInv == Init => IInv
BY BoundAssumption
   DEF Init, IInv, TypeOK, RequestsOK, RoomIsKept, BlockedRowsWereFull, RefusedOnlyWhenRaced,
       InProgress, Times, Idle

\* Which record a request is at each place of its course.
LEMMA RequestTyped ==
  ASSUME TypeOK, NEW w \in Workers
  PROVE  /\ InProgress(w) => op[w] \in Reading /\ op[w] # Idle
         /\ op[w].at \in {"counting", "marking"} => op[w] \in Updating /\ op[w] # Idle
         /\ op[w].at = "idle" <=> op[w] = Idle
BY DEF TypeOK, InProgress, Reading, Updating, Idle

LEMMA CurrentType ==
  ASSUME TypeOK, RequestsOK, NEW w \in Workers, InProgress(w)
  PROVE  /\ op[w] \in Reading
         /\ Len(op[w].read) + 1 \in 1..Len(Periods)
         /\ Current(w) = Periods[Len(op[w].read) + 1] /\ Current(w) \in Period
<1>1. op[w] \in Reading /\ Len(op[w].read) \in Nat
  BY RequestTyped DEF Reading
<1>2. Len(op[w].read) < Len(Periods)
  BY DEF RequestsOK, ReadingOK
<1> QED
  BY <1>1, <1>2, PeriodAssumption DEF Current, Period

LEMMA Counting ==
  ASSUME NEW S \in SUBSET Workers
  PROVE  /\ IsFiniteSet(S)
         /\ Cardinality(S) \in Nat /\ Cardinality(Workers) \in Nat
         /\ Cardinality(S) =< Cardinality(Workers)
         /\ \A T \in SUBSET S : Cardinality(T) \in Nat /\ Cardinality(T) =< Cardinality(S)
         /\ \A x \in S : Cardinality(S \ {x}) = Cardinality(S) - 1
BY WorkersAssumption, FS_Subset, FS_CardinalityType, FS_RemoveElement

\* Room is kept when no request engages in a row, and none is counted.
LEMMA RoomMono ==
  ASSUME IInv, rows' \subseteq Rows,
         \A q \in rows' : \E r \in rows : r.id = q.id /\ r.period = q.period /\ r.count = q.count,
         \A id : Engaged(id)' \subseteq Engaged(id)
  PROVE  RoomIsKept'
<1> SUFFICES ASSUME NEW q \in rows'
             PROVE  q.count + Cardinality(Engaged(q.id)') =< Limit[q.period] - 1 + Cardinality(Workers)
  BY DEF RoomIsKept
<1>1. PICK r \in rows : r.id = q.id /\ r.period = q.period /\ r.count = q.count
  OBVIOUS
<1>2. r.count \in Nat /\ Limit[r.period] \in Nat
  BY LimitAssumption DEF IInv, TypeOK, Rows
<1>3. Engaged(r.id) \in SUBSET Workers /\ Engaged(q.id)' \in SUBSET Engaged(r.id)
  BY <1>1 DEF Engaged
<1>4. /\ Cardinality(Engaged(r.id)) \in Nat /\ Cardinality(Engaged(q.id)') \in Nat
      /\ Cardinality(Engaged(q.id)') =< Cardinality(Engaged(r.id))
      /\ Cardinality(Workers) \in Nat
  BY <1>3, Counting
<1>5. r.count + Cardinality(Engaged(r.id)) =< Limit[r.period] - 1 + Cardinality(Workers)
  BY DEF IInv, RoomIsKept
<1> QED
  BY <1>1, <1>2, <1>4, <1>5

\* A request that does not move keeps its facts when rows vanish and time passes.
LEMMA OthersOK ==
  ASSUME IInv, NEW v \in Workers, op'[v] = op[v],
         rows' \subseteq rows, issued' = issued, clock' >= clock, clock \in Int, clock' \in Int
  PROVE  /\ InProgress(v)' => ReadingOK(v)'
         /\ op'[v].at = "deleting" => DeletingOK(v)'
         /\ op'[v].at \in {"counting", "marking"} => LeftOK(v)'
         /\ op'[v].at = "marking" => MarkingOK(v)'
         /\ op'[v].at = "saving" => \A r \in Own(v)' : r.id > op'[v].looked
<1> USE DEF IInv
<1>1. \A c : CopyOK(c) => CopyOK(c)'
  BY DEF CopyOK
<1>2. InProgress(v)' => ReadingOK(v)'
  <2> SUFFICES ASSUME InProgress(v)
               PROVE  ReadingOK(v)'
    BY DEF InProgress
  <2>1. ReadingOK(v) /\ op[v] \in Reading
    BY RequestTyped DEF RequestsOK
  <2>2. op'[v].now =< clock'
    BY <2>1 DEF ReadingOK, Reading, Times
  <2> QED
    BY <1>1, <2>1, <2>2 DEF ReadingOK
<1>3. Own(v)' \subseteq Own(v)
  BY DEF Own, Current
<1>4. op'[v].at = "deleting" => DeletingOK(v)'
  BY <1>3 DEF RequestsOK, DeletingOK
<1>5. op'[v].at \in {"counting", "marking"} => LeftOK(v)'
  BY <1>1 DEF RequestsOK, LeftOK
<1>6. op'[v].at = "marking" => MarkingOK(v)'
  BY DEF RequestsOK, MarkingOK
<1>7. op'[v].at = "saving" => \A r \in Own(v)' : r.id > op'[v].looked
  BY <1>3 DEF RefusedOnlyWhenRaced
<1> QED
  BY <1>2, <1>4, <1>5, <1>6, <1>7

\* A request moves on without a row of its own being made or counted.
LEMMA MoveInv ==
  ASSUME IInv, NEW w \in Workers, \A v \in Workers : v # w => op'[v] = op[v],
         rows' \subseteq rows, issued' = issued, clock' = clock,
         begun' \in 0..MaxRequests,
         op' \in [Workers -> {Idle} \cup Reading \cup Updating],
         InProgress(w)' => ReadingOK(w)',
         InProgress(w)' => op'[w].read = <<>> \/ (InProgress(w) /\ op'[w].read = op[w].read),
         op'[w].at = "deleting" => DeletingOK(w)',
         op'[w].at = "saving" => \A r \in Own(w)' : r.id > op'[w].looked,
         op'[w].at \notin {"counting", "marking"}
  PROVE  IInv'
<1> USE DEF IInv
<1>1. TypeOK'
  BY DEF TypeOK
<1>2. clock \in Int
  BY DEF TypeOK, Times
<1>3. RequestsOK'
  BY <1>2, OthersOK DEF RequestsOK
<1>4. RefusedOnlyWhenRaced'
  BY <1>2, OthersOK DEF RefusedOnlyWhenRaced
<1>5. \A id : Engaged(id)' \subseteq Engaged(id)
  BY DEF Engaged, InProgress
<1>6. RoomIsKept'
  <2>1. rows' \subseteq Rows
    BY DEF TypeOK
  <2> QED
    BY <1>5, <2>1, RoomMono
<1>7. BlockedRowsWereFull'
  BY DEF BlockedRowsWereFull
<1> QED
  BY <1>1, <1>3, <1>4, <1>6, <1>7

LEMMA BeginInv ==
  ASSUME IInv, NEW w \in Workers, NEW client \in Clients, NEW loads, NEW status \in BOOLEAN,
         \A p \in Period : loads[p] \in Loads[p],
         Begin(w, client, loads, status)
  PROVE  IInv'
<1> DEFINE o == [at |-> "reading", client |-> client, status |-> status,
                 now |-> clock, limits |-> [p \in Period |-> Adjusted(p, loads[p])],
                 read |-> <<>>, expired |-> 0, looked |-> 0]
<1>1. op' = [op EXCEPT ![w] = o] /\ begun' = begun + 1 /\ begun < MaxRequests
      /\ UNCHANGED <<clock, rows, issued>>
  BY DEF Begin
<1>2. /\ o.at = "reading" /\ o.read = <<>> /\ o.now = clock /\ o.expired = 0 /\ o.looked = 0
      /\ \A p \in Period : o.limits[p] = Adjusted(p, loads[p])
  OBVIOUS
<1>3. o \in Reading
  <2>1. [p \in Period |-> Adjusted(p, loads[p])] \in [Period -> Nat]
    BY AdjustedBelow
  <2> QED
    BY <2>1 DEF Reading, IInv, TypeOK
<1> HIDE DEF o
<1>4. op'[w] = o /\ op' \in [Workers -> {Idle} \cup Reading \cup Updating]
  BY <1>1, <1>3 DEF IInv, TypeOK
<1>5. ReadingOK(w)'
  <2>1. Len(op'[w].read) = 0 /\ 0 < Len(Periods)
    BY <1>2, <1>4, PeriodAssumption
  <2>2. \A p \in Period : \E load \in Loads[p] : op'[w].limits[p] = Adjusted(p, load)
    BY <1>2, <1>4
  <2>3. op'[w].now =< clock' /\ op'[w].looked =< issued' /\ op'[w].expired =< issued'
    BY <1>1, <1>2, <1>4 DEF IInv, TypeOK, Times
  <2> QED
    BY <2>1, <2>2, <2>3 DEF ReadingOK
<1>6. begun' \in 0..MaxRequests
  BY <1>1, BoundAssumption DEF IInv, TypeOK
<1>7. \A v \in Workers : v # w => op'[v] = op[v]
  BY <1>1
<1> QED
  BY <1>1, <1>2, <1>4, <1>5, <1>6, <1>7, MoveInv

LEMMA CheckAndIncrementInv ==
  ASSUME IInv, NEW w \in Workers, NEW client \in Clients, NEW loads \in Readings,
         CheckAndIncrement(w, client, loads)
  PROVE  IInv'
BY BeginInv DEF CheckAndIncrement, Readings

LEMMA GetStatusInv ==
  ASSUME IInv, NEW w \in Workers, NEW client \in Clients, GetStatus(w, client)
  PROVE  IInv'
<1>1. \A p \in Period : [q \in Period |-> 100][p] \in Loads[p]
  BY LimitAssumption
<1> QED
  BY <1>1, BeginInv DEF GetStatus

LEMMA DeleteExpiredInv ==
  ASSUME IInv, NEW w \in Workers, DeleteExpired(w)
  PROVE  IInv'
<1>1. /\ op[w].at = "deleting" /\ op[w] \in Reading /\ InProgress(w)
      /\ op' = [op EXCEPT ![w].at = "saving"]
      /\ rows' = rows \ ExpiredRows(w)
      /\ UNCHANGED <<clock, begun, issued>>
  BY RequestTyped DEF DeleteExpired, InProgress, IInv
<1>2. /\ op' \in [Workers -> {Idle} \cup Reading \cup Updating]
      /\ op'[w] = [op[w] EXCEPT !.at = "saving"]
  BY <1>1 DEF IInv, TypeOK, Reading
<1>3. /\ op'[w].at = "saving" /\ op'[w].read = op[w].read /\ op'[w].now = op[w].now
      /\ op'[w].client = op[w].client /\ op'[w].limits = op[w].limits
      /\ op'[w].expired = op[w].expired /\ op'[w].looked = op[w].looked
  BY <1>1, <1>2 DEF Reading
<1>4. ReadingOK(w)'
  <2>1. ReadingOK(w)
    BY <1>1 DEF IInv, RequestsOK
  <2> QED
    BY <1>1, <1>3, <2>1 DEF ReadingOK, CopyOK
<1>5. \A r \in Own(w)' : r.id > op'[w].looked
  BY <1>1, <1>3 DEF Own, Current, ExpiredRows, IInv, RequestsOK, DeletingOK
<1>6. \A v \in Workers : v # w => op'[v] = op[v]
  BY <1>1
<1> QED
  BY <1>1, <1>2, <1>3, <1>4, <1>5, <1>6, MoveInv DEF IInv, TypeOK

LEMMA SaveRefusedInv ==
  ASSUME IInv, NEW w \in Workers, SaveRefused(w)
  PROVE  IInv'
<1>1. op' = [op EXCEPT ![w] = Idle] /\ UNCHANGED <<clock, rows, begun, issued>>
  BY DEF SaveRefused, Failed
<1>2. op'[w] = Idle /\ op' \in [Workers -> {Idle} \cup Reading \cup Updating]
  BY <1>1 DEF IInv, TypeOK
<1>3. op'[w].at = "idle"
  BY <1>2 DEF Idle
<1>4. \A v \in Workers : v # w => op'[v] = op[v]
  BY <1>1
<1> QED
  BY <1>1, <1>2, <1>3, <1>4, MoveInv DEF IInv, TypeOK, InProgress

LEMMA ResetInv ==
  ASSUME IInv, rows' \subseteq rows, UNCHANGED <<clock, op, begun, issued>>
  PROVE  IInv'
<1> USE DEF IInv
<1>1. TypeOK' /\ clock \in Int
  BY DEF TypeOK, Times
<1>2. \A v \in Workers : /\ InProgress(v)' => ReadingOK(v)'
                         /\ op'[v].at = "deleting" => DeletingOK(v)'
                         /\ op'[v].at \in {"counting", "marking"} => LeftOK(v)'
                         /\ op'[v].at = "marking" => MarkingOK(v)'
                         /\ op'[v].at = "saving" => \A r \in Own(v)' : r.id > op'[v].looked
  BY <1>1, OthersOK
<1>3. RequestsOK' /\ RefusedOnlyWhenRaced'
  BY <1>2 DEF RequestsOK, RefusedOnlyWhenRaced
<1>4. RoomIsKept'
  BY RoomMono DEF TypeOK, Engaged, InProgress
<1>5. BlockedRowsWereFull'
  BY DEF BlockedRowsWereFull
<1> QED
  BY <1>1, <1>3, <1>4, <1>5

LEMMA TickInv ==
  ASSUME IInv, Tick
  PROVE  IInv'
<1> USE DEF IInv
<1>1. /\ TypeOK' /\ clock \in Int /\ clock' \in Int /\ clock' >= clock
      /\ UNCHANGED <<rows, op, begun, issued>>
  BY BoundAssumption DEF Tick, TypeOK, Times
<1>2. RequestsOK'
  <2>1. \A w \in Workers : InProgress(w) => ReadingOK(w)'
    BY <1>1, RequestTyped DEF RequestsOK, ReadingOK, CopyOK, Reading, Times
  <2> QED
    BY <1>1, <2>1 DEF RequestsOK, InProgress, DeletingOK, Own, Current, LeftOK, MarkingOK,
       CopyOK
<1>3. RoomIsKept' /\ BlockedRowsWereFull' /\ RefusedOnlyWhenRaced'
  BY <1>1 DEF RoomIsKept, Engaged, InProgress, BlockedRowsWereFull, RefusedOnlyWhenRaced,
     Own, Current
<1> QED
  BY <1>1, <1>2, <1>3

\* What a request has in hand with one more row, before it decides.
LEMMA ReadOK ==
  ASSUME IInv, NEW w \in Workers, InProgress(w), NEW r \in Rows, r.period = Current(w),
         r \in rows \/ r.id = issued + 1,
         NEW o \in Reading, o.read = Append(op[w].read, r)
  PROVE  /\ Len(o.read) = Len(op[w].read) + 1 /\ Len(o.read) \in 1..Len(Periods)
         /\ o.read[Len(o.read)] = r
         /\ \A i \in 1..Len(op[w].read) : o.read[i] = op[w].read[i] /\ CopyOK(o.read[i])
         /\ \A i \in 1..Len(o.read) : o.read[i] \in Rows /\ o.read[i].period = Periods[i]
                                      /\ Periods[i] \in Period
         /\ \A i, j \in 1..Len(o.read) : o.read[i].id = o.read[j].id => i = j
<1> DEFINE k == Len(op[w].read)
<1>1. op[w].read \in Seq(Rows) /\ k \in Nat /\ k + 1 \in 1..Len(Periods) /\ Current(w) = Periods[k + 1]
  BY CurrentType DEF IInv, Reading
<1>2. /\ Len(o.read) = k + 1 /\ o.read[k + 1] = r
      /\ \A i \in 1..k : o.read[i] = op[w].read[i]
      /\ \A i \in 1..(k + 1) : o.read[i] \in Rows
  BY <1>1
<1>3. /\ \A i \in 1..k : CopyOK(op[w].read[i]) /\ op[w].read[i].period = Periods[i]
      /\ \A i, j \in 1..k : op[w].read[i].id = op[w].read[j].id => i = j
  BY DEF IInv, RequestsOK, ReadingOK
<1>4. \A i \in 1..(k + 1) : o.read[i].period = Periods[i] /\ Periods[i] \in Period
  <2>1. \A i \in 1..(k + 1) : i \in 1..k \/ i = k + 1
    BY <1>1
  <2>2. \A i \in 1..(k + 1) : i \in DOMAIN Periods
    BY <1>1, PeriodAssumption
  <2> QED
    BY <1>1, <1>2, <1>3, <2>1, <2>2 DEF Period
<1>5. \A i \in 1..k : o.read[i].id # r.id
  <2> SUFFICES ASSUME NEW i \in 1..k, op[w].read[i].id = r.id
               PROVE  FALSE
    BY <1>2
  <2>1. r \in rows
    <3>1. r.id =< issued
      BY <1>3 DEF CopyOK
    <3>2. issued \in Nat
      BY DEF IInv, TypeOK
    <3> QED
      BY <3>1, <3>2
  <2>2. Periods[i] = Periods[k + 1]
    BY <1>1, <1>3, <2>1 DEF CopyOK
  <2>3. i \in DOMAIN Periods /\ k + 1 \in DOMAIN Periods /\ i # k + 1
    BY <1>1, PeriodAssumption
  <2> QED
    BY <2>2, <2>3, PeriodAssumption
<1>6. \A i, j \in 1..(k + 1) : o.read[i].id = o.read[j].id => i = j
  <2>1. \A i \in 1..(k + 1) : i \in 1..k \/ i = k + 1
    BY <1>1
  <2> QED
    BY <1>2, <1>3, <1>5, <2>1
<1> QED
  BY <1>1, <1>2, <1>3, <1>4, <1>6

\* How a request goes on with one more row: it reads on, ends, is counted or marks.
LEMMA GotCases ==
  ASSUME IInv, NEW w \in Workers, InProgress(w), NEW r \in Rows, r.period = Current(w),
         r \in rows \/ r.id = issued + 1
  PROVE  \E o \in Reading :
           /\ o.at = "reading" /\ o.read = Append(op[w].read, r)
           /\ o.client = op[w].client /\ o.now = op[w].now /\ o.limits = op[w].limits
           /\ o.looked = 0 /\ o.expired = 0
           /\ \/ Got(w, r) = o /\ Len(o.read) < Len(Periods)
              \/ Got(w, r) = Idle
              \/ /\ Got(w, r) \in Updating /\ Got(w, r).at = "counting"
                 /\ Got(w, r).left = {o.read[i] : i \in 1..Len(o.read)}
                 /\ \A i \in 1..Len(o.read) : Within(o, o.read[i])
              \/ /\ Got(w, r) \in Updating /\ Got(w, r).at = "marking"
                 /\ \A s \in Got(w, r).left : \E i \in 1..Len(o.read) : s = o.read[i] /\ ~Within(o, s)
                 /\ Got(w, r).left # {}
<1> DEFINE o == [op[w] EXCEPT !.at = "reading", !.read = Append(@, r), !.expired = 0, !.looked = 0]
<1>1. op[w] \in Reading
  BY RequestTyped DEF IInv
<1>2. /\ o \in Reading
      /\ o.at = "reading" /\ o.read = Append(op[w].read, r)
      /\ o.client = op[w].client /\ o.now = op[w].now /\ o.limits = op[w].limits
      /\ o.looked = 0 /\ o.expired = 0
  <2>1. op[w].read \in Seq(Rows) /\ Append(op[w].read, r) \in Seq(Rows)
    BY <1>1 DEF Reading
  <2>2. o \in Reading
    BY <1>1, <2>1 DEF Reading
  <2>3. o.at = "reading" /\ o.read = Append(op[w].read, r) /\ o.looked = 0 /\ o.expired = 0
    BY <1>1 DEF Reading
  <2>4. o.client = op[w].client /\ o.now = op[w].now /\ o.limits = op[w].limits
    BY <1>1 DEF Reading
  <2> QED
    BY <2>2, <2>3, <2>4
<1>3. Got(w, r) = IF Len(o.read) < Len(Periods) THEN o ELSE Decided(o)
  BY DEF Got
<1> HIDE DEF o
<1> DEFINE windows == {o.read[i] : i \in 1..Len(o.read)}
           over == {s \in windows : ~Within(o, s)}
           refused == o.status \/ (\E s \in windows : IsBlocked(o, s))
<1>4. windows \subseteq Rows /\ DOMAIN o.read = 1..Len(o.read)
  <2>1. o.read \in Seq(Rows)
    BY <1>2 DEF Reading
  <2>2. \A i \in 1..Len(o.read) : o.read[i] \in Rows
    BY <2>1
  <2> QED
    BY <2>1, <2>2
<1>5. Decided(o) = CASE refused -> Idle
                     [] ~refused /\ over = {} -> [at |-> "counting", left |-> windows]
                     [] OTHER -> [at |-> "marking", left |-> over]
  <2>1. ~refused <=> ~o.status /\ \A s \in windows : ~IsBlocked(o, s)
    OBVIOUS
  <2> QED
    BY <1>4, <2>1 DEF Decided
<1>6. CASE Len(o.read) < Len(Periods)
  BY <1>2, <1>3, <1>6
<1>7. CASE ~(Len(o.read) < Len(Periods)) /\ refused
  BY <1>2, <1>3, <1>5, <1>7
<1>8. CASE ~(Len(o.read) < Len(Periods)) /\ ~refused /\ over = {}
  <2>1. Got(w, r) = [at |-> "counting", left |-> windows]
    BY <1>3, <1>5, <1>8
  <2>2. Got(w, r) \in Updating /\ Got(w, r).at = "counting" /\ Got(w, r).left = windows
    BY <1>4, <2>1 DEF Updating
  <2>3. \A i \in 1..Len(o.read) : Within(o, o.read[i])
    BY <1>8
  <2> QED
    BY <1>2, <2>2, <2>3
<1>9. CASE ~(Len(o.read) < Len(Periods)) /\ ~refused /\ over # {}
  <2>1. Got(w, r) = [at |-> "marking", left |-> over]
    BY <1>3, <1>5, <1>9
  <2>2. Got(w, r) \in Updating /\ Got(w, r).at = "marking" /\ Got(w, r).left = over
    BY <1>4, <2>1 DEF Updating
  <2>3. \A s \in over : \E i \in 1..Len(o.read) : s = o.read[i] /\ ~Within(o, s)
    OBVIOUS
  <2> QED
    BY <1>2, <1>9, <2>2, <2>3
<1> QED
  BY <1>6, <1>7, <1>8, <1>9

\* A request gets the row of its current period, found or new.
LEMMA GotInv ==
  ASSUME IInv, NEW w \in Workers, InProgress(w), NEW r \in Rows,
         r.client = op[w].client, r.period = Current(w),
         op' = [op EXCEPT ![w] = Got(w, r)], rows' = rows \cup {r},
         \/ r \in rows /\ issued' = issued
         \/ issued' = issued + 1 /\ r.id = issued + 1 /\ r.count = 0 /\ ~r.blocked /\ Own(w) = {},
         UNCHANGED <<clock, begun>>
  PROVE  IInv'
<1> USE DEF IInv
<1>1. PICK o \in Reading :
         /\ o.at = "reading" /\ o.read = Append(op[w].read, r)
         /\ o.client = op[w].client /\ o.now = op[w].now /\ o.limits = op[w].limits
         /\ o.looked = 0 /\ o.expired = 0
         /\ \/ Got(w, r) = o /\ Len(o.read) < Len(Periods)
            \/ Got(w, r) = Idle
            \/ /\ Got(w, r) \in Updating /\ Got(w, r).at = "counting"
               /\ Got(w, r).left = {o.read[i] : i \in 1..Len(o.read)}
               /\ \A i \in 1..Len(o.read) : Within(o, o.read[i])
            \/ /\ Got(w, r) \in Updating /\ Got(w, r).at = "marking"
               /\ \A s \in Got(w, r).left : \E i \in 1..Len(o.read) : s = o.read[i] /\ ~Within(o, s)
               /\ Got(w, r).left # {}
  BY GotCases
<1> DEFINE k == Len(op[w].read)
<1>2. /\ Len(o.read) = k + 1 /\ k + 1 \in 1..Len(Periods) /\ k \in Nat
      /\ o.read[k + 1] = r
      /\ \A i \in 1..k : o.read[i] = op[w].read[i] /\ CopyOK(o.read[i])
      /\ \A i \in 1..(k + 1) : o.read[i] \in Rows /\ o.read[i].period = Periods[i] /\ Periods[i] \in Period
      /\ \A i, j \in 1..(k + 1) : o.read[i].id = o.read[j].id => i = j
      /\ \A i \in 1..(k + 1) : i \in 1..k \/ i = k + 1
  <2>1. k \in Nat
    BY CurrentType DEF Reading
  <2>2. /\ Len(o.read) = k + 1 /\ Len(o.read) \in 1..Len(Periods)
        /\ o.read[Len(o.read)] = r
        /\ \A i \in 1..k : o.read[i] = op[w].read[i] /\ CopyOK(o.read[i])
        /\ \A i \in 1..Len(o.read) : o.read[i] \in Rows /\ o.read[i].period = Periods[i]
                                     /\ Periods[i] \in Period
        /\ \A i, j \in 1..Len(o.read) : o.read[i].id = o.read[j].id => i = j
    BY <1>1, ReadOK
  <2> HIDE DEF k
  <2> QED
    BY <2>1, <2>2
<1> HIDE DEF k
<1>3. op'[w] = Got(w, r) /\ \A v \in Workers : v # w => op'[v] = op[v]
  BY DEF TypeOK
<1>4. issued \in Nat /\ r.count \in Nat /\ r.id \in Nat /\ r.period \in Period /\ Limit[r.period] \in Nat \ {0}
  BY LimitAssumption DEF TypeOK, Rows
<1>5. TypeOK'
  <2>1. Got(w, r) \in {Idle} \cup Reading \cup Updating
    BY <1>1
  <2>2. \A q \in rows : /\ q.id =< issued /\ q.id \in Nat
                        /\ q.client = r.client /\ q.period = r.period => q \in Own(w)
    BY DEF TypeOK, Own, Rows
  <2>3. \A q, s \in rows' : q.id = s.id \/ (q.client = s.client /\ q.period = s.period) => q = s
    BY <1>4, <2>2 DEF TypeOK
  <2>4. \A q \in rows' : q.id =< issued'
    BY <1>4, <2>2
  <2> QED
    BY <1>4, <2>1, <2>3, <2>4 DEF TypeOK
<1>6. \A c : CopyOK(c) /\ c.id \in Int => CopyOK(c)'
  <2> SUFFICES ASSUME NEW c, CopyOK(c), c.id \in Int PROVE CopyOK(c)'
    OBVIOUS
  <2>1. c.id =< issued
    BY DEF CopyOK
  <2>2. c.id =< issued' /\ c.id # issued + 1
    BY <1>4, <2>1
  <2>3. ASSUME NEW q \in rows', q.id = c.id
        PROVE  q \in rows
    BY <1>4, <2>2, <2>3
  <2> QED
    BY <2>2, <2>3 DEF CopyOK
<1>7. CopyOK(r)'
  <2>1. r \in rows' /\ r.id =< issued'
    BY <1>4, <1>5 DEF TypeOK
  <2>2. \A q \in rows' : q.id = r.id => q = r
    BY <1>5, <2>1 DEF TypeOK
  <2>3. r.count \in Int
    BY <1>4 DEF Rows
  <2> QED
    BY <2>1, <2>2, <2>3 DEF CopyOK
<1>8. \A i \in 1..(k + 1) : CopyOK(o.read[i])'
  <2> TAKE i \in 1..(k + 1)
  <2>1. CASE i \in 1..k
    <3>1. CopyOK(o.read[i]) /\ o.read[i].id \in Int
      BY <1>2, <2>1 DEF Rows
    <3> QED
      BY <3>1, <1>6
  <2>2. CASE i = k + 1
    BY <1>2, <1>7, <2>2
  <2> QED
    BY <1>2, <2>1, <2>2
<1>9. \A p \in Period : \E load \in Loads[p] : o.limits[p] = Adjusted(p, load)
  BY <1>1 DEF RequestsOK, ReadingOK
<1>10. ASSUME NEW v \in Workers, v # w
       PROVE  /\ InProgress(v)' => ReadingOK(v)'
              /\ op'[v].at = "deleting" => DeletingOK(v)'
              /\ op'[v].at \in {"counting", "marking"} => LeftOK(v)'
              /\ op'[v].at = "marking" => MarkingOK(v)'
              /\ op'[v].at = "saving" => \A q \in Own(v)' : q.id > op'[v].looked
  <2>1. op'[v] = op[v]
    BY <1>3, <1>10
  <2>2. InProgress(v) => op[v] \in Reading /\ ReadingOK(v)
    BY RequestTyped DEF RequestsOK
  <2>3. InProgress(v)' => ReadingOK(v)'
    <3> SUFFICES ASSUME InProgress(v)
                 PROVE  ReadingOK(v)'
      BY <2>1 DEF InProgress
    <3>1. \A i \in 1..Len(op[v].read) : op[v].read[i].id \in Int
      <4>1. op[v].read \in Seq(Rows)
        BY <2>2 DEF Reading
      <4>2. \A i \in 1..Len(op[v].read) : op[v].read[i] \in Rows
        BY <4>1
      <4> QED
        BY <4>2 DEF Rows
    <3>2. op[v].looked =< issued' /\ op[v].expired =< issued'
      BY <1>4, <2>2 DEF ReadingOK, Reading
    <3> QED
      BY <1>6, <2>1, <2>2, <3>1, <3>2 DEF ReadingOK
  <2>4. \A q \in Own(v)' : q \in Own(v) \/ q.id = issued + 1
    BY <2>1 DEF Own, Current
  <2>5. op'[v].at = "deleting" => DeletingOK(v)'
    <3> SUFFICES ASSUME op[v].at = "deleting"
                 PROVE  DeletingOK(v)'
      BY <2>1
    <3>1. /\ op[v].expired =< issued /\ op[v].expired \in Nat
          /\ op[v].looked =< issued /\ op[v].looked \in Nat
      BY <2>2 DEF InProgress, ReadingOK, Reading
    <3>2. DeletingOK(v)
      BY DEF RequestsOK
    <3> QED
      BY <1>4, <2>1, <2>4, <3>1, <3>2 DEF DeletingOK
  <2>6. op'[v].at \in {"counting", "marking"} => LeftOK(v)'
    <3> SUFFICES ASSUME op[v].at \in {"counting", "marking"}
                 PROVE  LeftOK(v)'
      BY <2>1
    <3>1. LeftOK(v) /\ \A s \in op[v].left : s.id \in Int
      BY RequestTyped DEF RequestsOK, Updating, Rows
    <3> QED
      BY <1>6, <2>1, <3>1 DEF LeftOK
  <2>7. op'[v].at = "marking" => MarkingOK(v)'
    BY <2>1 DEF RequestsOK, MarkingOK
  <2>8. op'[v].at = "saving" => \A q \in Own(v)' : q.id > op'[v].looked
    <3> SUFFICES ASSUME op[v].at = "saving", NEW q \in Own(v)'
                 PROVE  q.id > op[v].looked
      BY <2>1
    <3>1. op[v].looked =< issued /\ op[v].looked \in Nat
      BY <2>2 DEF InProgress, ReadingOK, Reading
    <3> QED
      BY <1>4, <2>4, <3>1 DEF RefusedOnlyWhenRaced
  <2> QED
    BY <2>3, <2>5, <2>6, <2>7, <2>8
<1>11. /\ InProgress(w)' => ReadingOK(w)'
       /\ op'[w].at = "deleting" => DeletingOK(w)'
       /\ op'[w].at \in {"counting", "marking"} => LeftOK(w)'
       /\ op'[w].at = "marking" => MarkingOK(w)'
       /\ op'[w].at = "saving" => \A q \in Own(w)' : q.id > op'[w].looked
  <2>1. CASE Got(w, r) = o /\ Len(o.read) < Len(Periods)
    <3>1. o.now =< clock'
      BY <1>1 DEF RequestsOK, ReadingOK
    <3>2. ReadingOK(w)'
      <4>1. op'[w] = o /\ Len(o.read) = k + 1
        BY <1>2, <1>3, <2>1
      <4>2. Len(o.read) < Len(Periods) /\ o.looked =< issued' /\ o.expired =< issued'
        BY <1>1, <1>4, <2>1
      <4>3. \A i \in 1..(k + 1) : o.read[i].period = Periods[i]
        BY <1>2
      <4>4. \A i, j \in 1..(k + 1) : o.read[i].id = o.read[j].id => i = j
        BY <1>2
      <4> QED
        BY <1>8, <1>9, <3>1, <4>1, <4>2, <4>3, <4>4 DEF ReadingOK, CopyOK
    <3> QED
      BY <1>1, <1>3, <2>1, <3>2
  <2>2. CASE Got(w, r) = Idle
    BY <1>3, <2>2 DEF Idle, InProgress
  <2>3. CASE /\ Got(w, r) \in Updating /\ Got(w, r).at = "counting"
             /\ Got(w, r).left = {o.read[i] : i \in 1..Len(o.read)}
    <3>1. LeftOK(w)'
      <4>1. op'[w].left = {o.read[i] : i \in 1..(k + 1)} /\ k + 1 \in 1..(k + 1)
        BY <1>2, <1>3, <2>3
      <4>2. \A s \in op'[w].left : CopyOK(s)'
        BY <1>8, <4>1
      <4>3. \A s, t \in op'[w].left : s.id = t.id => s = t
        BY <1>2, <4>1
      <4> QED
        BY <4>1, <4>2, <4>3 DEF LeftOK
    <3> QED
      BY <1>3, <2>3, <3>1 DEF InProgress
  <2>4. CASE /\ Got(w, r) \in Updating /\ Got(w, r).at = "marking"
             /\ \A s \in Got(w, r).left : \E i \in 1..Len(o.read) : s = o.read[i] /\ ~Within(o, s)
             /\ Got(w, r).left # {}
    <3>1. LeftOK(w)'
      <4>1. op'[w].left # {} /\ \A s \in op'[w].left : \E i \in 1..(k + 1) : s = o.read[i]
        BY <1>2, <1>3, <2>4
      <4>2. \A s \in op'[w].left : CopyOK(s)'
        BY <1>8, <4>1
      <4>3. \A s, t \in op'[w].left : s.id = t.id => s = t
        BY <1>2, <4>1
      <4> QED
        BY <4>1, <4>2, <4>3 DEF LeftOK
    <3>2. MarkingOK(w)'
      <4> SUFFICES ASSUME NEW i \in 1..(k + 1), ~Within(o, o.read[i])
                   PROVE  \E load \in Loads[o.read[i].period] :
                            o.read[i].count >= Adjusted(o.read[i].period, load)
        BY <1>2, <1>3, <2>4 DEF MarkingOK
      <4>1. PICK load \in Loads[o.read[i].period] :
               o.limits[o.read[i].period] = Adjusted(o.read[i].period, load)
        BY <1>2, <1>9
      <4>2. Adjusted(o.read[i].period, load) \in Nat /\ o.read[i].count \in Nat
        BY <1>2, <4>1, AdjustedBelow DEF Rows
      <4> QED
        BY <4>1, <4>2 DEF Within
    <3> QED
      BY <1>3, <2>4, <3>1, <3>2 DEF InProgress
  <2> QED
    BY <1>1, <2>1, <2>2, <2>3, <2>4
<1>12. RequestsOK' /\ RefusedOnlyWhenRaced'
  BY <1>10, <1>11 DEF RequestsOK, RefusedOnlyWhenRaced
<1>13. ASSUME NEW id
       PROVE  /\ Engaged(id)' \subseteq Engaged(id) \cup {w}
              /\ w \in Engaged(id)' => w \in Engaged(id) \/ (id = r.id /\ r.count < Limit[r.period])
  <2>1. \A v \in Workers : v # w => (v \in Engaged(id)' <=> v \in Engaged(id))
    BY <1>3 DEF Engaged, InProgress
  <2>2. ASSUME NEW i \in 1..(k + 1), o.read[i].id = id, o.read[i].count < Limit[Periods[i]]
        PROVE  w \in Engaged(id) \/ (id = r.id /\ r.count < Limit[r.period])
    <3>1. CASE i \in 1..k
      BY <1>2, <2>2, <3>1 DEF Engaged, k
    <3>2. CASE i = k + 1
      BY <1>2, <2>2, <3>2
    <3> QED
      BY <1>2, <3>1, <3>2
  <2>3. CASE Got(w, r) = o
    <3>1. o.at = "reading" /\ op'[w] = o
      BY <1>1, <1>3, <2>3
    <3>2. w \in Engaged(id)' => \E i \in 1..(k + 1) : /\ o.read[i].id = id
                                                    /\ o.read[i].count < Limit[Periods[i]]
      BY <1>2, <3>1 DEF Engaged
    <3>3. w \in Engaged(id)' => w \in Engaged(id) \/ (id = r.id /\ r.count < Limit[r.period])
      BY <2>2, <3>2
    <3>4. Engaged(id)' \subseteq Workers
      BY DEF Engaged
    <3> QED
      BY <2>1, <3>3, <3>4
  <2>4. CASE Got(w, r) = Idle
    BY <1>3, <2>1, <2>4 DEF Engaged, InProgress, Idle
  <2>5. CASE /\ Got(w, r) \in Updating /\ Got(w, r).at = "counting"
             /\ Got(w, r).left = {o.read[i] : i \in 1..Len(o.read)}
             /\ \A i \in 1..Len(o.read) : Within(o, o.read[i])
    <3>1. ASSUME NEW i \in 1..(k + 1)
          PROVE  o.read[i].count < Limit[Periods[i]]
      <4>1. PICK load \in Loads[Periods[i]] : o.limits[Periods[i]] = Adjusted(Periods[i], load)
        BY <1>2, <1>9
      <4>2. Adjusted(Periods[i], load) \in Nat /\ Adjusted(Periods[i], load) =< Limit[Periods[i]]
            /\ o.read[i].count \in Nat /\ Limit[Periods[i]] \in Nat
        BY <1>2, <4>1, AdjustedBelow, LimitAssumption DEF Rows
      <4>3. o.read[i].count < o.limits[Periods[i]]
        BY <1>2, <2>5 DEF Within
      <4> QED
        BY <4>1, <4>2, <4>3
    <3>2. w \in Engaged(id)' => \E i \in 1..(k + 1) : o.read[i].id = id
      BY <1>2, <1>3, <2>5 DEF Engaged, InProgress
    <3> QED
      BY <2>1, <2>2, <3>1, <3>2 DEF Engaged
  <2>6. CASE Got(w, r) \in Updating /\ Got(w, r).at = "marking"
    BY <1>3, <2>1, <2>6 DEF Engaged, InProgress
  <2> QED
    BY <1>1, <2>3, <2>4, <2>5, <2>6
<1>14. RoomIsKept'
  <2> SUFFICES ASSUME NEW q \in rows'
               PROVE  q.count + Cardinality(Engaged(q.id)') =< Limit[q.period] - 1 + Cardinality(Workers)
    BY DEF RoomIsKept
  <2>1. /\ Cardinality(Engaged(q.id)') \in Nat /\ Cardinality(Workers) \in Nat
        /\ Cardinality(Engaged(q.id)') =< Cardinality(Workers)
    <3>1. Engaged(q.id)' \in SUBSET Workers
      BY DEF Engaged
    <3> QED
      BY <3>1, Counting
  <2>2. q.count \in Nat /\ Limit[q.period] \in Nat
    BY <1>4, LimitAssumption DEF TypeOK, Rows
  <2>3. CASE q.count < Limit[q.period]
    BY <2>1, <2>2, <2>3
  <2>4. CASE ~(q.count < Limit[q.period])
    <3>1. q \in rows
      BY <1>4, <2>4
    <3>2. q.id = r.id => q = r
      BY <1>5, <3>1 DEF TypeOK
    <3>3. Engaged(q.id)' \subseteq Engaged(q.id)
      BY <1>13, <2>4, <3>2
    <3>4. Engaged(q.id) \in SUBSET Workers /\ Engaged(q.id)' \in SUBSET Engaged(q.id)
      BY <3>3 DEF Engaged
    <3>5. /\ Cardinality(Engaged(q.id)) \in Nat
          /\ Cardinality(Engaged(q.id)') =< Cardinality(Engaged(q.id))
      BY <3>4, Counting
    <3>6. q.count + Cardinality(Engaged(q.id)) =< Limit[q.period] - 1 + Cardinality(Workers)
      BY <3>1 DEF RoomIsKept
    <3> QED
      BY <2>1, <2>2, <3>5, <3>6
  <2> QED
    BY <2>3, <2>4
<1>15. BlockedRowsWereFull'
  BY DEF BlockedRowsWereFull
<1> QED
  BY <1>5, <1>12, <1>14, <1>15

LEMMA FindUsageInv ==
  ASSUME IInv, NEW w \in Workers, FindUsage(w)
  PROVE  IInv'
<1> USE DEF IInv
<1>1. /\ op[w].at = "reading" /\ InProgress(w) /\ op[w] \in Reading /\ ReadingOK(w)
      /\ UNCHANGED <<clock, rows, begun, issued>>
  BY RequestTyped DEF FindUsage, InProgress, RequestsOK
<1>2. issued \in Nat /\ \A r \in rows : r.id \in Nat /\ r.id =< issued
  BY DEF TypeOK, Rows
<1>3. ASSUME NEW r \in Own(w), op' = [op EXCEPT ![w] = Got(w, r)]
      PROVE  IInv'
  <2>1. r \in rows /\ r \in Rows /\ r.client = op[w].client /\ r.period = Current(w)
    BY DEF Own, TypeOK
  <2>2. rows' = rows \cup {r}
    BY <1>1, <2>1
  <2> QED
    BY <1>1, <1>3, <2>1, <2>2, GotInv
<1>4. ASSUME NEW o \in Reading, op' = [op EXCEPT ![w] = o], o.at \in {"deleting", "saving"},
             o.client = op[w].client, o.now = op[w].now, o.limits = op[w].limits,
             o.read = op[w].read, o.looked = issued, o.expired \in 0..issued,
             o.at = "deleting" => \A q \in Own(w) : q.id = o.expired /\ q.end =< o.now,
             o.at = "deleting" => \E q \in rows : q.id = o.expired /\ q.end =< o.now,
             o.at = "saving" => Own(w) = {}
      PROVE  IInv'
  <2>1. /\ op'[w] = o
        /\ op' \in [Workers -> {Idle} \cup Reading \cup Updating]
        /\ \A v \in Workers : v # w => op'[v] = op[v]
    BY <1>4 DEF TypeOK
  <2>2. Own(w)' = Own(w)
    BY <1>1, <1>4, <2>1 DEF Own, Current
  <2>3. ReadingOK(w)'
    <3>1. o.looked =< issued /\ o.expired =< issued
      BY <1>2, <1>4
    <3> QED
      BY <1>1, <1>4, <2>1, <3>1 DEF ReadingOK, CopyOK
  <2>4. op'[w].at = "deleting" => DeletingOK(w)'
    BY <1>1, <1>4, <2>1, <2>2 DEF DeletingOK, TypeOK
  <2>5. /\ begun' \in 0..MaxRequests
        /\ op'[w].at = "saving" => \A r \in Own(w)' : r.id > op'[w].looked
        /\ op'[w].at \notin {"counting", "marking"}
        /\ op'[w].read = op[w].read
    BY <1>1, <1>4, <2>1, <2>2 DEF TypeOK
  <2> QED
    BY <1>1, <2>1, <2>3, <2>4, <2>5, MoveInv
<1>5. ASSUME NEW r \in Own(w), r.end =< op[w].now,
             op' = [op EXCEPT ![w].at = "deleting", ![w].expired = r.id, ![w].looked = issued]
      PROVE  IInv'
  <2> DEFINE o == [op[w] EXCEPT !.at = "deleting", !.expired = r.id, !.looked = issued]
  <2>1. r \in rows /\ \A q \in Own(w) : q = r
    BY DEF Own, TypeOK
  <2>2. /\ o \in Reading /\ op' = [op EXCEPT ![w] = o] /\ o.at = "deleting"
        /\ o.client = op[w].client /\ o.now = op[w].now /\ o.limits = op[w].limits
        /\ o.read = op[w].read /\ o.looked = issued /\ o.expired = r.id
    BY <1>1, <1>2, <1>5, <2>1 DEF Reading
  <2> HIDE DEF o
  <2>3. o.expired \in 0..issued
    BY <1>2, <2>1, <2>2
  <2> QED
    BY <1>4, <1>5, <2>1, <2>2, <2>3
<1>6. ASSUME Own(w) = {}, op' = [op EXCEPT ![w].at = "saving", ![w].looked = issued]
      PROVE  IInv'
  <2> DEFINE o == [op[w] EXCEPT !.at = "saving", !.looked = issued]
  <2>1. /\ o \in Reading /\ op' = [op EXCEPT ![w] = o] /\ o.at = "saving"
        /\ o.client = op[w].client /\ o.now = op[w].now /\ o.limits = op[w].limits
        /\ o.read = op[w].read /\ o.looked = issued /\ o.expired = op[w].expired
    BY <1>1, <1>2, <1>6 DEF Reading
  <2> HIDE DEF o
  <2>2. o.expired \in 0..issued
    BY <1>1, <1>2, <2>1 DEF ReadingOK, Reading
  <2> QED
    BY <1>4, <1>6, <2>1, <2>2
<1> QED
  BY <1>3, <1>5, <1>6 DEF FindUsage

LEMMA SaveUsageInv ==
  ASSUME IInv, NEW w \in Workers, SaveUsage(w)
  PROVE  IInv'
<1> DEFINE r == [id |-> issued + 1, client |-> op[w].client, period |-> Current(w),
                 end |-> WindowEnd(Current(w), op[w].now), count |-> 0, blocked |-> FALSE]
<1>1. InProgress(w) /\ op[w] \in Reading /\ Current(w) \in Period
  <2>1. InProgress(w)
    BY DEF SaveUsage, InProgress
  <2> QED
    BY <2>1, CurrentType DEF IInv
<1>2. WindowEnd(Current(w), op[w].now) \in Nat
  <2>1. op[w].now \in Nat
    BY <1>1, BoundAssumption DEF Reading, Times
  <2> QED
    BY <1>1, <2>1, WindowEndType
<1>3. /\ r \in Rows /\ r.client = op[w].client /\ r.period = Current(w)
      /\ r.id = issued + 1 /\ r.count = 0 /\ ~r.blocked
  <2>1. issued + 1 \in Nat /\ op[w].client \in Clients
    BY <1>1 DEF Reading, IInv, TypeOK
  <2> QED
    BY <1>1, <1>2, <2>1 DEF Rows
<1>4. /\ op' = [op EXCEPT ![w] = Got(w, r)] /\ rows' = rows \cup {r} /\ issued' = issued + 1
      /\ Own(w) = {} /\ UNCHANGED <<clock, begun>>
  BY DEF SaveUsage
<1> HIDE DEF r
<1> QED
  BY <1>1, <1>3, <1>4, GotInv

\* What requests know of their rows outlives the changes of rows in place.
LEMMA UpdatedOK ==
  ASSUME IInv, NEW w \in Workers, op[w].at \in {"counting", "marking"},
         \A v \in Workers : v # w => op'[v] = op[v],
         \/ op'[w] = Idle
         \/ /\ op[w].at = "counting" /\ op'[w] \in Updating /\ op'[w].at = "counting"
            /\ op'[w].left \subseteq op[w].left /\ op'[w].left # {},
         rows' \subseteq Rows,
         \A q \in rows' : \E r \in rows : /\ r.id = q.id /\ r.client = q.client /\ r.period = q.period
                                          /\ r.end = q.end /\ r.count =< q.count,
         UNCHANGED <<clock, issued>>
  PROVE  RequestsOK' /\ RefusedOnlyWhenRaced'
<1> USE DEF IInv
<1>1. \A c \in Rows : CopyOK(c) => CopyOK(c)'
  <2> SUFFICES ASSUME NEW c \in Rows, CopyOK(c), NEW q \in rows', q.id = c.id
               PROVE  q.client = c.client /\ q.period = c.period /\ q.count >= c.count
    BY DEF CopyOK
  <2>1. PICK r \in rows : /\ r.id = q.id /\ r.client = q.client /\ r.period = q.period
                          /\ r.end = q.end /\ r.count =< q.count
    OBVIOUS
  <2>2. r.count >= c.count /\ r.client = c.client /\ r.period = c.period
    BY <2>1 DEF CopyOK
  <2>3. r.count \in Nat /\ q.count \in Nat /\ c.count \in Nat
    BY DEF TypeOK, Rows
  <2> QED
    BY <2>1, <2>2, <2>3
<1>2. ASSUME NEW v \in Workers, v # w
      PROVE  /\ InProgress(v)' => ReadingOK(v)'
             /\ op'[v].at = "deleting" => DeletingOK(v)'
             /\ op'[v].at \in {"counting", "marking"} => LeftOK(v)'
             /\ op'[v].at = "marking" => MarkingOK(v)'
             /\ op'[v].at = "saving" => \A q \in Own(v)' : q.id > op'[v].looked
  <2>1. op'[v] = op[v]
    BY <1>2
  <2>2. InProgress(v)' => ReadingOK(v)'
    <3> SUFFICES ASSUME InProgress(v)
                 PROVE  ReadingOK(v)'
      BY <2>1 DEF InProgress
    <3>1. ReadingOK(v) /\ op[v].read \in Seq(Rows)
      BY RequestTyped DEF RequestsOK, Reading
    <3>2. \A i \in 1..Len(op[v].read) : op[v].read[i] \in Rows
      BY <3>1
    <3> QED
      BY <1>1, <2>1, <3>1, <3>2 DEF ReadingOK
  <2>3. \A q \in Own(v)' : \E r \in Own(v) : r.id = q.id
    BY <2>1 DEF Own, Current
  <2>4. op'[v].at = "deleting" => DeletingOK(v)'
    <3> SUFFICES ASSUME op[v].at = "deleting"
                 PROVE  DeletingOK(v)'
      BY <2>1
    <3>1. DeletingOK(v)
      BY DEF RequestsOK
    <3> QED
      BY <2>1, <2>3, <3>1 DEF DeletingOK
  <2>5. op'[v].at \in {"counting", "marking"} => LeftOK(v)'
    <3> SUFFICES ASSUME op[v].at \in {"counting", "marking"}
                 PROVE  LeftOK(v)'
      BY <2>1
    <3>1. LeftOK(v) /\ op[v].left \subseteq Rows
      BY RequestTyped DEF RequestsOK, Updating
    <3> QED
      BY <1>1, <2>1, <3>1 DEF LeftOK
  <2>6. op'[v].at = "marking" => MarkingOK(v)'
    BY <2>1 DEF RequestsOK, MarkingOK
  <2>7. op'[v].at = "saving" => \A q \in Own(v)' : q.id > op'[v].looked
    BY <2>1, <2>3 DEF RefusedOnlyWhenRaced
  <2> QED
    BY <2>2, <2>4, <2>5, <2>6, <2>7
<1>3. /\ InProgress(w)' => ReadingOK(w)'
      /\ op'[w].at = "deleting" => DeletingOK(w)'
      /\ op'[w].at \in {"counting", "marking"} => LeftOK(w)'
      /\ op'[w].at = "marking" => MarkingOK(w)'
      /\ op'[w].at = "saving" => \A q \in Own(w)' : q.id > op'[w].looked
  <2>1. CASE op'[w] = Idle
    BY <2>1 DEF Idle, InProgress
  <2>2. CASE /\ op[w].at = "counting" /\ op'[w] \in Updating /\ op'[w].at = "counting"
             /\ op'[w].left \subseteq op[w].left /\ op'[w].left # {}
    <3>1. LeftOK(w) /\ op[w].left \subseteq Rows
      BY <2>2, RequestTyped DEF RequestsOK, Updating
    <3>2. LeftOK(w)'
      BY <1>1, <2>2, <3>1 DEF LeftOK
    <3> QED
      BY <2>2, <3>2 DEF InProgress
  <2> QED
    BY <2>1, <2>2
<1> QED
  BY <1>2, <1>3 DEF RequestsOK, RefusedOnlyWhenRaced

LEMMA IncrementInv ==
  ASSUME IInv, NEW w \in Workers, Increment(w)
  PROVE  IInv'
<1> USE DEF IInv
<1>1. op[w].at = "counting" /\ op[w] \in Updating /\ UNCHANGED <<clock, begun, issued>>
  BY RequestTyped DEF Increment
<1>2. PICK s \in op[w].left :
        /\ rows' = {IF r.id = s.id THEN [r EXCEPT !.count = @ + 1] ELSE r : r \in rows}
        /\ op' = [op EXCEPT ![w] = IF op[w].left = {s} THEN Idle ELSE [op[w] EXCEPT !.left = @ \ {s}]]
  BY DEF Increment
<1>3. /\ \A q \in rows' : \E r \in rows :
           q \in Rows /\ r \in Rows /\ q = IF r.id = s.id THEN [r EXCEPT !.count = @ + 1] ELSE r
  BY <1>2 DEF TypeOK, Rows
<1>4. \A q \in rows' : \E r \in rows :
        /\ q \in Rows /\ r \in Rows
        /\ q = IF r.id = s.id THEN [r EXCEPT !.count = @ + 1] ELSE r
        /\ r.id = q.id /\ r.client = q.client /\ r.period = q.period /\ r.end = q.end
        /\ r.blocked = q.blocked
        /\ q.count = IF q.id = s.id THEN r.count + 1 ELSE r.count
        /\ r.count =< q.count
  BY <1>3 DEF Rows
<1>5. /\ \A v \in Workers : v # w => op'[v] = op[v]
      /\ \/ op'[w] = Idle
         \/ /\ op'[w] \in Updating /\ op'[w].at = "counting"
            /\ op'[w].left = op[w].left \ {s} /\ op'[w].left # {}
      /\ op' \in [Workers -> {Idle} \cup Reading \cup Updating]
  <2> DEFINE rest == [op[w] EXCEPT !.left = @ \ {s}]
  <2>1. rest \in Updating /\ rest.at = "counting" /\ rest.left = op[w].left \ {s}
    BY <1>1 DEF Updating
  <2>2. /\ op'[w] = IF op[w].left = {s} THEN Idle ELSE rest
        /\ \A v \in Workers : v # w => op'[v] = op[v]
        /\ op' = [v \in Workers |-> op'[v]]
    BY <1>2 DEF TypeOK
  <2> HIDE DEF rest
  <2>3. CASE op[w].left = {s}
    BY <2>2, <2>3 DEF TypeOK
  <2>4. CASE op[w].left # {s}
    BY <2>1, <2>2, <2>4 DEF TypeOK
  <2> QED
    BY <2>3, <2>4
<1>6. TypeOK'
  BY <1>1, <1>4, <1>5 DEF TypeOK
<1>7. RequestsOK' /\ RefusedOnlyWhenRaced'
  <2>1. rows' \subseteq Rows
    BY <1>4
  <2> QED
    BY <1>1, <1>4, <1>5, <2>1, UpdatedOK
<1>8. \A id : Engaged(id)' \subseteq Engaged(id)
  BY <1>1, <1>5 DEF Engaged, InProgress, Idle
<1>9. w \in Engaged(s.id) /\ w \notin Engaged(s.id)'
  <2>1. \A t \in op[w].left : t.id = s.id => t = s
    BY <1>1 DEF RequestsOK, LeftOK
  <2> QED
    BY <1>1, <1>5, <2>1 DEF Engaged, InProgress, Idle
<1>10. RoomIsKept'
  <2> SUFFICES ASSUME NEW q \in rows'
               PROVE  q.count + Cardinality(Engaged(q.id)') =< Limit[q.period] - 1 + Cardinality(Workers)
    BY DEF RoomIsKept
  <2>1. PICK r \in rows : /\ r \in Rows /\ r.id = q.id /\ r.period = q.period
                          /\ q.count = IF q.id = s.id THEN r.count + 1 ELSE r.count
    BY <1>4
  <2>2. r.count + Cardinality(Engaged(q.id)) =< Limit[q.period] - 1 + Cardinality(Workers)
    BY <2>1 DEF RoomIsKept
  <2>3. Engaged(q.id) \in SUBSET Workers /\ Engaged(q.id)' \in SUBSET Engaged(q.id)
    BY <1>8 DEF Engaged
  <2>4. r.count \in Nat /\ Limit[q.period] \in Nat
    BY <2>1, LimitAssumption DEF Rows
  <2>5. CASE q.id = s.id
    <3>1. w \in Engaged(q.id) /\ Engaged(q.id)' \in SUBSET (Engaged(q.id) \ {w})
      BY <1>8, <1>9, <2>5
    <3>2. /\ Cardinality(Engaged(q.id) \ {w}) = Cardinality(Engaged(q.id)) - 1
          /\ Cardinality(Engaged(q.id)) \in Nat /\ Cardinality(Workers) \in Nat
      BY <2>3, <3>1, Counting
    <3>3. Engaged(q.id) \ {w} \in SUBSET Workers
      BY <2>3
    <3>4. /\ Cardinality(Engaged(q.id)') \in Nat
          /\ Cardinality(Engaged(q.id)') =< Cardinality(Engaged(q.id) \ {w})
      BY <3>1, <3>3, Counting
    <3> QED
      BY <2>1, <2>2, <2>4, <2>5, <3>2, <3>4
  <2>6. CASE q.id # s.id
    <3>1. /\ Cardinality(Engaged(q.id)) \in Nat /\ Cardinality(Workers) \in Nat
          /\ Cardinality(Engaged(q.id)') \in Nat
          /\ Cardinality(Engaged(q.id)') =< Cardinality(Engaged(q.id))
      BY <2>3, Counting
    <3> QED
      BY <2>1, <2>2, <2>4, <2>6, <3>1
  <2> QED
    BY <2>5, <2>6
<1>11. BlockedRowsWereFull'
  <2> SUFFICES ASSUME NEW q \in rows', q.blocked
               PROVE  \E load \in Loads[q.period] : q.count >= Adjusted(q.period, load)
    BY DEF BlockedRowsWereFull
  <2>1. PICK r \in rows : /\ r \in Rows /\ q \in Rows /\ r.period = q.period /\ r.blocked = q.blocked
                          /\ r.count =< q.count
    BY <1>4
  <2>2. PICK load \in Loads[q.period] : r.count >= Adjusted(q.period, load)
    BY <2>1 DEF BlockedRowsWereFull
  <2>3. Adjusted(q.period, load) \in Nat /\ r.count \in Nat /\ q.count \in Nat
    BY <2>1, AdjustedBelow DEF Rows
  <2> QED
    BY <2>1, <2>2, <2>3
<1> QED
  BY <1>6, <1>7, <1>10, <1>11

LEMMA MarkOverageInv ==
  ASSUME IInv, NEW w \in Workers, MarkOverage(w)
  PROVE  IInv'
<1> USE DEF IInv
<1>1. /\ op[w].at = "marking" /\ op[w] \in Updating /\ LeftOK(w) /\ MarkingOK(w)
      /\ op' = [op EXCEPT ![w] = Idle] /\ UNCHANGED <<clock, begun, issued>>
  BY RequestTyped DEF MarkOverage, RequestsOK
<1>2. rows' = {IF r \in Over(w) THEN [r EXCEPT !.blocked = TRUE] ELSE r : r \in rows}
  BY DEF MarkOverage
<1>3. \A q \in rows' : \E r \in rows :
        q \in Rows /\ r \in Rows /\ q = IF r \in Over(w) THEN [r EXCEPT !.blocked = TRUE] ELSE r
  BY <1>2 DEF TypeOK, Rows
<1>4. \A q \in rows' : \E r \in rows :
        /\ q \in Rows /\ r \in Rows
        /\ q = IF r \in Over(w) THEN [r EXCEPT !.blocked = TRUE] ELSE r
        /\ r.id = q.id /\ r.client = q.client /\ r.period = q.period /\ r.end = q.end
        /\ r.count = q.count /\ r.count =< q.count
        /\ q.blocked => r.blocked \/ r \in Over(w)
  BY <1>3 DEF Rows
<1>5. /\ op'[w] = Idle /\ \A v \in Workers : v # w => op'[v] = op[v]
      /\ op' \in [Workers -> {Idle} \cup Reading \cup Updating]
  BY <1>1 DEF TypeOK
<1>6. TypeOK'
  <2>1. \A q, s \in rows' :
          q.id = s.id \/ (q.client = s.client /\ q.period = s.period) => q = s
    <3> SUFFICES ASSUME NEW q \in rows', NEW s \in rows',
                        q.id = s.id \/ (q.client = s.client /\ q.period = s.period)
                 PROVE  q = s
      OBVIOUS
    <3>1. PICK a \in rows : /\ q = IF a \in Over(w) THEN [a EXCEPT !.blocked = TRUE] ELSE a
                            /\ a.id = q.id /\ a.client = q.client /\ a.period = q.period
      BY <1>4
    <3>2. PICK b \in rows : /\ s = IF b \in Over(w) THEN [b EXCEPT !.blocked = TRUE] ELSE b
                            /\ b.id = s.id /\ b.client = s.client /\ b.period = s.period
      BY <1>4
    <3>3. a = b
      BY <3>1, <3>2 DEF TypeOK
    <3> QED
      BY <3>1, <3>2, <3>3
  <2>2. \A q \in rows' : q \in Rows /\ q.id =< issued
    BY <1>4 DEF TypeOK
  <2> QED
    BY <1>1, <1>5, <2>1, <2>2 DEF TypeOK
<1>7. rows' \subseteq Rows
  BY <1>4
<1>8. RequestsOK' /\ RefusedOnlyWhenRaced'
  BY <1>1, <1>4, <1>5, <1>7, UpdatedOK
<1>9. RoomIsKept'
  <2>1. \A id : Engaged(id)' \subseteq Engaged(id)
    BY <1>5 DEF Engaged, InProgress, Idle
  <2> QED
    BY <1>4, <1>7, <2>1, RoomMono
<1>10. BlockedRowsWereFull'
  <2> SUFFICES ASSUME NEW q \in rows', q.blocked
               PROVE  \E load \in Loads[q.period] : q.count >= Adjusted(q.period, load)
    BY DEF BlockedRowsWereFull
  <2>1. PICK r \in rows : /\ r \in Rows /\ r.period = q.period /\ r.count = q.count /\ r.id = q.id
                          /\ r.blocked \/ r \in Over(w)
    BY <1>4
  <2>2. CASE r.blocked
    BY <2>1, <2>2 DEF BlockedRowsWereFull
  <2>3. CASE r \in Over(w)
    <3>1. PICK s \in op[w].left : s.id = r.id
      BY <2>3 DEF Over
    <3>2. s.period = q.period /\ r.count >= s.count
      BY <1>1, <2>1, <3>1 DEF LeftOK, CopyOK
    <3>3. PICK load \in Loads[q.period] : s.count >= Adjusted(q.period, load)
      BY <1>1, <3>2 DEF MarkingOK
    <3>4. Adjusted(q.period, load) \in Nat /\ s.count \in Nat /\ r.count \in Nat
      BY <1>1, <2>1, <3>3, AdjustedBelow DEF Rows, Updating
    <3> QED
      BY <2>1, <3>2, <3>3, <3>4
  <2> QED
    BY <2>1, <2>2, <2>3
<1> QED
  BY <1>6, <1>8, <1>9, <1>10

LEMMA StepInv == IInv /\ [Next]_vars => IInv'
<1> SUFFICES ASSUME IInv, [Next]_vars
             PROVE  IInv'
  OBVIOUS
<1>1. CASE UNCHANGED vars
  <2>1. rows' \subseteq rows /\ UNCHANGED <<clock, op, begun, issued>>
    BY <1>1 DEF vars
  <2> QED
    BY <2>1, ResetInv
<1>2. CASE Tick
  BY <1>2, TickInv
<1>3. CASE Reset
  <2>1. rows' \subseteq rows /\ UNCHANGED <<clock, op, begun, issued>>
    BY <1>3 DEF Reset, ResetUser, ResetExpiredWindows
  <2> QED
    BY <2>1, ResetInv
<1>4. ASSUME NEW w \in Workers, Request(w)
      PROVE  IInv'
  BY <1>4, CheckAndIncrementInv, GetStatusInv DEF Request
<1>5. ASSUME NEW w \in Workers, Continue(w)
      PROVE  IInv'
  BY <1>5, FindUsageInv, DeleteExpiredInv, SaveUsageInv, SaveRefusedInv, IncrementInv,
     MarkOverageInv
     DEF Continue
<1> QED
  BY <1>1, <1>2, <1>3, <1>4, <1>5 DEF Next

LEMMA Invariance == Spec => []IInv
BY InitInv, StepInv, PTL DEF Spec

-----------------------------------------------------------------------------
\* The variables of the quota model keep their types, and the table its unique index.
THEOREM TypeTheorem == Spec => []TypeOK
BY Invariance, PTL DEF IInv

\* However many requests of a client run at once, a window counts fewer than its
\* limit and the number of requests that run at once: what a request holds from its
\* copy (lines 46 to 57) until its increment (61) is room that it takes.
THEOREM OvershootTheorem == Spec => []OvershootIsBounded
<1>1. IInv => OvershootIsBounded
  <2> SUFFICES ASSUME IInv, NEW r \in rows
               PROVE  r.count < Limit[r.period] + Cardinality(Workers)
    BY DEF OvershootIsBounded
  <2>1. r.count \in Nat /\ Limit[r.period] \in Nat
    BY LimitAssumption DEF IInv, TypeOK, Rows
  <2>2. Engaged(r.id) \in SUBSET Workers
    BY DEF Engaged
  <2>3. Cardinality(Engaged(r.id)) \in Nat /\ Cardinality(Workers) \in Nat
    BY <2>2, Counting
  <2>4. r.count + Cardinality(Engaged(r.id)) =< Limit[r.period] - 1 + Cardinality(Workers)
    BY DEF IInv, RoomIsKept
  <2> QED
    BY <2>1, <2>3, <2>4
<1> QED
  BY <1>1, Invariance, PTL

\* The update that blocks (165) never reaches the row of a window it was not meant for.
THEOREM BlockedTheorem == Spec => []BlockedRowsWereFull
BY Invariance, PTL DEF IInv

\* The insertion (233) is refused only when another request was quicker.
THEOREM RefusedTheorem == Spec => []RefusedOnlyWhenRaced
BY Invariance, PTL DEF IInv

\* Neither a late deletion (220) nor the scheduler (133-136) takes a running window away.
THEOREM VanishTheorem == Spec => OnlyEndedWindowsVanish
<1>1. IInv /\ [Next]_vars =>
        [\A r \in rows : \/ \E s \in rows' : s.id = r.id
                         \/ r.end =< clock
                         \/ \E client \in Clients, ps \in SUBSET Period : ResetUser(client, ps)]_vars
  <2> SUFFICES ASSUME IInv, Next, NEW r \in rows, \A s \in rows' : s.id # r.id,
                      ~(\E client \in Clients, ps \in SUBSET Period : ResetUser(client, ps))
               PROVE  r.end =< clock
    OBVIOUS
  <2>1. r \notin rows' /\ r \in Rows /\ clock \in Nat
    BY DEF IInv, TypeOK, Times
  <2>2. CASE Tick
    BY <2>1, <2>2 DEF Tick
  <2>3. CASE Reset
    <3>1. \A client \in Clients : ~ResetUser(client, Period) /\ \A p \in Period : ~ResetUser(client, {p})
      OBVIOUS
    <3>2. PICK p \in Period : ResetExpiredWindows(p)
      BY <2>3, <3>1 DEF Reset
    <3> QED
      BY <2>1, <3>2 DEF ResetExpiredWindows, Rows
  <2>4. ASSUME NEW w \in Workers, Request(w)
        PROVE  FALSE
    BY <2>1, <2>4 DEF Request, CheckAndIncrement, GetStatus, Begin
  <2>5. ASSUME NEW w \in Workers, Continue(w)
        PROVE  r.end =< clock
    <3>1. CASE FindUsage(w) \/ SaveRefused(w) \/ SaveUsage(w)
      BY <2>1, <3>1 DEF FindUsage, SaveRefused, SaveUsage
    <3>2. CASE DeleteExpired(w)
      <4>1. op[w].at = "deleting" /\ r.id = op[w].expired
        BY <2>1, <3>2 DEF DeleteExpired, ExpiredRows
      <4>2. DeletingOK(w) /\ ReadingOK(w) /\ op[w] \in Reading
        BY <4>1, RequestTyped DEF IInv, RequestsOK, InProgress
      <4>3. r.end =< op[w].now /\ op[w].now =< clock
        BY <4>1, <4>2 DEF DeletingOK, ReadingOK
      <4>4. r.end \in Int /\ op[w].now \in Int
        BY <2>1, <4>2 DEF Rows, Reading, Times
      <4> QED
        BY <2>1, <4>3, <4>4
    <3>3. CASE Increment(w)
      <4>1. PICK s : rows' = {IF q.id = s.id THEN [q EXCEPT !.count = @ + 1] ELSE q : q \in rows}
        BY <3>3 DEF Increment
      <4>2. [r EXCEPT !.count = @ + 1].id = r.id
        BY <2>1 DEF Rows
      <4> QED
        BY <4>1, <4>2
    <3>4. CASE MarkOverage(w)
      <4>1. rows' = {IF q \in Over(w) THEN [q EXCEPT !.blocked = TRUE] ELSE q : q \in rows}
        BY <3>4 DEF MarkOverage
      <4>2. [r EXCEPT !.blocked = TRUE].id = r.id
        BY <2>1 DEF Rows
      <4> QED
        BY <4>1, <4>2
    <3> QED
      BY <2>5, <3>1, <3>2, <3>3, <3>4 DEF Continue
  <2> QED
    BY <2>2, <2>3, <2>4, <2>5 DEF Next
<1> QED
  BY <1>1, Invariance, PTL DEF Spec, OnlyEndedWindowsVanish
=============================================================================
