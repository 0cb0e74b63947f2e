---------------------------- MODULE LeaseProofs -----------------------------
(***************************************************************************)
(* Whoever holds something for a time may lose it without knowing: the     *)
(* caller of withLock whose TTL runs out, for any callers, keys, TTL and   *)
(* number of calls, and the slot whose job stalls, for any number of       *)
(* processes, slots, attempts, retries and tolerated stalls.               *)
(***************************************************************************)
EXTENDS DistributedLock, WebhookDelivery, FiniteSetTheorems, TLAPS

-----------------------------------------------------------------------------
(* DistributedLockService. *)

\* An entry set by a call, kept by SET NX, aged or released is an entry.
LEMMA EntryOps ==
  ASSUME NEW e \in Entries, NEW t \in Tokens
  PROVE  /\ Missing \in Entries
         /\ SetNX(e, t, TTL) \in Entries
         /\ Aged(e) \in Entries
         /\ ReleaseScript(e, t) \in Entries
BY TTLAssumption
   DEF Entries, Missing, SetNX, Put, Live, Aged, ReleaseScript

\* Every variable keeps its type: in particular no key outlives the TTL it was
\* set with, and no lease the TTL it was granted.
THEOREM LockTypeCorrect == Spec => []TypeOK
<1>1. Init => TypeOK
  BY TTLAssumption, MaxCallsAssumption
     DEF Init, TypeOK, Entries, Missing, Phases
<1>2. TypeOK /\ [Next]_vars => TypeOK'
  <2> SUFFICES ASSUME TypeOK, [Next]_vars PROVE TypeOK'
    OBVIOUS
  <2> USE TTLAssumption, MaxCallsAssumption DEF TypeOK, GoTo, Phases
  <2>1. ASSUME NEW c \in Callers, NEW k \in Keys, Request(c, k) PROVE TypeOK'
    BY <2>1 DEF Request
  <2>2. ASSUME NEW c \in Callers, RunSet(c) PROVE TypeOK'
    <3>1. Token(c) \in Tokens
      BY DEF Token, Tokens
    <3>2. store' \in [Keys -> Entries]
      BY <2>2, <3>1, EntryOps DEF RunSet
    <3>3. lease' \in [Callers -> 0..TTL]
      BY <2>2 DEF RunSet
    <3>4. pc' \in [Callers -> Phases] /\ UNCHANGED <<key, calls>>
      BY <2>2 DEF RunSet
    <3> QED
      BY <3>2, <3>3, <3>4
  <2>3. ASSUME NEW c \in Callers, StartFn(c) \/ Refuse(c) \/ EndFn(c) PROVE TypeOK'
    BY <2>3 DEF StartFn, Refuse, EndFn
  <2>4. ASSUME NEW c \in Callers, RunRelease(c) PROVE TypeOK'
    <3>1. Token(c) \in Tokens
      BY DEF Token, Tokens
    <3>2. store' \in [Keys -> Entries]
      BY <2>4, <3>1, EntryOps DEF RunRelease
    <3> QED
      BY <2>4, <3>2 DEF RunRelease
  <2>5. ASSUME NEW c \in Callers, ResendSet(c) \/ Abandon(c) PROVE TypeOK'
    BY <2>5 DEF ResendSet, Abandon
  <2>6. ASSUME Tick PROVE TypeOK'
    <3>1. \A e \in Entries : Aged(e) \in Entries
      BY DEF Aged, Entries, Missing
    <3>2. store' \in [Keys -> Entries]
      BY <2>6, <3>1 DEF Tick
    <3> QED
      BY <2>6, <3>2 DEF Tick
  <2>7. CASE UNCHANGED vars
    BY <2>7 DEF vars
  <2> QED
    BY <2>1, <2>2, <2>3, <2>4, <2>5, <2>6, <2>7 DEF Next, Call
<1> QED
  BY <1>1, <1>2, PTL DEF Spec

-----------------------------------------------------------------------------
\* Tokens of different callers differ: a release that compares tokens never
\* takes the lock of another call.
LEMMA TokensDiffer ==
  ASSUME NEW c \in Callers, NEW d \in Callers, c # d
  PROVE  Token(c) # Token(d)
BY DEF Token

\* LeaseIsBacked is inductive on well-typed states: the heart of the lock.
LEMMA LeaseStep ==
  TypeOK /\ LeaseIsBacked /\ [Next]_vars => LeaseIsBacked'
<1> SUFFICES ASSUME TypeOK, LeaseIsBacked, [Next]_vars,
                    NEW c \in Callers,
                    pc'[c] \in {"granted", "in_fn"}, lease'[c] > 0
             PROVE  store'[key'[c]] = Put(Token(c)', lease'[c])
  BY DEF LeaseIsBacked
<1> USE TTLAssumption DEF TypeOK, GoTo
<1>1. ASSUME NEW d \in Callers, NEW k \in Keys, Request(d, k)
      PROVE  store'[key'[c]] = Put(Token(c)', lease'[c])
  BY <1>1 DEF Request, LeaseIsBacked, Token
<1>2. ASSUME NEW d \in Callers, RunSet(d)
      PROVE  store'[key'[c]] = Put(Token(c)', lease'[c])
  <2>1. CASE c = d
    <3>1. ~Live(store[key[c]]) /\ lease'[c] = TTL
      BY <1>2, <2>1 DEF RunSet
    <3> QED
      BY <1>2, <2>1, <3>1 DEF RunSet, SetNX, Token
  <2>2. CASE c # d
    <3>1. pc[c] \in {"granted", "in_fn"} /\ lease[c] > 0
      BY <1>2, <2>2 DEF RunSet
    <3>2. store[key[c]] = Put(Token(c), lease[c])
      BY <3>1 DEF LeaseIsBacked
    <3>3. Live(store[key[c]])
      BY <3>1, <3>2 DEF Live, Put
    <3>4. store'[key[c]] = store[key[c]]
      BY <1>2, <3>3 DEF RunSet, SetNX
    <3> QED
      BY <1>2, <2>2, <3>2, <3>4 DEF RunSet, Token
  <2> QED
    BY <2>1, <2>2
<1>3. ASSUME NEW d \in Callers, StartFn(d) \/ Refuse(d) \/ EndFn(d)
      PROVE  store'[key'[c]] = Put(Token(c)', lease'[c])
  BY <1>3 DEF StartFn, Refuse, EndFn, LeaseIsBacked, Token
<1>4. ASSUME NEW d \in Callers, RunRelease(d)
      PROVE  store'[key'[c]] = Put(Token(c)', lease'[c])
  <2>1. c # d
    BY <1>4 DEF RunRelease
  <2>2. pc[c] \in {"granted", "in_fn"} /\ lease[c] > 0
    BY <1>4, <2>1 DEF RunRelease
  <2>3. store[key[c]] = Put(Token(c), lease[c])
    BY <2>2 DEF LeaseIsBacked
  <2>4. store[key[c]].val # Token(d)
    BY <2>1, <2>3, TokensDiffer DEF Put
  <2>5. store'[key[c]] = store[key[c]]
    BY <1>4, <2>4 DEF RunRelease, ReleaseScript
  <2> QED
    BY <1>4, <2>3, <2>5 DEF RunRelease, Token
<1>5. ASSUME NEW d \in Callers, ResendSet(d) \/ Abandon(d)
      PROVE  store'[key'[c]] = Put(Token(c)', lease'[c])
  BY <1>5 DEF ResendSet, Abandon, LeaseIsBacked, Token
<1>6. ASSUME Tick
      PROVE  store'[key'[c]] = Put(Token(c)', lease'[c])
  <2>1. pc[c] \in {"granted", "in_fn"} /\ lease[c] > 1 /\ lease'[c] = lease[c] - 1
    BY <1>6 DEF Tick
  <2>2. store[key[c]] = Put(Token(c), lease[c])
    BY <2>1 DEF LeaseIsBacked
  <2>3. Aged(store[key[c]]) = Put(Token(c), lease[c] - 1)
    BY <2>1, <2>2 DEF Aged, Put
  <2> QED
    BY <1>6, <2>1, <2>3 DEF Tick, Token
<1>7. CASE UNCHANGED vars
  BY <1>7 DEF vars, LeaseIsBacked, Token
<1> QED
  BY <1>1, <1>2, <1>3, <1>4, <1>5, <1>6, <1>7 DEF Next, Call

\* A caller within its lease holds the key, for as long as the lease lasts.
THEOREM LeaseSafe == Spec => []LeaseIsBacked
<1>1. Init => LeaseIsBacked
  BY DEF Init, LeaseIsBacked
<1> QED
  BY <1>1, LeaseStep, LockTypeCorrect, PTL DEF Spec

\* Two callers are in fn for one key only when one has outlived its TTL.
THEOREM MutualExclusionTheorem == Spec => []MutualExclusionWithinLease
<1>1. TypeOK /\ LeaseIsBacked => MutualExclusionWithinLease
  <2> SUFFICES ASSUME TypeOK, LeaseIsBacked,
                      NEW c \in Callers, NEW d \in Callers, c # d,
                      InFn(c), InFn(d), key[c] = key[d],
                      lease[c] # 0, lease[d] # 0
               PROVE  FALSE
    BY DEF MutualExclusionWithinLease
  <2>1. lease[c] > 0 /\ lease[d] > 0
    BY DEF TypeOK
  <2>2. Put(Token(c), lease[c]) = Put(Token(d), lease[d])
    BY <2>1 DEF LeaseIsBacked, InFn
  <2> QED
    BY <2>2, TokensDiffer DEF Put
<1> QED
  BY <1>1, LockTypeCorrect, LeaseSafe, PTL

\* A lock with time left is taken away by no one but the call that holds it.
THEOREM ReleaseTheorem == Spec => ReleasedOnlyByItsHolder
<1> DEFINE Released(k) == store[k].ttl > 1 /\ ~Live(store'[k])
           ByHolder(k) == \E c \in Callers : /\ pc[c] = "releasing"
                                             /\ key[c] = k
                                             /\ store[k].val = Token(c)
<1>1. TypeOK /\ [Next]_vars => [\A k \in Keys : Released(k) => ByHolder(k)]_vars
  <2> SUFFICES ASSUME TypeOK, [Next]_vars, NEW k \in Keys, Released(k)
               PROVE  ByHolder(k)
    OBVIOUS
  <2>1. store'[k] # store[k]
    BY DEF Live, TypeOK, Entries
  <2>2. ~Tick
    BY DEF Tick, Aged, Live, TypeOK, Entries
  <2>3. ASSUME NEW c \in Callers, RunSet(c) PROVE FALSE
    BY <2>3, <2>1, TTLAssumption DEF RunSet, SetNX, Put, Live, TypeOK, Entries
  <2>4. ASSUME NEW c \in Callers, RunRelease(c) PROVE ByHolder(k)
    BY <2>4, <2>1 DEF RunRelease, ReleaseScript, TypeOK
  <2>5. ASSUME UNCHANGED store PROVE FALSE
    BY <2>5, <2>1
  <2> QED
    BY <2>2, <2>3, <2>4, <2>5
       DEF Next, Call, Request, StartFn, Refuse, EndFn, ResendSet, Abandon, vars
<1> QED
  BY <1>1, LockTypeCorrect, PTL DEF Spec, ReleasedOnlyByItsHolder

-----------------------------------------------------------------------------
(* The webhook job in Bull. *)

\* The slots that were given the job and have not sent their POST yet: zombies,
\* whose job has stalled, are among them.
Taken == {s \in Slots : slot[s].at = "taken"}

\* The hand-outs of the job still to come after one that was given the count made:
\* every failure writes a higher count than the slot was given.
Beyond(made) == IF made < Attempts THEN Attempts - 1 - made ELSE 0

\* The counts that those hand-outs will be given, for a slot and for all slots at work.
\* A zombie's are among them: it can still put the job's count back to its own.
Row(s, made) == {s} \X ((made + 1)..(Attempts - 1))
Retries == {t \in Slots \X (1..(Attempts - 1)) :
              slot[t[1]].at # "idle" /\ slot[t[1]].made < t[2]}

\* The hand-outs to come when no slot that is at work has its say.
Waiting == job.state \in {"waiting", "delayed"}
HandOuts == IF Waiting THEN 1 + Beyond(job.made) ELSE 0

\* What the stalls that Bull still tolerates can cost.
Spare == IF job.stalls < MaxStalled THEN Attempts * (MaxStalled - job.stalls) ELSE 0

\* Only an active job is locked.
LockActive == job.lock # NoProcess => job.state = "active"

\* A job that has not failed is not over its stalls.
StallsKept == job.state # "failed" => job.stalls <= MaxStalled

\* The POSTs sent and all that may follow are within the bound.
SendsCounted == /\ IsFiniteSet(Taken) /\ IsFiniteSet(Retries)
                /\ sends + Cardinality(Taken) + Cardinality(Retries) + HandOuts + Spare
                     <= Attempts * (MaxStalled + 1)

\* A slot that is about to return has delivered or reported.
ReturnsAreKnown == (\E s \in Slots : slot[s].at = "returning") => accepted \/ alarmed

WebhookInv == /\ WebhookTypeOK /\ LockActive /\ StallsKept /\ SendsCounted
              /\ ReturnsAreKnown /\ CompletedIsKnown

-----------------------------------------------------------------------------
\* The lock's token is a process, so who holds the lock has an active job.
LEMMA HolderIsActive ==
  ASSUME LockActive, NEW s \in Slots, HoldsLock(s)
  PROVE  job.state = "active"
BY ProcessAssumption DEF LockActive, HoldsLock

\* Emit and Handled keep the counts of events natural.
LEMMA EventsTyped ==
  ASSUME failures \in [Kinds -> Nat], NEW k \in Kinds, Emit(k) \/ Handled(k)
  PROVE  failures' \in [Kinds -> Nat]
BY DEF Emit, Handled

\* Every variable keeps its type; no job stalls more often than Bull allows.
LEMMA TypeStep ==
  ASSUME WebhookTypeOK, LockActive, StallsKept, [WebhookNext]_webhookVars
  PROVE  WebhookTypeOK' /\ StallsKept'
<1> USE AttemptsAssumption, StalledAssumption, ProcessAssumption
    DEF WebhookTypeOK, StallsKept, MoveTo, Runs, Jobs, history
<1>1. ASSUME NEW s \in Slots, Take(s) PROVE WebhookTypeOK' /\ StallsKept'
  BY <1>1 DEF Take
<1>2. ASSUME NEW s \in Slots, ProcessDelivery(s) \/ Delivered(s) \/ TransientFailure(s)
      PROVE  WebhookTypeOK' /\ StallsKept'
  <2>1. /\ slot' \in [Slots -> Runs] /\ UNCHANGED <<job, valid, failures, dlq, lost>>
        /\ sends' \in {sends, sends + 1}
    BY <1>2 DEF ProcessDelivery, Delivered, TransientFailure, GiveUp
  <2>2. accepted' \in BOOLEAN /\ alarmed' \in BOOLEAN
    BY <1>2, Zenon DEF ProcessDelivery, Delivered, TransientFailure, GiveUp
  <2> QED
    BY <2>1, <2>2
<1>3. ASSUME NEW s \in Slots, PermanentFailure(s) \/ RedisThrows(s)
      PROVE  WebhookTypeOK' /\ StallsKept'
  <2>1. /\ slot' \in [Slots -> Runs]
        /\ UNCHANGED <<job, valid, failures, dlq, lost, sends, accepted>>
    BY <1>3 DEF PermanentFailure, RedisThrows, GiveUp
  <2>2. alarmed' \in BOOLEAN
    BY <1>3, Zenon DEF PermanentFailure, RedisThrows, GiveUp
  <2> QED
    BY <2>1, <2>2
<1>4. ASSUME NEW s \in Slots, Complete(s) PROVE WebhookTypeOK' /\ StallsKept'
  <2>1. CASE HoldsLock(s)
    BY <1>4, <2>1, HolderIsActive DEF Complete, Left, Idle
  <2>2. CASE ~HoldsLock(s)
    BY <1>4, <2>2 DEF Complete
  <2> QED
    BY <2>1, <2>2
<1>5. ASSUME NEW s \in Slots, Fail(s) PROVE WebhookTypeOK' /\ StallsKept'
  <2>1. slot' \in [Slots -> Runs] /\ UNCHANGED <<valid, dlq, lost, sends, accepted, alarmed>>
    BY <1>5 DEF Fail, Idle
  <2>2. CASE HoldsLock(s)
    <3>1. PICK again \in BOOLEAN :
            /\ job' = Left(IF again THEN "delayed" ELSE "failed", slot[s].made + 1, job.stalls)
            /\ Emit(IF again THEN "retried" ELSE "final")
      BY <1>5, <2>2 DEF Fail
    <3>2. failures' \in [Kinds -> Nat]
      BY <3>1, EventsTyped DEF Kinds
    <3>3. job' \in Jobs /\ job'.stalls = job.stalls
      BY <3>1 DEF Left
    <3>4. job.stalls <= MaxStalled
      BY <2>2, HolderIsActive
    <3> QED
      BY <2>1, <3>2, <3>3, <3>4
  <2>3. CASE ~HoldsLock(s)
    BY <1>5, <2>1, <2>3 DEF Fail
  <2> QED
    BY <2>2, <2>3
<1>6. ASSUME NEW s \in Slots, FailRejected(s) PROVE WebhookTypeOK' /\ StallsKept'
  BY <1>6 DEF FailRejected, Idle
<1>7. ASSUME NEW p \in Processes, Die(p) PROVE WebhookTypeOK' /\ StallsKept'
  BY <1>7 DEF Die, Idle
<1>8. CASE Promote \/ LoseLock
  BY <1>8 DEF Promote, LoseLock
<1>9. CASE ForwardFailed \/ ForwardFails
  <2>1. failures' \in [Kinds -> Nat]
    BY <1>9, EventsTyped DEF ForwardFailed, ForwardFails
  <2>2. dlq' \subseteq Kinds /\ lost' \subseteq Kinds
    BY <1>9 DEF ForwardFailed, ForwardFails
  <2> QED
    BY <1>9, <2>1, <2>2 DEF ForwardFailed, ForwardFails
<1>10. CASE Stall
  <2>1. failures' \in [Kinds -> Nat]
    BY <1>10, EventsTyped DEF Stall, Kinds
  <2>2. job' \in Jobs /\ job'.stalls \in 0..(MaxStalled + 1) /\ StallsKept'
    BY <1>10 DEF Stall, Left
  <2> QED
    BY <1>10, <2>1, <2>2 DEF Stall
<1>11. CASE UNCHANGED webhookVars
  BY <1>11 DEF webhookVars
<1> QED
  BY <1>1, <1>2, <1>3, <1>4, <1>5, <1>6, <1>7, <1>8, <1>9, <1>10, <1>11 DEF WebhookNext, Work

\* A job that changes its state leaves its lock, or gets it when it is taken.
LEMMA LockStep ==
  ASSUME WebhookTypeOK, LockActive, [WebhookNext]_webhookVars
  PROVE  LockActive'
<1> USE DEF LockActive, WebhookTypeOK, Jobs
<1>1. ASSUME NEW s \in Slots, Take(s) PROVE LockActive'
  BY <1>1 DEF Take
<1>2. ASSUME NEW s \in Slots, Complete(s) \/ Fail(s) PROVE LockActive'
  <2>1. \/ job'.lock = NoProcess
        \/ job'.lock = job.lock /\ job'.state = job.state
    BY <1>2 DEF Complete, Fail, Left
  <2> QED
    BY <2>1
<1>3. ASSUME NEW p \in Processes, Die(p) PROVE LockActive'
  BY <1>3 DEF Die
<1>4. CASE Promote \/ LoseLock \/ Stall
  BY <1>4 DEF Promote, LoseLock, Stall, Left
<1>5. CASE UNCHANGED job
  BY <1>5
<1> QED
  BY <1>1, <1>2, <1>3, <1>4, <1>5
     DEF WebhookNext, Work, webhookVars, ProcessDelivery, Delivered, TransientFailure,
         PermanentFailure, RedisThrows, FailRejected, ForwardFailed, ForwardFails

-----------------------------------------------------------------------------
\* The row of a slot has one place for each hand-out to come.
LEMMA RowSize ==
  ASSUME NEW s, NEW made \in Nat
  PROVE  IsFiniteSet(Row(s, made)) /\ Cardinality(Row(s, made)) = Beyond(made)
<1> DEFINE Counts == (made + 1)..(Attempts - 1)
<1>1. IsFiniteSet(Counts) /\ Cardinality(Counts) = Beyond(made)
  <2>1. made + 1 \in Int /\ Attempts - 1 \in Int
    BY AttemptsAssumption
  <2>2. /\ IsFiniteSet(Counts)
        /\ Cardinality(Counts) =
             IF made + 1 > Attempts - 1 THEN 0 ELSE Attempts - 1 - (made + 1) + 1
    BY <2>1, FS_Interval
  <2> HIDE DEF Counts
  <2> QED
    BY <2>2, AttemptsAssumption DEF Beyond
<1>2. IsFiniteSet({s}) /\ Cardinality({s}) = 1
  BY FS_Singleton
<1>3. Beyond(made) \in Nat
  BY AttemptsAssumption DEF Beyond
<1> HIDE DEF Counts
<1>4. IsFiniteSet({s} \X Counts) /\ Cardinality({s} \X Counts) = 1 * Cardinality(Counts)
  BY <1>1, <1>2, FS_Product
<1> QED
  BY <1>1, <1>3, <1>4 DEF Counts, Row

\* What a step that adds a part to a finite set, or takes one away, does to its size.
LEMMA PartAdded ==
  ASSUME NEW R, NEW P, IsFiniteSet(R), IsFiniteSet(P), R \cap P = {}
  PROVE  IsFiniteSet(R \cup P) /\ Cardinality(R \cup P) = Cardinality(R) + Cardinality(P)
<1>1. Cardinality(R) \in Nat /\ Cardinality(P) \in Nat
  BY FS_CardinalityType
<1>2. Cardinality(R \cap P) = 0
  BY FS_EmptySet
<1>3. /\ IsFiniteSet(R \cup P)
      /\ Cardinality(R \cup P) = Cardinality(R) + Cardinality(P) - Cardinality(R \cap P)
  BY FS_Union
<1> QED
  BY <1>1, <1>2, <1>3

LEMMA PartTaken ==
  ASSUME NEW R, NEW P, IsFiniteSet(R), P \subseteq R
  PROVE  IsFiniteSet(R \ P) /\ Cardinality(R \ P) = Cardinality(R) - Cardinality(P)
<1>1. R \cap P = P
  OBVIOUS
<1> QED
  BY <1>1, FS_Difference

\* A part of a finite set is no bigger.
LEMMA PartIsSmaller ==
  ASSUME NEW R, NEW P, IsFiniteSet(R), P \subseteq R
  PROVE  /\ IsFiniteSet(P) /\ Cardinality(P) \in Nat /\ Cardinality(R) \in Nat
         /\ Cardinality(P) <= Cardinality(R)
BY FS_Subset, FS_CardinalityType

\* A job whose slots and whose own count promise no more than before stays in the bound.
LEMMA NoMorePromised ==
  ASSUME WebhookTypeOK, SendsCounted, Taken' \subseteq Taken, Retries' \subseteq Retries,
         sends' = sends, HandOuts' = HandOuts, job'.stalls = job.stalls
  PROVE  SendsCounted'
<1>1. /\ IsFiniteSet(Taken') /\ Cardinality(Taken') \in Nat /\ Cardinality(Taken) \in Nat
      /\ Cardinality(Taken') <= Cardinality(Taken)
  BY PartIsSmaller DEF SendsCounted
<1>2. /\ IsFiniteSet(Retries') /\ Cardinality(Retries') \in Nat /\ Cardinality(Retries) \in Nat
      /\ Cardinality(Retries') <= Cardinality(Retries)
  BY PartIsSmaller DEF SendsCounted
<1>3. HandOuts \in Nat
  BY AttemptsAssumption DEF HandOuts, Beyond, WebhookTypeOK, Jobs
<1>4. Spare' = Spare
  BY DEF Spare
<1>5. Spare \in Nat
  BY AttemptsAssumption, StalledAssumption DEF Spare, WebhookTypeOK
<1>6. Attempts * (MaxStalled + 1) \in Nat
  BY AttemptsAssumption, StalledAssumption
<1> QED
  BY <1>1, <1>2, <1>3, <1>4, <1>5, <1>6 DEF SendsCounted, WebhookTypeOK

\* A tolerated stall is paid for by what is spared for it.
LEMMA SpareStep ==
  ASSUME NEW n \in Nat, n < MaxStalled
  PROVE  /\ Attempts * (MaxStalled - n) = Attempts * (MaxStalled - (n + 1)) + Attempts
         /\ Attempts * (MaxStalled - (n + 1)) \in Nat
<1>1. PICK m \in Nat : m = MaxStalled - (n + 1)
  BY StalledAssumption
<1>2. MaxStalled - n = m + 1
  BY <1>1, StalledAssumption
<1>3. Attempts * (m + 1) = Attempts * m + Attempts /\ Attempts * m \in Nat
  BY <1>1, AttemptsAssumption
<1> QED
  BY <1>1, <1>2, <1>3

\* A slot that takes the job gets the hand-outs that the job had to come; a POST uses up a
\* hand-out; a failure gives the job back what the slot had, or nothing; and a stall is
\* paid for from Spare.
LEMMA SendsStep ==
  ASSUME WebhookTypeOK, LockActive, SendsCounted, [WebhookNext]_webhookVars
  PROVE  SendsCounted'
<1>0. /\ sends \in Nat /\ job.made \in Nat /\ job.stalls \in Nat
      /\ slot \in [Slots -> Runs] /\ \A s \in Slots : slot[s].made \in Nat
      /\ IsFiniteSet(Taken) /\ IsFiniteSet(Retries)
      /\ Cardinality(Taken) \in Nat /\ Cardinality(Retries) \in Nat
  BY FS_CardinalityType DEF WebhookTypeOK, Jobs, Runs, SendsCounted
<1>a. Spare \in Nat /\ Attempts * (MaxStalled + 1) \in Nat
  BY <1>0, AttemptsAssumption, StalledAssumption DEF Spare
<1>b. \A made \in Nat : Beyond(made) \in Nat
  BY AttemptsAssumption DEF Beyond
<1>1. ASSUME NEW s \in Slots, Take(s) PROVE SendsCounted'
  <2>1. /\ slot' = [slot EXCEPT ![s] = [at |-> "taken", made |-> job.made]]
        /\ slot[s].at = "idle" /\ sends' = sends
        /\ job.state = "waiting" /\ job'.state = "active" /\ job'.stalls = job.stalls
    BY <1>1 DEF Take, WebhookTypeOK, Jobs, history
  <2>2. s \notin Taken /\ Taken' = Taken \cup {s}
    BY <1>0, <2>1 DEF Taken
  <2>3. IsFiniteSet(Taken') /\ Cardinality(Taken') = Cardinality(Taken) + 1
    BY <1>0, <2>2, FS_AddElement
  <2>4. Retries \cap Row(s, job.made) = {}
    BY <2>1 DEF Retries, Row
  <2>5. Retries' = Retries \cup Row(s, job.made)
    <3>1. \A t \in Slots \X (1..(Attempts - 1)) :
            t \in Retries' <=> t \in Retries \/ t \in Row(s, job.made)
      <4> TAKE t \in Slots \X (1..(Attempts - 1))
      <4>1. t = <<t[1], t[2]>> /\ t[1] \in Slots /\ t[2] \in 1..(Attempts - 1)
        OBVIOUS
      <4>2. CASE t[1] = s
        BY <1>0, <2>1, <4>1, <4>2, AttemptsAssumption DEF Retries, Row
      <4>3. CASE t[1] # s
        BY <1>0, <2>1, <4>1, <4>3 DEF Retries, Row
      <4> QED
        BY <4>2, <4>3
    <3>2. Row(s, job.made) \subseteq Slots \X (1..(Attempts - 1))
      BY <1>0, AttemptsAssumption DEF Row
    <3> QED
      BY <3>1, <3>2 DEF Retries
  <2>6. IsFiniteSet(Retries') /\ Cardinality(Retries') = Cardinality(Retries) + Beyond(job.made)
    <3>1. IsFiniteSet(Row(s, job.made)) /\ Cardinality(Row(s, job.made)) = Beyond(job.made)
      BY <1>0, RowSize
    <3> QED
      BY <1>0, <2>4, <2>5, <3>1, PartAdded
  <2>7. HandOuts = 1 + Beyond(job.made) /\ HandOuts' = 0 /\ Spare' = Spare
    BY <2>1 DEF HandOuts, Waiting, Spare
  <2> QED
    BY <1>0, <1>a, <1>b, <2>1, <2>3, <2>6, <2>7 DEF SendsCounted
<1>2. ASSUME NEW s \in Slots, ProcessDelivery(s) PROVE SendsCounted'
  <2>1. /\ slot[s].at = "taken" /\ UNCHANGED job /\ sends' \in {sends, sends + 1}
        /\ \A r \in Slots : slot'[r].made = slot[r].made
        /\ slot'[s].at \notin {"taken", "idle"}
        /\ \A r \in Slots \ {s} : slot'[r] = slot[r]
    BY <1>0, <1>2 DEF ProcessDelivery, MoveTo, Runs
  <2>2. s \in Taken /\ Taken' = Taken \ {s}
    BY <2>1 DEF Taken
  <2>3. IsFiniteSet(Taken') /\ Cardinality(Taken') = Cardinality(Taken) - 1
    BY <1>0, <2>2, FS_RemoveElement
  <2>4. Retries' = Retries
    <3>1. \A r \in Slots : slot'[r].at # "idle" <=> slot[r].at # "idle"
      BY <2>1
    <3> QED
      BY <2>1, <3>1 DEF Retries
  <2>5. HandOuts' = HandOuts /\ Spare' = Spare
    BY <2>1 DEF HandOuts, Waiting, Spare
  <2>6. HandOuts \in Nat
    BY <1>0, <1>b DEF HandOuts
  <2> QED
    BY <1>0, <1>a, <2>1, <2>3, <2>4, <2>5, <2>6 DEF SendsCounted
<1>3. ASSUME NEW s \in Slots,
             Delivered(s) \/ TransientFailure(s) \/ PermanentFailure(s) \/ RedisThrows(s)
      PROVE  SendsCounted'
  <2>1. /\ slot[s].at # "idle" /\ UNCHANGED <<job, sends>>
        /\ \A r \in Slots : slot'[r].made = slot[r].made
        /\ slot'[s].at \in {"returning", "throwing"}
        /\ \A r \in Slots \ {s} : slot'[r] = slot[r]
    BY <1>0, <1>3
       DEF Delivered, TransientFailure, PermanentFailure, RedisThrows, GiveUp, MoveTo, Runs,
           history
  <2>2. Taken' \subseteq Taken
    BY <2>1 DEF Taken
  <2>3. Retries' \subseteq Retries
    <3>1. \A r \in Slots : slot'[r].at # "idle" <=> slot[r].at # "idle"
      BY <2>1
    <3> QED
      BY <2>1, <3>1 DEF Retries
  <2>4. HandOuts' = HandOuts
    BY <2>1 DEF HandOuts, Waiting
  <2> QED
    BY <2>1, <2>2, <2>3, <2>4, NoMorePromised
<1>4. ASSUME NEW s \in Slots, FailRejected(s) \/ Complete(s) PROVE SendsCounted'
  <2>1. /\ slot[s].at # "idle" /\ sends' = sends
        /\ slot' = [slot EXCEPT ![s] = Idle] \/ MoveTo(s, "throwing")
    BY <1>4 DEF FailRejected, Complete, history
  <2>2. Taken' \subseteq Taken
    BY <1>0, <2>1 DEF Taken, Idle, MoveTo, Runs
  <2>3. Retries' \subseteq Retries
    <3>1. \A r \in Slots : slot'[r].at # "idle" => /\ slot[r].at # "idle"
                                                  /\ slot'[r].made = slot[r].made
      BY <1>0, <2>1 DEF Idle, MoveTo, Runs
    <3> QED
      BY <3>1 DEF Retries
  <2>4. HandOuts' = HandOuts /\ job'.stalls = job.stalls
    <3>1. CASE UNCHANGED job
      BY <3>1 DEF HandOuts, Waiting
    <3>2. CASE HoldsLock(s) /\ job' = Left("completed", job.made, job.stalls)
      BY <3>2, HolderIsActive DEF Left, HandOuts, Waiting
    <3> QED
      BY <1>4, <3>1, <3>2 DEF FailRejected, Complete
  <2> QED
    BY <2>1, <2>2, <2>3, <2>4, NoMorePromised
<1>5. ASSUME NEW s \in Slots, Fail(s) PROVE SendsCounted'
  <2> DEFINE made == slot[s].made
  <2>1. /\ slot' = [slot EXCEPT ![s] = Idle] /\ slot[s].at = "throwing" /\ sends' = sends
        /\ made \in Nat
    BY <1>0, <1>5 DEF Fail, history
  <2>2. Taken' = Taken
    BY <1>0, <2>1 DEF Taken, Idle
  <2>3. Row(s, made) \subseteq Retries
    BY <1>0, <2>1, AttemptsAssumption DEF Retries, Row
  <2>4. Retries' = Retries \ Row(s, made)
    <3>1. \A t \in Slots \X (1..(Attempts - 1)) :
            t \in Retries' <=> t \in Retries /\ t \notin Row(s, made)
      <4> TAKE t \in Slots \X (1..(Attempts - 1))
      <4>1. t = <<t[1], t[2]>> /\ t[1] \in Slots /\ t[2] \in 1..(Attempts - 1)
        OBVIOUS
      <4>2. CASE t[1] = s
        BY <1>0, <2>1, <4>1, <4>2, AttemptsAssumption DEF Retries, Row, Idle
      <4>3. CASE t[1] # s
        BY <1>0, <2>1, <4>1, <4>3 DEF Retries, Row
      <4> QED
        BY <4>2, <4>3
    <3> QED
      BY <3>1 DEF Retries
  <2>5. IsFiniteSet(Retries') /\ Cardinality(Retries') = Cardinality(Retries) - Beyond(made)
    <3>1. IsFiniteSet(Row(s, made)) /\ Cardinality(Row(s, made)) = Beyond(made)
      BY <2>1, RowSize
    <3> QED
      BY <1>0, <2>3, <2>4, <3>1, PartTaken
  <2>6. /\ job'.stalls = job.stalls /\ job'.made = made + 1
        /\ \/ HoldsLock(s) /\ job'.state = IF made + 1 < Attempts THEN "delayed" ELSE "failed"
           \/ ~HoldsLock(s) /\ job'.state = job.state
    BY <1>5 DEF Fail, Left, WebhookTypeOK, Jobs
  <2>7. HandOuts' <= HandOuts + Beyond(made) /\ HandOuts' \in Nat /\ HandOuts \in Nat
    <3>1. CASE HoldsLock(s)
      <4>1. HandOuts = 0
        BY <3>1, HolderIsActive DEF HandOuts, Waiting
      <4> QED
        BY <2>1, <2>6, <3>1, <4>1, AttemptsAssumption DEF HandOuts, Waiting, Beyond
    <3>2. CASE ~HoldsLock(s)
      BY <1>0, <2>1, <2>6, <3>2, AttemptsAssumption DEF HandOuts, Waiting, Beyond
    <3> QED
      BY <3>1, <3>2
  <2>8. Spare' = Spare
    BY <2>6 DEF Spare
  <2>9. Beyond(made) \in Nat
    BY <2>1, <1>b
  <2> HIDE DEF made
  <2> QED
    BY <1>0, <1>a, <2>1, <2>2, <2>5, <2>7, <2>8, <2>9 DEF SendsCounted
<1>6. ASSUME NEW p \in Processes, Die(p) PROVE SendsCounted'
  <2>1. /\ slot' = [s \in Slots |-> IF process[s] = p THEN Idle ELSE slot[s]]
        /\ sends' = sends /\ job'.state = job.state /\ job'.made = job.made
        /\ job'.stalls = job.stalls
    BY <1>6 DEF Die, WebhookTypeOK, Jobs, history
  <2>2. Taken' \subseteq Taken
    BY <2>1 DEF Taken, Idle
  <2>3. Retries' \subseteq Retries
    BY <2>1 DEF Retries, Idle
  <2>4. HandOuts' = HandOuts
    BY <2>1 DEF HandOuts, Waiting
  <2> QED
    BY <2>1, <2>2, <2>3, <2>4, NoMorePromised
<1>7. CASE Stall
  <2>1. Taken' = Taken /\ Retries' = Retries /\ sends' = sends /\ HandOuts = 0
    BY <1>7 DEF Stall, Taken, Retries, HandOuts, Waiting, history
  <2>2. CASE job.stalls < MaxStalled
    <3>1. /\ job'.state = "waiting" /\ job'.made = job.made /\ job'.stalls = job.stalls + 1
      BY <1>7, <2>2 DEF Stall, Left
    <3>2. HandOuts' <= Attempts /\ HandOuts' \in Nat
      BY <1>0, <3>1, AttemptsAssumption DEF HandOuts, Waiting, Beyond
    <3>3. Spare = Attempts * (MaxStalled - (job.stalls + 1)) + Attempts
            /\ Attempts * (MaxStalled - (job.stalls + 1)) \in Nat
      BY <1>0, <2>2, SpareStep DEF Spare
    <3>4. Spare' = Attempts * (MaxStalled - (job.stalls + 1)) \/ Spare' = 0
      BY <3>1 DEF Spare
    <3>5. Spare' + Attempts <= Spare /\ Spare' \in Nat
      BY <3>3, <3>4, AttemptsAssumption
    <3> QED
      <4> DEFINE all == Attempts * (MaxStalled + 1)
                 have == Spare
                 have2 == Spare'
                 out2 == HandOuts'
      <4>1. all \in Nat /\ have \in Nat /\ have2 \in Nat /\ out2 \in Nat /\ Attempts \in Nat
              /\ have2 + Attempts <= have /\ out2 <= Attempts
        BY <1>a, <3>2, <3>5, AttemptsAssumption
      <4>2. sends + Cardinality(Taken) + Cardinality(Retries) + have <= all
        BY <1>0, <1>a, <2>1 DEF SendsCounted
      <4>3. SendsCounted' <=> sends + Cardinality(Taken) + Cardinality(Retries) + out2 + have2 <= all
        BY <1>0, <2>1 DEF SendsCounted
      <4> HIDE DEF all, have, have2, out2
      <4> QED
        BY <1>0, <4>1, <4>2, <4>3
  <2>3. CASE ~(job.stalls < MaxStalled)
    <3>1. job'.state = "failed" /\ job'.stalls = job.stalls + 1
      BY <1>7, <2>3 DEF Stall, Left
    <3>2. HandOuts' = 0 /\ Spare = 0 /\ Spare' = 0
      BY <1>0, <2>3, <3>1, StalledAssumption DEF HandOuts, Waiting, Spare
    <3> QED
      BY <2>1, <3>2 DEF SendsCounted
  <2> QED
    BY <2>2, <2>3
<1>8. CASE Promote \/ LoseLock
  <2>1. /\ UNCHANGED <<slot, sends>> /\ job'.made = job.made /\ job'.stalls = job.stalls
        /\ Waiting' <=> Waiting
    BY <1>8 DEF Promote, LoseLock, Waiting, WebhookTypeOK, Jobs, history
  <2>2. Taken' = Taken /\ Retries' = Retries /\ HandOuts' = HandOuts /\ Spare' = Spare
    BY <2>1 DEF Taken, Retries, HandOuts, Spare
  <2> QED
    BY <2>1, <2>2 DEF SendsCounted
<1>9. CASE ForwardFailed \/ ForwardFails \/ UNCHANGED webhookVars
  <2>1. UNCHANGED <<job, slot, sends>>
    BY <1>9 DEF ForwardFailed, ForwardFails, webhookVars, history
  <2> QED
    BY <2>1 DEF SendsCounted, Taken, Retries, HandOuts, Waiting, Spare
<1> QED
  BY <1>1, <1>2, <1>3, <1>4, <1>5, <1>6, <1>7, <1>8, <1>9 DEF WebhookNext, Work

\* Slots return only after a delivery or a report, and Complete needs one.
LEMMA KnownStep ==
  ASSUME WebhookTypeOK, ReturnsAreKnown, CompletedIsKnown, [WebhookNext]_webhookVars
  PROVE  ReturnsAreKnown' /\ CompletedIsKnown'
<1> USE DEF ReturnsAreKnown, CompletedIsKnown
<1>0. /\ accepted \in BOOLEAN /\ alarmed \in BOOLEAN /\ slot \in [Slots -> Runs] /\ job \in Jobs
  BY DEF WebhookTypeOK
<1>1. ASSUME NEW s \in Slots, Delivered(s) \/ PermanentFailure(s)
      PROVE  ReturnsAreKnown' /\ CompletedIsKnown'
  BY <1>0, <1>1 DEF Delivered, PermanentFailure, GiveUp, MoveTo, Runs
<1>2. ASSUME NEW s \in Slots, TransientFailure(s) PROVE ReturnsAreKnown' /\ CompletedIsKnown'
  <2>1. job' = job /\ (accepted => accepted')
    BY <1>2 DEF TransientFailure
  <2>2. CASE ShouldRetry(s)
    BY <1>0, <1>2, <2>1, <2>2 DEF TransientFailure, MoveTo, Runs
  <2>3. CASE ~ShouldRetry(s)
    BY <1>2, <2>1, <2>3 DEF TransientFailure, GiveUp
  <2> QED
    BY <2>2, <2>3
<1>3. ASSUME NEW s \in Slots, Take(s) PROVE ReturnsAreKnown' /\ CompletedIsKnown'
  BY <1>0, <1>3 DEF Take, Runs, Jobs, history
<1>4. ASSUME NEW s \in Slots, ProcessDelivery(s) \/ RedisThrows(s) \/ FailRejected(s)
      PROVE  ReturnsAreKnown' /\ CompletedIsKnown'
  BY <1>0, <1>4 DEF ProcessDelivery, RedisThrows, FailRejected, Idle, MoveTo, Runs, history
<1>5. ASSUME NEW s \in Slots, Complete(s) PROVE ReturnsAreKnown' /\ CompletedIsKnown'
  <2>1. (accepted \/ alarmed) /\ UNCHANGED <<accepted, alarmed>>
    BY <1>5 DEF Complete, history
  <2> QED
    BY <2>1
<1>6. ASSUME NEW s \in Slots, Fail(s) PROVE ReturnsAreKnown' /\ CompletedIsKnown'
  <2>1. UNCHANGED <<accepted, alarmed>> /\ slot' = [slot EXCEPT ![s] = Idle]
    BY <1>6 DEF Fail, history
  <2>2. job'.state = "completed" => job.state = "completed"
    BY <1>0, <1>6 DEF Fail, Left, Jobs
  <2> QED
    BY <1>0, <2>1, <2>2 DEF Idle
<1>7. ASSUME NEW p \in Processes, Die(p) PROVE ReturnsAreKnown' /\ CompletedIsKnown'
  <2>1. /\ UNCHANGED <<accepted, alarmed>> /\ job'.state = job.state
        /\ \A s \in Slots : slot'[s] = slot[s] \/ slot'[s] = Idle
    BY <1>0, <1>7 DEF Die, Jobs, history
  <2> QED
    BY <2>1 DEF Idle
<1>8. CASE Promote \/ LoseLock \/ Stall
  <2>1. /\ UNCHANGED <<accepted, alarmed, slot>>
        /\ job'.state = "completed" => job.state = "completed"
    BY <1>0, <1>8 DEF Promote, LoseLock, Stall, Left, Jobs, history
  <2> QED
    BY <2>1
<1>9. CASE ForwardFailed \/ ForwardFails \/ UNCHANGED webhookVars
  BY <1>9 DEF ForwardFailed, ForwardFails, webhookVars, history
<1> QED
  BY <1>1, <1>2, <1>3, <1>4, <1>5, <1>6, <1>7, <1>8, <1>9 DEF WebhookNext, Work

-----------------------------------------------------------------------------
LEMMA Inductive == WebhookSpec => []WebhookInv
<1>1. WebhookInit => WebhookInv
  <2> SUFFICES ASSUME WebhookInit PROVE WebhookInv
    OBVIOUS
  <2>1. Taken = {} /\ Retries = {}
    BY DEF WebhookInit, Idle, Taken, Retries
  <2>2. HandOuts = Attempts
    BY AttemptsAssumption DEF WebhookInit, HandOuts, Waiting, Beyond
  <2>3. Spare = Attempts * MaxStalled
    BY AttemptsAssumption, StalledAssumption DEF WebhookInit, Spare
  <2>4. Attempts * (MaxStalled + 1) = Attempts * MaxStalled + Attempts
          /\ Attempts * MaxStalled \in Nat
    BY AttemptsAssumption, StalledAssumption
  <2>5. SendsCounted
    BY <2>1, <2>2, <2>3, <2>4, FS_EmptySet, AttemptsAssumption DEF WebhookInit, SendsCounted
  <2> QED
    <3>1. WebhookTypeOK
      <4>1. valid \in BOOLEAN /\ accepted \in BOOLEAN /\ alarmed \in BOOLEAN
        BY Zenon DEF WebhookInit
      <4>2. /\ job \in Jobs /\ job.stalls \in 0..(MaxStalled + 1) /\ slot \in [Slots -> Runs]
            /\ failures \in [Kinds -> Nat] /\ dlq \subseteq Kinds /\ lost \subseteq Kinds
            /\ sends \in Nat
        BY StalledAssumption DEF WebhookInit, Jobs, Runs, Idle
      <4> QED
        BY <4>1, <4>2 DEF WebhookTypeOK
    <3>2. LockActive /\ StallsKept /\ ReturnsAreKnown /\ CompletedIsKnown
      BY StalledAssumption
         DEF WebhookInit, Idle, LockActive, StallsKept, ReturnsAreKnown, CompletedIsKnown
    <3> QED
      BY <2>5, <3>1, <3>2 DEF WebhookInv
<1>2. WebhookInv /\ [WebhookNext]_webhookVars => WebhookInv'
  BY TypeStep, LockStep, SendsStep, KnownStep DEF WebhookInv
<1> QED
  BY <1>1, <1>2, PTL DEF WebhookSpec

\* Every variable keeps its type; no job stalls more often than Bull allows.
THEOREM WebhookTypeCorrect == WebhookSpec => []WebhookTypeOK
<1>1. WebhookInv => WebhookTypeOK
  BY DEF WebhookInv
<1> QED
  BY <1>1, Inductive, PTL

\* The receiver gets no more POSTs than the attempts, times the tolerated stalls and one,
\* although the failure of a slot that lost the job sets its count of attempts back.
THEOREM SendsTheorem == WebhookSpec => []SendsBounded
<1>1. WebhookInv => SendsBounded
  <2> SUFFICES ASSUME WebhookInv PROVE SendsBounded
    OBVIOUS
  <2>1. Cardinality(Taken) \in Nat /\ Cardinality(Retries) \in Nat /\ sends \in Nat
    BY FS_CardinalityType DEF WebhookInv, SendsCounted, WebhookTypeOK
  <2>2. HandOuts \in Nat
    BY AttemptsAssumption DEF HandOuts, Beyond, WebhookInv, WebhookTypeOK, Jobs
  <2>3. Spare \in Nat
    BY AttemptsAssumption, StalledAssumption DEF Spare, WebhookInv, WebhookTypeOK
  <2>4. Attempts * (MaxStalled + 1) \in Nat
    BY AttemptsAssumption, StalledAssumption
  <2> QED
    BY <2>1, <2>2, <2>3, <2>4 DEF WebhookInv, SendsCounted, SendsBounded
<1> QED
  BY <1>1, Inductive, PTL

\* A completed job was delivered or reported as dead-lettered.
THEOREM KnownTheorem == WebhookSpec => []CompletedIsKnown
<1>1. WebhookInv => CompletedIsKnown
  BY DEF WebhookInv
<1> QED
  BY <1>1, Inductive, PTL
=============================================================================
