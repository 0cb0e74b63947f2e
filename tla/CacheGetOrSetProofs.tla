------------------------ MODULE CacheGetOrSetProofs -------------------------
(***************************************************************************)
(* Theorems about CacheGetOrSet, for any callers, scopes and TTLs: types,  *)
(* and that getOrSet is a client the lock service was made for.            *)
(***************************************************************************)
EXTENDS CacheGetOrSet, TLAPS

\* A caller asks for the lock once, on its way from start; it has a lease only
\* once it has asked.
AsksOnce ==
  \A c \in Callers : /\ pc[c] = "start" => c \notin asked
                     /\ pc[c] \notin {"start", "done"} => c \in asked
                     /\ c \notin asked => lease[c] = 0

\* Nobody holds the lock but around its factory.
HoldsAroundFactory ==
  \A c \in Callers : /\ c \in holder => pc[c] \in {"computing", "publishing", "releasing"}
                     /\ pc[c] = "releasing" => c \in holder

\* What is about to be published is a value a factory made.
PublishesWhatWasMade ==
  \A c \in Callers : pc[c] = "publishing" => made[c] \in Values

\* The inductive invariant.  Types alone are not inductive: what is published
\* must be a value that was made.
CInv == /\ TypeOK
        /\ pending <= source
        /\ AsksOnce
        /\ HoldsAroundFactory
        /\ PublishesWhatWasMade

\* The types of what Redis keeps for this key.
CacheEntries == [val : Values \cup {NoValue}, ttl : 0..CacheTTL]
LockEntries == [val : (Callers \X {1}) \cup {NoValue}, ttl : 0..LockTTL]

\* An entry of the cache stays one when it is written or aged.
LEMMA CacheEntryOps ==
  /\ Missing \in CacheEntries
  /\ \A e \in CacheEntries : Aged(e) \in CacheEntries
  /\ \A v \in Values : Put(v, CacheTTL) \in CacheEntries
BY TTLAssumption DEF CacheEntries, Missing, Aged, Put

\* So does an entry of the lock.
LEMMA LockEntryOps ==
  /\ Missing \in LockEntries
  /\ \A e \in LockEntries : Aged(e) \in LockEntries
  /\ \A e \in LockEntries, c \in Callers : SetNX(e, Token(c), LockTTL) \in LockEntries
BY TTLAssumption DEF LockEntries, Missing, Aged, SetNX, Put, Live, Token

\* No caller has begun at first.
LEMMA CInvInit == Init => CInv
<1> SUFFICES ASSUME Init PROVE CInv
  OBVIOUS
<1>1. TypeOK
  <2>1. Missing \in CacheEntries /\ Missing \in LockEntries
    BY TTLAssumption DEF CacheEntries, LockEntries, Missing
  <2> QED
    BY <2>1, TTLAssumption, WritesAssumption DEF Init, TypeOK, CacheEntries, LockEntries,
       Phases
<1>2. pending <= source /\ AsksOnce /\ HoldsAroundFactory /\ PublishesWhatWasMade
  BY DEF Init, AsksOnce, HoldsAroundFactory, PublishesWhatWasMade
<1> QED
  BY <1>1, <1>2 DEF CInv

\* Every step keeps the invariant.
LEMMA CInvStep == CInv /\ [Next]_vars => CInv'
<1> SUFFICES ASSUME CInv, [Next]_vars PROVE CInv'
  OBVIOUS
<1> USE TTLAssumption, WritesAssumption
    DEF CInv, AsksOnce, HoldsAroundFactory, PublishesWhatWasMade, GoTo, Return, Leave,
        data, Phases
<1>a. /\ cache \in [Scopes -> CacheEntries]
      /\ lock \in LockEntries
  BY DEF TypeOK, CacheEntries, LockEntries
<1>1. ASSUME NEW c \in Callers, Get(c) PROVE CInv'
  <2>0. ScopeOf[c] \in Scopes /\ cache[ScopeOf[c]].val \in Values \cup {NoValue}
    BY <1>a, ScopeAssumption DEF CacheEntries
  <2>1. TypeOK'
    BY <1>1, <2>0 DEF Get, ReadScope, TypeOK
  <2> QED
    BY <1>1, <2>1 DEF Get, TypeOK
<1>2. ASSUME NEW c \in Callers, AcquireLock(c) PROVE CInv'
  <2>1. lock' \in LockEntries
    BY <1>2, <1>a, LockEntryOps DEF AcquireLock
  <2>2. TypeOK'
    BY <1>2, <2>1 DEF AcquireLock, TypeOK, LockEntries
  <2> QED
    BY <1>2, <2>2 DEF AcquireLock, TypeOK
<1>3. ASSUME NEW c \in Callers, StartFactory(c) PROVE CInv'
  BY <1>3 DEF StartFactory, TypeOK
<1>4. ASSUME NEW c \in Callers, Recheck(c) \/ PollHit(c) PROVE CInv'
  <2>0. Raw \in Scopes /\ cache[Raw].val \in Values \cup {NoValue}
    BY <1>a, ScopeAssumption DEF CacheEntries
  <2>1. TypeOK'
    BY <1>4, <2>0 DEF Recheck, PollHit, PollScope, TypeOK
  <2> QED
    BY <1>4, <2>1 DEF Recheck, PollHit, TypeOK
<1>5. ASSUME NEW c \in Callers, FallBack(c) \/ FallBackBlindly(c) PROVE CInv'
  BY <1>5 DEF FallBack, FallBackBlindly, TypeOK
<1>6. ASSUME NEW c \in Callers, RunFactory(c) PROVE CInv'
  <2>1. [scope |-> ScopeOf[c], version |-> source] \in Values
    BY ScopeAssumption DEF Values, TypeOK
  <2>2. TypeOK'
    BY <1>6, <2>1 DEF RunFactory, TypeOK
  <2> QED
    BY <1>6, <2>1, <2>2 DEF RunFactory, TypeOK
<1>7. ASSUME NEW c \in Callers, Publish(c) PROVE CInv'
  <2>1. made[c] \in Values /\ ScopeOf[c] \in Scopes
    BY <1>7, ScopeAssumption DEF Publish
  <2>2. cache' \in [Scopes -> CacheEntries]
    BY <1>7, <1>a, <2>1, CacheEntryOps DEF Publish, ReadScope
  <2>3. TypeOK'
    BY <1>7, <2>1, <2>2 DEF Publish, TypeOK, CacheEntries
  <2> QED
    BY <1>7, <2>3 DEF Publish, TypeOK
<1>8. ASSUME NEW c \in Callers, FactoryOrPublishFails(c) PROVE CInv'
  BY <1>8 DEF FactoryOrPublishFails, TypeOK
<1>9. ASSUME NEW c \in Callers, Release(c) PROVE CInv'
  <2>1. lock' \in LockEntries
    BY <1>9, <1>a, LockEntryOps DEF Release
  <2>2. TypeOK'
    BY <1>9, <2>1 DEF Release, TypeOK, LockEntries
  <2> QED
    BY <1>9, <2>2 DEF Release, TypeOK
<1>10. ASSUME NEW c \in Callers, Abandon(c) PROVE CInv'
  BY <1>10 DEF Abandon, TypeOK
<1>11. ASSUME WriteSource PROVE CInv'
  BY <1>11 DEF WriteSource, TypeOK
<1>12. ASSUME Invalidate PROVE CInv'
  <2>1. cache' \in [Scopes -> CacheEntries]
    BY <1>12, <1>a, CacheEntryOps DEF Invalidate
  <2>2. TypeOK'
    BY <1>12, <2>1 DEF Invalidate, TypeOK, CacheEntries
  <2> QED
    BY <1>12, <2>2 DEF Invalidate, TypeOK
<1>13. ASSUME Tick PROVE CInv'
  <2>1. cache' \in [Scopes -> CacheEntries] /\ lock' \in LockEntries
    BY <1>13, <1>a, CacheEntryOps, LockEntryOps DEF Tick
  <2>2. TypeOK'
    BY <1>13, <2>1 DEF Tick, Less, TypeOK, CacheEntries, LockEntries
  <2> QED
    BY <1>13, <2>2 DEF Tick, Less, TypeOK
<1>14. CASE UNCHANGED vars
  BY <1>14 DEF vars, TypeOK
<1> QED
  BY <1>1, <1>2, <1>3, <1>4, <1>5, <1>6, <1>7, <1>8, <1>9, <1>10, <1>11, <1>12, <1>13,
     <1>14
     DEF Next, Serve

\* Every variable keeps its type: in particular no cached value outlives the TTL it
\* was stored with, and no lease the lock's.
THEOREM TypeCorrect == Spec => []TypeOK
<1>1. CInv => TypeOK
  BY DEF CInv
<1> QED
  BY CInvInit, CInvStep, <1>1, PTL DEF Spec

-----------------------------------------------------------------------------
\* The lock service's view of the callers and of the calls they made.
LockPc == [c \in Callers |-> LockPhase(c)]
LockCalls == [c \in Callers |-> IF c \in asked THEN 1 ELSE 0]

\* A step of one caller moves that caller alone in the lock service.
LEMMA OnePhaseMoves ==
  ASSUME CInv, NEW c \in Callers, NEW phase, pc' = [pc EXCEPT ![c] = phase],
         \A d \in Callers \ {c} : d \in holder' <=> d \in holder
  PROVE  LockPc' = [LockPc EXCEPT ![c] = LockPhase(c)']
<1>1. \A d \in Callers \ {c} : pc'[d] = pc[d]
  BY DEF CInv, TypeOK
<1>2. \A d \in Callers \ {c} : LockPhase(d)' = LockPhase(d)
  BY <1>1 DEF LockPhase
<1> QED
  BY <1>2 DEF LockPc

\* A caller that is in the same phase for the lock service does not move there.
LEMMA NoPhaseMoves ==
  ASSUME CInv, NEW c \in Callers, NEW phase, pc' = [pc EXCEPT ![c] = phase],
         \A d \in Callers \ {c} : d \in holder' <=> d \in holder,
         LockPhase(c)' = LockPhase(c)
  PROVE  LockPc' = LockPc
BY OnePhaseMoves DEF LockPc

\* At first no call holds or asks for the lock.
LEMMA LockInit == Init => Lock!Init
<1> SUFFICES ASSUME Init PROVE Lock!Init
  OBVIOUS
<1>1. \A c \in Callers : LockPhase(c) = "idle"
  BY DEF Init, LockPhase
<1> QED
  BY <1>1 DEF Init, Lock!Init, Missing, Lock!Missing

\* A step of getOrSet is a step of the lock service or one it does not see.
LEMMA LockStep == CInv /\ [Next]_vars => [Lock!Next]_Lock!vars
<1> SUFFICES ASSUME CInv, [Next]_vars PROVE Lock!Next \/ UNCHANGED Lock!vars
  OBVIOUS
<1> USE DEF LockPc
<1>s. ASSUME LockPc' = LockPc, lock' = lock, asked' = asked, lease' = lease
      PROVE  UNCHANGED Lock!vars
  BY <1>s DEF Lock!vars
<1>t. \A c \in Callers : /\ Lock!Token(c) = IF c \in asked THEN <<c, 1>> ELSE <<c, 0>>
  BY DEF Lock!Token
<1>1. ASSUME NEW c \in Callers, Get(c) PROVE Lock!Next \/ UNCHANGED Lock!vars
  <2>1. CASE Live(cache[ReadScope(c)])
    <3>1. LockPc' = LockPc
      BY <1>1, <2>1, NoPhaseMoves DEF Get, Return, GoTo, LockPhase, CInv,
         HoldsAroundFactory, TypeOK
    <3> QED
      BY <1>1, <2>1, <3>1, <1>s DEF Get
  <2>2. CASE ~Live(cache[ReadScope(c)])
    <3>1. LockPhase(c) = "idle" /\ LockPhase(c)' = "acquiring" /\ c \notin asked /\ lease[c] = 0
      BY <1>1, <2>2 DEF Get, GoTo, LockPhase, CInv, AsksOnce, HoldsAroundFactory, TypeOK
    <3>2. LockPc' = [LockPc EXCEPT ![c] = "acquiring"]
      BY <1>1, <2>2, <3>1, OnePhaseMoves DEF Get, GoTo
    <3>3. LockCalls' = [LockCalls EXCEPT ![c] = LockCalls[c] + 1] /\ LockCalls[c] < 1
      <4>1. LockCalls' = [d \in Callers |-> IF d = c THEN 1 ELSE LockCalls[d]]
        BY <1>1, <2>2 DEF Get, LockCalls
      <4>2. LockCalls \in [Callers -> {0, 1}] /\ LockCalls[c] = 0
        BY <3>1 DEF LockCalls
      <4>3. LockCalls[c] + 1 = 1 /\ LockCalls[c] < 1
        BY <4>2
      <4>4. LockCalls' = [LockCalls EXCEPT ![c] = 1]
        BY <4>1, <4>2
      <4> QED
        BY <4>3, <4>4
    <3>4. lease' = [lease EXCEPT ![c] = 0]
      BY <1>1, <3>1 DEF Get, CInv, TypeOK
    <3>5. Lock!Request(c, Raw)
      BY <1>1, <3>1, <3>2, <3>3, <3>4 DEF Lock!Request, Lock!GoTo, LockCalls, Get
    <3> QED
      BY <3>5 DEF Lock!Next, Lock!Call
  <2> QED
    BY <2>1, <2>2
<1>2. ASSUME NEW c \in Callers, AcquireLock(c) PROVE Lock!Next
  <2> DEFINE free == ~Live(lock)
  <2>1. LockPhase(c) = "acquiring" /\ c \in asked
        /\ LockPhase(c)' = IF free THEN "granted" ELSE "refused"
    BY <1>2 DEF AcquireLock, GoTo, LockPhase, CInv, AsksOnce, HoldsAroundFactory, TypeOK
  <2>2. LockPc' = [LockPc EXCEPT ![c] = IF free THEN "granted" ELSE "refused"]
    BY <1>2, <2>1, OnePhaseMoves DEF AcquireLock, GoTo
  <2>3. Lock!RunSet(c)
    BY <1>2, <2>1, <2>2, <1>t
       DEF AcquireLock, Lock!RunSet, Lock!GoTo, Token, Live, Lock!Live, SetNX, Lock!SetNX,
           Put, Lock!Put
  <2> QED
    BY <2>3 DEF Lock!Next, Lock!Call
<1>3. ASSUME NEW c \in Callers, StartFactory(c) PROVE Lock!Next
  <2>1. LockPhase(c) = "granted" /\ LockPhase(c)' = "in_fn"
    BY <1>3 DEF StartFactory, GoTo, LockPhase, CInv, HoldsAroundFactory, TypeOK
  <2>2. LockPc' = [LockPc EXCEPT ![c] = "in_fn"]
    BY <1>3, <2>1, OnePhaseMoves DEF StartFactory, GoTo
  <2>3. Lock!StartFn(c)
    BY <1>3, <2>1, <2>2 DEF StartFactory, Lock!StartFn, Lock!GoTo
  <2> QED
    BY <2>3 DEF Lock!Next, Lock!Call
<1>4. ASSUME NEW c \in Callers, Recheck(c) PROVE Lock!Next
  <2>1. PICK phase \in {"done", "polling"} : pc' = [pc EXCEPT ![c] = phase]
    BY <1>4 DEF Recheck, Return, GoTo
  <2>2. LockPhase(c) = "refused" /\ LockPhase(c)' = "idle"
    BY <1>4, <2>1 DEF Recheck, LockPhase, CInv, HoldsAroundFactory, TypeOK
  <2>3. LockPc' = [LockPc EXCEPT ![c] = "idle"]
    BY <1>4, <2>1, <2>2, OnePhaseMoves DEF Recheck
  <2>4. Lock!Refuse(c)
    BY <1>4, <2>2, <2>3 DEF Recheck, Lock!Refuse, Lock!GoTo
  <2> QED
    BY <2>4 DEF Lock!Next, Lock!Call
<1>5. ASSUME NEW c \in Callers, PollHit(c) \/ FallBack(c) \/ FallBackBlindly(c)
      PROVE  UNCHANGED Lock!vars
  <2>1. PICK phase \in {"done", "computing"} : pc' = [pc EXCEPT ![c] = phase]
    BY <1>5 DEF PollHit, FallBack, FallBackBlindly, Return, GoTo
  <2>2. UNCHANGED <<lock, asked, holder, lease>> /\ pc[c] = "polling"
    BY <1>5 DEF PollHit, FallBack, FallBackBlindly
  <2>3. LockPhase(c) = "idle" /\ LockPhase(c)' = "idle"
    BY <2>1, <2>2 DEF LockPhase, CInv, HoldsAroundFactory, TypeOK
  <2>4. LockPc' = LockPc
    BY <2>1, <2>2, <2>3, NoPhaseMoves
  <2> QED
    BY <2>2, <2>4, <1>s
<1>6. ASSUME NEW c \in Callers, RunFactory(c) PROVE UNCHANGED Lock!vars
  <2>1. LockPhase(c)' = LockPhase(c)
    BY <1>6 DEF RunFactory, GoTo, LockPhase, CInv, TypeOK
  <2>2. LockPc' = LockPc
    BY <1>6, <2>1, NoPhaseMoves DEF RunFactory, GoTo
  <2> QED
    BY <1>6, <2>2, <1>s DEF RunFactory
<1>7. ASSUME NEW c \in Callers, Publish(c) \/ FactoryOrPublishFails(c)
      PROVE  Lock!Next \/ UNCHANGED Lock!vars
  <2>1. /\ pc[c] \in {"computing", "publishing"}
        /\ pc' = [pc EXCEPT ![c] = IF c \in holder THEN "releasing" ELSE "done"]
        /\ UNCHANGED <<lock, asked, holder, lease>>
    BY <1>7 DEF Publish, FactoryOrPublishFails, Leave, GoTo
  <2>2. CASE c \in holder
    <3>1. LockPhase(c) = "in_fn" /\ LockPhase(c)' = "releasing"
      BY <2>1, <2>2 DEF LockPhase, CInv, TypeOK
    <3>2. LockPc' = [LockPc EXCEPT ![c] = "releasing"]
      BY <2>1, <3>1, OnePhaseMoves
    <3>3. Lock!EndFn(c)
      BY <2>1, <3>1, <3>2 DEF Lock!EndFn, Lock!GoTo
    <3> QED
      BY <3>3 DEF Lock!Next, Lock!Call
  <2>3. CASE c \notin holder
    <3>1. LockPhase(c) = "idle" /\ LockPhase(c)' = "idle"
      BY <2>1, <2>3 DEF LockPhase, CInv, TypeOK
    <3>2. LockPc' = LockPc
      BY <2>1, <3>1, NoPhaseMoves
    <3> QED
      BY <2>1, <3>2, <1>s
  <2> QED
    BY <2>2, <2>3
<1>8. ASSUME NEW c \in Callers, Release(c) PROVE Lock!Next
  <2>1. LockPhase(c) = "releasing" /\ c \in asked /\ LockPhase(c)' = "idle"
    BY <1>8 DEF Release, GoTo, LockPhase, CInv, AsksOnce, HoldsAroundFactory, TypeOK
  <2>2. LockPc' = [LockPc EXCEPT ![c] = "idle"]
    BY <1>8, <2>1, OnePhaseMoves DEF Release, GoTo
  <2>3. Lock!RunRelease(c)
    BY <1>8, <2>1, <2>2, <1>t
       DEF Release, Lock!RunRelease, Lock!ReleaseScript, Lock!GoTo, Token,
           Live, Lock!Live, Missing, Lock!Missing
  <2> QED
    BY <2>3 DEF Lock!Next, Lock!Call
<1>9. ASSUME NEW c \in Callers, Abandon(c) PROVE Lock!Next \/ UNCHANGED Lock!vars
  <2>1. LockPhase(c)' = "idle"
    BY <1>9 DEF Abandon, GoTo, LockPhase, CInv, TypeOK
  <2>2. LockPc' = [LockPc EXCEPT ![c] = "idle"]
    BY <1>9, <2>1, OnePhaseMoves DEF Abandon, GoTo
  <2>3. CASE LockPhase(c) = "idle"
    <3>1. LockPc' = LockPc
      BY <2>2, <2>3
    <3> QED
      BY <1>9, <3>1, <1>s DEF Abandon
  <2>4. CASE LockPhase(c) # "idle"
    <3>1. Lock!Abandon(c)
      BY <1>9, <2>2, <2>4 DEF Abandon, Lock!Abandon, Lock!GoTo
    <3> QED
      BY <3>1 DEF Lock!Next, Lock!Call
  <2> QED
    BY <2>3, <2>4
<1>10. ASSUME WriteSource \/ Invalidate \/ UNCHANGED vars PROVE UNCHANGED Lock!vars
  BY <1>10, <1>s DEF WriteSource, Invalidate, vars, LockPhase
<1>11. ASSUME Tick PROVE Lock!Next
  <2>1. LockPc' = LockPc
    BY <1>11 DEF Tick, LockPhase
  <2>2. Lock!Tick
    BY <1>11, <2>1 DEF Tick, Less, Lock!Tick, Aged, Lock!Aged, Missing, Lock!Missing
  <2> QED
    BY <2>2 DEF Lock!Next
<1> QED
  BY <1>1, <1>2, <1>3, <1>4, <1>5, <1>6, <1>7, <1>8, <1>9, <1>10, <1>11 DEF Next, Serve

\* getOrSet is a client the lock service was made for, whatever its callers,
\* scopes and TTLs: every step of it is a step of the lock service, or none.
THEOREM LockRefinement == Spec => UsesLockProperly
BY CInvInit, CInvStep, LockInit, LockStep, PTL DEF Spec, UsesLockProperly, Lock!Spec
=============================================================================
