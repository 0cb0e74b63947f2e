------------------------------- MODULE Session -------------------------------
(***************************************************************************)
(* SessionService and SessionCleanupTask for the sessions of one user.     *)
(* The state is in Redis: one record per session id and a sorted set, the  *)
(* index, that orders the user's session ids by their time of creation.    *)
(* Every operation is a chain of commands with an await between any two; a *)
(* worker is such a chain, in some process, and op says where it is.       *)
(***************************************************************************)
EXTENDS Integers, FiniteSets

CONSTANTS Workers,
          Sids,           \* session ids, each drawn once (randomUUID)
          NoSid,          \* the session of an operation about none
          MaxSessions,    \* MAX_SESSIONS_PER_USER
          MaxRecVersion,  \* bound: version of a record
          MaxDeaths       \* bound: operations cut short

ASSUME SidAssumption == NoSid \notin Sids /\ IsFiniteSet(Sids)
ASSUME WorkersAssumption == IsFiniteSet(Workers)
ASSUME MaxAssumption == MaxSessions \in Nat \ {0} /\ MaxRecVersion \in Nat \ {0}
ASSUME DeathsAssumption == MaxDeaths \in Nat

VARIABLES rec,      \* Redis: the version of each session record, 0 for none
          born,     \* createdAt of each session id, 0 when not drawn yet
          index,    \* Redis: members of user:sessions:<userId>
          op,       \* where each worker is in its operation
          known,    \* sessions whose id a caller has been given
          revoked,  \* sessions that some removal has deleted, for good as it believes
          deaths,   \* operations cut short
          untrimmed \* creations cut short between their index entry and their trim

sessionVars == <<rec, born, index, op, known, revoked, deaths, untrimmed>>

history == <<deaths, untrimmed>>

Phases == {"idle",
           "setting", "indexing", "counting", "ranging", "trimming", "evicting",
           "touching", "migrating",
           "removing", "unindexing",
           "scanning", "deleting", "dropping",
           "cleaning", "tidying"}

\* at: the command sent next; sid: the session it is about; seen: the version
\* read, or the overflow computed; todo: the sessions still to go through.
Operation == [at : Phases, sid : Sids \cup {NoSid}, seen : Nat, todo : SUBSET Sids]

Idle == [at |-> "idle", sid |-> NoSid, seen |-> 0, todo |-> {}]

SessionTypeOK == /\ rec \in [Sids -> 0..MaxRecVersion]
                 /\ born \in [Sids -> 0..Cardinality(Sids)]
                 /\ index \in SUBSET Sids
                 /\ op \in [Workers -> Operation]
                 /\ known \in SUBSET Sids
                 /\ revoked \in SUBSET Sids
                 /\ deaths \in 0..MaxDeaths
                 /\ untrimmed \in 0..deaths

SessionInit == /\ rec = [s \in Sids |-> 0]
               /\ born = [s \in Sids |-> 0]
               /\ index = {}
               /\ op = [w \in Workers |-> Idle]
               /\ known = {}
               /\ revoked = {}
               /\ deaths = 0
               /\ untrimmed = 0

-----------------------------------------------------------------------------
Live(s) == rec[s] > 0

\* The n members of the index with the lowest ranks.
Oldest(n) == {s \in index : Cardinality({t \in index : born[t] < born[s]}) < n}

\* s is the first in index order of the sessions w still has to go through.
NextOf(w, s) == s \in op[w].todo /\ \A t \in op[w].todo : born[s] <= born[t]

At(w, phase)     == op[w].at = phase
Begin(w, o)      == At(w, "idle") /\ op' = [op EXCEPT ![w] = o]
GoTo(w, phase)   == op' = [op EXCEPT ![w].at = phase]
Finish(w)        == op' = [op EXCEPT ![w] = Idle]

\* createSession returns the session id to its caller.
ReturnSid(w) == Finish(w) /\ known' = known \cup {op[w].sid}

\* A fresh session id, created now.
Draw(s) == /\ born[s] = 0
           /\ born' = [born EXCEPT ![s] = Cardinality({t \in Sids : born[t] > 0}) + 1]

Delete(s) == rec' = [rec EXCEPT ![s] = 0]

-----------------------------------------------------------------------------
(* createSession: SET record, ZADD index, then trimUserSessions. *)
Create(w, s) ==
  /\ Begin(w, [at |-> "setting", sid |-> s, seen |-> 0, todo |-> {}])
  /\ Draw(s)
  /\ UNCHANGED <<rec, index, known, revoked, history>>

SetRecord(w) ==
  /\ At(w, "setting")
  /\ rec' = [rec EXCEPT ![op[w].sid] = 1]
  /\ GoTo(w, "indexing")
  /\ UNCHANGED <<born, index, known, revoked, history>>

AddToIndex(w) ==
  /\ At(w, "indexing")
  /\ index' = index \cup {op[w].sid}
  /\ GoTo(w, "counting")
  /\ UNCHANGED <<rec, born, known, revoked, history>>

\* zcard: nothing to trim, or the overflow to trim.
Count(w) ==
  LET overflow == Cardinality(index) - MaxSessions
  IN  /\ At(w, "counting")
      /\ IF overflow > 0
         THEN /\ op' = [op EXCEPT ![w].at = "ranging", ![w].seen = overflow]
              /\ UNCHANGED known
         ELSE ReturnSid(w)
      /\ UNCHANGED <<rec, born, index, revoked, history>>

\* zrange: which sessions the overflow means now.
RangeOldest(w) ==
  LET evicted == Oldest(op[w].seen)
  IN  /\ At(w, "ranging")
      /\ IF evicted = {}
         THEN ReturnSid(w)
         ELSE /\ op' = [op EXCEPT ![w].at = "trimming", ![w].todo = evicted]
              /\ UNCHANGED known
      /\ UNCHANGED <<rec, born, index, revoked, history>>

\* A mutant: one too few.
TrimTooFew(w) ==
  /\ At(w, "trimming")
  /\ index' = index \ Oldest(op[w].seen - 1)
  /\ GoTo(w, "evicting")
  /\ UNCHANGED <<rec, born, known, revoked, history>>

\* zremrangebyrank: drop the lowest ranks, whoever holds them by now.
Trim(w) ==
  /\ At(w, "trimming")
  /\ index' = index \ Oldest(op[w].seen)
  /\ GoTo(w, "evicting")
  /\ UNCHANGED <<rec, born, known, revoked, history>>

\* deleteSessionRecord of each evicted id.
Evict(w, s) ==
  /\ At(w, "evicting") /\ NextOf(w, s)
  /\ Delete(s)
  /\ IF op[w].todo = {s}
     THEN ReturnSid(w)
     ELSE op' = [op EXCEPT ![w].todo = @ \ {s}] /\ UNCHANGED known
  /\ UNCHANGED <<born, index, revoked, history>>

-----------------------------------------------------------------------------
(* touchSession: GET, then MULTI SET EXPIRE of what was read. *)
Touch(w, s) ==
  /\ s \in known /\ Live(s) /\ rec[s] < MaxRecVersion
  /\ Begin(w, [at |-> "touching", sid |-> s, seen |-> rec[s], todo |-> {}])
  /\ UNCHANGED <<rec, born, index, known, revoked, history>>

\* A mutant: the version counts the read and the write.
WriteTouchedTwice(w) ==
  /\ At(w, "touching")
  /\ rec' = [rec EXCEPT ![op[w].sid] = op[w].seen + 2]
  /\ Finish(w)
  /\ UNCHANGED <<born, index, known, revoked, history>>

WriteTouched(w) ==
  /\ At(w, "touching")
  /\ rec' = [rec EXCEPT ![op[w].sid] = op[w].seen + 1]
  /\ Finish(w)
  /\ UNCHANGED <<born, index, known, revoked, history>>

(* migrateSession: GET, then MULTI SET new DEL old; the index is not told. *)
Migrate(w, s, new) ==
  /\ s \in known /\ Live(s) /\ rec[s] < MaxRecVersion
  /\ Begin(w, [at |-> "migrating", sid |-> s, seen |-> rec[s], todo |-> {new}])
  /\ Draw(new)
  /\ UNCHANGED <<rec, index, known, revoked, history>>

WriteMigrated(w) ==
  /\ At(w, "migrating")
  /\ rec' = [s \in Sids |-> CASE s \in op[w].todo -> op[w].seen + 1
                              [] s = op[w].sid    -> 0
                              [] OTHER            -> rec[s]]
  /\ known' = known \cup op[w].todo
  /\ Finish(w)
  /\ UNCHANGED <<born, index, revoked, history>>

(* removeSession: GET, DEL, and ZREM when the GET found it. *)
Remove(w, s) ==
  /\ s \in known
  /\ Begin(w, [at |-> "removing", sid |-> s, seen |-> rec[s], todo |-> {}])
  /\ UNCHANGED <<rec, born, index, known, revoked, history>>

DeleteRecord(w) ==
  /\ At(w, "removing")
  /\ Delete(op[w].sid)
  /\ IF op[w].seen > 0
     THEN GoTo(w, "unindexing") /\ UNCHANGED revoked
     ELSE Finish(w) /\ revoked' = revoked \cup {op[w].sid}
  /\ UNCHANGED <<born, index, known, history>>

RemoveFromIndex(w) ==
  /\ At(w, "unindexing")
  /\ index' = index \ {op[w].sid}
  /\ revoked' = revoked \cup {op[w].sid}
  /\ Finish(w)
  /\ UNCHANGED <<rec, born, known, history>>

-----------------------------------------------------------------------------
(* deleteAllSessionsForUser: SCAN, and GET, DEL, ZREM for each key.  SCAN
   returns every key that stays for the whole iteration; todo are the keys
   that must still come, and a key set meanwhile may come or not. *)
DeleteAll(w) ==
  /\ Begin(w, [at |-> "scanning", sid |-> NoSid, seen |-> 0,
               todo |-> {s \in Sids : Live(s)}])
  /\ UNCHANGED <<rec, born, index, known, revoked, history>>

ScanKey(w, s) ==
  /\ At(w, "scanning")
  /\ s \in op[w].todo \/ Live(s)
  /\ op' = [op EXCEPT ![w].todo = @ \ {s},
                      ![w].sid  = IF Live(s) THEN s ELSE NoSid,
                      ![w].at   = IF Live(s) THEN "deleting" ELSE "scanning"]
  /\ UNCHANGED <<rec, born, index, known, revoked, history>>

ScanDelete(w) ==
  /\ At(w, "deleting")
  /\ Delete(op[w].sid)
  /\ GoTo(w, "dropping")
  /\ UNCHANGED <<born, index, known, revoked, history>>

ScanUnindex(w) ==
  /\ At(w, "dropping")
  /\ index' = index \ {op[w].sid}
  /\ revoked' = revoked \cup {op[w].sid}
  /\ op' = [op EXCEPT ![w].at = "scanning", ![w].sid = NoSid]
  /\ UNCHANGED <<rec, born, known, history>>

ScanEnds(w) ==
  /\ At(w, "scanning")
  /\ op[w].todo = {}
  /\ Finish(w)
  /\ UNCHANGED <<rec, born, index, known, revoked, history>>

-----------------------------------------------------------------------------
(* handleCleanup: ZRANGE, and for each member GET, and ZREM when it is gone. *)
\* A mutant: only the first entry of the index.
CleanupFirstOnly(w) ==
  /\ index # {}
  /\ Begin(w, [at |-> "cleaning", sid |-> NoSid, seen |-> 0, todo |-> Oldest(1)])
  /\ UNCHANGED <<rec, born, index, known, revoked, history>>

Cleanup(w) ==
  /\ index # {}
  /\ Begin(w, [at |-> "cleaning", sid |-> NoSid, seen |-> 0, todo |-> index])
  /\ UNCHANGED <<rec, born, index, known, revoked, history>>

CleanNext(w, s) ==
  /\ At(w, "cleaning") /\ NextOf(w, s)
  /\ op' = [op EXCEPT ![w].todo = @ \ {s},
                      ![w].sid  = IF Live(s) THEN NoSid ELSE s,
                      ![w].at   = IF Live(s) THEN "cleaning" ELSE "tidying"]
  /\ UNCHANGED <<rec, born, index, known, revoked, history>>

CleanUnindex(w) ==
  /\ At(w, "tidying")
  /\ index' = index \ {op[w].sid}
  /\ op' = [op EXCEPT ![w].at = "cleaning", ![w].sid = NoSid]
  /\ UNCHANGED <<rec, born, known, revoked, history>>

CleanEnds(w) ==
  /\ At(w, "cleaning")
  /\ op[w].todo = {}
  /\ Finish(w)
  /\ UNCHANGED <<rec, born, index, known, revoked, history>>

-----------------------------------------------------------------------------
\* A record's TTL runs out.
Expire(s) ==
  /\ Live(s)
  /\ Delete(s)
  /\ UNCHANGED <<born, index, op, known, revoked, history>>

\* A creation that has its entry in the index and not made room for it yet.
Trimming(w) == op[w].at \in {"counting", "ranging", "trimming"}

\* The process dies, or Redis rejects a command and the operation throws.
Die(w) ==
  /\ deaths < MaxDeaths
  /\ ~At(w, "idle")
  /\ Finish(w)
  /\ deaths' = deaths + 1
  /\ untrimmed' = IF Trimming(w) THEN untrimmed + 1 ELSE untrimmed
  /\ UNCHANGED <<rec, born, index, known, revoked>>

\* The next command of an operation under way.
Step(w) == \/ SetRecord(w) \/ AddToIndex(w) \/ Count(w) \/ RangeOldest(w) \/ Trim(w)
           \/ \E s \in Sids : Evict(w, s)
           \/ WriteTouched(w) \/ WriteMigrated(w)
           \/ DeleteRecord(w) \/ RemoveFromIndex(w)
           \/ \E s \in Sids : ScanKey(w, s)
           \/ ScanDelete(w) \/ ScanUnindex(w) \/ ScanEnds(w)
           \/ \E s \in Sids : CleanNext(w, s)
           \/ CleanUnindex(w) \/ CleanEnds(w)

SessionNext == \/ \E w \in Workers :
                    \/ Step(w)
                    \/ \E s \in Sids : Create(w, s) \/ Touch(w, s) \/ Remove(w, s)
                    \/ \E s, new \in Sids : Migrate(w, s, new)
                    \/ DeleteAll(w) \/ Cleanup(w) \/ Die(w)
               \/ \E s \in Sids : Expire(s)

SessionSpec == SessionInit /\ [][SessionNext]_sessionVars

\* Redis answers, and the cleanup job keeps being started by its cron.
SessionFairSpec == /\ SessionSpec
                   /\ \A w \in Workers : WF_sessionVars(Step(w)) /\ SF_sessionVars(Cleanup(w))

-----------------------------------------------------------------------------
\* Whatever creates, removals and trims interleave, and wherever processes
\* die, the index exceeds the limit by at most one entry for each creation that
\* has not finished its trim, or never will.
IndexBounded ==
  Cardinality(index) <= MaxSessions + Cardinality({w \in Workers : Trimming(w)}) + untrimmed

\* The cleanup job "reconciles the secondary index": an entry whose record is
\* gone does not stay in the index, whatever else goes on.
StaleEntriesCleaned ==
  \A s \in Sids : s \in index /\ ~Live(s) ~> s \notin index \/ Live(s)

Quiet == \A w \in Workers : op[w].at = "idle"

\* "should evict the oldest session when the user exceeds the max session
\* limit": when no operation is under way, the user has no more sessions.
SessionLimitHolds == Quiet => Cardinality({s \in Sids : Live(s)}) <= MaxSessions

\* "allow instant revocation": a removed session does not come back.
RevokedStaysRevoked == \A s \in revoked : ~Live(s)
=============================================================================
