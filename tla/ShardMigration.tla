--------------------------- MODULE ShardMigration ---------------------------
(***************************************************************************)
(* ShardMigrationService moves the rows of one table from a shard to       *)
(* another, batch by batch, then deletes them at the source;               *)
(* ShardRebalanceService starts several migrations and waits for them.     *)
(* The application goes on using its own shard.  Migrations and statuses   *)
(* live in one process's memory.  ShardRouter's ring, rebuilt from the     *)
(* active shards, decides nothing here and is left out.                    *)
(*                                                                         *)
(* Every action is one SQL statement, with the code up to the next await.  *)
(***************************************************************************)
EXTENDS Integers, Sequences, FiniteSets

CONSTANTS Shards,
          AppShard,       \* the shard the application's own connection uses
          SetDraining,    \* the shards whose SHARD_n_STATUS is draining
          Ids,            \* the ids of the table, in their order
          BatchSize,
          MayFail,        \* whether statements may fail and the process restart
          MaxVersion,     \* bound: no row is updated more often
          MaxMigrations   \* bound: as many migrations are ever started

ASSUME ShardAssumption == AppShard \in Shards
ASSUME SetDrainingAssumption == SetDraining \subseteq Shards
ASSUME IdAssumption == Ids \subseteq Nat /\ IsFiniteSet(Ids)
ASSUME BatchAssumption == BatchSize \in Nat \ {0}
ASSUME MayAssumption == MayFail \in BOOLEAN
ASSUME BoundAssumption == MaxVersion \in Nat \ {0} /\ MaxMigrations \in Nat

VARIABLES data,        \* the version of each row at each shard, 0: no row
          latest,      \* history: the version the application last wrote of
                       \* each row, 0: never inserted, Deleted: deleted
          migrations,  \* migrationStatus, in the order they were started
          status,      \* of each shard in ShardConfigService
          started,     \* how many migrations were ever started, for the bound
          waiting,     \* the migrations the rebalance plan waits for
          disturbed    \* history: a write that a migration may lose was made

vars == <<data, latest, migrations, status, started, waiting, disturbed>>

Versions == 0..MaxVersion
Deleted == -1
Moves == [source : Shards, target : Shards, dryRun : BOOLEAN]

\* pending only lasts until the same call has set running.
Terminal == {"completed", "failed", "rolled_back"}

\* batch: the rows selected last, with their versions; total: how many rows were
\* selected in all.  Once it is over only its source and status count.
Migrations == [source : Shards, target : Shards, dryRun : BOOLEAN,
               at : {"connecting", "selecting", "inserting", "draining", "deleted", "over"},
               status : {"running"} \cup Terminal,
               batch : SUBSET [id : Ids, version : Versions],
               offset : Nat, total : Nat]

TypeOK == /\ data \in [Shards -> [Ids -> Versions]]
          /\ latest \in [Ids -> Versions \cup {Deleted}]
          /\ migrations \in Seq(Migrations)
          /\ status \in [Shards -> {"active", "draining"}]
          /\ started \in 0..MaxMigrations
          /\ waiting \subseteq DOMAIN migrations
          /\ disturbed \in BOOLEAN
          /\ \A m \in DOMAIN migrations : migrations[m].source # migrations[m].target

\* buildShardConfiguration: the statuses the environment gives; no shard of the
\* model is configured as offline or rebalancing.
Configured == [s \in Shards |-> IF s \in SetDraining THEN "draining" ELSE "active"]

\* Some rows exist, each at one shard.
Init == /\ \E first \in SUBSET Ids : \E place \in [first -> Shards] :
             /\ latest = [i \in Ids |-> IF i \in first THEN 1 ELSE 0]
             /\ data = [s \in Shards |->
                          [i \in Ids |-> IF i \in first /\ place[i] = s THEN 1 ELSE 0]]
        /\ migrations = <<>>
        /\ status = Configured
        /\ started = 0
        /\ waiting = {}
        /\ disturbed = FALSE

Present(s) == {i \in Ids : data[s][i] > 0}

\* How many rows of shard s come before id i.
Rank(s, i) == Cardinality({j \in Present(s) : j < i})

\* A migration that will delete what it found at s is between its first SELECT
\* and its DELETE.
Copying(s) == \E m \in DOMAIN migrations :
                /\ migrations[m].source = s
                /\ ~migrations[m].dryRun
                /\ migrations[m].at \in {"selecting", "inserting", "draining"}

-----------------------------------------------------------------------------
\* The application: its statements do not look at the shard's status.
AppInsert(i) ==
  /\ latest[i] = 0
  /\ data' = [data EXCEPT ![AppShard][i] = 1]
  /\ latest' = [latest EXCEPT ![i] = 1]
  /\ disturbed' = (disturbed \/ Copying(AppShard))
  /\ UNCHANGED <<migrations, status, started, waiting>>

AppUpdate(i) ==
  /\ i \in Present(AppShard)
  /\ latest[i] \in 1..(MaxVersion - 1)
  /\ data' = [data EXCEPT ![AppShard][i] = latest[i] + 1]
  /\ latest' = [latest EXCEPT ![i] = @ + 1]
  /\ disturbed' = (disturbed \/ Copying(AppShard))
  /\ UNCHANGED <<migrations, status, started, waiting>>

AppDelete(i) ==
  /\ i \in Present(AppShard)
  /\ data' = [data EXCEPT ![AppShard][i] = 0]
  /\ latest' = [latest EXCEPT ![i] = Deleted]
  /\ disturbed' = (disturbed \/ Copying(AppShard))
  /\ UNCHANGED <<migrations, status, started, waiting>>

-----------------------------------------------------------------------------
\* A mutant: source and target may be the same.
NotValidated(move) == move \in Moves

\* validatePlan; no shard of the model is offline or unknown.
IsValid(move) == move.source # move.target

Started(move) == [source |-> move.source, target |-> move.target, dryRun |-> move.dryRun,
                  at |-> "connecting", status |-> "running", batch |-> {},
                  offset |-> 0, total |-> 0]

StartMigration(move) ==
  /\ started < MaxMigrations
  /\ IsValid(move)
  /\ migrations' = Append(migrations, Started(move))
  /\ started' = started + 1
  /\ UNCHANGED <<data, latest, status, waiting, disturbed>>

\* executePlan, in one stretch: a plan is started up to its first invalid move,
\* whose error leaves those started before running and waited for by nobody.
TriggerManualRebalance(moves) ==
  /\ waiting = {}
  /\ \A n \in DOMAIN moves : moves[n].dryRun = moves[1].dryRun
  /\ started + Len(moves) =< MaxMigrations
  /\ LET valid == {n \in DOMAIN moves : \A k \in 1..n : IsValid(moves[k])}
     IN  /\ migrations' = migrations \o [n \in valid |-> Started(moves[n])]
         /\ waiting' = IF valid = DOMAIN moves
                       THEN {Len(migrations) + n : n \in valid} ELSE {}
         /\ started' = started + Cardinality(valid)
  /\ UNCHANGED <<data, latest, status, disturbed>>

-----------------------------------------------------------------------------
Connect(m) ==
  /\ migrations[m].at = "connecting"
  /\ migrations' = [migrations EXCEPT ![m].at = "selecting"]
  /\ UNCHANGED <<data, latest, status, started, waiting, disturbed>>

\* SELECT ... ORDER BY id LIMIT OFFSET.
Batch(m) ==
  LET s == migrations[m].source
  IN  {[id |-> i, version |-> data[s][i]] :
         i \in {j \in Present(s) : Rank(s, j) - migrations[m].offset \in 0..(BatchSize - 1)}}

SelectBatch(m) ==
  /\ migrations[m].at = "selecting"
  /\ Batch(m) # {}
  /\ migrations' = [migrations EXCEPT ![m].at = "inserting", ![m].batch = Batch(m)]
  /\ UNCHANGED <<data, latest, status, started, waiting, disturbed>>

\* INSERT ... ON CONFLICT DO NOTHING, nothing in a dry run.
Inserted(m) ==
  [i \in Ids |-> LET t == migrations[m].target
                     copies == {r \in migrations[m].batch : r.id = i}
                 IN  IF data[t][i] = 0 /\ copies # {} /\ ~migrations[m].dryRun
                     THEN (CHOOSE r \in copies : TRUE).version
                     ELSE data[t][i]]

\* A row the target has in another version is kept there; a row that comes to a
\* shard being copied from is new to that copy.
Disturbs(m) ==
  /\ ~migrations[m].dryRun
  /\ \/ \E r \in migrations[m].batch : data[migrations[m].target][r.id] \notin {0, r.version}
     \/ Copying(migrations[m].target)

\* A mutant: only the rows the INSERT reports count, for the next page too.
NextPageOfInserted(m) ==
  LET inserted == {r \in migrations[m].batch : data[migrations[m].target][r.id] = 0}
  IN  [migrations[m] EXCEPT !.at = "selecting", !.batch = {},
                            !.offset = @ + Cardinality(inserted),
                            !.total = @ + Cardinality(inserted)]

NextPage(m) == [migrations[m] EXCEPT !.at = "selecting", !.batch = {},
                                     !.offset = @ + BatchSize,
                                     !.total = @ + Cardinality(migrations[m].batch)]

InsertBatch(m) ==
  /\ migrations[m].at = "inserting"
  /\ data' = [data EXCEPT ![migrations[m].target] = Inserted(m)]
  /\ migrations' = [migrations EXCEPT ![m] = NextPage(m)]
  /\ disturbed' = (disturbed \/ Disturbs(m))
  /\ UNCHANGED <<latest, status, started, waiting>>

\* A mutant: a dry run deletes too.
AlwaysDeletes(m) == TRUE

Deletes(m) == ~migrations[m].dryRun

\* The SELECT finds no more rows: the source is marked, the DELETE sent.
Drain(m) ==
  /\ migrations[m].at = "selecting"
  /\ Batch(m) = {}
  /\ Deletes(m)
  /\ migrations' = [migrations EXCEPT ![m].at = "draining"]
  /\ status' = [status EXCEPT ![migrations[m].source] = "draining"]
  /\ UNCHANGED <<data, latest, started, waiting, disturbed>>

\* As many rows as were selected, the first ones now, whichever they are.
DeleteRows(m) ==
  /\ migrations[m].at = "draining"
  /\ LET s == migrations[m].source
     IN  data' = [data EXCEPT ![s] = [i \in Ids |-> IF Rank(s, i) < migrations[m].total
                                                    THEN 0 ELSE data[s][i]]]
  /\ migrations' = [migrations EXCEPT ![m].at = "deleted"]
  /\ UNCHANGED <<latest, status, started, waiting, disturbed>>

\* A mutant: the source is not marked active again.
StaysMarked(m) == status

\* The statuses when m completes after its DELETE.
Restored(m) == [status EXCEPT ![migrations[m].source] = "active"]

Ended(m, end) == [migrations EXCEPT ![m].at = "over", ![m].status = end, ![m].batch = {},
                                    ![m].dryRun = FALSE, ![m].offset = 0, ![m].total = 0]

Complete(m) ==
  /\ migrations[m].at = "deleted"
  /\ migrations' = Ended(m, "completed")
  /\ status' = Restored(m)
  /\ UNCHANGED <<data, latest, started, waiting, disturbed>>

CompleteDryRun(m) ==
  /\ migrations[m].at = "selecting"
  /\ Batch(m) = {}
  /\ ~Deletes(m)
  /\ migrations' = Ended(m, "completed")
  /\ UNCHANGED <<data, latest, status, started, waiting, disturbed>>

\* A connection or a statement fails, before or after the statement took effect:
\* nothing is undone, neither the copies nor the draining mark.
Fail(m) ==
  /\ MayFail
  /\ migrations[m].at # "over"
  /\ migrations' = Ended(m, "failed")
  /\ UNCHANGED <<data, latest, status, started, waiting, disturbed>>

\* The rows are not touched.
RollbackMigration(m) ==
  /\ migrations[m].status = "completed"
  /\ migrations' = [migrations EXCEPT ![m].status = "rolled_back"]
  /\ UNCHANGED <<data, latest, status, started, waiting, disturbed>>

-----------------------------------------------------------------------------
\* A mutant: the plan waits for its migrations to complete.
Completed == {"completed"}

\* What waitForMigrations takes for an end.
Ends == Terminal

FinishRebalance ==
  /\ waiting # {}
  /\ \A m \in waiting : migrations[m].status \in Ends
  /\ waiting' = {}
  /\ UNCHANGED <<data, latest, migrations, status, started, disturbed>>

\* The shards are read from the environment again, each with its first status.
ReloadConfig ==
  /\ status' = Configured
  /\ UNCHANGED <<data, latest, migrations, started, waiting, disturbed>>

\* The process dies and starts: what it knew of its migrations is gone.
Restart ==
  /\ MayFail
  /\ migrations' = <<>>
  /\ waiting' = {}
  /\ status' = Configured
  /\ UNCHANGED <<data, latest, started, disturbed>>

-----------------------------------------------------------------------------
Application == \E i \in Ids : AppInsert(i) \/ AppUpdate(i) \/ AppDelete(i)

Operator == \/ \E move \in Moves : StartMigration(move)
            \/ \E first, second \in Moves : TriggerManualRebalance(<<first, second>>)
            \/ \E m \in DOMAIN migrations : RollbackMigration(m)
            \/ ReloadConfig

Continue(m) == /\ m \in DOMAIN migrations
               /\ \/ Connect(m)
                  \/ SelectBatch(m)
                  \/ InsertBatch(m)
                  \/ Drain(m)
                  \/ DeleteRows(m)
                  \/ Complete(m)
                  \/ CompleteDryRun(m)

Next == \/ Application
        \/ Operator
        \/ \E m \in 1..MaxMigrations : Continue(m) \/ (m \in DOMAIN migrations /\ Fail(m))
        \/ FinishRebalance
        \/ Restart

Spec == Init /\ [][Next]_vars

\* Statements are answered and the plan's timer fires; nobody has to ask for more.
FairSpec == /\ Spec
            /\ \A m \in 1..MaxMigrations : WF_vars(Continue(m))
            /\ WF_vars(FinishRebalance)

-----------------------------------------------------------------------------
\* Every row that exists is at some shard, in the version last written.
RowsSurvive == \A i \in Ids : latest[i] > 0 => \E s \in Shards : data[s][i] = latest[i]

\* A row is lost, or goes back to an older version, only when a write came to a
\* shard being copied from, of the application or of another migration, or a
\* copy met an older one left over at the target.  Batches, failures between
\* any two statements and restarts alone lose nothing.
OnlyDisturbedRowsAreLost == ~disturbed => RowsSurvive

\* A shard not configured as draining is marked so while a migration deletes its
\* rows, or because one failed there: no completed migration leaves the mark (it
\* keeps the shard out of every ring built from then on).
DrainingHasACause ==
  \A s \in Shards \ SetDraining : status[s] = "draining" =>
    \E m \in DOMAIN migrations : /\ migrations[m].source = s
                                 /\ \/ migrations[m].at \in {"draining", "deleted"}
                                    \/ migrations[m].status = "failed"

\* Every migration ends, whatever the writes and other migrations do to its pages.
MigrationEnds ==
  \A m \in 1..MaxMigrations :
    m \in DOMAIN migrations ~> m \notin DOMAIN migrations \/ migrations[m].at = "over"

\* The rebalance plan that waits goes on, when a migration of it failed too.
RebalanceEnds == waiting # {} ~> waiting = {}
=============================================================================
