------------------------------ MODULE RankProofs ------------------------------
(***************************************************************************)
(* Two services count on the order of ids: ShardMigrationService pages     *)
(* through a table and deletes its first rows, SessionService drops the    *)
(* first members of a sorted set.  What is said here of the ranks in a     *)
(* finite set serves both: no row is lost but by a write to a shard being  *)
(* copied from, and the index of a user's sessions stays bounded.          *)
(***************************************************************************)
EXTENDS ShardMigration, Session, FiniteSetTheorems, WellFoundedInduction, TLAPS

-----------------------------------------------------------------------------
(* Ranks in finite sets of numbers. *)

\* A set of naturals has a least element.
LEMMA Least ==
  ASSUME NEW S \in SUBSET Nat, S # {}
  PROVE  \E n \in S : \A m \in S : n =< m
<1> DEFINE R == OpToRel(<, Nat)
<1>1. IsWellFoundedOn(R, Nat)
  BY NatLessThanWellFounded
<1>2. \A m, n \in S : <<m, n>> \in R <=> m < n
  BY DEF OpToRel
<1> HIDE DEF R
<1>3. PICK n \in S : \A m \in S : ~(<<m, n>> \in R)
  BY <1>1, WFMin
<1>4. \A m \in S : ~(m < n)
  BY <1>2, <1>3
<1> QED
  BY <1>4

\* Taking away the n elements of lowest rank takes away n elements, or all of
\* them, also when ranks are shared.
LEMMA LowestTaken ==
  ASSUME NEW S, IsFiniteSet(S), NEW f, \A s \in S : f[s] \in Nat, NEW n \in Nat,
         NEW Low, Low = {s \in S : Cardinality({t \in S : f[t] < f[s]}) < n}
  PROVE  S \ Low = {} \/ Cardinality(S \ Low) =< Cardinality(S) - n
<1> SUFFICES ASSUME S \ Low # {} PROVE Cardinality(S \ Low) =< Cardinality(S) - n
  OBVIOUS
<1> DEFINE Keys == {f[s] : s \in S \ Low}
<1>1. PICK s \in S \ Low : \A t \in S \ Low : f[s] =< f[t]
  <2>1. Keys \subseteq Nat /\ Keys # {}
    OBVIOUS
  <2> HIDE DEF Keys
  <2>2. PICK k \in Keys : \A m \in Keys : k =< m
    BY <2>1, Least
  <2>3. PICK s \in S \ Low : k = f[s]
    BY DEF Keys
  <2>4. \A t \in S \ Low : f[t] \in Keys
    BY DEF Keys
  <2> QED
    BY <2>2, <2>3, <2>4
<1> DEFINE Below == {t \in S : f[t] < f[s]}
<1>3. Below \subseteq Low
  <2> SUFFICES ASSUME NEW t \in Below, t \notin Low PROVE FALSE
    OBVIOUS
  <2>1. f[s] =< f[t] /\ f[t] < f[s] /\ f[s] \in Nat /\ f[t] \in Nat
    BY <1>1
  <2> QED
    BY <2>1
<1>4. /\ IsFiniteSet(Low) /\ Cardinality(Low) \in Nat
      /\ Cardinality(S) \in Nat
      /\ Cardinality(Below) =< Cardinality(Low) /\ Cardinality(Below) \in Nat
  BY <1>3, FS_Subset, FS_CardinalityType
<1>5. Cardinality(Below) >= n
  <2>1. ~(Cardinality(Below) < n)
    OBVIOUS
  <2> QED
    BY <2>1, <1>4
<1>6. S \cap Low = Low
  OBVIOUS
<1>7. Cardinality(S \ Low) = Cardinality(S) - Cardinality(Low)
  <2>1. Cardinality(S \ Low) = Cardinality(S) - Cardinality(S \cap Low)
    BY FS_Difference
  <2> QED
    BY <1>6, <2>1
<1>8. Cardinality(Low) >= n
  BY <1>4, <1>5
<1> QED
  BY <1>4, <1>7, <1>8

\* How many elements of S come before i.
RankIn(S, i) == Cardinality({j \in S : j < i})

LEMMA RankType ==
  ASSUME NEW S \in SUBSET Nat, IsFiniteSet(S), NEW i
  PROVE  /\ IsFiniteSet({j \in S : j < i})
         /\ RankIn(S, i) \in Nat
BY FS_Subset, FS_CardinalityType DEF RankIn

\* A later element has a higher rank.
LEMMA RankMonotone ==
  ASSUME NEW S \in SUBSET Nat, IsFiniteSet(S), NEW i \in S, NEW k \in Nat, i < k
  PROVE  RankIn(S, i) < RankIn(S, k)
<1> DEFINE Below(n) == {j \in S : j < n}
<1>0. \A n : Below(n) \subseteq S
  OBVIOUS
<1>1. /\ Below(i) \subseteq Below(k) /\ i \in Below(k) /\ i \notin Below(i)
      /\ IsFiniteSet(Below(k)) /\ IsFiniteSet(Below(i))
  <2>1. IsFiniteSet(Below(k)) /\ IsFiniteSet(Below(i))
    BY <1>0, FS_Subset
  <2>2. i \in Nat /\ \A j \in S : j \in Nat
    OBVIOUS
  <2>3. i \in Below(k) /\ i \notin Below(i)
    BY <2>2
  <2>4. Below(i) \subseteq Below(k)
    <3> SUFFICES ASSUME NEW j \in Below(i) PROVE j \in Below(k)
      OBVIOUS
    <3>1. j \in S /\ j < i /\ j \in Nat
      BY <2>2
    <3> QED
      BY <2>2, <3>1
  <2> QED
    BY <2>1, <2>3, <2>4
<1>2. Below(i) # Below(k)
  BY <1>1
<1> HIDE DEF Below
<1>3. Cardinality(Below(i)) \in Nat /\ Cardinality(Below(k)) \in Nat
      /\ Cardinality(Below(i)) =< Cardinality(Below(k))
      /\ Cardinality(Below(i)) # Cardinality(Below(k))
  BY <1>1, <1>2, FS_Subset, FS_CardinalityType
<1> QED
  BY <1>3 DEF RankIn, Below

\* No rank reaches the size of the set.
LEMMA RankBound ==
  ASSUME NEW S \in SUBSET Nat, IsFiniteSet(S), NEW i \in S
  PROVE  RankIn(S, i) < Cardinality(S)
<1> DEFINE Below == {j \in S : j < i}
<1>1. Below \subseteq S /\ i \in S /\ i \in Nat /\ i \notin Below
  OBVIOUS
<1>2. Below # S
  BY <1>1
<1>3. /\ IsFiniteSet(Below) /\ Cardinality(Below) \in Nat /\ Cardinality(S) \in Nat
      /\ Cardinality(Below) =< Cardinality(S) /\ Cardinality(Below) # Cardinality(S)
  BY <1>1, <1>2, FS_Subset, FS_CardinalityType
<1> QED
  BY <1>3 DEF RankIn

\* The ranks have no gap: when no element has rank n, every element has a
\* lower one.
LEMMA RanksContiguous ==
  ASSUME NEW S \in SUBSET Nat, IsFiniteSet(S), NEW n \in Nat,
         \A i \in S : RankIn(S, i) # n
  PROVE  \A i \in S : RankIn(S, i) < n
<1> SUFFICES ASSUME NEW top \in S, ~(RankIn(S, top) < n) PROVE FALSE
  OBVIOUS
<1> DEFINE High == {i \in S : ~(RankIn(S, i) < n)}
<1>1. PICK s \in High : \A i \in High : s =< i
  BY Least
<1> DEFINE Below == {j \in S : j < s}
           f == [j \in Below |-> RankIn(S, j)]
<1>2. \A j \in Below : RankIn(S, j) \in 0..(n - 1)
  <2> SUFFICES ASSUME NEW j \in Below PROVE RankIn(S, j) \in 0..(n - 1)
    OBVIOUS
  <2>1. j \in S /\ j < s /\ s \in Nat /\ j \in Nat
    OBVIOUS
  <2>2. j \notin High
    BY <2>1, <1>1
  <2>3. RankIn(S, j) < n /\ RankIn(S, j) \in Nat
    BY <2>1, <2>2, RankType
  <2> QED
    BY <2>3
<1>3. \A i, j \in Below : i # j => RankIn(S, i) # RankIn(S, j)
  <2> SUFFICES ASSUME NEW i \in Below, NEW j \in Below, i # j, RankIn(S, i) = RankIn(S, j)
               PROVE  FALSE
    OBVIOUS
  <2>1. i \in S /\ j \in S /\ i \in Nat /\ j \in Nat
    OBVIOUS
  <2>2. RankIn(S, i) \in Nat
    BY RankType
  <2>3. CASE i < j
    BY <2>1, <2>2, <2>3, RankMonotone
  <2>4. CASE j < i
    BY <2>1, <2>2, <2>4, RankMonotone
  <2> QED
    BY <2>1, <2>3, <2>4
<1>4. f \in Injection(Below, 0..(n - 1))
  BY <1>2, <1>3 DEF Injection, IsInjective
<1>5. IsFiniteSet(0..(n - 1)) /\ Cardinality(0..(n - 1)) = n
  <2>1. IsFiniteSet(0..(n - 1)) /\ Cardinality(0..(n - 1)) = IF 0 > n - 1 THEN 0 ELSE n - 1 - 0 + 1
    BY FS_Interval
  <2> QED
    BY <2>1
<1>6. Cardinality(Below) =< n
  BY <1>4, <1>5, FS_Injection
<1>7. RankIn(S, s) =< n /\ RankIn(S, s) \in Nat /\ ~(RankIn(S, s) < n)
  BY <1>1, <1>6, RankType DEF RankIn
<1> QED
  BY <1>1, <1>7

-----------------------------------------------------------------------------
(* ShardMigrationService: the inductive invariant. *)

Source(m) == migrations[m].source

\* Migrations that delete at their source what they have found there.
Copies == {m \in DOMAIN migrations :
             ~migrations[m].dryRun /\ migrations[m].at \in {"selecting", "inserting", "draining"}}

\* The rows at m's source that the offset has gone past.
Selected(m) == {i \in Present(Source(m)) : Rank(Source(m), i) < migrations[m].offset}

\* Shard x has row i as last written, and no copy has gone past it there.
Safe(x, i) == /\ data[x][i] = latest[i]
              /\ \A m \in Copies : Source(m) = x => Rank(x, i) >= migrations[m].offset

\* What the invariant says of rows: more than that they survive.
SafeSomewhere == \A i \in Ids : latest[i] > 0 => \E x \in Shards : Safe(x, i)

\* What m counts is what its offset has gone past, what it holds is its source's
\* page, and it deletes when there is nothing left to select; or another copy
\* has emptied the source already.
CopyInStep(m) ==
  \/ Present(Source(m)) = {}
  \/ /\ migrations[m].total = Cardinality(Selected(m))
     /\ migrations[m].at = "inserting" => migrations[m].batch = Batch(m)
     /\ migrations[m].at = "draining" => Selected(m) = Present(Source(m))

\* What a migration's phase says of its other fields.
WellPhased ==
  \A m \in DOMAIN migrations :
    /\ migrations[m].at = "connecting" => migrations[m].offset = 0 /\ migrations[m].total = 0
    /\ migrations[m].at = "draining" => ~migrations[m].dryRun
    /\ migrations[m].status # "running" => migrations[m].at = "over"
    /\ IsFiniteSet(migrations[m].batch)

\* No write has come between a copy and its DELETE.
Undisturbed == ~disturbed => SafeSomewhere /\ \A m \in Copies : CopyInStep(m)

MInv == TypeOK /\ WellPhased /\ DrainingHasACause /\ Undisturbed

-----------------------------------------------------------------------------
\* Rows and their ranks at a shard.
LEMMA Rows ==
  ASSUME TypeOK, NEW s \in Shards
  PROVE  /\ Present(s) \subseteq Ids /\ Present(s) \in SUBSET Nat /\ IsFiniteSet(Present(s))
         /\ \A i \in Ids : data[s][i] \in Versions /\ data[s][i] \in Nat
         /\ \A i \in Ids : i \notin Present(s) => data[s][i] = 0
         /\ \A i : Rank(s, i) = RankIn(Present(s), i) /\ Rank(s, i) \in Nat
<1>1. Present(s) \subseteq Ids /\ Present(s) \in SUBSET Nat /\ IsFiniteSet(Present(s))
  BY IdAssumption, FS_Subset DEF Present
<1>2. \A i \in Ids : data[s][i] \in Versions /\ data[s][i] \in Nat
  BY BoundAssumption DEF TypeOK, Versions
<1>3. \A i : Rank(s, i) = RankIn(Present(s), i) /\ Rank(s, i) \in Nat
  BY <1>1, RankType DEF Rank, RankIn
<1> QED
  BY <1>1, <1>2, <1>3 DEF Present

\* The fields of a migration.
LEMMA MigrationType ==
  ASSUME TypeOK, NEW m \in DOMAIN migrations
  PROVE  /\ migrations[m] \in Migrations
         /\ Source(m) \in Shards /\ migrations[m].target \in Shards
         /\ Source(m) # migrations[m].target
         /\ migrations[m].offset \in Nat /\ migrations[m].total \in Nat
         /\ migrations[m].dryRun \in BOOLEAN
<1>1. migrations[m] \in Migrations
  BY DEF TypeOK
<1> QED
  BY <1>1 DEF Migrations, Source, TypeOK

\* The invariant holds when nothing has been moved yet.
LEMMA InitInv == Init => MInv
<1> SUFFICES ASSUME Init PROVE MInv
  OBVIOUS
<1> DEFINE Placed(first, place) ==
             /\ latest = [i \in Ids |-> IF i \in first THEN 1 ELSE 0]
             /\ data = [s \in Shards |->
                          [i \in Ids |-> IF i \in first /\ place[i] = s THEN 1 ELSE 0]]
<1>0. PICK first \in SUBSET Ids : \E place \in [first -> Shards] : Placed(first, place)
  BY DEF Init
<1>1. PICK place \in [first -> Shards] : Placed(first, place)
  BY <1>0
<1>2. migrations = <<>> /\ migrations \in Seq(Migrations) /\ DOMAIN migrations = {}
  BY DEF Init
<1>3. TypeOK
  <2>1. data \in [Shards -> [Ids -> Versions]] /\ latest \in [Ids -> Versions \cup {Deleted}]
    BY <1>1, BoundAssumption DEF Versions
  <2> QED
    <3>1. /\ status \in [Shards -> {"active", "draining"}] /\ started \in 0..MaxMigrations
          /\ waiting = {} /\ disturbed \in BOOLEAN
      <4>1. /\ status = Configured
            /\ started = 0 /\ waiting = {} /\ disturbed = FALSE
        BY DEF Init
      <4>2. disturbed \in BOOLEAN
        BY <4>1, Zenon
      <4>3. status \in [Shards -> {"active", "draining"}]
        BY <4>1 DEF Configured
      <4>4. started \in 0..MaxMigrations
        BY <4>1, BoundAssumption
      <4> QED
        BY <4>1, <4>2, <4>3, <4>4
    <3> QED
      BY <1>2, <2>1, <3>1 DEF TypeOK
<1>4. WellPhased /\ Copies = {}
  BY <1>2 DEF WellPhased, Copies
<1>5. DrainingHasACause
  BY DEF Init, Configured, DrainingHasACause
<1>6. SafeSomewhere
  <2> SUFFICES ASSUME NEW i \in Ids, latest[i] > 0 PROVE \E x \in Shards : Safe(x, i)
    BY DEF SafeSomewhere
  <2>1. i \in first /\ place[i] \in Shards
    BY <1>1
  <2>2. Safe(place[i], i)
    BY <1>1, <1>4, <2>1 DEF Safe
  <2> QED
    BY <2>1, <2>2
<1> QED
  BY <1>3, <1>4, <1>5, <1>6 DEF MInv, Undisturbed

-----------------------------------------------------------------------------
(* ShardMigrationService: what each action does to migrations. *)

\* A step of one migration.
Becomes(m, new) == migrations' = [migrations EXCEPT ![m] = new]

\* WellPhased, of one record.
OneWellPhased(r) == /\ r.at = "connecting" => r.offset = 0 /\ r.total = 0
                    /\ r.at = "draining" => ~r.dryRun
                    /\ r.status # "running" => r.at = "over"
                    /\ IsFiniteSet(r.batch)

\* Such a step keeps the types of migrations.
LEMMA BecomesType ==
  ASSUME TypeOK, WellPhased, NEW m \in DOMAIN migrations, NEW new \in Migrations,
         Becomes(m, new),
         new.source = migrations[m].source, new.target = migrations[m].target,
         OneWellPhased(new)
  PROVE  /\ migrations' \in Seq(Migrations) /\ DOMAIN migrations' = DOMAIN migrations
         /\ \A k \in DOMAIN migrations' : migrations'[k].source # migrations'[k].target
         /\ migrations'[m] = new
         /\ \A k \in DOMAIN migrations \ {m} : migrations'[k] = migrations[k]
         /\ WellPhased'
<1>1. migrations \in Seq(Migrations) /\ migrations \in [1..Len(migrations) -> Migrations]
      /\ DOMAIN migrations = 1..Len(migrations)
  BY DEF TypeOK
<1>2. /\ migrations' \in Seq(Migrations) /\ DOMAIN migrations' = DOMAIN migrations
      /\ migrations'[m] = new
      /\ \A k \in DOMAIN migrations \ {m} : migrations'[k] = migrations[k]
  BY <1>1 DEF Becomes
<1>3. \A k \in DOMAIN migrations' : migrations'[k].source # migrations'[k].target
  BY <1>2 DEF TypeOK
<1>4. WellPhased'
  BY <1>2 DEF WellPhased, OneWellPhased
<1> QED
  BY <1>2, <1>3, <1>4

\* The page of a SELECT, and the ids in it.
PageIds(m) == {j \in Present(Source(m)) :
                 Rank(Source(m), j) - migrations[m].offset \in 0..(BatchSize - 1)}

\* The page has a row for each of its ids.
LEMMA PageCount ==
  ASSUME TypeOK, NEW m \in DOMAIN migrations
  PROVE  /\ PageIds(m) \subseteq Present(Source(m))
         /\ IsFiniteSet(PageIds(m)) /\ IsFiniteSet(Batch(m))
         /\ Cardinality(Batch(m)) = Cardinality(PageIds(m))
         /\ Batch(m) \subseteq [id : Ids, version : Versions]
<1> DEFINE s == Source(m)
           row(i) == [id |-> i, version |-> data[s][i]]
           f == [i \in PageIds(m) |-> row(i)]
<1>1. s \in Shards /\ PageIds(m) \subseteq Present(s)
  BY MigrationType DEF PageIds
<1>2. IsFiniteSet(PageIds(m)) /\ Present(s) \subseteq Ids
      /\ \A i \in Ids : data[s][i] \in Versions
  BY <1>1, Rows, FS_Subset
<1>3. Batch(m) = {row(i) : i \in PageIds(m)}
  BY DEF Batch, PageIds, Source
<1>4. f \in Bijection(PageIds(m), Batch(m))
  <2>1. f \in [PageIds(m) -> Batch(m)] /\ \A r \in Batch(m) : \E i \in PageIds(m) : f[i] = r
    BY <1>3
  <2>2. \A i, j \in PageIds(m) : f[i] = f[j] => i = j
    OBVIOUS
  <2> QED
    BY <2>1, <2>2 DEF Bijection, Injection, Surjection, IsInjective
<1>5. IsFiniteSet(Batch(m)) /\ Cardinality(Batch(m)) = Cardinality(PageIds(m))
  BY <1>2, <1>4, FS_Bijection DEF ExistsBijection
<1>6. Batch(m) \subseteq [id : Ids, version : Versions]
  BY <1>1, <1>2, <1>3
<1> QED
  BY <1>1, <1>2, <1>5, <1>6

\* Each action that moves m, by the record it leaves.
LEMMA EndedType ==
  ASSUME TypeOK, WellPhased, NEW m \in DOMAIN migrations, NEW end \in Terminal,
         migrations' = Ended(m, end)
  PROVE  \E new \in Migrations :
           /\ Becomes(m, new) /\ OneWellPhased(new)
           /\ new.source = migrations[m].source /\ new.target = migrations[m].target
           /\ new.at = "over" /\ new.status = end
<1> DEFINE new == [migrations[m] EXCEPT !.at = "over", !.status = end, !.batch = {},
                                        !.dryRun = FALSE, !.offset = 0, !.total = 0]
<1>1. migrations[m] \in Migrations
  BY MigrationType
<1>2. /\ new \in Migrations
      /\ new.source = migrations[m].source /\ new.target = migrations[m].target
      /\ new.at = "over" /\ new.status = end /\ new.batch = {} /\ new.offset = 0 /\ new.total = 0
  BY <1>1 DEF Migrations, Terminal
<1>3. migrations \in Seq(Migrations)
  BY DEF TypeOK
<1>4. Becomes(m, new)
  BY <1>3 DEF Ended, Becomes
<1>5. OneWellPhased(new)
  BY <1>2, FS_EmptySet DEF OneWellPhased
<1> QED
  BY <1>2, <1>4, <1>5

LEMMA ConnectMoves ==
  ASSUME TypeOK, WellPhased, NEW m \in DOMAIN migrations, Connect(m)
  PROVE  \E new \in Migrations :
           /\ Becomes(m, new) /\ OneWellPhased(new)
           /\ new.source = migrations[m].source /\ new.target = migrations[m].target
           /\ new.at = "selecting"
           /\ new.batch = migrations[m].batch
           /\ new.offset = 0
           /\ new.total = 0
           /\ new.status = migrations[m].status
           /\ new.dryRun = migrations[m].dryRun
<1> DEFINE new == [migrations[m] EXCEPT !.at = "selecting"]
<1>1. /\ migrations[m] \in Migrations /\ migrations \in Seq(Migrations)
      /\ OneWellPhased(migrations[m])
  BY MigrationType DEF TypeOK, WellPhased, OneWellPhased
<1>0. migrations[m].at = "connecting" /\ Becomes(m, new)
  BY <1>1 DEF Connect, Becomes
<1>2. /\ new \in Migrations
      /\ new.source = migrations[m].source /\ new.target = migrations[m].target
      /\ new.at = "selecting"
      /\ new.batch = migrations[m].batch
      /\ new.offset = 0
      /\ new.total = 0
      /\ new.status = migrations[m].status
      /\ new.dryRun = migrations[m].dryRun
  BY <1>1, <1>0 DEF Migrations, Terminal, OneWellPhased
<1>3. OneWellPhased(new)
  BY <1>0, <1>1, <1>2, FS_EmptySet DEF OneWellPhased
<1> QED
  BY <1>0, <1>2, <1>3

LEMMA SelectBatchMoves ==
  ASSUME TypeOK, WellPhased, NEW m \in DOMAIN migrations, SelectBatch(m)
  PROVE  \E new \in Migrations :
           /\ Becomes(m, new) /\ OneWellPhased(new)
           /\ new.source = migrations[m].source /\ new.target = migrations[m].target
           /\ new.at = "inserting"
           /\ new.batch = Batch(m)
           /\ new.offset = migrations[m].offset
           /\ new.total = migrations[m].total
           /\ new.status = migrations[m].status
           /\ new.dryRun = migrations[m].dryRun
<1> DEFINE new == [migrations[m] EXCEPT !.at = "inserting", !.batch = Batch(m)]
<1>1. /\ migrations[m] \in Migrations /\ migrations \in Seq(Migrations)
      /\ OneWellPhased(migrations[m])
  BY MigrationType DEF TypeOK, WellPhased, OneWellPhased
<1>0. migrations[m].at = "selecting" /\ Becomes(m, new)
  BY <1>1 DEF SelectBatch, Becomes
<1>2. /\ new \in Migrations
      /\ new.source = migrations[m].source /\ new.target = migrations[m].target
      /\ new.at = "inserting"
      /\ new.batch = Batch(m)
      /\ new.offset = migrations[m].offset
      /\ new.total = migrations[m].total
      /\ new.status = migrations[m].status
      /\ new.dryRun = migrations[m].dryRun
  BY <1>1, <1>0, PageCount DEF Migrations, Terminal, OneWellPhased
<1>3. OneWellPhased(new)
  BY <1>0, <1>1, <1>2, PageCount, FS_EmptySet DEF OneWellPhased
<1> QED
  BY <1>0, <1>2, <1>3

LEMMA InsertBatchMoves ==
  ASSUME TypeOK, WellPhased, NEW m \in DOMAIN migrations, InsertBatch(m)
  PROVE  \E new \in Migrations :
           /\ Becomes(m, new) /\ OneWellPhased(new)
           /\ new.source = migrations[m].source /\ new.target = migrations[m].target
           /\ new.at = "selecting"
           /\ new.batch = {}
           /\ new.offset = migrations[m].offset + BatchSize
           /\ new.total = migrations[m].total + Cardinality(migrations[m].batch)
           /\ new.status = migrations[m].status
           /\ new.dryRun = migrations[m].dryRun
<1> DEFINE new == [migrations[m] EXCEPT !.at = "selecting", !.batch = {},
                                        !.offset = @ + BatchSize,
                                        !.total = @ + Cardinality(migrations[m].batch)]
<1>t. Cardinality(migrations[m].batch) \in Nat
  BY FS_CardinalityType DEF WellPhased
<1>1. /\ migrations[m] \in Migrations /\ migrations \in Seq(Migrations)
      /\ OneWellPhased(migrations[m])
  BY MigrationType DEF TypeOK, WellPhased, OneWellPhased
<1>0. migrations[m].at = "inserting" /\ Becomes(m, new)
  BY <1>1 DEF InsertBatch, NextPage, Becomes
<1>2. /\ new \in Migrations
      /\ new.source = migrations[m].source /\ new.target = migrations[m].target
      /\ new.at = "selecting"
      /\ new.batch = {}
      /\ new.offset = migrations[m].offset + BatchSize
      /\ new.total = migrations[m].total + Cardinality(migrations[m].batch)
      /\ new.status = migrations[m].status
      /\ new.dryRun = migrations[m].dryRun
  <2>1. /\ migrations[m].offset + BatchSize \in Nat
        /\ migrations[m].total + Cardinality(migrations[m].batch) \in Nat
    BY <1>t, BatchAssumption, MigrationType
  <2> QED
    BY <1>1, <2>1 DEF Migrations, Terminal
<1>3. OneWellPhased(new)
  BY <1>0, <1>1, <1>2, FS_EmptySet DEF OneWellPhased
<1> QED
  BY <1>0, <1>2, <1>3

LEMMA DrainMoves ==
  ASSUME TypeOK, WellPhased, NEW m \in DOMAIN migrations, Drain(m)
  PROVE  \E new \in Migrations :
           /\ Becomes(m, new) /\ OneWellPhased(new)
           /\ new.source = migrations[m].source /\ new.target = migrations[m].target
           /\ new.at = "draining"
           /\ new.batch = migrations[m].batch
           /\ new.offset = migrations[m].offset
           /\ new.total = migrations[m].total
           /\ new.status = migrations[m].status
           /\ new.dryRun = FALSE /\ ~migrations[m].dryRun
<1> DEFINE new == [migrations[m] EXCEPT !.at = "draining"]
<1>1. /\ migrations[m] \in Migrations /\ migrations \in Seq(Migrations)
      /\ OneWellPhased(migrations[m])
  BY MigrationType DEF TypeOK, WellPhased, OneWellPhased
<1>0. migrations[m].at = "selecting" /\ Becomes(m, new)
  BY <1>1 DEF Drain, Deletes, Becomes
<1>2. /\ new \in Migrations
      /\ new.source = migrations[m].source /\ new.target = migrations[m].target
      /\ new.at = "draining"
      /\ new.batch = migrations[m].batch
      /\ new.offset = migrations[m].offset
      /\ new.total = migrations[m].total
      /\ new.status = migrations[m].status
      /\ new.dryRun = FALSE /\ ~migrations[m].dryRun
  BY <1>1, <1>0 DEF Drain, Deletes, Migrations, Terminal, OneWellPhased
<1>3. OneWellPhased(new)
  BY <1>0, <1>1, <1>2, FS_EmptySet DEF OneWellPhased
<1> QED
  BY <1>0, <1>2, <1>3

LEMMA DeleteRowsMoves ==
  ASSUME TypeOK, WellPhased, NEW m \in DOMAIN migrations, DeleteRows(m)
  PROVE  \E new \in Migrations :
           /\ Becomes(m, new) /\ OneWellPhased(new)
           /\ new.source = migrations[m].source /\ new.target = migrations[m].target
           /\ new.at = "deleted"
           /\ new.batch = migrations[m].batch
           /\ new.status = migrations[m].status
<1> DEFINE new == [migrations[m] EXCEPT !.at = "deleted"]
<1>1. /\ migrations[m] \in Migrations /\ migrations \in Seq(Migrations)
      /\ OneWellPhased(migrations[m])
  BY MigrationType DEF TypeOK, WellPhased, OneWellPhased
<1>0. migrations[m].at = "draining" /\ Becomes(m, new)
  BY <1>1 DEF DeleteRows, Becomes
<1>2. /\ new \in Migrations
      /\ new.source = migrations[m].source /\ new.target = migrations[m].target
      /\ new.at = "deleted"
      /\ new.batch = migrations[m].batch
      /\ new.status = migrations[m].status
  BY <1>1, <1>0 DEF Migrations, Terminal, OneWellPhased
<1>3. OneWellPhased(new)
  BY <1>0, <1>1, <1>2, FS_EmptySet DEF OneWellPhased
<1> QED
  BY <1>0, <1>2, <1>3

LEMMA RollbackMigrationMoves ==
  ASSUME TypeOK, WellPhased, NEW m \in DOMAIN migrations, RollbackMigration(m)
  PROVE  \E new \in Migrations :
           /\ Becomes(m, new) /\ OneWellPhased(new)
           /\ new.source = migrations[m].source /\ new.target = migrations[m].target
           /\ new.at = migrations[m].at
           /\ new.at = "over"
           /\ new.batch = migrations[m].batch
           /\ new.status = "rolled_back"
           /\ migrations[m].status = "completed"
<1> DEFINE new == [migrations[m] EXCEPT !.status = "rolled_back"]
<1>1. /\ migrations[m] \in Migrations /\ migrations \in Seq(Migrations)
      /\ OneWellPhased(migrations[m])
  BY MigrationType DEF TypeOK, WellPhased, OneWellPhased
<1>0. Becomes(m, new)
  BY <1>1 DEF RollbackMigration, Becomes
<1>2. /\ new \in Migrations
      /\ new.source = migrations[m].source /\ new.target = migrations[m].target
      /\ new.at = migrations[m].at
      /\ new.at = "over"
      /\ new.batch = migrations[m].batch
      /\ new.status = "rolled_back"
      /\ migrations[m].status = "completed"
  BY <1>1, <1>0 DEF RollbackMigration, Migrations, Terminal, OneWellPhased
<1>3. OneWellPhased(new)
  BY <1>0, <1>1, <1>2, FS_EmptySet DEF OneWellPhased
<1> QED
  BY <1>0, <1>2, <1>3

-----------------------------------------------------------------------------
\* A migration that was just started.
Fresh(r) == /\ r.at = "connecting" /\ r.status = "running"
            /\ r.offset = 0 /\ r.total = 0 /\ r.batch = {}
            /\ r.source # r.target

\* A step that only starts migrations.
Grows == /\ migrations' \in Seq(Migrations)
         /\ DOMAIN migrations \subseteq DOMAIN migrations'
         /\ \A k \in DOMAIN migrations : migrations'[k] = migrations[k]
         /\ \A k \in DOMAIN migrations' \ DOMAIN migrations : Fresh(migrations'[k])

LEMMA StartedType ==
  ASSUME NEW move \in Moves, IsValid(move)
  PROVE  Started(move) \in Migrations /\ Fresh(Started(move))
BY DEF Moves, IsValid, Started, Fresh, Migrations

\* StartMigration and executePlan append migrations.
LEMMA ConcatGrows ==
  ASSUME TypeOK, NEW new \in Seq(Migrations), \A n \in DOMAIN new : Fresh(new[n]),
         migrations' = migrations \o new
  PROVE  Grows /\ Len(migrations') = Len(migrations) + Len(new)
<1>1. migrations \in Seq(Migrations) /\ Len(migrations) \in Nat /\ Len(new) \in Nat
  BY DEF TypeOK
<1>2. /\ migrations' \in Seq(Migrations)
      /\ Len(migrations') = Len(migrations) + Len(new)
      /\ \A k \in 1..Len(migrations) : migrations'[k] = migrations[k]
      /\ \A k \in 1..Len(migrations') \ 1..Len(migrations) :
           migrations'[k] = new[k - Len(migrations)] /\ k - Len(migrations) \in 1..Len(new)
  BY <1>1
<1>3. /\ DOMAIN migrations = 1..Len(migrations) /\ DOMAIN migrations' = 1..Len(migrations')
      /\ DOMAIN new = 1..Len(new) /\ 1..Len(migrations) \subseteq 1..Len(migrations')
  BY <1>1, <1>2
<1> QED
  BY <1>2, <1>3 DEF Grows

LEMMA StartGrows ==
  ASSUME TypeOK, NEW move \in Moves, StartMigration(move)
  PROVE  Grows
<1> DEFINE new == <<Started(move)>>
<1>1. new \in Seq(Migrations) /\ \A n \in DOMAIN new : Fresh(new[n])
  BY StartedType DEF StartMigration
<1>2. migrations' = migrations \o new
  BY DEF StartMigration, TypeOK
<1> QED
  BY <1>1, <1>2, ConcatGrows

\* The plan's moves up to the first invalid one.
LEMMA TriggerGrows ==
  ASSUME TypeOK, NEW first \in Moves, NEW second \in Moves,
         TriggerManualRebalance(<<first, second>>)
  PROVE  Grows /\ waiting' \subseteq DOMAIN migrations' /\ started' \in 0..MaxMigrations
<1> DEFINE moves == <<first, second>>
           valid == {n \in DOMAIN moves : \A k \in 1..n : IsValid(moves[k])}
           new == [n \in valid |-> Started(moves[n])]
<1>1. DOMAIN moves = 1..2 /\ Len(moves) = 2 /\ \A n \in 1..2 : moves[n] \in Moves
  OBVIOUS
<1>2. \E l \in 0..2 : valid = 1..l
  <2>1. CASE ~IsValid(moves[1])
    <3>1. valid = 1..0
      BY <2>1, <1>1
    <3> QED
      BY <3>1
  <2>2. CASE IsValid(moves[1]) /\ ~IsValid(moves[2])
    <3>1. valid = 1..1
      BY <2>2, <1>1
    <3> QED
      BY <3>1
  <2>3. CASE IsValid(moves[1]) /\ IsValid(moves[2])
    <3>1. valid = 1..2
      BY <2>3, <1>1
    <3> QED
      BY <3>1
  <2> QED
    BY <2>1, <2>2, <2>3
<1>3. PICK l \in 0..2 : valid = 1..l
  BY <1>2
<1>4. \A n \in 1..l : Started(moves[n]) \in Migrations /\ Fresh(Started(moves[n]))
  <2> SUFFICES ASSUME NEW n \in 1..l
               PROVE  Started(moves[n]) \in Migrations /\ Fresh(Started(moves[n]))
    OBVIOUS
  <2>1. n \in valid
    BY <1>3
  <2>2. moves[n] \in Moves /\ IsValid(moves[n])
    BY <2>1, <1>1
  <2> QED
    BY <2>2, StartedType
<1>5. /\ migrations' = migrations \o new
      /\ waiting' = IF valid = DOMAIN moves THEN {Len(migrations) + n : n \in valid} ELSE {}
      /\ started' = started + Cardinality(valid)
      /\ started + Len(moves) =< MaxMigrations
  BY DEF TriggerManualRebalance
<1>6. Cardinality(valid) = l
  <2>1. Cardinality(1..l) = IF 1 > l THEN 0 ELSE l - 1 + 1
    BY FS_Interval
  <2>2. Cardinality(1..l) = l
    BY <2>1
  <2> QED
    BY <2>2, <1>3, Zenon
<1> HIDE DEF valid, moves
<1>7. new \in Seq(Migrations) /\ Len(new) = l /\ \A n \in DOMAIN new : Fresh(new[n])
  <2>1. new \in [1..l -> Migrations] /\ \A n \in 1..l : Fresh(new[n])
    BY <1>3, <1>4
  <2> QED
    BY <2>1
<1>8. Grows /\ Len(migrations') = Len(migrations) + l
  BY <1>5, <1>7, ConcatGrows
<1>9. started' \in 0..MaxMigrations
  BY <1>1, <1>5, <1>6, BoundAssumption DEF TypeOK
<1>10. waiting' \subseteq DOMAIN migrations'
  <2>1. Len(migrations) \in Nat /\ DOMAIN migrations' = 1..(Len(migrations) + l)
    BY <1>8 DEF TypeOK, Grows
  <2>2. {Len(migrations) + n : n \in valid} \subseteq 1..(Len(migrations) + l)
    BY <1>3, <2>1
  <2> QED
    BY <1>5, <2>1, <2>2
<1> QED
  BY <1>8, <1>9, <1>10

\* They keep the types.
LEMMA GrowsType ==
  ASSUME TypeOK, WellPhased, Grows
  PROVE  /\ \A k \in DOMAIN migrations' : migrations'[k].source # migrations'[k].target
         /\ WellPhased'
<1>1. \A k \in DOMAIN migrations' : \/ k \in DOMAIN migrations /\ migrations'[k] = migrations[k]
                                    \/ Fresh(migrations'[k])
  BY DEF Grows
<1>2. \A k \in DOMAIN migrations' : migrations'[k].source # migrations'[k].target
  BY <1>1 DEF TypeOK, Fresh
<1>3. ASSUME NEW k \in DOMAIN migrations'
      PROVE  LET m == migrations'[k] IN
             /\ m.at = "connecting" => m.offset = 0 /\ m.total = 0
             /\ m.at = "draining" => ~m.dryRun
             /\ m.status # "running" => m.at = "over"
             /\ IsFiniteSet(m.batch)
  <2>1. CASE k \in DOMAIN migrations /\ migrations'[k] = migrations[k]
    BY <2>1 DEF WellPhased
  <2>2. CASE Fresh(migrations'[k])
    BY <2>2, FS_EmptySet DEF Fresh
  <2> QED
    BY <1>1, <2>1, <2>2
<1>4. WellPhased'
  BY <1>3 DEF WellPhased
<1> QED
  BY <1>2, <1>4

-----------------------------------------------------------------------------
(* ShardMigrationService: types, and the causes of draining marks. *)

\* The steps of a migration that do not end it.
Advances(m) == Connect(m) \/ SelectBatch(m) \/ InsertBatch(m) \/ Drain(m) \/ DeleteRows(m)

\* Every step of a migration keeps the types of migrations.
LEMMA MigrationStep ==
  ASSUME TypeOK, WellPhased, NEW m \in DOMAIN migrations,
         Advances(m) \/ Complete(m) \/ CompleteDryRun(m) \/ Fail(m) \/ RollbackMigration(m)
  PROVE  /\ migrations' \in Seq(Migrations) /\ DOMAIN migrations' = DOMAIN migrations
         /\ \A k \in DOMAIN migrations' : migrations'[k].source # migrations'[k].target
         /\ WellPhased'
<1> SUFFICES \E new \in Migrations :
               /\ Becomes(m, new) /\ OneWellPhased(new)
               /\ new.source = migrations[m].source /\ new.target = migrations[m].target
  BY BecomesType
<1>1. CASE Connect(m)
  BY <1>1, ConnectMoves
<1>2. CASE SelectBatch(m)
  BY <1>2, SelectBatchMoves
<1>3. CASE InsertBatch(m)
  BY <1>3, InsertBatchMoves
<1>4. CASE Drain(m)
  BY <1>4, DrainMoves
<1>5. CASE DeleteRows(m)
  BY <1>5, DeleteRowsMoves
<1>6. CASE Complete(m) \/ CompleteDryRun(m) \/ Fail(m)
  <2>1. \E end \in Terminal : migrations' = Ended(m, end)
    BY <1>6 DEF Complete, CompleteDryRun, Fail, Terminal
  <2> QED
    BY <2>1, EndedType
<1>7. CASE RollbackMigration(m)
  BY <1>7, RollbackMigrationMoves
<1> QED
  BY <1>1, <1>2, <1>3, <1>4, <1>5, <1>6, <1>7 DEF Advances

\* The target's rows after an INSERT.
LEMMA InsertedType ==
  ASSUME TypeOK, NEW m \in DOMAIN migrations
  PROVE  Inserted(m) \in [Ids -> Versions]
<1> DEFINE t == migrations[m].target
           copies(i) == {r \in migrations[m].batch : r.id = i}
<1>1. /\ t \in Shards /\ data[t] \in [Ids -> Versions]
      /\ \A r \in migrations[m].batch : r.version \in Versions
  BY MigrationType DEF Migrations, TypeOK
<1>2. \A i \in Ids : copies(i) # {} => (CHOOSE r \in copies(i) : TRUE) \in migrations[m].batch
  OBVIOUS
<1>3. \A i \in Ids : copies(i) # {} => (CHOOSE r \in copies(i) : TRUE).version \in Versions
  BY <1>1, <1>2
<1>4. \A i \in Ids : data[t][i] \in Versions
  BY <1>1
<1> HIDE DEF copies
<1>5. Inserted(m) = [i \in Ids |->
          IF data[t][i] = 0 /\ copies(i) # {} /\ ~migrations[m].dryRun
          THEN (CHOOSE r \in copies(i) : TRUE).version ELSE data[t][i]]
  BY DEF Inserted, copies
<1> QED
  BY <1>3, <1>4, <1>5

\* No action writes anything but versions.
LEMMA DataType ==
  ASSUME TypeOK, Next
  PROVE  data' \in [Shards -> [Ids -> Versions]] /\ latest' \in [Ids -> Versions \cup {Deleted}]
<1>0. /\ data \in [Shards -> [Ids -> Versions]] /\ latest \in [Ids -> Versions \cup {Deleted}]
      /\ 0 \in Versions /\ 1 \in Versions /\ AppShard \in Shards
  BY BoundAssumption, ShardAssumption DEF TypeOK, Versions
<1>1. ASSUME NEW i \in Ids, AppInsert(i) PROVE data' \in [Shards -> [Ids -> Versions]]
                                           /\ latest' \in [Ids -> Versions \cup {Deleted}]
  BY <1>0, <1>1 DEF AppInsert
<1>2. ASSUME NEW i \in Ids, AppUpdate(i) PROVE data' \in [Shards -> [Ids -> Versions]]
                                           /\ latest' \in [Ids -> Versions \cup {Deleted}]
  <2>1. latest[i] \in 1..(MaxVersion - 1) /\ latest[i] + 1 \in Versions
    BY <1>2, BoundAssumption DEF AppUpdate, Versions
  <2>2. /\ data' = [data EXCEPT ![AppShard][i] = latest[i] + 1]
        /\ latest' = [latest EXCEPT ![i] = latest[i] + 1]
    BY <1>0, <1>2 DEF AppUpdate
  <2> QED
    BY <1>0, <2>1, <2>2
<1>3. ASSUME NEW i \in Ids, AppDelete(i) PROVE data' \in [Shards -> [Ids -> Versions]]
                                           /\ latest' \in [Ids -> Versions \cup {Deleted}]
  BY <1>0, <1>3 DEF AppDelete
<1>4. ASSUME NEW m \in DOMAIN migrations, InsertBatch(m)
      PROVE  data' \in [Shards -> [Ids -> Versions]] /\ UNCHANGED latest
  BY <1>0, <1>4, InsertedType, MigrationType DEF InsertBatch
<1>5. ASSUME NEW m \in DOMAIN migrations, DeleteRows(m)
      PROVE  data' \in [Shards -> [Ids -> Versions]] /\ UNCHANGED latest
  <2>1. Source(m) \in Shards
    BY MigrationType
  <2>2. PICK row \in [Ids -> Versions] : data' = [data EXCEPT ![Source(m)] = row]
    <3> DEFINE row == [i \in Ids |-> IF Rank(Source(m), i) < migrations[m].total
                                     THEN 0 ELSE data[Source(m)][i]]
    <3>1. row \in [Ids -> Versions]
      BY <1>0, <2>1
    <3>2. data' = [data EXCEPT ![Source(m)] = row]
      BY <1>5 DEF DeleteRows, Source
    <3> QED
      BY <3>1, <3>2
  <2> QED
    BY <1>0, <1>5, <2>1, <2>2 DEF DeleteRows
<1>6. \/ \E i \in Ids : AppInsert(i) \/ AppUpdate(i) \/ AppDelete(i)
      \/ \E m \in DOMAIN migrations : InsertBatch(m) \/ DeleteRows(m)
      \/ UNCHANGED <<data, latest>>
  BY DEF Next, Application, Operator, Continue, StartMigration, TriggerManualRebalance,
         RollbackMigration, ReloadConfig, Connect, SelectBatch, Drain, Complete,
         CompleteDryRun, Fail, FinishRebalance, Restart
<1> QED
  BY <1>0, <1>1, <1>2, <1>3, <1>4, <1>5, <1>6

\* The types are kept by every action.
LEMMA TypeStep ==
  ASSUME TypeOK, WellPhased, Next
  PROVE  TypeOK' /\ WellPhased'
<1>1. /\ data' \in [Shards -> [Ids -> Versions]] /\ latest' \in [Ids -> Versions \cup {Deleted}]
  BY DataType
<1> DEFINE Steps == \E m \in DOMAIN migrations :
                      \/ Advances(m) \/ Complete(m) \/ CompleteDryRun(m) \/ Fail(m)
                      \/ RollbackMigration(m)
           Starts == \/ \E move \in Moves : StartMigration(move)
                     \/ \E first, second \in Moves : TriggerManualRebalance(<<first, second>>)
           Writes == \E i \in Ids : AppInsert(i) \/ AppUpdate(i) \/ AppDelete(i)
<1>2. Steps \/ Starts \/ Writes \/ ReloadConfig \/ FinishRebalance \/ Restart
  BY DEF Next, Application, Operator, Continue, Advances
<1>3. disturbed' \in BOOLEAN
  <2>1. \/ UNCHANGED disturbed
        \/ disturbed' = (disturbed \/ Copying(AppShard))
        \/ \E m \in DOMAIN migrations : disturbed' = (disturbed \/ Disturbs(m))
    BY <1>2 DEF Advances, StartMigration, TriggerManualRebalance,
         RollbackMigration, ReloadConfig, Connect, SelectBatch, InsertBatch, Drain, DeleteRows,
         Complete, CompleteDryRun, Fail, FinishRebalance, Restart, AppInsert, AppUpdate, AppDelete
  <2>2. disturbed \in BOOLEAN
    BY DEF TypeOK
  <2> QED
    BY <2>1, <2>2, Zenon
<1>4. status' \in [Shards -> {"active", "draining"}]
  <2>1. \/ UNCHANGED status
        \/ status' = Configured
        \/ \E m \in DOMAIN migrations : \E to \in {"active", "draining"} :
             status' = [status EXCEPT ![Source(m)] = to]
    BY <1>2 DEF Advances, StartMigration, TriggerManualRebalance, Source, Restored,
         RollbackMigration, ReloadConfig, Connect, SelectBatch, InsertBatch, Drain, DeleteRows,
         Complete, CompleteDryRun, Fail, FinishRebalance, Restart, AppInsert, AppUpdate, AppDelete
  <2>2. status \in [Shards -> {"active", "draining"}]
    BY DEF TypeOK
  <2> QED
    BY <2>1, <2>2 DEF Configured
<1>5. CASE Steps
  <2>1. /\ migrations' \in Seq(Migrations) /\ DOMAIN migrations' = DOMAIN migrations
        /\ \A k \in DOMAIN migrations' : migrations'[k].source # migrations'[k].target
        /\ WellPhased'
    BY <1>5, MigrationStep
  <2>2. UNCHANGED <<started, waiting>>
    BY <1>5 DEF Advances, RollbackMigration, Connect, SelectBatch, InsertBatch, Drain,
       DeleteRows,
                Complete, CompleteDryRun, Fail
  <2> QED
    BY <1>1, <1>3, <1>4, <2>1, <2>2 DEF TypeOK
<1>6. CASE Starts
  <2>1. Grows /\ waiting' \subseteq DOMAIN migrations' /\ started' \in 0..MaxMigrations
    <3>1. ASSUME NEW move \in Moves, StartMigration(move)
          PROVE  Grows /\ waiting' \subseteq DOMAIN migrations' /\ started' \in 0..MaxMigrations
      <4>1. Grows
        BY <3>1, StartGrows
      <4>2. started' \in 0..MaxMigrations /\ waiting' = waiting
        BY <3>1, BoundAssumption DEF StartMigration, TypeOK
      <4> QED
        BY <4>1, <4>2 DEF Grows, TypeOK
    <3>2. ASSUME NEW first \in Moves, NEW second \in Moves,
                 TriggerManualRebalance(<<first, second>>)
          PROVE  Grows /\ waiting' \subseteq DOMAIN migrations' /\ started' \in 0..MaxMigrations
      BY <3>2, TriggerGrows
    <3> QED
      BY <1>6, <3>1, <3>2
  <2>2. /\ \A k \in DOMAIN migrations' : migrations'[k].source # migrations'[k].target
        /\ WellPhased'
    BY <2>1, GrowsType
  <2> QED
    BY <1>1, <1>3, <1>4, <2>1, <2>2 DEF TypeOK, Grows
<1>7. CASE Writes \/ ReloadConfig \/ FinishRebalance
  <2>1. /\ UNCHANGED <<migrations, started>> /\ waiting' \subseteq waiting
    BY <1>7 DEF ReloadConfig, FinishRebalance, AppInsert, AppUpdate, AppDelete
  <2> QED
    BY <1>1, <1>3, <1>4, <2>1 DEF TypeOK, WellPhased
<1>8. CASE Restart
  <2>1. migrations' = <<>> /\ waiting' = {} /\ started' = started /\ DOMAIN migrations' = {}
        /\ migrations' \in Seq(Migrations)
    BY <1>8 DEF Restart
  <2> QED
    BY <1>1, <1>3, <1>4, <2>1 DEF TypeOK, WellPhased
<1> QED
  BY <1>2, <1>5, <1>6, <1>7, <1>8

\* A step of m keeps the causes: the one m is remains one, or its mark is taken.
LEMMA CauseKept ==
  ASSUME TypeOK, DrainingHasACause, NEW m \in DOMAIN migrations, NEW new \in Migrations,
         Becomes(m, new), new.source = migrations[m].source,
         \/ new.at \in {"draining", "deleted"} \/ new.status = "failed"
         \/ status'[Source(m)] # "draining"
         \/ migrations[m].at \notin {"draining", "deleted"} /\ migrations[m].status # "failed",
         \A s \in Shards : status'[s] = "draining" =>
             status[s] = "draining" \/ (s = Source(m) /\ new.at = "draining")
  PROVE  DrainingHasACause'
<1>1. migrations \in Seq(Migrations)
  BY DEF TypeOK
<1>2. /\ DOMAIN migrations' = DOMAIN migrations /\ migrations'[m] = new
      /\ \A k \in DOMAIN migrations \ {m} : migrations'[k] = migrations[k]
  BY <1>1 DEF Becomes
<1> SUFFICES ASSUME NEW s \in Shards \ SetDraining, status'[s] = "draining"
             PROVE  \E k \in DOMAIN migrations' :
                      /\ migrations'[k].source = s
                      /\ \/ migrations'[k].at \in {"draining", "deleted"}
                         \/ migrations'[k].status = "failed"
  BY DEF DrainingHasACause
<1>3. CASE s = Source(m) /\ new.at = "draining"
  BY <1>2, <1>3 DEF Source
<1>4. CASE status[s] = "draining"
  <2>1. PICK k \in DOMAIN migrations : /\ migrations[k].source = s
                                       /\ \/ migrations[k].at \in {"draining", "deleted"}
                                          \/ migrations[k].status = "failed"
    BY <1>4 DEF DrainingHasACause
  <2>2. CASE k # m
    BY <1>2, <2>1, <2>2
  <2>3. CASE k = m
    BY <1>2, <2>1, <2>3 DEF Source
  <2> QED
    BY <2>2, <2>3
<1> QED
  BY <1>3, <1>4

\* Every mark keeps a cause.
LEMMA CauseStep ==
  ASSUME TypeOK, WellPhased, DrainingHasACause, Next
  PROVE  DrainingHasACause'
<1>0. \A m \in DOMAIN migrations : migrations[m].status # "running" => migrations[m].at = "over"
  BY DEF WellPhased
<1>1. ASSUME NEW m \in DOMAIN migrations, Connect(m) PROVE DrainingHasACause'
  <2>1. migrations[m].at = "connecting" /\ UNCHANGED status
    BY <1>1 DEF Connect
  <2> QED
    BY <1>0, <1>1, <2>1, ConnectMoves, CauseKept
<1>2. ASSUME NEW m \in DOMAIN migrations, SelectBatch(m) PROVE DrainingHasACause'
  <2>1. migrations[m].at = "selecting" /\ UNCHANGED status
    BY <1>2 DEF SelectBatch
  <2> QED
    BY <1>0, <1>2, <2>1, SelectBatchMoves, CauseKept
<1>3. ASSUME NEW m \in DOMAIN migrations, InsertBatch(m) PROVE DrainingHasACause'
  <2>1. migrations[m].at = "inserting" /\ UNCHANGED status
    BY <1>3 DEF InsertBatch
  <2> QED
    BY <1>0, <1>3, <2>1, InsertBatchMoves, CauseKept
<1>4. ASSUME NEW m \in DOMAIN migrations, Drain(m) PROVE DrainingHasACause'
  <2>1. \A s \in Shards : status'[s] = "draining" => status[s] = "draining" \/ s = Source(m)
    BY <1>4 DEF Drain, Source, TypeOK
  <2> QED
    BY <1>4, <2>1, DrainMoves, CauseKept
<1>5. ASSUME NEW m \in DOMAIN migrations, DeleteRows(m) PROVE DrainingHasACause'
  <2>1. UNCHANGED status
    BY <1>5 DEF DeleteRows
  <2> QED
    BY <1>5, <2>1, DeleteRowsMoves, CauseKept
<1>6. ASSUME NEW m \in DOMAIN migrations, Complete(m) PROVE DrainingHasACause'
  <2>1. /\ migrations' = Ended(m, "completed") /\ "completed" \in Terminal
        /\ status'[Source(m)] # "draining"
        /\ \A s \in Shards : status'[s] = "draining" => status[s] = "draining"
    BY <1>6, MigrationType DEF Complete, Restored, Source, Terminal, TypeOK
  <2> QED
    BY <2>1, EndedType, CauseKept
<1>7. ASSUME NEW m \in DOMAIN migrations, CompleteDryRun(m) PROVE DrainingHasACause'
  <2>1. /\ migrations' = Ended(m, "completed") /\ "completed" \in Terminal
        /\ migrations[m].at = "selecting" /\ UNCHANGED status
    BY <1>7 DEF CompleteDryRun, Terminal
  <2> QED
    BY <1>0, <2>1, EndedType, CauseKept
<1>8. ASSUME NEW m \in DOMAIN migrations, Fail(m) PROVE DrainingHasACause'
  <2>1. migrations' = Ended(m, "failed") /\ "failed" \in Terminal /\ UNCHANGED status
    BY <1>8 DEF Fail, Terminal
  <2> QED
    BY <2>1, EndedType, CauseKept
<1>9. ASSUME NEW m \in DOMAIN migrations, RollbackMigration(m) PROVE DrainingHasACause'
  <2>1. migrations[m].status = "completed" /\ migrations[m].at = "over" /\ UNCHANGED status
    BY <1>0, <1>9 DEF RollbackMigration
  <2> QED
    BY <1>9, <2>1, RollbackMigrationMoves, CauseKept
<1>10. ASSUME Grows, UNCHANGED status PROVE DrainingHasACause'
  BY <1>10 DEF Grows, DrainingHasACause
<1>11. ASSUME UNCHANGED <<migrations, status>> PROVE DrainingHasACause'
  BY <1>11 DEF DrainingHasACause
<1>12. ASSUME ReloadConfig \/ Restart PROVE DrainingHasACause'
  BY <1>12 DEF ReloadConfig, Restart, Configured, DrainingHasACause
<1>13. \/ \E m \in DOMAIN migrations :
            \/ Connect(m) \/ SelectBatch(m) \/ InsertBatch(m) \/ Drain(m) \/ DeleteRows(m)
            \/ Complete(m) \/ CompleteDryRun(m) \/ Fail(m) \/ RollbackMigration(m)
       \/ \E move \in Moves : StartMigration(move)
       \/ \E first, second \in Moves : TriggerManualRebalance(<<first, second>>)
       \/ UNCHANGED <<migrations, status>>
       \/ ReloadConfig \/ Restart
  BY DEF Next, Application, Operator, Continue, AppInsert, AppUpdate, AppDelete, FinishRebalance
<1>14. ASSUME NEW move \in Moves, StartMigration(move) PROVE DrainingHasACause'
  BY <1>10, <1>14, StartGrows DEF StartMigration
<1>15. ASSUME NEW first \in Moves, NEW second \in Moves,
              TriggerManualRebalance(<<first, second>>)
       PROVE  DrainingHasACause'
  BY <1>10, <1>15, TriggerGrows DEF TriggerManualRebalance
<1> QED
  BY <1>1, <1>2, <1>3, <1>4, <1>5, <1>6, <1>7, <1>8, <1>9, <1>11, <1>12, <1>13, <1>14, <1>15

-----------------------------------------------------------------------------
(* ShardMigrationService: rows without a disturbing write. *)

\* The fields of a copy.
LEMMA CopiesAre ==
  ASSUME TypeOK, NEW k \in Copies
  PROVE  /\ k \in DOMAIN migrations /\ migrations[k] \in Migrations
         /\ Source(k) \in Shards /\ migrations[k].target \in Shards
         /\ Source(k) # migrations[k].target
         /\ migrations[k].offset \in Nat /\ migrations[k].total \in Nat
         /\ ~migrations[k].dryRun
BY MigrationType DEF Copies

\* What is said of a shard depends on its rows alone.
LEMMA SameShard ==
  ASSUME NEW s, data'[s] = data[s]
  PROVE  Present(s)' = Present(s) /\ \A i : Rank(s, i)' = Rank(s, i)
<1>1. Present(s)' = Present(s)
  BY DEF Present
<1>2. \A i : {j \in Present(s)' : j < i} = {j \in Present(s) : j < i}
  BY <1>1
<1> QED
  BY <1>1, <1>2 DEF Rank

\* The same of the source of a migration.
LEMMA SameSource ==
  ASSUME NEW k, Source(k)' = Source(k), data'[Source(k)] = data[Source(k)]
  PROVE  /\ Present(Source(k))' = Present(Source(k))
         /\ \A i : Rank(Source(k), i)' = Rank(Source(k), i)
<1>1. Present(Source(k))' = Present(Source(k))
  BY DEF Present
<1>2. \A i : {j \in Present(Source(k))' : j < i} = {j \in Present(Source(k)) : j < i}
  BY <1>1
<1> QED
  BY <1>1, <1>2 DEF Rank

\* The page and what is past it depend on the source's rows and the offset.
LEMMA SamePage ==
  ASSUME NEW k, Source(k)' = Source(k), data'[Source(k)] = data[Source(k)],
         migrations'[k].offset = migrations[k].offset
  PROVE  Batch(k)' = Batch(k) /\ Selected(k)' = Selected(k)
<1>1. Present(Source(k))' = Present(Source(k)) /\ \A i : Rank(Source(k), i)' = Rank(Source(k), i)
  BY SameSource
<1>2. Selected(k)' = Selected(k)
  BY <1>1 DEF Selected
<1>3. PageIds(k)' = PageIds(k)
  BY <1>1 DEF PageIds
<1>4. Batch(k) = {[id |-> i, version |-> data[Source(k)][i]] : i \in PageIds(k)}
  BY DEF Batch, PageIds, Source
<1>5. Batch(k)' = {[id |-> i, version |-> data'[Source(k)'][i]] : i \in PageIds(k)'}
  BY DEF Batch, PageIds, Source
<1>6. Batch(k)' = Batch(k)
  BY <1>3, <1>4, <1>5
<1> QED
  BY <1>2, <1>6

\* A copy is in step as long as neither it nor its source changes.
LEMMA SameCopy ==
  ASSUME NEW k, migrations'[k] = migrations[k], data'[Source(k)] = data[Source(k)],
         CopyInStep(k)
  PROVE  CopyInStep(k)'
<1>1. Source(k)' = Source(k)
  BY DEF Source
<1>2. Batch(k)' = Batch(k) /\ Selected(k)' = Selected(k)
  BY <1>1, SamePage
<1>3. Present(Source(k))' = Present(Source(k))
  BY <1>1 DEF Present
<1> QED
  BY <1>1, <1>2, <1>3 DEF CopyInStep

\* Steps that write no row: every copy there is then was one before, gone as
\* far, or has gone past nothing.
LEMMA NoWrite ==
  ASSUME TypeOK, TypeOK', Undisturbed, UNCHANGED <<data, latest, disturbed>>,
         \A k \in Copies' :
           \/ k \in Copies /\ migrations'[k] = migrations[k]
           \/ /\ CopyInStep(k)'
              /\ \/ migrations'[k].offset = 0
                 \/ /\ k \in Copies /\ Source(k)' = Source(k)
                    /\ migrations'[k].offset = migrations[k].offset
  PROVE  Undisturbed'
<1> SUFFICES ASSUME ~disturbed PROVE SafeSomewhere' /\ \A k \in Copies' : CopyInStep(k)'
  BY DEF Undisturbed
<1>1. SafeSomewhere /\ \A k \in Copies : CopyInStep(k)
  BY DEF Undisturbed
<1>2. \A k \in Copies' : CopyInStep(k)'
  <2> SUFFICES ASSUME NEW k \in Copies' PROVE CopyInStep(k)'
    OBVIOUS
  <2>1. CASE k \in Copies /\ migrations'[k] = migrations[k]
    BY <1>1, <2>1, SameCopy
  <2> QED
    BY <2>1
<1>3. SafeSomewhere'
  <2> SUFFICES ASSUME NEW i \in Ids, latest[i] > 0 PROVE \E x \in Shards : Safe(x, i)'
    BY DEF SafeSomewhere
  <2>1. PICK x \in Shards : Safe(x, i)
    BY <1>1 DEF SafeSomewhere
  <2>2. Rank(x, i)' = Rank(x, i) /\ Rank(x, i) \in Nat
    BY SameShard, Rows
  <2>3. \A k \in Copies' : Source(k)' = x => Rank(x, i) >= migrations'[k].offset
    <3> SUFFICES ASSUME NEW k \in Copies', Source(k)' = x
                 PROVE  Rank(x, i) >= migrations'[k].offset
      OBVIOUS
    <3>1. CASE migrations'[k].offset = 0
      BY <2>2, <3>1
    <3>2. CASE k \in Copies /\ Source(k)' = Source(k) /\ migrations'[k].offset = migrations[k].offset
      BY <2>1, <3>2 DEF Safe
    <3>3. CASE k \in Copies /\ migrations'[k] = migrations[k]
      BY <2>1, <3>3 DEF Safe, Source
    <3> QED
      BY <3>1, <3>2, <3>3
  <2>4. Safe(x, i)'
    BY <2>1, <2>2, <2>3 DEF Safe
  <2> QED
    BY <2>4
<1> QED
  BY <1>2, <1>3

\* The application writes one row of a shard nobody copies from.
LEMMA WriteUndisturbed ==
  ASSUME TypeOK, TypeOK', Undisturbed, NEW i \in Ids, ~Copying(AppShard),
         UNCHANGED <<migrations, disturbed>>,
         \A x \in Shards \ {AppShard} : data'[x] = data[x],
         \A j \in Ids \ {i} : data'[AppShard][j] = data[AppShard][j] /\ latest'[j] = latest[j],
         latest'[i] > 0 => data'[AppShard][i] = latest'[i]
  PROVE  Undisturbed'
<1> SUFFICES ASSUME ~disturbed PROVE SafeSomewhere' /\ \A k \in Copies' : CopyInStep(k)'
  BY DEF Undisturbed
<1>1. SafeSomewhere /\ \A k \in Copies : CopyInStep(k)
  BY DEF Undisturbed
<1>2. Copies' = Copies /\ \A k : Source(k)' = Source(k)
  BY DEF Copies, Source
<1>3. \A k \in Copies : Source(k) # AppShard /\ Source(k) \in Shards
  BY CopiesAre DEF Copies, Copying, Source
<1>4. \A k \in Copies' : CopyInStep(k)'
  BY <1>1, <1>2, <1>3, SameCopy
<1>5. \A j \in Ids : data'[AppShard][j] = latest'[j] => Safe(AppShard, j)'
  BY <1>2, <1>3 DEF Safe
<1>6. ASSUME NEW x \in Shards \ {AppShard}, NEW j \in Ids \ {i}, Safe(x, j) PROVE Safe(x, j)'
  <2>1. data'[x] = data[x] /\ latest'[j] = latest[j]
    OBVIOUS
  <2>2. Rank(x, j)' = Rank(x, j)
    BY <2>1, SameShard
  <2> QED
    BY <1>2, <1>6, <2>1, <2>2 DEF Safe
<1>7. SafeSomewhere'
  <2> SUFFICES ASSUME NEW j \in Ids, latest'[j] > 0 PROVE \E x \in Shards : Safe(x, j)'
    BY DEF SafeSomewhere
  <2>1. CASE j = i
    BY <1>5, <2>1, ShardAssumption
  <2>2. CASE j # i
    <3>1. latest[j] > 0
      BY <2>2
    <3>2. PICK x \in Shards : Safe(x, j)
      BY <1>1, <3>1 DEF SafeSomewhere
    <3>3. CASE x = AppShard
      BY <1>5, <2>2, <3>2, <3>3 DEF Safe
    <3>4. CASE x # AppShard
      BY <1>6, <2>2, <3>2, <3>4
    <3> QED
      BY <3>3, <3>4
  <2> QED
    BY <2>1, <2>2
<1> QED
  BY <1>4, <1>7

\* A step of m leaves the other copies as they are.
LEMMA OtherCopies ==
  ASSUME TypeOK, NEW m \in DOMAIN migrations, NEW new, Becomes(m, new)
  PROVE  /\ migrations'[m] = new /\ m \in DOMAIN migrations'
         /\ \A k \in Copies' : k # m => k \in Copies /\ migrations'[k] = migrations[k]
<1>1. migrations \in Seq(Migrations)
  BY DEF TypeOK
<1>2. /\ DOMAIN migrations' = DOMAIN migrations /\ migrations'[m] = new
      /\ \A k \in DOMAIN migrations \ {m} : migrations'[k] = migrations[k]
  BY <1>1 DEF Becomes
<1> QED
  BY <1>2 DEF Copies

\* A migration that has ended is no copy.
LEMMA EndedUndisturbed ==
  ASSUME TypeOK, TypeOK', Undisturbed, UNCHANGED <<data, latest, disturbed>>,
         NEW m \in DOMAIN migrations, NEW new, Becomes(m, new), new.at = "over"
  PROVE  Undisturbed'
<1>1. m \notin Copies'
  BY OtherCopies DEF Copies
<1> QED
  BY <1>1, OtherCopies, NoWrite

\* Nor is one that was just started.
LEMMA GrowsUndisturbed ==
  ASSUME TypeOK, TypeOK', Undisturbed, UNCHANGED <<data, latest, disturbed>>, Grows
  PROVE  Undisturbed'
<1>1. \A k \in Copies' : k \in Copies /\ migrations'[k] = migrations[k]
  BY DEF Grows, Fresh, Copies
<1> QED
  BY <1>1, NoWrite

\* A copy that starts has gone past nothing and counted nothing.
LEMMA ConnectUndisturbed ==
  ASSUME TypeOK, WellPhased, TypeOK', Undisturbed, NEW m \in DOMAIN migrations, Connect(m)
  PROVE  Undisturbed'
<1>1. PICK new \in Migrations : /\ Becomes(m, new) /\ new.source = migrations[m].source
                                /\ new.at = "selecting" /\ new.offset = 0 /\ new.total = 0
  BY ConnectMoves
<1>2. UNCHANGED <<data, latest, disturbed>>
  BY DEF Connect
<1>3. migrations'[m] = new /\ Source(m)' = Source(m) /\ Source(m) \in Shards
  BY <1>1, OtherCopies, MigrationType DEF Source
<1>4. Selected(m)' = {}
  <2>1. \A i : Rank(Source(m), i)' \in Nat
    BY <1>2, <1>3, SameShard, Rows
  <2> QED
    BY <1>1, <1>3, <2>1 DEF Selected
<1>5. CopyInStep(m)'
  BY <1>1, <1>3, <1>4, FS_EmptySet DEF CopyInStep
<1> QED
  BY <1>1, <1>2, <1>3, <1>5, OtherCopies, NoWrite

\* SELECT takes the page of its offset.
LEMMA SelectUndisturbed ==
  ASSUME TypeOK, WellPhased, TypeOK', Undisturbed, NEW m \in DOMAIN migrations, SelectBatch(m)
  PROVE  Undisturbed'
<1>1. PICK new \in Migrations :
        /\ Becomes(m, new) /\ new.source = migrations[m].source /\ new.at = "inserting"
        /\ new.batch = Batch(m) /\ new.offset = migrations[m].offset
        /\ new.total = migrations[m].total /\ new.dryRun = migrations[m].dryRun
  BY SelectBatchMoves
<1>2. UNCHANGED <<data, latest, disturbed>> /\ migrations[m].at = "selecting"
  BY DEF SelectBatch
<1>3. migrations'[m] = new /\ Source(m)' = Source(m)
  BY <1>1, OtherCopies DEF Source
<1>4. Batch(m)' = Batch(m) /\ Selected(m)' = Selected(m)
  BY <1>1, <1>2, <1>3, SamePage
<1>5. Present(Source(m))' = Present(Source(m))
  BY <1>2, <1>3 DEF Present
<1>6. CASE disturbed
  BY <1>2, <1>6 DEF Undisturbed
<1>7. CASE ~disturbed /\ m \in Copies'
  <2>1. m \in Copies
    BY <1>1, <1>2, <1>3, <1>7 DEF Copies
  <2>2. CopyInStep(m)
    BY <1>7, <2>1 DEF Undisturbed
  <2>3. CopyInStep(m)'
    BY <1>1, <1>3, <1>4, <1>5, <2>2 DEF CopyInStep
  <2> QED
    BY <1>1, <1>2, <1>3, <2>1, <2>3, OtherCopies, NoWrite
<1>8. CASE m \notin Copies'
  BY <1>1, <1>2, <1>8, OtherCopies, NoWrite
<1> QED
  BY <1>6, <1>7, <1>8

\* An empty page ends the copy: no row of the source has the rank of the offset,
\* so all have lower ones.
LEMMA EmptyPage ==
  ASSUME TypeOK, NEW m \in DOMAIN migrations, Batch(m) = {}
  PROVE  Selected(m) = Present(Source(m))
<1> DEFINE s == Source(m)
           n == migrations[m].offset
<1>1. s \in Shards /\ n \in Nat
  BY MigrationType
<1>2. /\ Present(s) \in SUBSET Nat /\ IsFiniteSet(Present(s))
      /\ \A i : Rank(s, i) = RankIn(Present(s), i) /\ Rank(s, i) \in Nat
  BY <1>1, Rows
<1>3. PageIds(m) = {}
  BY DEF Batch, PageIds, Source
<1>4. \A i \in Present(s) : Rank(s, i) - n \notin 0..(BatchSize - 1)
  BY <1>3 DEF PageIds
<1>5. \A i \in Present(s) : Rank(s, i) # n
  BY <1>1, <1>2, <1>4, BatchAssumption
<1>6. \A i \in Present(s) : RankIn(Present(s), i) # n
  BY <1>2, <1>5
<1>7. \A i \in Present(s) : RankIn(Present(s), i) < n
  <2> HIDE DEF s, n
  <2> QED
    BY <1>1, <1>2, <1>6, RanksContiguous
<1> QED
  BY <1>2, <1>7 DEF Selected

\* So Drain comes when every row of the source was selected.
LEMMA DrainUndisturbed ==
  ASSUME TypeOK, WellPhased, TypeOK', Undisturbed, NEW m \in DOMAIN migrations, Drain(m)
  PROVE  Undisturbed'
<1>1. PICK new \in Migrations :
        /\ Becomes(m, new) /\ new.source = migrations[m].source /\ new.at = "draining"
        /\ new.offset = migrations[m].offset /\ new.total = migrations[m].total
        /\ new.dryRun = FALSE /\ ~migrations[m].dryRun
  BY DrainMoves
<1>2. /\ UNCHANGED <<data, latest, disturbed>> /\ migrations[m].at = "selecting"
      /\ Batch(m) = {}
  BY DEF Drain
<1>3. migrations'[m] = new /\ Source(m)' = Source(m)
  BY <1>1, OtherCopies DEF Source
<1>4. Selected(m)' = Selected(m) /\ Selected(m) = Present(Source(m))
  BY <1>1, <1>2, <1>3, SamePage, EmptyPage
<1>5. Present(Source(m))' = Present(Source(m))
  BY <1>2, <1>3 DEF Present
<1>6. CASE disturbed
  BY <1>2, <1>6 DEF Undisturbed
<1>7. CASE ~disturbed
  <2>1. m \in Copies
    BY <1>1, <1>2 DEF Copies
  <2>2. CopyInStep(m)
    BY <1>7, <2>1 DEF Undisturbed
  <2>3. CopyInStep(m)'
    BY <1>1, <1>3, <1>4, <1>5, <2>2 DEF CopyInStep
  <2> QED
    BY <1>1, <1>2, <1>3, <2>1, <2>3, OtherCopies, NoWrite
<1> QED
  BY <1>6, <1>7

\* The rows deleted are those that were selected, which are all there are.
LEMMA DeleteUndisturbed ==
  ASSUME TypeOK, WellPhased, TypeOK', Undisturbed, NEW m \in DOMAIN migrations, DeleteRows(m)
  PROVE  Undisturbed'
<1> DEFINE s == Source(m)
<1>1. UNCHANGED <<latest, disturbed>> /\ migrations[m].at = "draining"
  BY DEF DeleteRows
<1> SUFFICES ASSUME ~disturbed PROVE SafeSomewhere' /\ \A k \in Copies' : CopyInStep(k)'
  BY <1>1 DEF Undisturbed
<1>2. m \in Copies /\ CopyInStep(m) /\ SafeSomewhere /\ \A k \in Copies : CopyInStep(k)
  BY <1>1 DEF Copies, WellPhased, Undisturbed
<1>3. PICK new \in Migrations : Becomes(m, new) /\ new.at = "deleted"
  BY DeleteRowsMoves
<1>4. /\ \A k \in Copies' : k \in Copies /\ migrations'[k] = migrations[k]
  BY <1>3, OtherCopies DEF Copies
<1>5. /\ s \in Shards /\ Present(s) \in SUBSET Nat /\ IsFiniteSet(Present(s))
      /\ \A i \in Ids : i \notin Present(s) => data[s][i] = 0
      /\ \A i : Rank(s, i) = RankIn(Present(s), i)
  BY MigrationType, Rows
<1>6. /\ \A x \in Shards \ {s} : data'[x] = data[x]
      /\ \A i \in Ids : data'[s][i] = IF Rank(s, i) < migrations[m].total THEN 0 ELSE data[s][i]
  BY <1>5 DEF DeleteRows, Source, TypeOK
<1>7. \A i \in Ids : data'[s][i] = 0
  <2>1. CASE Present(s) = {}
    BY <1>5, <1>6, <2>1
  <2>2. CASE Present(s) # {}
    <3>1. migrations[m].total = Cardinality(Present(s))
      BY <1>1, <1>2, <2>2 DEF CopyInStep
    <3>2. \A i \in Present(s) : RankIn(Present(s), i) < migrations[m].total
      <4> HIDE DEF s
      <4> QED
        BY <1>5, <3>1, RankBound
    <3>3. \A i \in Present(s) : Rank(s, i) < migrations[m].total
      BY <1>5, <3>2
    <3> QED
      BY <1>5, <1>6, <3>3
  <2> QED
    BY <2>1, <2>2
<1>8. \A k \in Copies' : CopyInStep(k)'
  <2> SUFFICES ASSUME NEW k \in Copies' PROVE CopyInStep(k)'
    OBVIOUS
  <2>1. k \in Copies /\ Source(k)' = Source(k) /\ Source(k) \in Shards
    BY <1>4, CopiesAre DEF Source
  <2>2. CASE Source(k) = s
    <3>1. Source(k)' = s
      BY <2>1, <2>2
    <3>2. {i \in Ids : data'[s][i] > 0} = {}
      BY <1>7
    <3>3. Present(Source(k))' = {}
      BY <3>1, <3>2 DEF Present
    <3> QED
      BY <3>3 DEF CopyInStep
  <2>3. CASE Source(k) # s
    BY <1>2, <1>4, <1>6, <2>1, <2>3, SameCopy
  <2> QED
    BY <2>2, <2>3
<1>9. SafeSomewhere'
  <2> SUFFICES ASSUME NEW i \in Ids, latest[i] > 0 PROVE \E x \in Shards : Safe(x, i)'
    BY <1>1 DEF SafeSomewhere
  <2>1. PICK x \in Shards : Safe(x, i)
    BY <1>2 DEF SafeSomewhere
  <2>2. x # s
    <3> SUFFICES ASSUME x = s PROVE FALSE
      OBVIOUS
    <3>1. i \in Present(s)
      BY <2>1 DEF Safe, Present
    <3>2. Selected(m) = Present(s)
      BY <1>1, <1>2, <3>1 DEF CopyInStep
    <3>3. Rank(s, i) < migrations[m].offset
      BY <3>1, <3>2 DEF Selected
    <3>4. Rank(s, i) >= migrations[m].offset
      BY <1>2, <2>1 DEF Safe
    <3>5. Rank(s, i) \in Nat /\ migrations[m].offset \in Nat
      BY <1>5, Rows, MigrationType
    <3> QED
      BY <3>3, <3>4, <3>5
  <2>3. data'[x] = data[x]
    BY <1>6, <2>2
  <2>4. Rank(x, i)' = Rank(x, i)
    BY <2>3, SameShard
  <2>5. Safe(x, i)'
    BY <1>1, <1>4, <2>1, <2>3, <2>4 DEF Safe, Source
  <2> QED
    BY <2>5
<1> QED
  BY <1>8, <1>9

\* Which row an INSERT leaves at the target.
LEMMA InsertedRow ==
  ASSUME TypeOK, NEW m \in DOMAIN migrations, NEW i \in Ids
  PROVE  /\ data[migrations[m].target][i] # 0 => Inserted(m)[i] = data[migrations[m].target][i]
         /\ migrations[m].dryRun => Inserted(m)[i] = data[migrations[m].target][i]
         /\ \A r \in migrations[m].batch :
              /\ data[migrations[m].target][i] = 0 /\ ~migrations[m].dryRun /\ r.id = i
              /\ \A q \in migrations[m].batch : q.id = i => q = r
              => Inserted(m)[i] = r.version
<1> DEFINE t == migrations[m].target
           copies == {r \in migrations[m].batch : r.id = i}
<1>1. Inserted(m)[i] = IF data[t][i] = 0 /\ copies # {} /\ ~migrations[m].dryRun
                       THEN (CHOOSE r \in copies : TRUE).version ELSE data[t][i]
  BY DEF Inserted
<1>2. ASSUME NEW r \in migrations[m].batch, r.id = i,
             \A q \in migrations[m].batch : q.id = i => q = r
      PROVE  copies # {} /\ (CHOOSE q \in copies : TRUE) = r
  <2>1. copies = {r}
    BY <1>2
  <2> QED
    BY <2>1
<1> HIDE DEF copies
<1> QED
  BY <1>1, <1>2

\* A dry run inserts nothing.
LEMMA InsertDryRun ==
  ASSUME TypeOK, WellPhased, TypeOK', Undisturbed, NEW m \in DOMAIN migrations, InsertBatch(m),
         migrations[m].dryRun
  PROVE  Undisturbed'
<1>1. PICK new \in Migrations : Becomes(m, new) /\ new.dryRun = migrations[m].dryRun
  BY InsertBatchMoves
<1>2. m \notin Copies'
  BY <1>1, OtherCopies DEF Copies
<1>3. Inserted(m) = data[migrations[m].target]
  <2>1. \A i \in Ids : Inserted(m)[i] = data[migrations[m].target][i]
    BY InsertedRow
  <2>2. Inserted(m) \in [Ids -> Versions] /\ data[migrations[m].target] \in [Ids -> Versions]
    BY InsertedType, MigrationType DEF TypeOK
  <2> QED
    BY <2>1, <2>2
<1>4. data' = data /\ latest' = latest
  BY <1>3, MigrationType DEF InsertBatch, TypeOK
<1>5. CASE disturbed'
  BY <1>5 DEF Undisturbed
<1>6. CASE ~disturbed'
  <2>1. ~disturbed
    BY <1>6 DEF InsertBatch
  <2>2. SafeSomewhere /\ \A k \in Copies : CopyInStep(k)
    BY <2>1 DEF Undisturbed
  <2>3. \A k \in Copies' : k \in Copies /\ migrations'[k] = migrations[k]
    BY <1>1, <1>2, OtherCopies
  <2>4. \A k \in Copies' : CopyInStep(k)'
    BY <1>4, <2>2, <2>3, SameCopy
  <2>5. SafeSomewhere'
    <3>1. \A x \in Shards, i \in Ids : Safe(x, i) => Safe(x, i)'
      <4> SUFFICES ASSUME NEW x \in Shards, NEW i \in Ids, Safe(x, i) PROVE Safe(x, i)'
        OBVIOUS
      <4>1. Rank(x, i)' = Rank(x, i)
        BY <1>4, SameShard
      <4> QED
        BY <1>4, <2>3, <4>1 DEF Safe, Source
    <3> QED
      BY <1>4, <2>2, <3>1 DEF SafeSomewhere
  <2> QED
    BY <2>4, <2>5 DEF Undisturbed
<1> QED
  BY <1>5, <1>6

\* The copy has gone past the page it inserted, and counted its rows.
LEMMA PageCounted ==
  ASSUME TypeOK, WellPhased, NEW m \in DOMAIN migrations, NEW new \in Migrations,
         Becomes(m, new), new.source = migrations[m].source,
         new.at = "selecting", new.offset = migrations[m].offset + BatchSize,
         new.total = migrations[m].total + Cardinality(migrations[m].batch),
         migrations[m].at = "inserting", CopyInStep(m), data'[Source(m)] = data[Source(m)]
  PROVE  CopyInStep(m)'
<1> DEFINE s == Source(m)
           n == migrations[m].offset
<1>1. migrations'[m] = new /\ Source(m)' = s /\ s \in Shards /\ n \in Nat
      /\ migrations[m].total \in Nat
  BY OtherCopies, MigrationType DEF Source
<1>2. Present(Source(m))' = Present(s) /\ \A i : Rank(Source(m), i)' = Rank(s, i)
  BY <1>1, SameSource
<1>3. /\ Present(s) \subseteq Ids /\ IsFiniteSet(Present(s)) /\ \A i : Rank(s, i) \in Nat
  BY <1>1, Rows
<1>4. CASE Present(s) = {}
  BY <1>2, <1>4 DEF CopyInStep
<1>5. CASE Present(s) # {}
  <2>1. migrations[m].total = Cardinality(Selected(m)) /\ migrations[m].batch = Batch(m)
    BY <1>5 DEF CopyInStep
  <2>2. Selected(m)' = Selected(m) \cup PageIds(m)
    <3>1. Selected(m)' = {i \in Present(s) : Rank(s, i) < n + BatchSize}
      BY <1>1, <1>2 DEF Selected
    <3>2. \A i \in Present(s) : Rank(s, i) < n + BatchSize <=>
             Rank(s, i) < n \/ Rank(s, i) - n \in 0..(BatchSize - 1)
      BY <1>1, <1>3, BatchAssumption
    <3> QED
      BY <3>1, <3>2 DEF Selected, PageIds
  <2>3. Selected(m) \cap PageIds(m) = {}
    <3>1. \A i \in Present(s) : ~(Rank(s, i) < n /\ Rank(s, i) - n \in 0..(BatchSize - 1))
      BY <1>1, <1>3, BatchAssumption
    <3> QED
      BY <3>1 DEF Selected, PageIds
  <2>4. IsFiniteSet(Selected(m)) /\ IsFiniteSet(PageIds(m))
    <3>1. Selected(m) \subseteq Present(s)
      BY DEF Selected
    <3> QED
      BY <1>3, <3>1, FS_Subset, PageCount
  <2>5. Cardinality(Selected(m)') = Cardinality(Selected(m)) + Cardinality(PageIds(m))
    <3>1. Cardinality(Selected(m) \cup PageIds(m)) = Cardinality(Selected(m)) + Cardinality(PageIds(m))
                                              - Cardinality(Selected(m) \cap PageIds(m))
      BY <2>4, FS_Union
    <3>2. Cardinality(Selected(m) \cap PageIds(m)) = 0
      BY <2>3, FS_EmptySet
    <3>3. Cardinality(Selected(m)) \in Nat /\ Cardinality(PageIds(m)) \in Nat
      BY <2>4, FS_CardinalityType
    <3> QED
      BY <2>2, <3>1, <3>2, <3>3
  <2>6. new.total = Cardinality(Selected(m)')
    BY <2>1, <2>5, PageCount
  <2> QED
    BY <1>1, <2>6 DEF CopyInStep
<1> QED
  BY <1>4, <1>5

\* The rows of the page are at the target before the offset goes past them.
LEMMA InsertUndisturbed ==
  ASSUME TypeOK, WellPhased, TypeOK', Undisturbed, NEW m \in DOMAIN migrations, InsertBatch(m),
         ~migrations[m].dryRun
  PROVE  Undisturbed'
<1> DEFINE n == migrations[m].offset
<1>0. PICK s \in Shards, t \in Shards : s = Source(m) /\ t = migrations[m].target
  BY MigrationType
<1>1. /\ migrations[m].at = "inserting" /\ latest' = latest
      /\ data' = [data EXCEPT ![t] = Inserted(m)]
      /\ disturbed' = (disturbed \/ Disturbs(m))
  BY <1>0 DEF InsertBatch
<1> SUFFICES ASSUME ~disturbed' PROVE SafeSomewhere' /\ \A k \in Copies' : CopyInStep(k)'
  BY DEF Undisturbed
<1>2. ~disturbed /\ ~Disturbs(m)
  BY <1>1, Zenon
<1>3. /\ ~Copying(t)
      /\ \A r \in migrations[m].batch : data[t][r.id] \in {0, r.version}
  BY <1>0, <1>2 DEF Disturbs
<1>4. m \in Copies /\ CopyInStep(m) /\ SafeSomewhere /\ \A k \in Copies : CopyInStep(k)
  BY <1>1, <1>2 DEF Copies, Undisturbed
<1>5. PICK new \in Migrations :
        /\ Becomes(m, new) /\ new.source = migrations[m].source /\ new.at = "selecting"
        /\ new.offset = n + BatchSize
        /\ new.total = migrations[m].total + Cardinality(migrations[m].batch)
  BY InsertBatchMoves
<1>6. /\ s \in Shards /\ t \in Shards /\ s # t /\ n \in Nat
      /\ \A i : Rank(s, i) \in Nat
      /\ \A k \in Copies : Source(k) # t /\ Source(k) \in Shards
  BY <1>0, <1>3, MigrationType, CopiesAre, Rows DEF Copying, Copies, Source
<1>7. /\ migrations'[m] = new /\ Source(m)' = s
      /\ \A k \in Copies' : k # m => k \in Copies /\ migrations'[k] = migrations[k]
      /\ \A k \in Copies' : Source(k)' = Source(k) /\ k \in Copies
  BY <1>0, <1>4, <1>5, OtherCopies DEF Source
<1>8. /\ \A x \in Shards \ {t} : data'[x] = data[x]
      /\ \A i \in Ids : data'[t][i] = Inserted(m)[i]
  BY <1>1, <1>6 DEF TypeOK
<1>9. \A k \in Copies' : CopyInStep(k)'
  <2> SUFFICES ASSUME NEW k \in Copies' PROVE CopyInStep(k)'
    OBVIOUS
  <2>1. CASE k = m
    <3>1. data'[Source(m)] = data[Source(m)]
      BY <1>0, <1>6, <1>8
    <3>2. CopyInStep(m)'
      BY <1>1, <1>4, <1>5, <3>1, PageCounted
    <3> QED
      BY <2>1, <3>2
  <2>2. CASE k # m
    <3>1. k \in Copies /\ migrations'[k] = migrations[k] /\ data'[Source(k)] = data[Source(k)]
      BY <1>6, <1>7, <1>8, <2>2
    <3> QED
      BY <1>4, <3>1, SameCopy
  <2> QED
    BY <2>1, <2>2
<1>10. \A i \in Ids : data'[t][i] = latest[i] => Safe(t, i)'
  BY <1>1, <1>6, <1>7 DEF Safe
<1>11. ASSUME NEW i \in Ids, data[t][i] = latest[i], latest[i] > 0 PROVE Safe(t, i)'
  <2>1. Inserted(m)[i] = latest[i]
    BY <1>0, <1>11, InsertedRow
  <2> QED
    BY <1>8, <1>10, <2>1
<1>12. ASSUME NEW i \in Ids, Safe(s, i), latest[i] > 0, Rank(s, i) < n + BatchSize
       PROVE  Safe(t, i)'
  <2>1. data[s][i] = latest[i] /\ Rank(s, i) >= n /\ i \in Present(s)
    BY <1>0, <1>4, <1>12 DEF Safe, Present
  <2>2. migrations[m].batch = Batch(m)
    BY <1>0, <1>1, <1>4, <2>1 DEF CopyInStep
  <2>3. i \in PageIds(m)
    BY <1>6, <1>12, <2>1, <1>0, BatchAssumption DEF PageIds
  <2>4. migrations[m].batch = {[id |-> j, version |-> data[s][j]] : j \in PageIds(m)}
    BY <1>0, <2>2 DEF Batch, PageIds, Source
  <2> DEFINE r == [id |-> i, version |-> data[s][i]]
  <2>5. r \in migrations[m].batch /\ \A q \in migrations[m].batch : q.id = i => q = r
    BY <2>3, <2>4
  <2>6. data[t][i] \in {0, latest[i]}
    BY <1>3, <2>1, <2>5
  <2>7. CASE data[t][i] = 0
    <3>1. Inserted(m)[i] = r.version
      <4>1. r.id = i
        OBVIOUS
      <4> HIDE DEF r
      <4> QED
        BY <1>0, <2>5, <2>7, <4>1, InsertedRow
    <3> QED
      BY <1>8, <1>10, <2>1, <3>1
  <2> QED
    BY <1>11, <1>12, <2>6, <2>7
<1>13. ASSUME NEW x \in Shards, NEW i \in Ids, Safe(x, i), x # t,
              x = s => Rank(s, i) >= n + BatchSize
       PROVE  Safe(x, i)'
  <2>1. data'[x] = data[x]
    BY <1>8, <1>13
  <2>2. Rank(x, i)' = Rank(x, i)
    BY <2>1, SameShard
  <2>3. \A k \in Copies' : Source(k)' = x => Rank(x, i) >= migrations'[k].offset
    BY <1>5, <1>7, <1>13 DEF Safe
  <2> QED
    BY <1>1, <1>13, <2>1, <2>2, <2>3 DEF Safe
<1>14. SafeSomewhere'
  <2> SUFFICES ASSUME NEW i \in Ids, latest[i] > 0 PROVE \E x \in Shards : Safe(x, i)'
    BY <1>1 DEF SafeSomewhere
  <2>1. PICK x \in Shards : Safe(x, i)
    BY <1>4 DEF SafeSomewhere
  <2>2. CASE x = t
    BY <1>11, <2>1, <2>2 DEF Safe
  <2>3. CASE x = s /\ Rank(s, i) < n + BatchSize
    BY <1>6, <1>12, <2>1, <2>3
  <2>4. CASE x # t /\ ~(x = s /\ Rank(s, i) < n + BatchSize)
    <3>1. x = s => Rank(s, i) >= n + BatchSize
      BY <1>6, <2>4, BatchAssumption
    <3> QED
      BY <1>13, <2>1, <2>4, <3>1
  <2> QED
    BY <2>2, <2>3, <2>4
<1> QED
  BY <1>9, <1>14

\* All actions.
LEMMA UndisturbedStep ==
  ASSUME TypeOK, WellPhased, Undisturbed, Next
  PROVE  Undisturbed'
<1>0. TypeOK'
  BY TypeStep
<1>1. ASSUME NEW i \in Ids, AppInsert(i) \/ AppUpdate(i) \/ AppDelete(i) PROVE Undisturbed'
  <2>1. /\ UNCHANGED migrations /\ disturbed' = (disturbed \/ Copying(AppShard))
        /\ \A x \in Shards \ {AppShard} : data'[x] = data[x]
        /\ \A j \in Ids \ {i} : data'[AppShard][j] = data[AppShard][j] /\ latest'[j] = latest[j]
        /\ latest'[i] > 0 => data'[AppShard][i] = latest'[i]
    BY <1>1, ShardAssumption DEF AppInsert, AppUpdate, AppDelete, TypeOK, Deleted
  <2>2. CASE disturbed'
    BY <2>2 DEF Undisturbed
  <2>3. CASE ~disturbed'
    <3>1. ~Copying(AppShard) /\ ~disturbed
      BY <2>1, <2>3, Zenon
    <3>2. disturbed' = disturbed
      BY <1>0, <2>3, <3>1 DEF TypeOK
    <3> QED
      BY <1>0, <2>1, <3>1, <3>2, WriteUndisturbed
  <2> QED
    BY <2>2, <2>3
<1>2. ASSUME NEW m \in DOMAIN migrations,
             Connect(m) \/ SelectBatch(m) \/ Drain(m) \/ DeleteRows(m)
      PROVE  Undisturbed'
  BY <1>0, <1>2, ConnectUndisturbed, SelectUndisturbed, DrainUndisturbed, DeleteUndisturbed
<1>3. ASSUME NEW m \in DOMAIN migrations, InsertBatch(m) PROVE Undisturbed'
  BY <1>0, <1>3, InsertDryRun, InsertUndisturbed
<1>4. ASSUME NEW m \in DOMAIN migrations, Complete(m) \/ CompleteDryRun(m) \/ Fail(m)
      PROVE  Undisturbed'
  <2>1. UNCHANGED <<data, latest, disturbed>> /\ \E end \in Terminal : migrations' = Ended(m, end)
    BY <1>4 DEF Complete, CompleteDryRun, Fail, Terminal
  <2> QED
    BY <1>0, <2>1, EndedType, EndedUndisturbed
<1>5. ASSUME NEW m \in DOMAIN migrations, RollbackMigration(m) PROVE Undisturbed'
  <2>1. UNCHANGED <<data, latest, disturbed>>
    BY <1>5 DEF RollbackMigration
  <2> QED
    BY <1>0, <1>5, <2>1, RollbackMigrationMoves, EndedUndisturbed
<1>6. ASSUME NEW move \in Moves, StartMigration(move) PROVE Undisturbed'
  BY <1>0, <1>6, StartGrows, GrowsUndisturbed DEF StartMigration
<1>7. ASSUME NEW first \in Moves, NEW second \in Moves,
             TriggerManualRebalance(<<first, second>>)
      PROVE  Undisturbed'
  BY <1>0, <1>7, TriggerGrows, GrowsUndisturbed DEF TriggerManualRebalance
<1>8. ASSUME UNCHANGED <<data, latest, disturbed>>, UNCHANGED migrations \/ migrations' = <<>>
      PROVE  Undisturbed'
  <2>1. \A k \in Copies' : k \in Copies /\ migrations'[k] = migrations[k]
    BY <1>8 DEF Copies
  <2> QED
    BY <1>0, <1>8, <2>1, NoWrite
<1>9. ASSUME ReloadConfig \/ FinishRebalance \/ Restart PROVE Undisturbed'
  BY <1>8, <1>9 DEF ReloadConfig, FinishRebalance, Restart
<1> QED
  BY <1>1, <1>2, <1>3, <1>4, <1>5, <1>6, <1>7, <1>9 DEF Next, Application, Operator, Continue

-----------------------------------------------------------------------------
(* ShardMigrationService: the theorems. *)

LEMMA InvStep == MInv /\ [Next]_vars => MInv'
<1> SUFFICES ASSUME MInv, [Next]_vars PROVE MInv'
  OBVIOUS
<1>1. CASE Next
  BY <1>1, TypeStep, CauseStep, UndisturbedStep DEF MInv
<1>2. CASE UNCHANGED vars
  <2>1. TypeOK' /\ WellPhased' /\ DrainingHasACause'
    BY <1>2 DEF vars, MInv, TypeOK, WellPhased, DrainingHasACause
  <2>2. \A k \in Copies' : k \in Copies /\ migrations'[k] = migrations[k]
    BY <1>2 DEF vars, Copies
  <2>3. Undisturbed'
    BY <1>2, <2>1, <2>2, NoWrite DEF MInv, vars
  <2> QED
    BY <2>1, <2>3 DEF MInv
<1> QED
  BY <1>1, <1>2

LEMMA Inductive == Spec => []MInv
BY InitInv, InvStep, PTL DEF Spec

\* Migrations, statuses and rows have their types, whatever is started, fails
\* and restarts.
THEOREM TypeCorrect == Spec => []TypeOK
<1>1. MInv => TypeOK
  BY DEF MInv
<1> QED
  BY <1>1, Inductive, PTL

\* Whatever migrations complete, fail or are rolled back, across reloads and
\* restarts: a draining mark the configuration does not set has a cause.
THEOREM MarksHaveACause == Spec => []DrainingHasACause
<1>1. MInv => DrainingHasACause
  BY DEF MInv
<1> QED
  BY <1>1, Inductive, PTL

\* Batches, failures between any two statements, restarts and migrations that
\* run side by side lose no row, for every number of shards, rows and migrations
\* and every batch size: only a write to a shard being copied from, or an older
\* copy left at the target, can.
THEOREM BatchesLoseNothing == Spec => []OnlyDisturbedRowsAreLost
<1>1. MInv => OnlyDisturbedRowsAreLost
  BY DEF MInv, Undisturbed, SafeSomewhere, Safe, OnlyDisturbedRowsAreLost, RowsSurvive
<1> QED
  BY <1>1, Inductive, PTL

-----------------------------------------------------------------------------
(* SessionService. *)

\* The phases in which an operation is about one session.
UsesSid == {"setting", "indexing", "counting", "ranging", "trimming", "evicting",
            "touching", "migrating", "removing", "unindexing", "deleting", "dropping",
            "tidying"}

WellFormed(o) == /\ o.at \in UsesSid => o.sid \in Sids
                 /\ o.at \in {"touching", "migrating"} => o.seen < MaxRecVersion
                 /\ o.at \in {"ranging", "trimming"} => o.seen > 0

\* The same of every operation under way.
OpsWellFormed == \A w \in Workers : WellFormed(op[w])

\* Creations that still have to trim.
Trimmers == {w \in Workers : Trimming(w)}

\* What a trim is going to leave fits the limit with one creation fewer under way.
TrimsEnough ==
  \A w \in Workers :
    op[w].at \in {"ranging", "trimming"} =>
      Cardinality(index) - op[w].seen < MaxSessions + Cardinality(Trimmers) + untrimmed

\* The inductive invariant.
SInv == SessionTypeOK /\ OpsWellFormed /\ IndexBounded /\ TrimsEnough

\* The sizes the bound is about.
LEMMA Counts ==
  ASSUME SessionTypeOK
  PROVE  /\ IsFiniteSet(index) /\ Cardinality(index) \in Nat
         /\ IsFiniteSet(Trimmers) /\ Cardinality(Trimmers) \in Nat
         /\ \A w \in Trimmers : Cardinality(Trimmers) > 0
         /\ deaths \in Nat /\ untrimmed \in Nat
<1>1. IsFiniteSet(index) /\ Cardinality(index) \in Nat
  BY SidAssumption, FS_Subset, FS_CardinalityType DEF SessionTypeOK
<1>2. Trimmers \subseteq Workers
  BY DEF Trimmers
<1>3. IsFiniteSet(Trimmers) /\ Cardinality(Trimmers) \in Nat
  BY <1>2, WorkersAssumption, FS_Subset, FS_CardinalityType
<1>4. \A w \in Trimmers : Cardinality(Trimmers) > 0
  BY <1>3, FS_EmptySet
<1>5. deaths \in Nat /\ untrimmed \in Nat
  BY DeathsAssumption DEF SessionTypeOK
<1> QED
  BY <1>1, <1>3, <1>4, <1>5

\* No operation is under way at first.
LEMMA SInvInit ==
  ASSUME SessionInit
  PROVE  SInv
<1>1. Cardinality(Sids) \in Nat
  BY SidAssumption, FS_CardinalityType
<1>2. SessionTypeOK
  BY <1>1, SidAssumption, MaxAssumption, DeathsAssumption DEF SessionInit, SessionTypeOK,
     Operation, Idle, Phases
<1>3. OpsWellFormed /\ TrimsEnough
  BY DEF SessionInit, OpsWellFormed, WellFormed, TrimsEnough, Idle, UsesSid
<1>4. Cardinality(index) = 0
  BY FS_EmptySet DEF SessionInit
<1>5. IndexBounded
  BY <1>2, <1>4, Counts, MaxAssumption DEF IndexBounded, Trimmers
<1> QED
  BY <1>2, <1>3, <1>5 DEF SInv

\* A trim of n leaves n members fewer, or none.
LEMMA OldestTaken ==
  ASSUME SessionTypeOK, NEW n \in Nat
  PROVE  index \ Oldest(n) = {} \/ Cardinality(index \ Oldest(n)) =< Cardinality(index) - n
<1>1. IsFiniteSet(index) /\ Cardinality(Sids) \in Nat
  BY Counts, SidAssumption, FS_CardinalityType
<1>2. \A s \in index : born[s] \in Nat
  BY <1>1 DEF SessionTypeOK
<1>3. Oldest(n) = {s \in index : Cardinality({t \in index : born[t] < born[s]}) < n}
  BY DEF Oldest
<1> QED
  BY <1>1, <1>2, <1>3, LowestTaken

-----------------------------------------------------------------------------
\* The session ids are enough for one that is not drawn yet.
LEMMA DrawType ==
  ASSUME SessionTypeOK, NEW s \in Sids, Draw(s)
  PROVE  born' \in [Sids -> 0..Cardinality(Sids)]
<1> DEFINE Drawn == {t \in Sids : born[t] > 0}
<1>1. Drawn \subseteq Sids \ {s}
  BY DEF Draw
<1>2. Cardinality(Sids) \in Nat /\ Cardinality(Sids \ {s}) = Cardinality(Sids) - 1
      /\ IsFiniteSet(Sids \ {s})
  BY SidAssumption, FS_CardinalityType, FS_RemoveElement
<1>3. Cardinality(Drawn) \in Nat /\ Cardinality(Drawn) =< Cardinality(Sids \ {s})
  BY <1>1, <1>2, FS_Subset, FS_CardinalityType
<1>4. Cardinality(Drawn) + 1 \in 0..Cardinality(Sids)
  BY <1>2, <1>3
<1>5. born' = [born EXCEPT ![s] = Cardinality(Drawn) + 1]
  BY DEF Draw
<1> HIDE DEF Drawn
<1> QED
  BY <1>4, <1>5 DEF SessionTypeOK

\* A step of one worker keeps the others' operations.
LEMMA OneOp ==
  ASSUME OpsWellFormed, NEW w \in Workers,
         \A v \in Workers \ {w} : op'[v] = op[v],
         WellFormed(op'[w])
  PROVE  OpsWellFormed'
BY DEF OpsWellFormed, WellFormed

\* The types are kept by every command.
LEMMA OpsTypeStep ==
  ASSUME SessionTypeOK, OpsWellFormed, [SessionNext]_sessionVars
  PROVE  SessionTypeOK' /\ OpsWellFormed'
<1> USE MaxAssumption, DeathsAssumption, SidAssumption
    DEF At, Begin, GoTo, Finish, ReturnSid, Delete,
        history, UsesSid, Phases, Idle
<1>z. Cardinality(Sids) \in Nat /\ Cardinality(index) \in Nat
  BY Counts, FS_CardinalityType
<1>0. \A w \in Workers : /\ op[w] \in Operation
                         /\ op[w].at \in UsesSid => op[w].sid \in Sids
                         /\ op[w].at = "ranging" => op[w].seen > 0
  BY DEF SessionTypeOK, OpsWellFormed, WellFormed
<1>1. ASSUME NEW w \in Workers, NEW s \in Sids, Create(w, s)
      PROVE  SessionTypeOK' /\ OpsWellFormed'
  <2>1. born' \in [Sids -> 0..Cardinality(Sids)]
    BY <1>1, DrawType DEF Create
  <2>2. SessionTypeOK'
    BY <1>1, <2>1 DEF Create, SessionTypeOK, Operation
  <2>8. (\A v \in Workers \ {w} : op'[v] = op[v]) /\ WellFormed(op'[w])
    BY <1>1, <1>0, <2>1 DEF Create, SessionTypeOK, WellFormed, Operation
  <2> QED
    BY <2>2, <2>8, OneOp
<1>2. ASSUME NEW w \in Workers, SetRecord(w) \/ AddToIndex(w)
      PROVE  SessionTypeOK' /\ OpsWellFormed'
  <2>1. op[w].sid \in Sids
    BY <1>2, <1>0 DEF SetRecord, AddToIndex
  <2>2. SessionTypeOK'
    BY <1>2, <2>1 DEF SetRecord, AddToIndex, SessionTypeOK, Operation
  <2>8. (\A v \in Workers \ {w} : op'[v] = op[v]) /\ WellFormed(op'[w])
    BY <1>2, <1>0, <2>1 DEF SetRecord, AddToIndex, SessionTypeOK, WellFormed,
       Operation
  <2> QED
    BY <2>2, <2>8, OneOp
<1>3. ASSUME NEW w \in Workers, Count(w) PROVE SessionTypeOK' /\ OpsWellFormed'
  <2> DEFINE overflow == Cardinality(index) - MaxSessions
  <2>1. op[w].sid \in Sids /\ (overflow > 0 => overflow \in Nat)
    BY <1>3, <1>0, <1>z DEF Count
  <2> HIDE DEF overflow
  <2>2. SessionTypeOK'
    BY <1>3, <2>1 DEF Count, SessionTypeOK, Operation, overflow
  <2>8. (\A v \in Workers \ {w} : op'[v] = op[v]) /\ WellFormed(op'[w])
    BY <1>3, <1>0, <2>1 DEF Count, SessionTypeOK, WellFormed, Operation, overflow
  <2> QED
    BY <2>2, <2>8, OneOp
<1>4. ASSUME NEW w \in Workers, RangeOldest(w) PROVE SessionTypeOK' /\ OpsWellFormed'
  <2> DEFINE evicted == Oldest(op[w].seen)
  <2>1. op[w].sid \in Sids /\ evicted \subseteq Sids
    BY <1>4, <1>0 DEF RangeOldest, Oldest, SessionTypeOK
  <2> HIDE DEF evicted
  <2>2. SessionTypeOK'
    BY <1>4, <2>1 DEF RangeOldest, SessionTypeOK, Operation, evicted
  <2>8. (\A v \in Workers \ {w} : op'[v] = op[v]) /\ WellFormed(op'[w])
    BY <1>4, <1>0, <2>1 DEF RangeOldest, SessionTypeOK, WellFormed, Operation, evicted
  <2> QED
    BY <2>2, <2>8, OneOp
<1>5. ASSUME NEW w \in Workers, Trim(w) PROVE SessionTypeOK' /\ OpsWellFormed'
  <2>1. index' \subseteq Sids /\ op[w].sid \in Sids
    BY <1>5, <1>0 DEF Trim, SessionTypeOK
  <2>2. op' \in [Workers -> Operation]
    BY <1>5 DEF Trim, SessionTypeOK, Operation
  <2>3. UNCHANGED <<rec, born, known, revoked, deaths, untrimmed>>
    BY <1>5 DEF Trim
  <2>4. SessionTypeOK'
    BY <2>1, <2>2, <2>3 DEF SessionTypeOK
  <2>8. (\A v \in Workers \ {w} : op'[v] = op[v]) /\ WellFormed(op'[w])
    BY <1>5, <1>0, <2>1 DEF Trim, SessionTypeOK, WellFormed, Operation
  <2> QED
    BY <2>4, <2>8, OneOp
<1>6. ASSUME NEW w \in Workers, NEW s \in Sids, Evict(w, s)
      PROVE  SessionTypeOK' /\ OpsWellFormed'
  <2>1. op[w].sid \in Sids
    BY <1>6, <1>0 DEF Evict
  <2>2. SessionTypeOK'
    BY <1>6, <2>1 DEF Evict, SessionTypeOK, Operation
  <2>8. (\A v \in Workers \ {w} : op'[v] = op[v]) /\ WellFormed(op'[w])
    BY <1>6, <1>0, <2>1 DEF Evict, SessionTypeOK, WellFormed, Operation
  <2> QED
    BY <2>2, <2>8, OneOp
<1>7. ASSUME NEW w \in Workers, NEW s \in Sids, Touch(w, s) \/ Remove(w, s)
      PROVE  SessionTypeOK' /\ OpsWellFormed'
  <2>1. rec[s] \in Nat
    BY DEF SessionTypeOK
  <2>2. SessionTypeOK'
    BY <1>7, <2>1 DEF Touch, Remove, SessionTypeOK, Operation
  <2>8. (\A v \in Workers \ {w} : op'[v] = op[v]) /\ WellFormed(op'[w])
    BY <1>7, <1>0, <2>1 DEF Touch, Remove, SessionTypeOK, WellFormed, Operation
  <2> QED
    BY <2>2, <2>8, OneOp
<1>8. ASSUME NEW w \in Workers, WriteTouched(w) \/ WriteMigrated(w)
      PROVE  SessionTypeOK' /\ OpsWellFormed'
  <2>1. /\ op[w].sid \in Sids /\ op[w].todo \subseteq Sids
        /\ op[w].seen + 1 \in 0..MaxRecVersion
    BY <1>8, <1>0 DEF WriteTouched, WriteMigrated, OpsWellFormed, WellFormed,
       Operation
  <2>2. rec' \in [Sids -> 0..MaxRecVersion]
    BY <1>8, <2>1 DEF WriteTouched, WriteMigrated, SessionTypeOK
  <2>3. SessionTypeOK'
    BY <1>8, <2>1, <2>2 DEF WriteTouched, WriteMigrated, SessionTypeOK, Operation
  <2>8. (\A v \in Workers \ {w} : op'[v] = op[v]) /\ WellFormed(op'[w])
    BY <1>8, <1>0 DEF WriteTouched, WriteMigrated, SessionTypeOK, WellFormed,
       Operation
  <2> QED
    BY <2>3, <2>8, OneOp
<1>9. ASSUME NEW w \in Workers, NEW s \in Sids, NEW new \in Sids, Migrate(w, s, new)
      PROVE  SessionTypeOK' /\ OpsWellFormed'
  <2>1. born' \in [Sids -> 0..Cardinality(Sids)] /\ rec[s] \in Nat
    BY <1>9, DrawType DEF Migrate, SessionTypeOK
  <2>2. SessionTypeOK'
    BY <1>9, <2>1 DEF Migrate, SessionTypeOK, Operation
  <2>8. (\A v \in Workers \ {w} : op'[v] = op[v]) /\ WellFormed(op'[w])
    BY <1>9, <1>0, <2>1 DEF Migrate, SessionTypeOK, WellFormed, Operation
  <2> QED
    BY <2>2, <2>8, OneOp
<1>10. ASSUME NEW w \in Workers, DeleteRecord(w) \/ RemoveFromIndex(w)
       PROVE  SessionTypeOK' /\ OpsWellFormed'
  <2>1. op[w].sid \in Sids
    BY <1>10, <1>0 DEF DeleteRecord, RemoveFromIndex
  <2>2. SessionTypeOK'
    BY <1>10, <2>1 DEF DeleteRecord, RemoveFromIndex, SessionTypeOK, Operation
  <2>8. (\A v \in Workers \ {w} : op'[v] = op[v]) /\ WellFormed(op'[w])
    BY <1>10, <1>0, <2>1 DEF DeleteRecord, RemoveFromIndex, SessionTypeOK, WellFormed,
       Operation
  <2> QED
    BY <2>2, <2>8, OneOp
<1>11. ASSUME NEW w \in Workers, DeleteAll(w) \/ Cleanup(w)
       PROVE  SessionTypeOK' /\ OpsWellFormed'
  <2>1. SessionTypeOK'
    BY <1>11 DEF DeleteAll, Cleanup, SessionTypeOK, Operation
  <2>8. (\A v \in Workers \ {w} : op'[v] = op[v]) /\ WellFormed(op'[w])
    BY <1>11, <1>0 DEF DeleteAll, Cleanup, SessionTypeOK, WellFormed, Operation
  <2> QED
    BY <2>1, <2>8, OneOp
<1>12. ASSUME NEW w \in Workers, NEW s \in Sids, ScanKey(w, s) \/ CleanNext(w, s)
       PROVE  SessionTypeOK' /\ OpsWellFormed'
  <2>1. SessionTypeOK'
    BY <1>12 DEF ScanKey, CleanNext, NextOf, SessionTypeOK, Operation
  <2>8. (\A v \in Workers \ {w} : op'[v] = op[v]) /\ WellFormed(op'[w])
    BY <1>12, <1>0 DEF ScanKey, CleanNext, NextOf, SessionTypeOK, WellFormed,
       Operation
  <2> QED
    BY <2>1, <2>8, OneOp
<1>13. ASSUME NEW w \in Workers,
              ScanDelete(w) \/ ScanUnindex(w) \/ CleanUnindex(w)
       PROVE  SessionTypeOK' /\ OpsWellFormed'
  <2>1. op[w].sid \in Sids
    BY <1>13, <1>0 DEF ScanDelete, ScanUnindex, CleanUnindex
  <2>2. op' \in [Workers -> Operation]
    <3>1. PICK phase \in Phases, s \in Sids \cup {NoSid} :
            op' = [op EXCEPT ![w].at = phase, ![w].sid = s]
      <4>1. CASE ScanDelete(w)
        <5>1. op' = [op EXCEPT ![w].at = "dropping", ![w].sid = op[w].sid]
          BY <4>1 DEF ScanDelete, SessionTypeOK, Operation
        <5> QED
          BY <2>1, <5>1
      <4>2. CASE ScanUnindex(w) \/ CleanUnindex(w)
        BY <4>2 DEF ScanUnindex, CleanUnindex
      <4> QED
        BY <1>13, <4>1, <4>2
    <3>2. op \in [Workers -> Operation]
      BY DEF SessionTypeOK
    <3>3. [op[w] EXCEPT !.at = phase, !.sid = s] \in Operation
      BY <3>2 DEF Operation
    <3> QED
      BY <3>1, <3>2, <3>3
  <2>3. SessionTypeOK'
    BY <1>13, <2>1, <2>2 DEF ScanDelete, ScanUnindex, CleanUnindex, SessionTypeOK
  <2>8. (\A v \in Workers \ {w} : op'[v] = op[v]) /\ WellFormed(op'[w])
    BY <1>13, <1>0, <2>1 DEF ScanDelete, ScanUnindex, CleanUnindex,
       SessionTypeOK, WellFormed, Operation
  <2> QED
    BY <2>3, <2>8, OneOp
<1>14. ASSUME NEW w \in Workers, ScanEnds(w) \/ CleanEnds(w)
       PROVE  SessionTypeOK' /\ OpsWellFormed'
  <2>1. SessionTypeOK'
    BY <1>14 DEF ScanEnds, CleanEnds, SessionTypeOK, Operation
  <2>8. (\A v \in Workers \ {w} : op'[v] = op[v]) /\ WellFormed(op'[w])
    BY <1>14, <1>0 DEF ScanEnds, CleanEnds, SessionTypeOK, WellFormed, Operation
  <2> QED
    BY <2>1, <2>8, OneOp
<1>15. ASSUME NEW w \in Workers, Die(w) PROVE SessionTypeOK' /\ OpsWellFormed'
  <2>1. SessionTypeOK'
    BY <1>15 DEF Die, SessionTypeOK, Operation
  <2>8. (\A v \in Workers \ {w} : op'[v] = op[v]) /\ WellFormed(op'[w])
    BY <1>15, <1>0 DEF Die, SessionTypeOK, WellFormed, Operation
  <2> QED
    BY <2>1, <2>8, OneOp
<1>16. ASSUME NEW s \in Sids, Expire(s) PROVE SessionTypeOK' /\ OpsWellFormed'
  BY <1>16 DEF Expire, SessionTypeOK, OpsWellFormed
<1>17. CASE UNCHANGED sessionVars
  BY <1>17 DEF sessionVars, SessionTypeOK, OpsWellFormed
<1> QED
  BY <1>1, <1>2, <1>3, <1>4, <1>5, <1>6, <1>7, <1>8, <1>9, <1>10, <1>11, <1>12, <1>13, <1>14,
     <1>15, <1>16, <1>17 DEF SessionNext, Step

-----------------------------------------------------------------------------
\* What holds of the index when a step changes neither who has still to trim
\* nor adds to the index.
LEMMA SameTrimmers ==
  ASSUME SInv, SessionTypeOK', NEW w \in Workers,
         \A v \in Workers \ {w} : op'[v] = op[v],
         Trimming(w)' <=> Trimming(w),
         op'[w].at \in {"ranging", "trimming"} =>
           op[w].at \in {"ranging", "trimming"} /\ op'[w].seen = op[w].seen,
         index' \subseteq index, untrimmed' = untrimmed
  PROVE  IndexBounded' /\ TrimsEnough'
<1>1. Trimmers' = Trimmers
  BY DEF Trimmers, Trimming
<1>2. IsFiniteSet(index) /\ Cardinality(index) \in Nat /\ Cardinality(Trimmers) \in Nat
      /\ untrimmed \in Nat
  BY Counts DEF SInv
<1>3. Cardinality(index') =< Cardinality(index) /\ Cardinality(index') \in Nat
  BY <1>2, FS_Subset, FS_CardinalityType
<1>4. Cardinality(index') =< MaxSessions + Cardinality(Trimmers) + untrimmed
  BY <1>2, <1>3, MaxAssumption DEF SInv, IndexBounded, Trimmers
<1>5. IndexBounded'
  BY <1>1, <1>4 DEF IndexBounded, Trimmers
<1>6. ASSUME NEW v \in Workers, op'[v].at \in {"ranging", "trimming"}
      PROVE  Cardinality(index') - op'[v].seen < MaxSessions + Cardinality(Trimmers) + untrimmed
  <2>1. op[v].at \in {"ranging", "trimming"} /\ op'[v].seen = op[v].seen /\ op[v].seen \in Nat
    BY <1>6 DEF SInv, SessionTypeOK, Operation
  <2>2. Cardinality(index) - op[v].seen < MaxSessions + Cardinality(Trimmers) + untrimmed
    BY <2>1 DEF SInv, TrimsEnough
  <2> QED
    BY <2>1, <2>2, <1>2, <1>3, MaxAssumption
<1> QED
  BY <1>1, <1>5, <1>6 DEF TrimsEnough

\* A creation whose trim is over, or was cut short, is not counted any more.
LEMMA TrimmerLeaves ==
  ASSUME SInv, NEW w \in Workers, \A v \in Workers \ {w} : op'[v] = op[v],
         Trimming(w), ~Trimming(w)'
  PROVE  /\ Cardinality(Trimmers') = Cardinality(Trimmers) - 1
         /\ \A v \in Workers : Trimming(v)' => Cardinality(Trimmers') > 0
<1>1. Trimmers' = Trimmers \ {w} /\ w \in Trimmers
  BY DEF Trimmers, Trimming
<1>2. IsFiniteSet(Trimmers) /\ Cardinality(Trimmers) \in Nat
  BY Counts DEF SInv
<1>3. Cardinality(Trimmers') = Cardinality(Trimmers) - 1 /\ IsFiniteSet(Trimmers')
  BY <1>1, <1>2, FS_RemoveElement
<1>4. Cardinality(Trimmers') \in Nat
  BY <1>3, FS_CardinalityType
<1>5. ASSUME NEW v \in Workers, Trimming(v)' PROVE Cardinality(Trimmers') > 0
  <2>1. v \in Trimmers'
    BY <1>5 DEF Trimmers
  <2> QED
    BY <2>1, <1>3, <1>4, FS_EmptySet
<1> QED
  BY <1>3, <1>5

\* The step with which a trim ends: it makes the room that it leaves.
LEMMA TrimStep ==
  ASSUME SInv, SessionTypeOK', NEW w \in Workers, Trim(w)
  PROVE  IndexBounded' /\ TrimsEnough'
<1> DEFINE n == op[w].seen
           bound == MaxSessions + Cardinality(Trimmers) + untrimmed
<1>1. /\ n \in Nat /\ n > 0 /\ op[w].at = "trimming"
      /\ \A v \in Workers \ {w} : op'[v] = op[v]
      /\ op'[w].at = "evicting"
      /\ index' = index \ Oldest(n) /\ untrimmed' = untrimmed
  BY DEF Trim, At, GoTo, history, SInv, SessionTypeOK, OpsWellFormed,
         WellFormed, Operation
<1>2. Trimming(w) /\ ~Trimming(w)'
  BY <1>1 DEF Trimming
<1>3. /\ Cardinality(Trimmers') = Cardinality(Trimmers) - 1
      /\ \A v \in Workers : Trimming(v)' => Cardinality(Trimmers') > 0
  BY <1>1, <1>2, TrimmerLeaves
<1>4. /\ Cardinality(index) \in Nat /\ Cardinality(Trimmers) \in Nat /\ untrimmed \in Nat
      /\ Cardinality(index') \in Nat /\ Cardinality(Trimmers') \in Nat
  <2>1. /\ Cardinality(index) \in Nat /\ Cardinality(Trimmers) \in Nat /\ untrimmed \in Nat
    BY Counts DEF SInv
  <2>2. IsFiniteSet(index') /\ IsFiniteSet(Trimmers')
    <3>1. index' \subseteq Sids /\ Trimmers' \subseteq Workers
      BY DEF SessionTypeOK, Trimmers
    <3> QED
      BY <3>1, SidAssumption, WorkersAssumption, FS_Subset
  <2> QED
    BY <2>1, <2>2, FS_CardinalityType
<1>5. index' = {} \/ Cardinality(index') =< Cardinality(index) - n
  BY <1>1, OldestTaken DEF SInv
<1>6. Cardinality(index) - n < bound
  BY <1>1 DEF SInv, TrimsEnough
<1>7. Cardinality({}) = 0
  BY FS_EmptySet
<1>8. IndexBounded'
  <2>1. Cardinality(index') =< MaxSessions + Cardinality(Trimmers') + untrimmed'
    <3>1. CASE index' = {}
      BY <3>1, <1>1, <1>4, <1>7, MaxAssumption
    <3>2. CASE Cardinality(index') =< Cardinality(index) - n
      <4>1. n \in Nat /\ MaxSessions \in Nat
        BY <1>1, MaxAssumption
      <4> HIDE DEF n
      <4> QED
        BY <3>2, <4>1, <1>1, <1>3, <1>4, <1>6
    <3> QED
      BY <3>1, <3>2, <1>5
  <2> QED
    BY <2>1 DEF IndexBounded, Trimmers
<1>9. ASSUME NEW v \in Workers, op'[v].at \in {"ranging", "trimming"}
      PROVE  Cardinality(index') - op'[v].seen
               < MaxSessions + Cardinality(Trimmers') + untrimmed'
  <2>1. v # w /\ op'[v] = op[v] /\ op[v].seen \in Nat /\ op[v].seen > 0 /\ Trimming(v)'
    BY <1>9, <1>1 DEF SInv, SessionTypeOK, Operation, OpsWellFormed, WellFormed,
       Trimming
  <2>2. Cardinality(index) - op[v].seen < bound
    BY <1>9, <2>1 DEF SInv, TrimsEnough
  <2>3. Cardinality(Trimmers') > 0
    BY <1>3, <2>1
  <2>4. CASE index' = {}
    BY <2>1, <2>3, <2>4, <1>1, <1>4, <1>7, MaxAssumption
  <2>5. CASE index' # {}
    <3>1. Cardinality(index') =< Cardinality(index) - 1
      BY <2>5, <1>1, <1>4, <1>5
    <3> HIDE DEF n
    <3> QED
      BY <3>1, <2>1, <2>2, <1>1, <1>3, <1>4, MaxAssumption
  <2> QED
    BY <2>4, <2>5
<1> QED
  BY <1>8, <1>9 DEF TrimsEnough

\* The bound is kept by every command.
LEMMA IndexStep ==
  ASSUME SInv, SessionTypeOK', [SessionNext]_sessionVars
  PROVE  IndexBounded' /\ TrimsEnough'
<1> USE DEF At, Begin, GoTo, Finish, history, Idle, Trimming
<1>0. \A w \in Workers : op[w] \in Operation
  BY DEF SInv, SessionTypeOK
<1>z. /\ Cardinality(index) \in Nat /\ Cardinality(Trimmers) \in Nat /\ untrimmed \in Nat
      /\ IsFiniteSet(index) /\ IsFiniteSet(Trimmers)
      /\ MaxSessions \in Nat
      /\ Cardinality(index) =< MaxSessions + Cardinality(Trimmers) + untrimmed
  BY Counts, MaxAssumption DEF SInv, IndexBounded, Trimmers
\* a creation arrives at its trim
<1>1. ASSUME NEW w \in Workers, AddToIndex(w) PROVE IndexBounded' /\ TrimsEnough'
  <2>1. /\ op[w].at = "indexing" /\ op'[w].at = "counting"
        /\ \A v \in Workers \ {w} : op'[v] = op[v]
        /\ index' = index \cup {op[w].sid} /\ untrimmed' = untrimmed
    BY <1>1, <1>0 DEF AddToIndex, Operation, SInv, SessionTypeOK
  <2>2. Trimmers' = Trimmers \cup {w} /\ w \notin Trimmers
    BY <2>1 DEF Trimmers
  <2>3. /\ Cardinality(Trimmers') = Cardinality(Trimmers) + 1
        /\ Cardinality(index') =< Cardinality(index) + 1
        /\ Cardinality(index') \in Nat
    <3>1. /\ Cardinality(Trimmers') = Cardinality(Trimmers) + 1
          /\ IsFiniteSet(index')
          /\ Cardinality(index') \in {Cardinality(index), Cardinality(index) + 1}
      BY <1>z, <2>1, <2>2, FS_AddElement
    <3> QED
      BY <3>1, <1>z
  <2>4. IndexBounded'
    <3>1. Cardinality(index') =< MaxSessions + Cardinality(Trimmers') + untrimmed'
      BY <1>z, <2>1, <2>3
    <3> QED
      BY <3>1 DEF IndexBounded, Trimmers
  <2>5. ASSUME NEW v \in Workers, op'[v].at \in {"ranging", "trimming"}
        PROVE  Cardinality(index') - op'[v].seen
                 < MaxSessions + Cardinality(Trimmers') + untrimmed'
    <3>1. op'[v] = op[v] /\ op[v].seen \in Nat
      BY <2>1, <2>5, <1>0 DEF Operation
    <3>2. Cardinality(index) - op[v].seen < MaxSessions + Cardinality(Trimmers) + untrimmed
      BY <2>5, <3>1 DEF SInv, TrimsEnough
    <3> QED
      BY <3>1, <3>2, <2>1, <2>3, <1>z
  <2> QED
    BY <2>4, <2>5 DEF TrimsEnough
\* it finds an overflow, or none
<1>2. ASSUME NEW w \in Workers, Count(w) PROVE IndexBounded' /\ TrimsEnough'
  <2> DEFINE overflow == Cardinality(index) - MaxSessions
  <2>1. /\ op[w].at = "counting" /\ index' = index /\ untrimmed' = untrimmed
        /\ \A v \in Workers \ {w} : op'[v] = op[v]
    BY <1>2 DEF Count, ReturnSid, SInv, SessionTypeOK
  <2>2. CASE overflow > 0
    <3>1. op'[w].at = "ranging" /\ op'[w].seen = overflow
      BY <1>2, <2>2, <1>0 DEF Count, Operation, SInv, SessionTypeOK
    <3>2. Trimmers' = Trimmers /\ w \in Trimmers
      BY <2>1, <3>1 DEF Trimmers
    <3>3. Cardinality(Trimmers) > 0
      BY <3>2, Counts DEF SInv
    <3>4. IndexBounded'
      <4>1. Cardinality(index') =< MaxSessions + Cardinality(Trimmers') + untrimmed'
        BY <1>z, <2>1, <3>2
      <4> QED
        BY <4>1 DEF IndexBounded, Trimmers
    <3>5. ASSUME NEW v \in Workers, op'[v].at \in {"ranging", "trimming"}
          PROVE  Cardinality(index') - op'[v].seen
                   < MaxSessions + Cardinality(Trimmers') + untrimmed'
      <4>1. CASE v = w
        BY <4>1, <3>1, <3>2, <3>3, <2>1, <1>z
      <4>2. CASE v # w
        BY <4>2, <3>5, <3>2, <2>1 DEF SInv, TrimsEnough
      <4> QED
        BY <4>1, <4>2
    <3> QED
      BY <3>4, <3>5 DEF TrimsEnough
  <2>3. CASE ~(overflow > 0)
    <3>1. op'[w].at = "idle"
      BY <1>2, <2>3 DEF Count, ReturnSid, SInv, SessionTypeOK
    <3>2. /\ Cardinality(Trimmers') = Cardinality(Trimmers) - 1
          /\ \A v \in Workers : Trimming(v)' => Cardinality(Trimmers') > 0
      BY <2>1, <3>1, TrimmerLeaves
    <3>3. Cardinality(index) =< MaxSessions /\ Cardinality(Trimmers') \in Nat
      <4>1. Cardinality(Trimmers) > 0
        <5>1. w \in Trimmers
          BY <2>1 DEF Trimmers
        <5> QED
          BY <5>1, Counts DEF SInv
      <4> QED
        BY <4>1, <3>2, <2>3, <1>z
    <3>4. IndexBounded'
      <4>1. Cardinality(index') =< MaxSessions + Cardinality(Trimmers') + untrimmed'
        BY <1>z, <2>1, <3>3
      <4> QED
        BY <4>1 DEF IndexBounded, Trimmers
    <3>5. ASSUME NEW v \in Workers, op'[v].at \in {"ranging", "trimming"}
          PROVE  Cardinality(index') - op'[v].seen
                   < MaxSessions + Cardinality(Trimmers') + untrimmed'
      <4>1. Trimming(v)' /\ v # w /\ op'[v] = op[v] /\ op[v].seen \in Nat
        BY <3>5, <3>1, <2>1, <1>0 DEF Operation
      <4> QED
        BY <4>1, <3>2, <3>3, <2>1, <1>z
    <3> QED
      BY <3>4, <3>5 DEF TrimsEnough
  <2> QED
    BY <2>2, <2>3
\* it finds the oldest sessions, or the index empty
<1>3. ASSUME NEW w \in Workers, RangeOldest(w) PROVE IndexBounded' /\ TrimsEnough'
  <2> DEFINE n == op[w].seen
  <2>1. /\ op[w].at = "ranging" /\ index' = index /\ untrimmed' = untrimmed
        /\ \A v \in Workers \ {w} : op'[v] = op[v]
        /\ n \in Nat /\ n > 0
    BY <1>3, <1>0
       DEF RangeOldest, ReturnSid, SInv, SessionTypeOK, Operation, OpsWellFormed,
           WellFormed
  <2>2. CASE Oldest(n) # {}
    <3>1. op'[w].at = "trimming" /\ op'[w].seen = n
      BY <1>3, <2>2, <1>0 DEF RangeOldest, Operation, SInv, SessionTypeOK
    <3> QED
      BY <2>1, <3>1, SameTrimmers
  <2>3. CASE Oldest(n) = {}
    <3>1. op'[w].at = "idle"
      BY <1>3, <2>3 DEF RangeOldest, ReturnSid, SInv, SessionTypeOK
    <3>2. /\ Cardinality(Trimmers') = Cardinality(Trimmers) - 1
          /\ \A v \in Workers : Trimming(v)' => Cardinality(Trimmers') > 0
      BY <2>1, <3>1, TrimmerLeaves
    <3>3. Cardinality(index) = 0
      <4>1. index \ Oldest(n) = index
        BY <2>3
      <4>2. index = {} \/ Cardinality(index) =< Cardinality(index) - n
        BY <4>1, <2>1, OldestTaken DEF SInv
      <4>3. index = {}
        BY <4>2, <2>1, <1>z
      <4> QED
        BY <4>3, FS_EmptySet
    <3>4. Cardinality(Trimmers') \in Nat
      <4>1. Trimmers' \subseteq Workers
        BY DEF Trimmers
      <4> QED
        BY <4>1, WorkersAssumption, FS_Subset, FS_CardinalityType
    <3>5. IndexBounded'
      <4>1. Cardinality(index') =< MaxSessions + Cardinality(Trimmers') + untrimmed'
        BY <1>z, <2>1, <3>3, <3>4
      <4> QED
        BY <4>1 DEF IndexBounded, Trimmers
    <3>6. ASSUME NEW v \in Workers, op'[v].at \in {"ranging", "trimming"}
          PROVE  Cardinality(index') - op'[v].seen
                   < MaxSessions + Cardinality(Trimmers') + untrimmed'
      <4>1. Trimming(v)' /\ v # w /\ op'[v] = op[v] /\ op[v].seen \in Nat
        BY <3>6, <3>1, <2>1, <1>0 DEF Operation
      <4> QED
        BY <4>1, <3>2, <3>3, <3>4, <2>1, <1>z
    <3> QED
      BY <3>5, <3>6 DEF TrimsEnough
  <2> QED
    BY <2>2, <2>3
<1>4. ASSUME NEW w \in Workers, Trim(w) PROVE IndexBounded' /\ TrimsEnough'
  BY <1>4, TrimStep
\* it never finishes
<1>5. ASSUME NEW w \in Workers, Die(w) PROVE IndexBounded' /\ TrimsEnough'
  <2>1. /\ index' = index /\ op'[w].at = "idle"
        /\ \A v \in Workers \ {w} : op'[v] = op[v]
        /\ untrimmed' = IF Trimming(w) THEN untrimmed + 1 ELSE untrimmed
    BY <1>5 DEF Die, SInv, SessionTypeOK
  <2>2. CASE ~Trimming(w)
    BY <2>1, <2>2, SameTrimmers
  <2>3. CASE Trimming(w)
    <3>1. Cardinality(Trimmers') = Cardinality(Trimmers) - 1 /\ untrimmed' = untrimmed + 1
      BY <2>1, <2>3, TrimmerLeaves
    <3>2. MaxSessions + Cardinality(Trimmers') + untrimmed'
            = MaxSessions + Cardinality(Trimmers) + untrimmed
      BY <3>1, <1>z
    <3>3. IndexBounded'
      <4>1. Cardinality(index') =< MaxSessions + Cardinality(Trimmers') + untrimmed'
        BY <1>z, <2>1, <3>2
      <4> QED
        BY <4>1 DEF IndexBounded, Trimmers
    <3>4. ASSUME NEW v \in Workers, op'[v].at \in {"ranging", "trimming"}
          PROVE  Cardinality(index') - op'[v].seen
                   < MaxSessions + Cardinality(Trimmers') + untrimmed'
      BY <3>4, <3>2, <2>1 DEF SInv, TrimsEnough
    <3> QED
      BY <3>3, <3>4 DEF TrimsEnough
  <2> QED
    BY <2>2, <2>3
\* the commands of the other operations, and of a creation before and after
<1>6. ASSUME NEW w \in Workers, NEW s \in Sids,
             \/ Create(w, s) \/ Touch(w, s) \/ Remove(w, s) \/ Evict(w, s)
             \/ ScanKey(w, s) \/ CleanNext(w, s) \/ \E new \in Sids : Migrate(w, s, new)
      PROVE  IndexBounded' /\ TrimsEnough'
  <2>1. /\ ~Trimming(w) /\ ~Trimming(w)' /\ index' = index /\ untrimmed' = untrimmed
        /\ \A v \in Workers \ {w} : op'[v] = op[v]
    BY <1>6, <1>0
       DEF Create, Touch, Remove, Evict, ReturnSid, ScanKey,
           CleanNext, Migrate, SInv, SessionTypeOK, Operation
  <2> QED
    BY <2>1, SameTrimmers
<1>7. ASSUME NEW w \in Workers,
             \/ SetRecord(w) \/ WriteTouched(w) \/ WriteMigrated(w) \/ DeleteRecord(w)
             \/ RemoveFromIndex(w) \/ DeleteAll(w) \/ Cleanup(w)
      PROVE  IndexBounded' /\ TrimsEnough'
  <2>1. /\ ~Trimming(w) /\ ~Trimming(w)' /\ index' \subseteq index /\ untrimmed' = untrimmed
        /\ \A v \in Workers \ {w} : op'[v] = op[v]
    BY <1>7, <1>0
       DEF SetRecord, WriteTouched, WriteMigrated, DeleteRecord,
           RemoveFromIndex, DeleteAll,
           Cleanup, SInv, SessionTypeOK, Operation
  <2> QED
    BY <2>1, SameTrimmers
<1>8. ASSUME NEW w \in Workers,
             \/ ScanDelete(w) \/ ScanUnindex(w) \/ ScanEnds(w)
             \/ CleanUnindex(w) \/ CleanEnds(w)
      PROVE  IndexBounded' /\ TrimsEnough'
  <2>1. /\ ~Trimming(w) /\ ~Trimming(w)' /\ index' \subseteq index /\ untrimmed' = untrimmed
        /\ \A v \in Workers \ {w} : op'[v] = op[v]
    BY <1>8, <1>0
       DEF ScanDelete, ScanUnindex, ScanEnds, CleanUnindex,
           CleanEnds, SInv, SessionTypeOK, Operation
  <2> QED
    BY <2>1, SameTrimmers
<1>9. ASSUME UNCHANGED <<index, op, untrimmed>> PROVE IndexBounded' /\ TrimsEnough'
  BY <1>9 DEF SInv, IndexBounded, TrimsEnough, Trimmers
<1> QED
  BY <1>1, <1>2, <1>3, <1>4, <1>5, <1>6, <1>7, <1>8, <1>9 DEF SessionNext, Step,
     Expire, sessionVars

LEMMA SInvStep == SInv /\ [SessionNext]_sessionVars => SInv'
BY OpsTypeStep, IndexStep DEF SInv

LEMMA SessionsInductive == SessionSpec => []SInv
<1>1. SessionInit => SInv
  BY SInvInit
<1>2. SInv /\ [SessionNext]_sessionVars => SInv'
  BY SInvStep
<1> QED
  BY <1>1, <1>2, PTL DEF SessionSpec

\* The records, the index and the operations of SessionService have their types,
\* whatever the workers interleave.
THEOREM SessionTypeCorrect == SessionSpec => []SessionTypeOK
<1>1. SInv => SessionTypeOK
  BY DEF SInv
<1> QED
  BY <1>1, SessionsInductive, PTL

\* createSession counts, ranges and trims the index in three commands: for every
\* number of workers, sessions and deaths the index exceeds the limit by no more
\* than the creations that have not trimmed yet, or never will.
THEOREM SessionIndexBounded == SessionSpec => []IndexBounded
<1>1. SInv => IndexBounded
  BY DEF SInv
<1> QED
  BY <1>1, SessionsInductive, PTL
=============================================================================
