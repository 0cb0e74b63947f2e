----------------------------- MODULE Enrollment -----------------------------
(***************************************************************************)
(* EnrollmentsService: enroll and bulkEnroll insert rows inside a database *)
(* transaction (READ COMMITTED), updateProgress saves a copy of a row, and *)
(* unenroll deletes one.  A worker is one request at a time; each of its   *)
(* actions is one statement, with the code up to the next await.           *)
(*                                                                         *)
(* There is no unique index on a user and a course.  TypeORM's save reads  *)
(* the row again and updates the columns that differ from that reading, or *)
(* inserts the entity when the row is gone; the version is not compared.   *)
(***************************************************************************)
EXTENDS Integers, Sequences, SequencesExt

CONSTANTS Workers,
          Users,
          Courses,
          NoCourse,
          Prerequisite,   \* of each course: a course, or NoCourse
          Published,      \* the courses one can enrol in
          Progress,       \* the values clients report
          MaxItems,       \* bound: the longest list of a bulkEnroll
          MaxRows         \* bound: as many insertions are ever begun

ASSUME CourseAssumption == /\ NoCourse \notin Courses
                           /\ Prerequisite \in [Courses -> Courses \cup {NoCourse}]
                           /\ Published \subseteq Courses
ASSUME ProgressAssumption == Progress \subseteq 0..100 /\ {0, 100} \subseteq Progress
ASSUME BoundAssumption == MaxItems \in Nat /\ MaxRows \in Nat

VARIABLES rows,       \* the committed rows of the enrollment table
          op,         \* where each worker is in its request
          issued,     \* how many ids are taken
          completed,  \* the user and course of every COURSE_COMPLETED emitted
          raced       \* history: users and courses two requests enrolled at once,
                      \* or whose deleted row a save put back

vars == <<rows, op, issued, completed, raced>>

Keys == [user : Users, course : Courses]
Ids == 1..MaxRows
Rows == [id : Ids, key : Keys, progress : Progress, status : {"active", "completed"}]

\* items: what is left to enrol; inserted: the rows of the open transaction;
\* keys: all it was asked to enrol; base: the next id; failed: an item was refused.
\* read: the row updateProgress started from, entity: the changed copy, found:
\* what save's own SELECT returned.
Idle == [at |-> "idle"]

Enrolling == [at : {"looking", "checking", "saving", "ending"}, bulk : BOOLEAN,
              items : Seq(Keys), keys : SUBSET Keys, inserted : SUBSET Rows,
              base : Nat, failed : BOOLEAN]

Updating == [at : {"loading", "updating"}, read : Rows, entity : Rows, found : SUBSET Rows]

Removing == [at : {"removing"}, id : Ids]

TypeOK == /\ rows \subseteq Rows
          /\ op \in [Workers -> {Idle} \cup Enrolling \cup Updating \cup Removing]
          /\ issued \in 0..MaxRows
          /\ completed \subseteq Keys
          /\ raced \subseteq Keys

Init == /\ rows = {}
        /\ op = [w \in Workers |-> Idle]
        /\ issued = 0
        /\ completed = {}
        /\ raced = {}

IsEnrolling(w) == op[w].at \in {"looking", "checking", "saving", "ending"}

-----------------------------------------------------------------------------
\* A request with these items opens its transaction; enroll's list is one item.
Begin(w, items, bulk) ==
  /\ op[w] = Idle
  /\ issued + Len(items) =< MaxRows
  /\ issued' = issued + Len(items)
  /\ op' = [op EXCEPT ![w] = [at |-> "looking", bulk |-> bulk, items |-> items,
                              keys |-> ToSet(items), inserted |-> {},
                              base |-> issued + 1, failed |-> FALSE]]
  /\ raced' = raced \cup {k \in ToSet(items) :
                            \E v \in Workers : IsEnrolling(v) /\ k \in op[v].keys}
  /\ UNCHANGED <<rows, completed>>

Enroll(w, k) == Begin(w, <<k>>, FALSE)

BulkEnroll(w, items) == Begin(w, items, TRUE)

\* What w's transaction sees: what is committed, and its own insertions.
Visible(w) == rows \cup op[w].inserted

Item(w) == Head(op[w].items)

\* w's copy of its progress through the list when it is done with the item.
Done(w) == [op[w] EXCEPT !.items = Tail(@),
                         !.at = IF Len(op[w].items) = 1 THEN "ending" ELSE "looking"]

Refused(w) == [Done(w) EXCEPT !.failed = TRUE]

\* bulkEnroll counts an item that is enrolled already as skipped, not as failed.
Skipped(w) == Done(w)

\* A mutant: a completed enrolment does not count.
EnrolledActively(w) == \E r \in Visible(w) : r.key = Item(w) /\ r.status = "active"

IsEnrolled(w) == \E r \in Visible(w) : r.key = Item(w)

\* The course is read, then an existing enrolment is looked for.
FindExisting(w) ==
  /\ op[w].at = "looking"
  /\ op' = [op EXCEPT ![w] =
       CASE Item(w).course \notin Published -> Refused(w)
         [] Item(w).course \in Published /\ IsEnrolled(w) -> IF op[w].bulk THEN Skipped(w) ELSE Refused(w)
         [] OTHER -> [op[w] EXCEPT !.at = "checking"]]
  /\ UNCHANGED <<rows, issued, completed, raced>>

\* A mutant: any enrolment in the prerequisite will do.
PrerequisiteStarted(w) ==
  LET required == Prerequisite[Item(w).course]
  IN  \/ required = NoCourse
      \/ \E r \in Visible(w) : r.key = [Item(w) EXCEPT !.course = required]

PrerequisiteMet(w) ==
  LET required == Prerequisite[Item(w).course]
  IN  \/ required = NoCourse
      \/ \E r \in Visible(w) : /\ r.key = [Item(w) EXCEPT !.course = required]
                               /\ r.status = "completed"

ValidatePrerequisites(w) ==
  /\ op[w].at = "checking"
  /\ op' = [op EXCEPT ![w] = IF PrerequisiteMet(w) THEN [op[w] EXCEPT !.at = "saving"]
                                                   ELSE Refused(w)]
  /\ UNCHANGED <<rows, issued, completed, raced>>

\* enroll also emits COURSE_ENROLLED here, before the commit; bulkEnroll after it.
SaveNew(w) ==
  /\ op[w].at = "saving"
  /\ LET row == [id |-> op[w].base, key |-> Item(w), progress |-> 0, status |-> "active"]
     IN  op' = [op EXCEPT ![w] = [Done(w) EXCEPT !.inserted = op[w].inserted \cup {row},
                                                 !.base = op[w].base + 1]]
  /\ UNCHANGED <<rows, issued, completed, raced>>

\* The end of the list; one refused item undoes the whole request.
Commit(w) ==
  /\ op[w].at = "ending"
  /\ ~op[w].failed
  /\ op' = [op EXCEPT ![w] = Idle]
  /\ rows' = rows \cup op[w].inserted
  /\ UNCHANGED <<issued, completed, raced>>

Rollback(w) ==
  /\ op[w].at = "ending"
  /\ op[w].failed
  /\ op' = [op EXCEPT ![w] = Idle]
  /\ UNCHANGED <<rows, issued, completed, raced>>

-----------------------------------------------------------------------------
\* A mutant: the reported progress is not compared with the row's.
AnyProgress(r, p) == p \in 0..100

\* validateProgress, and "Progress cannot decrease".
MayReport(r, p) == p \in 0..100 /\ p >= r.progress

Completes(r, p) == p = 100 /\ r.status # "completed"

Reported(r, p) == [r EXCEPT !.progress = p, !.status = IF Completes(r, p) THEN "completed" ELSE @]

\* findOne, the checks and the event: COURSE_COMPLETED precedes the save.
UpdateProgress(w, r, p) ==
  /\ op[w] = Idle
  /\ MayReport(r, p)
  /\ op' = [op EXCEPT ![w] = [at |-> "loading", read |-> r, entity |-> Reported(r, p),
                              found |-> {}]]
  /\ completed' = completed \cup (IF Completes(r, p) THEN {r.key} ELSE {})
  /\ UNCHANGED <<rows, issued, raced>>

\* save reads the row by its id.
LoadForSave(w) ==
  /\ op[w].at = "loading"
  /\ op' = [op EXCEPT ![w] = [op[w] EXCEPT !.at = "updating",
                                           !.found = {r \in rows : r.id = op[w].entity.id}]]
  /\ UNCHANGED <<rows, issued, completed, raced>>

\* row with the columns in which entity differs from what was found.
Patched(row, entity, found) ==
  [row EXCEPT !.progress = IF entity.progress = found.progress THEN @ ELSE entity.progress,
              !.status   = IF entity.status = found.status THEN @ ELSE entity.status]

\* The UPDATE of those columns; a row deleted meanwhile is not there to change.
SaveFound(w) ==
  /\ op[w].at = "updating"
  /\ op[w].found # {}
  /\ rows' = {IF r.id = op[w].entity.id
              THEN Patched(r, op[w].entity, CHOOSE f \in op[w].found : TRUE) ELSE r : r \in rows}
  /\ op' = [op EXCEPT ![w] = Idle]
  /\ UNCHANGED <<issued, completed, raced>>

\* The row was gone: the entity is inserted, unless another save did so first.
SaveGone(w) ==
  /\ op[w].at = "updating"
  /\ op[w].found = {}
  /\ rows' = rows \cup (IF \E r \in rows : r.id = op[w].entity.id THEN {} ELSE {op[w].entity})
  /\ raced' = raced \cup {op[w].entity.key}
  /\ op' = [op EXCEPT ![w] = Idle]
  /\ UNCHANGED <<issued, completed>>

Unenroll(w, r) ==
  /\ op[w] = Idle
  /\ op' = [op EXCEPT ![w] = [at |-> "removing", id |-> r.id]]
  /\ UNCHANGED <<rows, issued, completed, raced>>

DeleteRow(w) ==
  /\ op[w].at = "removing"
  /\ rows' = {r \in rows : r.id # op[w].id}
  /\ op' = [op EXCEPT ![w] = Idle]
  /\ UNCHANGED <<issued, completed, raced>>

\* A statement fails or the process dies: what is not committed is undone.
Fail(w) ==
  /\ op[w] # Idle
  /\ op' = [op EXCEPT ![w] = Idle]
  /\ UNCHANGED <<rows, issued, completed, raced>>

-----------------------------------------------------------------------------
Request(w) == \/ \E k \in Keys : Enroll(w, k)
              \/ \E n \in 1..MaxItems : \E items \in [1..n -> Keys] : BulkEnroll(w, items)
              \/ \E r \in rows : Unenroll(w, r)
              \/ \E r \in rows, p \in Progress : UpdateProgress(w, r, p)

Continue(w) == \/ FindExisting(w)
               \/ ValidatePrerequisites(w)
               \/ SaveNew(w)
               \/ Commit(w)
               \/ Rollback(w)
               \/ LoadForSave(w)
               \/ SaveFound(w)
               \/ SaveGone(w)
               \/ DeleteRow(w)

Next == \E w \in Workers : \/ Request(w)
                           \/ Continue(w)
                           \/ Fail(w)

Spec == Init /\ [][Next]_vars

-----------------------------------------------------------------------------
\* A user has one row for a course, though no index says so, unless two
\* requests enrolled him at once (the lookup, lines 62 and 142, sees no open
\* transaction) or a late save put a deleted row back.
OneRowPerCourse == \A r, s \in rows : r.key = s.key /\ r.key \notin raced => r = s

\* Whoever has a row for a course was announced to have completed its
\* prerequisite before; no race, late save or rollback gets around the check.
EnrolledAfterPrerequisite ==
  \A r \in rows : LET required == Prerequisite[r.key.course]
                  IN  required # NoCourse => [r.key EXCEPT !.course = required] \in completed

Consistent(r) == r.status = "completed" <=> r.progress = 100

\* r was not changed since w read it, neither for the request nor for the save.
Current(w, r) == op[w].read = r /\ op[w].found = {r}

\* Progress falls (line 278 forbids it) and a row is completed without being at
\* 100, or the reverse, only by a save one of whose two readings was overtaken:
\* the columns of two saves then mix.
OnlyStaleSavesDamage ==
  [][\A r \in rows, s \in rows' :
       r.id = s.id => \/ s.progress >= r.progress /\ (Consistent(r) => Consistent(s))
                      \/ \E w \in Workers : /\ op[w].at = "updating"
                                           /\ op[w].entity.id = r.id
                                           /\ ~Current(w, r)]_vars
=============================================================================
