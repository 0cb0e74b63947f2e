----------------------------- MODULE Moderation -----------------------------
(***************************************************************************)
(* ContentReportingService, ReportAssignmentService, ManualReviewService:  *)
(* a user reports content, a review item is queued and linked, a moderator *)
(* is assigned; a reviewer resolves or dismisses the report; a cron job    *)
(* escalates overdue reports to an admin (default strategy: least_loaded). *)
(*                                                                         *)
(* A process is the request that submits a report, a reviewer's request at *)
(* a time, or one run of the job (runs may overlap).  Each action is one   *)
(* statement, with the code up to the next await.  TypeORM's save reads    *)
(* the row again and writes the columns that differ: the row becomes the   *)
(* copy, whatever was saved in between; the version is not compared.  That *)
(* reading and the UPDATE are one action here.                             *)
(***************************************************************************)
EXTENDS Integers, FiniteSets, Sequences, SequencesExt

CONSTANTS Reports,
          Reviewers,        \* one request at a time each
          Sweeps,           \* runs of the job that may overlap
          ModeratorPools,   \* what getActiveModerators may return, ordered by id
          AdminPools,       \* what getActiveAdmins may return, ordered by id
          NoOne,
          MaxSetbacks       \* bound: failing statements, and lookups that find nobody

Users == UNION {ToSet(pool) : pool \in ModeratorPools \cup AdminPools}

ASSUME PoolAssumption == /\ ModeratorPools \cup AdminPools \subseteq Seq(Users)
                         /\ NoOne \notin Users
ASSUME ProcessAssumption == /\ IsFiniteSet(Reports)
                            /\ Reports \cap (Reviewers \cup Sweeps) = {}
                            /\ Reviewers \cap Sweeps = {}
ASSUME BoundAssumption == MaxSetbacks \in Nat

VARIABLES rows,       \* of each report: its row
          items,      \* of each report: the status of its review item
          overdue,    \* the reports older than the SLA
          rrCursor,   \* where the next moderator is taken from
          op,         \* where each process is
          setbacks,
          disturbed   \* history: an operation on the report failed, or a save
                      \* overtook another

vars == <<rows, items, overdue, rrCursor, op, setbacks, disturbed>>

Processes == Reports \cup Reviewers \cup Sweeps

Admins == UNION {ToSet(pool) : pool \in AdminPools}

Open == {"pending", "under_review"}
Final == {"resolved", "dismissed"}

\* linked: moderationItemId is set; escalated: escalatedAt is set.
Rows == [status : Open \cup Final, assignee : Users \cup {NoOne},
         linked : BOOLEAN, escalated : BOOLEAN]

NoRow == [status |-> "none"]
Idle == [at |-> "idle"]

\* todo: the reports still to go through, with their rows as the process knows
\* them; entity: the changed copy of the first; next: what follows its save.
Copies == [report : Reports, row : Rows]
Engaged == [at : {"queueing", "assigning", "choosing", "marking"}, todo : Seq(Copies)]
Saving == [at : {"saving"}, todo : Seq(Copies), entity : Rows,
           next : {"assigning", "marking", "choosing", "ending"}]

TypeOK == /\ rows \in [Reports -> Rows \cup {NoRow}]
          /\ items \in [Reports -> {"none", "pending", "reviewed"}]
          /\ overdue \subseteq Reports
          /\ rrCursor \in Nat /\ (rrCursor = 0 \/ \E pool \in ModeratorPools : rrCursor < Len(pool))
          /\ op \in [Processes -> {Idle} \cup Engaged \cup Saving]
          /\ setbacks \in 0..MaxSetbacks
          /\ disturbed \subseteq Reports

Init == /\ rows = [r \in Reports |-> NoRow]
        /\ items = [r \in Reports |-> "none"]
        /\ overdue = {}
        /\ rrCursor = 0
        /\ op = [p \in Processes |-> Idle]
        /\ setbacks = 0
        /\ disturbed = {}

Report(p) == Head(op[p].todo).report
Known(p) == Head(op[p].todo).row

-----------------------------------------------------------------------------
(* Saving.                                                                  *)

Changed(p, entity, next) ==
  [at |-> "saving", todo |-> op[p].todo, entity |-> entity, next |-> next]

\* A mutant: the loop does not move on.
SameAgain(p) == IF Len(op[p].todo) = 1 THEN Idle
                                       ELSE [at |-> "choosing", todo |-> op[p].todo]

\* p done with its first report.
Rest(p) == IF Len(op[p].todo) = 1 THEN Idle
                                  ELSE [at |-> "choosing", todo |-> Tail(op[p].todo)]

\* Nobody wrote the row since p came to know it.
Current(p) == rows[Report(p)] = Known(p)

\* A mutant: one report per run.
ProceedOnce(p) ==
  CASE op[p].next = "assigning" ->
         [at |-> "assigning", todo |-> <<[report |-> Report(p), row |-> op[p].entity]>>]
    [] op[p].next = "marking" /\ op[p].entity.linked -> [at |-> "marking", todo |-> op[p].todo]
    [] OTHER -> Idle

\* A mutant: the item of a dismissed report stays in the queue.
ProceedIfResolved(p) ==
  CASE op[p].next = "assigning" ->
         [at |-> "assigning", todo |-> <<[report |-> Report(p), row |-> op[p].entity]>>]
    [] op[p].next = "marking" /\ op[p].entity.status = "resolved" -> [at |-> "marking", todo |-> op[p].todo]
    [] op[p].next = "marking" /\ op[p].entity.status # "resolved" -> Idle
    [] OTHER -> Rest(p)

\* What follows: the link is followed by the assignment, a decision about a
\* linked report by its item, an escalation by the next report.
Proceed(p) ==
  CASE op[p].next = "assigning" ->
         [at |-> "assigning", todo |-> <<[report |-> Report(p), row |-> op[p].entity]>>]
    [] op[p].next = "marking" /\ op[p].entity.linked -> [at |-> "marking", todo |-> op[p].todo]
    [] op[p].next = "marking" /\ ~op[p].entity.linked -> Idle
    [] OTHER -> Rest(p)

Save(p) ==
  /\ op[p].at = "saving"
  /\ rows' = [rows EXCEPT ![Report(p)] = op[p].entity]
  /\ op' = [op EXCEPT ![p] = Proceed(p)]
  /\ disturbed' = disturbed \cup (IF Current(p) THEN {} ELSE {Report(p)})
  /\ UNCHANGED <<items, overdue, rrCursor, setbacks>>

-----------------------------------------------------------------------------
(* reportContent.  The submitting process is named by its report.           *)

Submit(r) ==
  /\ rows[r] = NoRow
  /\ LET row == [status |-> "pending", assignee |-> NoOne, linked |-> FALSE, escalated |-> FALSE]
     IN  /\ rows' = [rows EXCEPT ![r] = row]
         /\ op' = [op EXCEPT ![r] = [at |-> "queueing", todo |-> <<[report |-> r, row |-> row]>>]]
  /\ UNCHANGED <<items, overdue, rrCursor, setbacks, disturbed>>

Enqueue(r) ==
  /\ op[r].at = "queueing"
  /\ items' = [items EXCEPT ![r] = "pending"]
  /\ op' = [op EXCEPT ![r] = Changed(r, [Known(r) EXCEPT !.linked = TRUE], "assigning")]
  /\ UNCHANGED <<rows, overdue, rrCursor, setbacks, disturbed>>

\* The cursor after one more assignment out of the pool.
NextCursor(pool) == (rrCursor + 1) % Len(pool)

AssignReport(r) ==
  /\ op[r].at = "assigning"
  /\ \E pool \in ModeratorPools :
       IF pool = <<>>
       THEN /\ setbacks < MaxSetbacks
            /\ setbacks' = setbacks + 1
            /\ op' = [op EXCEPT ![r] = Idle]
            /\ UNCHANGED rrCursor
       ELSE /\ op' = [op EXCEPT ![r] = Changed(r, [Known(r) EXCEPT
                        !.assignee = pool[(rrCursor % Len(pool)) + 1],
                        !.status = "under_review"], "ending")]
            /\ rrCursor' = NextCursor(pool)
            /\ UNCHANGED setbacks
  /\ UNCHANGED <<rows, items, overdue, disturbed>>

-----------------------------------------------------------------------------
(* reviewReport.                                                            *)

\* A mutant: a finalised report may be decided again.
Submitted(r) == rows[r] # NoRow

Undecided(r) == rows[r].status \in Open

ReviewReport(v, r, decision) ==
  /\ op[v] = Idle
  /\ Undecided(r)
  /\ op' = [op EXCEPT ![v] =
       [at |-> "saving", todo |-> <<[report |-> r, row |-> rows[r]]>>,
        entity |-> [rows[r] EXCEPT !.status = decision], next |-> "marking"]]
  /\ UNCHANGED <<rows, items, overdue, rrCursor, setbacks, disturbed>>

MarkReviewed(v) ==
  /\ op[v].at = "marking"
  /\ items' = [items EXCEPT ![Report(v)] = "reviewed"]
  /\ op' = [op EXCEPT ![v] = Idle]
  /\ UNCHANGED <<rows, overdue, rrCursor, setbacks, disturbed>>

-----------------------------------------------------------------------------
(* escalateOverdueReports and escalateReport.                               *)

\* "escalatedAt: undefined" is no condition: escalated reports are found again.
OverdueReports == {r \in overdue : rows[r].status \in Open}

\* The cron job: one SELECT, in no particular order.
Sweep(s) ==
  /\ op[s] = Idle
  /\ OverdueReports # {}
  /\ \E found \in SetToSeqs(OverdueReports) :
       op' = [op EXCEPT ![s] = [at |-> "choosing",
                todo |-> [n \in DOMAIN found |-> [report |-> found[n], row |-> rows[found[n]]]]]]
  /\ UNCHANGED <<rows, items, overdue, rrCursor, setbacks, disturbed>>

Load(admin) == Cardinality({r \in Reports : rows[r].status \in Open /\ rows[r].assignee = admin})

\* The least loaded admin, the lowest id (the first) if there are several.
SelectEscalationTarget(admins) ==
  admins[CHOOSE n \in DOMAIN admins :
           \A m \in DOMAIN admins : \/ Load(admins[n]) < Load(admins[m])
                                    \/ Load(admins[n]) = Load(admins[m]) /\ n =< m]

\* Without admins escalateReport does nothing, and the loop goes on.
EscalateReport(s) ==
  /\ op[s].at = "choosing"
  /\ \E admins \in AdminPools :
       IF admins = <<>>
       THEN /\ setbacks < MaxSetbacks
            /\ setbacks' = setbacks + 1
            /\ op' = [op EXCEPT ![s] = Rest(s)]
       ELSE /\ op' = [op EXCEPT ![s] = Changed(s, [Known(s) EXCEPT
                        !.assignee = SelectEscalationTarget(admins),
                        !.escalated = TRUE], "choosing")]
            /\ UNCHANGED setbacks
  /\ UNCHANGED <<rows, items, overdue, rrCursor, disturbed>>

-----------------------------------------------------------------------------
\* A report passes the SLA: hours, and a submission does not take that long.
Age(r) ==
  /\ rows[r] # NoRow
  /\ op[r] = Idle
  /\ r \notin overdue
  /\ overdue' = overdue \cup {r}
  /\ UNCHANGED <<rows, items, rrCursor, op, setbacks, disturbed>>

\* A statement is rejected or the instance dies; a sweep leaves the rest of its list.
Fail(p) ==
  /\ op[p] # Idle
  /\ setbacks < MaxSetbacks
  /\ setbacks' = setbacks + 1
  /\ op' = [op EXCEPT ![p] = Idle]
  /\ disturbed' = disturbed \cup {Report(p)}
  /\ UNCHANGED <<rows, items, overdue, rrCursor>>

Continue(p) == \/ p \in Reports /\ (Enqueue(p) \/ AssignReport(p))
               \/ p \in Reviewers /\ MarkReviewed(p)
               \/ p \in Sweeps /\ EscalateReport(p)
               \/ Save(p)

Next == \/ \E r \in Reports : Submit(r) \/ Age(r)
        \/ \E v \in Reviewers, r \in Reports, d \in Final : ReviewReport(v, r, d)
        \/ \E s \in Sweeps : Sweep(s)
        \/ \E p \in Processes : Continue(p) \/ Fail(p)

Spec == Init /\ [][Next]_vars

\* Statements are answered, and the job runs every five minutes.
FairSpec == Spec /\ \A p \in Processes : WF_vars(Continue(p))
                 /\ \A s \in Sweeps : WF_vars(Sweep(s))

-----------------------------------------------------------------------------
\* A decision is changed, the link to the item lost, or an escalation taken back.
Undone(old, new) == \/ old.status \in Final /\ new.status # old.status
                    \/ old.linked /\ ~new.linked
                    \/ old.escalated /\ ~new.escalated
                    \/ old.escalated /\ old.assignee \in Admins /\ new.assignee \notin Admins

\* A decision stays (content-reporting.service.ts:131: "has already been
\* finalized"), a report stays linked to its item and, once escalated, with an
\* admin, unless the save that undoes it goes back to a reading another save has
\* overtaken.
OnlyOvertakenSavesUndo ==
  [][\A r \in Reports : rows[r] # NoRow /\ Undone(rows[r], rows'[r]) =>
       \E p \in Processes : op[p].at = "saving" /\ Report(p) = r /\ ~Current(p)]_vars

AtRest(r) == \A p \in Processes : op[p] # Idle => \A n \in DOMAIN op[p].todo : op[p].todo[n].report # r

\* The report and its item in the queue are two rows saved by turns: once nothing
\* is under way, the item is reviewed exactly if the report is decided, and the
\* report is linked and assigned (report-assignment.service.ts:66: unassigned "when no moderators exist"),
\* unless an operation on it failed or was overtaken.
ItemFollowsReport ==
  \A r \in Reports : rows[r] # NoRow /\ AtRest(r) /\ r \notin disturbed =>
    /\ items[r] = "reviewed" <=> rows[r].status \in Final
    /\ rows[r].linked
    /\ rows[r].assignee = NoOne => <<>> \in ModeratorPools

Attended(r) == rows[r] # NoRow /\ (rows[r].escalated \/ rows[r].status \in Final)

\* An overdue report reaches an admin or a decision in the end, whatever else
\* the sweep escalates (again) and however often it broke off.
OverdueGetsAttention ==
  \A r \in Reports : r \in overdue ~> Attended(r)

\* Every run of the job comes to an end, though reports are decided, reopened and
\* escalated under its hands.
SweepEnds == \A s \in Sweeps : op[s] # Idle ~> op[s] = Idle

\* The comment of escalateOverdueReports (report-assignment.service.ts:146): it
\* takes the overdue reports that "have not yet been escalated".
EscalatedOnce ==
  [][\A s \in Sweeps : op[s] = Idle /\ op'[s] # Idle =>
       \A n \in DOMAIN op'[s].todo : ~op'[s].todo[n].row.escalated]_vars
=============================================================================
