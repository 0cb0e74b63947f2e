-------------------------- MODULE ModerationProofs --------------------------
(***************************************************************************)
(* Theorems about Moderation, for any reports, reviewers, sweeps and pools. *)
(***************************************************************************)
EXTENDS Moderation, FiniteSetTheorems, WellFoundedInduction, TLAPS

LEMMA UsersOfPool ==
  ASSUME NEW pool \in ModeratorPools \cup AdminPools, NEW n \in DOMAIN pool
  PROVE  pool[n] \in Users
BY DEF Users, ToSet

LEMMA Least ==
  ASSUME NEW S \in SUBSET Nat, S # {}
  PROVE  \E n \in S : \A m \in S : n =< m
<1> DEFINE R == OpToRel(<, Nat)
<1>1. IsWellFoundedOn(R, Nat)
  BY NatLessThanWellFounded
<1>2. \A m, n \in S : <<m, n>> \in R <=> m < n
  BY DEF OpToRel
<1> HIDE DEF R
<1>3. PICK n \in S : \A m \in S : ~(<<m, n>> \in R)
  BY <1>1, WFMin
<1>4. \A m \in S : ~(m < n)
  BY <1>2, <1>3
<1> QED
  BY <1>4

LEMMA LoadType ==
  ASSUME NEW admin
  PROVE  Load(admin) \in Nat
BY ProcessAssumption, FS_Subset, FS_CardinalityType DEF Load

LEMMA TargetIsAdmin ==
  ASSUME NEW admins \in AdminPools, admins # <<>>
  PROVE  /\ SelectEscalationTarget(admins) \in Admins
         /\ SelectEscalationTarget(admins) \in Users
<1>1. admins \in Seq(Users) /\ DOMAIN admins = 1..Len(admins) /\ Len(admins) \in Nat /\ 1 \in DOMAIN admins
  BY PoolAssumption
<1> DEFINE loads == {Load(admins[n]) : n \in DOMAIN admins}
<1>2. PICK l \in loads : \A k \in loads : l =< k
  <2>1. loads \in SUBSET Nat /\ loads # {}
    BY <1>1, LoadType
  <2> QED
    BY <2>1, Least
<1> DEFINE lightest == {n \in DOMAIN admins : Load(admins[n]) = l}
<1>3. PICK n \in lightest : \A m \in lightest : n =< m
  <2>1. lightest \in SUBSET Nat /\ lightest # {}
    BY <1>1, <1>2
  <2> QED
    BY <2>1, Least
<1>4. \A m \in DOMAIN admins : \/ Load(admins[n]) < Load(admins[m])
                               \/ Load(admins[n]) = Load(admins[m]) /\ n =< m
  <2> TAKE m \in DOMAIN admins
  <2>1. l =< Load(admins[m]) /\ Load(admins[n]) = l /\ Load(admins[m]) \in Nat /\ l \in Nat
    BY <1>2, <1>3, LoadType
  <2>2. Load(admins[m]) = l => n =< m
    BY <1>3
  <2> QED
    BY <2>1, <2>2
<1>5. \E k \in DOMAIN admins : SelectEscalationTarget(admins) = admins[k]
  BY <1>3, <1>4 DEF SelectEscalationTarget
<1> QED
  BY <1>5, UsersOfPool DEF Admins, ToSet

-----------------------------------------------------------------------------
\* What a submission knows of its report: nobody has touched it.
SubmitterOK(r) ==
  /\ op[r].at \in {"idle", "queueing", "assigning", "saving"}
  /\ op[r].at # "idle" => /\ Len(op[r].todo) = 1 /\ Report(r) = r
                          /\ Known(r).status = "pending" /\ Known(r).assignee = NoOne
                          /\ ~Known(r).escalated
  /\ op[r].at = "queueing" => ~Known(r).linked
  /\ op[r].at = "assigning" => Known(r).linked
  /\ op[r].at = "saving" =>
       \/ /\ op[r].next = "assigning"
          /\ ~Known(r).linked
          /\ op[r].entity = [Known(r) EXCEPT !.linked = TRUE]
       \/ /\ op[r].next = "ending"
          /\ Known(r).linked
          /\ \E u \in Users : op[r].entity = [Known(r) EXCEPT !.assignee = u, !.status = "under_review"]

\* A decision is taken about an open report.
ReviewerOK(v) ==
  /\ op[v].at \in {"idle", "saving", "marking"}
  /\ op[v].at # "idle" => Len(op[v].todo) = 1
  /\ op[v].at = "saving" =>
       /\ op[v].next = "marking"
       /\ Known(v).status \in Open
       /\ \E d \in Final : op[v].entity = [Known(v) EXCEPT !.status = d]

SweepOK(s) ==
  /\ op[s].at \in {"idle", "choosing", "saving"}
  /\ op[s].at # "idle" => Len(op[s].todo) > 0
  /\ op[s].at = "saving" =>
       /\ op[s].next = "choosing"
       /\ \E a \in Admins : op[s].entity = [Known(s) EXCEPT !.assignee = a, !.escalated = TRUE]

ProcessOK(p) ==
  /\ p \in Reports => SubmitterOK(p)
  /\ p \in Reviewers => ReviewerOK(p)
  /\ p \in Sweeps => SweepOK(p)
  /\ op[p].at # "idle" => \A n \in DOMAIN op[p].todo : rows[op[p].todo[n].report] # NoRow

OpsOK == \A p \in Processes : ProcessOK(p)

\* The submission has not linked the report yet.
Linking(r) == \/ op[r].at = "queueing"
              \/ op[r].at = "saving" /\ op[r].next = "assigning"

Marking(v, r) == op[v].at = "marking" /\ Report(v) = r

\* Report and item, as long as no operation failed or was overtaken.
AgreeOK(r) ==
  /\ rows[r].linked <=> ~Linking(r)
  /\ op[r].at = "idle" => rows[r].assignee # NoOne \/ <<>> \in ModeratorPools
  /\ items[r] = "reviewed" => rows[r].linked /\ rows[r].status \in Final
  /\ \A v \in Reviewers : Marking(v, r) => rows[r].linked /\ rows[r].status \in Final
  /\ rows[r].linked /\ rows[r].status \in Final =>
       items[r] = "reviewed" \/ \E v \in Reviewers : Marking(v, r)

LedgerOK == \A r \in Reports : rows[r] # NoRow /\ r \notin disturbed => AgreeOK(r)

UnsubmittedOK == \A r \in Reports : rows[r] = NoRow => op[r].at = "idle" /\ items[r] = "none"

IInv == TypeOK /\ OpsOK /\ UnsubmittedOK /\ LedgerOK

LEMMA InitInv == Init => IInv
<1> SUFFICES ASSUME Init
             PROVE  IInv
  OBVIOUS
<1>1. \A p \in Processes : op[p] = Idle /\ op[p].at = "idle"
  BY DEF Init, Idle
<1>2. TypeOK
  BY BoundAssumption DEF Init, TypeOK
<1>3. OpsOK
  BY <1>1 DEF OpsOK, ProcessOK, SubmitterOK, ReviewerOK, SweepOK
<1>4. UnsubmittedOK /\ LedgerOK
  BY <1>1 DEF Init, UnsubmittedOK, LedgerOK, Processes
<1> QED
  BY <1>2, <1>3, <1>4 DEF IInv

LEMMA OpTyped ==
  ASSUME TypeOK, NEW p \in Processes
  PROVE  /\ op[p].at = "idle" <=> op[p] = Idle
         /\ op[p].at = "saving" <=> op[p] \in Saving
         /\ op[p].at \in {"queueing", "assigning", "choosing", "marking"} <=> op[p] \in Engaged
         /\ op[p].at # "idle" => op[p].todo \in Seq(Copies)
BY DEF TypeOK, Engaged, Saving, Idle

LEMMA HeadTyped ==
  ASSUME TypeOK, NEW p \in Processes, ProcessOK(p), op[p].at # "idle"
  PROVE  /\ op[p].todo \in Seq(Copies) /\ Len(op[p].todo) \in Nat /\ Len(op[p].todo) > 0
         /\ Head(op[p].todo) = op[p].todo[1] /\ 1 \in DOMAIN op[p].todo
         /\ Report(p) \in Reports /\ Known(p) \in Rows /\ rows[Report(p)] \in Rows
         /\ Tail(op[p].todo) \in Seq(Copies)
         /\ Len(op[p].todo) > 1 => /\ Len(Tail(op[p].todo)) > 0
                                   /\ \A n \in DOMAIN Tail(op[p].todo) :
                                        /\ n + 1 \in DOMAIN op[p].todo
                                        /\ Tail(op[p].todo)[n] = op[p].todo[n + 1]
<1>1. op[p].todo \in Seq(Copies)
  BY OpTyped
<1>2. Len(op[p].todo) > 0
  <2>1. CASE p \in Reports
    <3>1. SubmitterOK(p)
      BY <2>1 DEF ProcessOK
    <3>2. Len(op[p].todo) = 1
      BY <3>1, Zenon DEF SubmitterOK
    <3> QED
      BY <3>2
  <2>2. CASE p \in Reviewers
    <3>1. ReviewerOK(p)
      BY <2>2 DEF ProcessOK
    <3>2. Len(op[p].todo) = 1
      BY <3>1, Zenon DEF ReviewerOK
    <3> QED
      BY <3>2
  <2>3. CASE p \in Sweeps
    BY <2>3 DEF ProcessOK, SweepOK
  <2> QED
    BY <2>1, <2>2, <2>3 DEF Processes
<1>3. op[p].todo[1] \in Copies /\ Head(op[p].todo) = op[p].todo[1] /\ 1 \in DOMAIN op[p].todo
  BY <1>1, <1>2
<1>4. rows[op[p].todo[1].report] # NoRow
  BY <1>3 DEF ProcessOK
<1>5. Report(p) \in Reports /\ Known(p) \in Rows /\ rows[Report(p)] \in Rows
  BY <1>3, <1>4 DEF Copies, Report, Known, TypeOK
<1>6. Tail(op[p].todo) \in Seq(Copies)
  BY <1>1, <1>2
<1>7. Len(op[p].todo) > 1 => /\ Len(Tail(op[p].todo)) > 0
                            /\ \A n \in DOMAIN Tail(op[p].todo) :
                                 /\ n + 1 \in DOMAIN op[p].todo
                                 /\ Tail(op[p].todo)[n] = op[p].todo[n + 1]
  BY <1>1, <1>2
<1> QED
  BY <1>1, <1>2, <1>3, <1>5, <1>6, <1>7

\* A step of p alone.
LEMMA OpsFrame ==
  ASSUME TypeOK, OpsOK, NEW p \in Processes, NEW o,
         op' = [op EXCEPT ![p] = o],
         \A r \in Reports : rows[r] # NoRow => rows'[r] # NoRow,
         ProcessOK(p)'
  PROVE  OpsOK'
<1> SUFFICES ASSUME NEW q \in Processes, q # p
             PROVE  ProcessOK(q)'
  BY DEF OpsOK
<1>1. op'[q] = op[q]
  BY DEF TypeOK
<1>2. ProcessOK(q)
  BY DEF OpsOK
<1>3. op[q].at # "idle" => \A n \in DOMAIN op[q].todo : op[q].todo[n].report \in Reports
  <2> SUFFICES ASSUME op[q].at # "idle", NEW n \in DOMAIN op[q].todo
               PROVE  op[q].todo[n].report \in Reports
    OBVIOUS
  <2>1. op[q].todo \in Seq(Copies)
    BY OpTyped
  <2>2. op[q].todo[n] \in Copies
    BY <2>1
  <2> QED
    BY <2>2 DEF Copies
<1>4. SubmitterOK(q) => SubmitterOK(q)'
  BY <1>1, ZenonT(30) DEF SubmitterOK, Report, Known
<1>5. ReviewerOK(q) => ReviewerOK(q)'
  BY <1>1 DEF ReviewerOK, Known
<1>6. SweepOK(q) => SweepOK(q)'
  BY <1>1 DEF SweepOK, Known
<1> QED
  BY <1>1, <1>2, <1>3, <1>4, <1>5, <1>6 DEF ProcessOK

\* A report a step does not touch.
LEMMA AgreeFrame ==
  ASSUME NEW r \in Reports, AgreeOK(r),
         rows'[r] = rows[r], items'[r] = items[r], op'[r] = op[r],
         \A v \in Reviewers : Marking(v, r)' <=> Marking(v, r)
  PROVE  AgreeOK(r)'
<1>1. Linking(r)' <=> Linking(r)
  BY DEF Linking
<1> QED
  BY <1>1 DEF AgreeOK

\* What is about to be saved, field by field.
LEMMA EntityFields ==
  ASSUME TypeOK, NEW p \in Processes, ProcessOK(p), op[p].at = "saving"
  PROVE  /\ op[p].entity \in Rows
         /\ p \in Reports =>
              /\ Report(p) = p /\ Len(op[p].todo) = 1 /\ Known(p).status = "pending"
              /\ op[p].entity.linked /\ ~op[p].entity.escalated /\ ~Known(p).escalated
              /\ \/ /\ op[p].next = "assigning" /\ ~Known(p).linked
                    /\ op[p].entity.status = "pending" /\ op[p].entity.assignee = NoOne
                 \/ /\ op[p].next = "ending" /\ Known(p).linked
                    /\ op[p].entity.status = "under_review" /\ op[p].entity.assignee \in Users
         /\ p \in Reviewers =>
              /\ Len(op[p].todo) = 1 /\ op[p].next = "marking"
              /\ Known(p).status \in Open /\ op[p].entity.status \in Final
              /\ op[p].entity.linked = Known(p).linked
              /\ op[p].entity.assignee = Known(p).assignee
              /\ op[p].entity.escalated = Known(p).escalated
         /\ p \in Sweeps =>
              /\ op[p].next = "choosing"
              /\ op[p].entity.status = Known(p).status /\ op[p].entity.linked = Known(p).linked
              /\ op[p].entity.assignee \in Admins /\ op[p].entity.escalated
<1>1. op[p] \in Saving /\ op[p].entity \in Rows
  BY OpTyped DEF Saving
<1>2. Known(p) \in Rows
  BY HeadTyped
<1>3. ASSUME p \in Reports
      PROVE  /\ Report(p) = p /\ Len(op[p].todo) = 1 /\ Known(p).status = "pending"
             /\ op[p].entity.linked /\ ~op[p].entity.escalated /\ ~Known(p).escalated
             /\ \/ /\ op[p].next = "assigning" /\ ~Known(p).linked
                   /\ op[p].entity.status = "pending" /\ op[p].entity.assignee = NoOne
                \/ /\ op[p].next = "ending" /\ Known(p).linked
                   /\ op[p].entity.status = "under_review" /\ op[p].entity.assignee \in Users
  <2>1. SubmitterOK(p)
    BY <1>3 DEF ProcessOK
  <2>2. /\ Report(p) = p /\ Len(op[p].todo) = 1 /\ Known(p).status = "pending"
        /\ Known(p).assignee = NoOne /\ ~Known(p).escalated
    BY <2>1, Zenon DEF SubmitterOK
  <2>3. \/ /\ op[p].next = "assigning"
           /\ ~Known(p).linked
           /\ op[p].entity = [Known(p) EXCEPT !.linked = TRUE]
        \/ /\ op[p].next = "ending"
           /\ Known(p).linked
           /\ \E u \in Users : op[p].entity = [Known(p) EXCEPT !.assignee = u, !.status = "under_review"]
    BY <2>1, Zenon DEF SubmitterOK
  <2>4. CASE /\ op[p].next = "assigning"
             /\ ~Known(p).linked
             /\ op[p].entity = [Known(p) EXCEPT !.linked = TRUE]
    BY <1>2, <2>2, <2>4 DEF Rows
  <2>5. CASE /\ op[p].next = "ending"
             /\ Known(p).linked
             /\ \E u \in Users : op[p].entity = [Known(p) EXCEPT !.assignee = u, !.status = "under_review"]
    BY <1>2, <2>2, <2>5 DEF Rows
  <2> QED
    BY <2>3, <2>4, <2>5
<1>4. ASSUME p \in Reviewers
      PROVE  /\ Len(op[p].todo) = 1 /\ op[p].next = "marking"
             /\ Known(p).status \in Open /\ op[p].entity.status \in Final
             /\ op[p].entity.linked = Known(p).linked
             /\ op[p].entity.assignee = Known(p).assignee
             /\ op[p].entity.escalated = Known(p).escalated
  <2>1. ReviewerOK(p)
    BY <1>4 DEF ProcessOK
  <2>2. Len(op[p].todo) = 1 /\ op[p].next = "marking" /\ Known(p).status \in Open
    BY <2>1, Zenon DEF ReviewerOK
  <2>3. PICK d \in Final : op[p].entity = [Known(p) EXCEPT !.status = d]
    BY <2>1, Zenon DEF ReviewerOK
  <2> QED
    BY <1>2, <2>2, <2>3 DEF Rows
<1>5. ASSUME p \in Sweeps
      PROVE  /\ op[p].next = "choosing"
             /\ op[p].entity.status = Known(p).status /\ op[p].entity.linked = Known(p).linked
             /\ op[p].entity.assignee \in Admins /\ op[p].entity.escalated
  <2>1. SweepOK(p)
    BY <1>5 DEF ProcessOK
  <2>2. op[p].next = "choosing"
    BY <2>1, Zenon DEF SweepOK
  <2>3. PICK a \in Admins : op[p].entity = [Known(p) EXCEPT !.assignee = a, !.escalated = TRUE]
    BY <2>1, Zenon DEF SweepOK
  <2> QED
    BY <1>2, <2>2, <2>3 DEF Rows
<1> QED
  BY <1>1, <1>3, <1>4, <1>5

-----------------------------------------------------------------------------
\* One lemma per action.

LEMMA SubmitInv ==
  ASSUME IInv, NEW r \in Reports, Submit(r)
  PROVE  IInv'
<1> DEFINE row == [status |-> "pending", assignee |-> NoOne, linked |-> FALSE, escalated |-> FALSE]
           todo == <<[report |-> r, row |-> row]>>
           o == [at |-> "queueing", todo |-> todo]
<1> USE DEF IInv
<1>1. /\ rows[r] = NoRow /\ rows' = [rows EXCEPT ![r] = row] /\ op' = [op EXCEPT ![r] = o]
      /\ items' = items /\ overdue' = overdue /\ rrCursor' = rrCursor
      /\ setbacks' = setbacks /\ disturbed' = disturbed
  BY DEF Submit
<1>2. row \in Rows /\ row # NoRow /\ todo \in Seq(Copies) /\ o \in Engaged
  BY DEF Rows, Open, Copies, Engaged, NoRow
<1>3. r \in Processes /\ r \notin Reviewers /\ r \notin Sweeps
  BY ProcessAssumption DEF Processes
<1>4. op'[r] = o /\ rows'[r] = row
  BY <1>1, <1>3 DEF TypeOK
<1>5. TypeOK'
  BY <1>1, <1>2, <1>3 DEF TypeOK
<1>6. /\ op'[r].at = "queueing" /\ Len(op'[r].todo) = 1 /\ Report(r)' = r /\ Known(r)' = row
      /\ DOMAIN op'[r].todo = {1} /\ op'[r].todo[1].report = r
  <2> HIDE DEF row
  <2>1. op'[r].at = "queueing" /\ op'[r].todo = <<[report |-> r, row |-> row]>>
    BY <1>4
  <2>2. Len(op'[r].todo) = 1 /\ DOMAIN op'[r].todo = {1} /\ op'[r].todo[1] = [report |-> r, row |-> row]
    BY <2>1
  <2>3. Head(op'[r].todo) = [report |-> r, row |-> row]
    BY <2>1
  <2> QED
    BY <2>1, <2>2, <2>3 DEF Report, Known
<1>7. OpsOK'
  <2>1. SubmitterOK(r)'
    BY <1>6 DEF SubmitterOK
  <2>2. ProcessOK(r)'
    BY <1>2, <1>3, <1>4, <1>6, <2>1 DEF ProcessOK
  <2>3. \A x \in Reports : rows[x] # NoRow => rows'[x] # NoRow
    BY <1>1, <1>2 DEF TypeOK
  <2> HIDE DEF o
  <2> QED
    BY <1>1, <1>3, <2>2, <2>3, OpsFrame
<1>8. UnsubmittedOK'
  BY <1>1, <1>2 DEF UnsubmittedOK, TypeOK
<1>9. LedgerOK'
  <2> SUFFICES ASSUME NEW x \in Reports, rows'[x] # NoRow, x \notin disturbed
               PROVE  AgreeOK(x)'
    BY <1>1 DEF LedgerOK
  <2>1. \A v \in Reviewers : Marking(v, x)' <=> Marking(v, x)
    BY <1>1, <1>3 DEF Marking, Report, TypeOK
  <2>2. CASE x # r
    <3>1. rows'[x] = rows[x] /\ op'[x] = op[x] /\ AgreeOK(x)
      BY <1>1, <2>2 DEF TypeOK, LedgerOK
    <3> QED
      BY <1>1, <2>1, <3>1, AgreeFrame
  <2>3. CASE x = r
    <3>1. items'[r] # "reviewed"
      BY <1>1 DEF UnsubmittedOK
    <3>2. \A v \in Reviewers : ~Marking(v, r)'
      <4> SUFFICES ASSUME NEW v \in Reviewers, Marking(v, r)
                   PROVE  FALSE
        BY <2>1, <2>3
      <4>1. v \in Processes /\ op[v].at # "idle" /\ Report(v) = r
        BY DEF Processes, Marking
      <4> QED
        BY <1>1, <4>1, HeadTyped DEF OpsOK, NoRow, Rows, Open, Final
    <3>3. Linking(r)'
      BY <1>6 DEF Linking
    <3> QED
      BY <1>4, <1>6, <2>3, <3>1, <3>2, <3>3 DEF AgreeOK
  <2> QED
    BY <2>2, <2>3
<1> QED
  BY <1>5, <1>7, <1>8, <1>9

LEMMA EnqueueInv ==
  ASSUME IInv, NEW r \in Reports, Enqueue(r)
  PROVE  IInv'
<1> DEFINE entity == [Known(r) EXCEPT !.linked = TRUE]
           o == Changed(r, entity, "assigning")
<1> USE DEF IInv
<1>1. /\ op[r].at = "queueing" /\ op' = [op EXCEPT ![r] = o] /\ items' = [items EXCEPT ![r] = "pending"]
      /\ rows' = rows /\ overdue' = overdue /\ rrCursor' = rrCursor
      /\ setbacks' = setbacks /\ disturbed' = disturbed
  BY DEF Enqueue
<1>2. r \in Processes /\ r \notin Reviewers /\ r \notin Sweeps
  BY ProcessAssumption DEF Processes
<1>3. ProcessOK(r) /\ SubmitterOK(r)
  BY <1>2 DEF OpsOK, ProcessOK
<1>4. op[r].todo \in Seq(Copies) /\ Known(r) \in Rows
  BY <1>1, <1>2, <1>3, HeadTyped
<1>5. entity \in Rows /\ o \in Saving
  BY <1>4 DEF Rows, Saving, Changed
<1> HIDE DEF entity
<1>6. /\ op'[r] = o /\ op'[r].at = "saving" /\ op'[r].todo = op[r].todo
      /\ op'[r].entity = entity /\ op'[r].next = "assigning"
  BY <1>1, <1>2 DEF TypeOK, Changed
<1>7. Report(r)' = Report(r) /\ Known(r)' = Known(r)
  BY <1>6 DEF Report, Known
<1>8. TypeOK'
  BY <1>1, <1>2, <1>5 DEF TypeOK
<1>9. OpsOK'
  <2>1. SubmitterOK(r)'
    <3>1. /\ Len(op[r].todo) = 1 /\ Report(r) = r /\ Known(r).status = "pending"
          /\ Known(r).assignee = NoOne /\ ~Known(r).escalated /\ ~Known(r).linked
      BY <1>1, <1>3, Zenon DEF SubmitterOK
    <3> QED
      BY <1>6, <1>7, <3>1 DEF SubmitterOK, entity
  <2>2. ProcessOK(r)'
    BY <1>1, <1>2, <1>3, <1>6, <2>1 DEF ProcessOK
  <2> HIDE DEF o
  <2> QED
    BY <1>1, <1>2, <2>2, OpsFrame
<1>10. UnsubmittedOK'
  BY <1>1 DEF UnsubmittedOK, TypeOK
<1>11. LedgerOK'
  <2> SUFFICES ASSUME NEW x \in Reports, rows[x] # NoRow, x \notin disturbed
               PROVE  AgreeOK(x)'
    BY <1>1 DEF LedgerOK
  <2>1. \A v \in Reviewers : Marking(v, x)' <=> Marking(v, x)
    BY <1>1, <1>2 DEF Marking, Report, TypeOK
  <2>2. AgreeOK(x)
    BY DEF LedgerOK
  <2>3. CASE x # r
    BY <1>1, <2>1, <2>2, <2>3, AgreeFrame DEF TypeOK
  <2>4. CASE x = r
    <3>1. Linking(r) /\ Linking(r)'
      BY <1>1, <1>6 DEF Linking
    <3>2. items'[r] # "reviewed"
      BY <1>1 DEF TypeOK
    <3> QED
      BY <1>1, <1>6, <2>1, <2>2, <2>4, <3>1, <3>2 DEF AgreeOK
  <2> QED
    BY <2>3, <2>4
<1> QED
  BY <1>8, <1>9, <1>10, <1>11

\* A process that is idle has nothing to keep right.
LEMMA IdleOK ==
  ASSUME NEW p \in Processes, op'[p] = Idle
  PROVE  ProcessOK(p)'
BY DEF ProcessOK, SubmitterOK, ReviewerOK, SweepOK, Idle

LEMMA AssignReportInv ==
  ASSUME IInv, NEW r \in Reports, AssignReport(r)
  PROVE  IInv'
<1> USE DEF IInv
<1>1. op[r].at = "assigning" /\ rows' = rows /\ items' = items /\ overdue' = overdue /\ disturbed' = disturbed
  BY DEF AssignReport
<1>2. r \in Processes /\ r \notin Reviewers /\ r \notin Sweeps
  BY ProcessAssumption DEF Processes
<1>3. ProcessOK(r) /\ SubmitterOK(r)
  BY <1>2 DEF OpsOK, ProcessOK
<1>4. op[r].todo \in Seq(Copies) /\ Known(r) \in Rows
  BY <1>1, <1>2, <1>3, HeadTyped
<1>5. /\ Len(op[r].todo) = 1 /\ Report(r) = r /\ Known(r).status = "pending"
      /\ Known(r).assignee = NoOne /\ ~Known(r).escalated /\ Known(r).linked
  BY <1>1, <1>3, Zenon DEF SubmitterOK
<1>6. PICK pool \in ModeratorPools :
        IF pool = <<>>
        THEN /\ setbacks < MaxSetbacks
             /\ setbacks' = setbacks + 1
             /\ op' = [op EXCEPT ![r] = Idle]
             /\ UNCHANGED rrCursor
        ELSE /\ op' = [op EXCEPT ![r] = Changed(r, [Known(r) EXCEPT
                         !.assignee = pool[(rrCursor % Len(pool)) + 1],
                         !.status = "under_review"], "ending")]
             /\ rrCursor' = NextCursor(pool)
             /\ UNCHANGED setbacks
  BY DEF AssignReport
<1>7. ~Linking(r)
  BY <1>1 DEF Linking
<1>8. UnsubmittedOK'
  <2>1. rows[r] # NoRow
    BY <1>1 DEF UnsubmittedOK
  <2>2. \A q \in Processes : q # r => op'[q] = op[q]
    <3>1. CASE pool = <<>>
      BY <1>6, <3>1 DEF TypeOK
    <3>2. CASE pool # <<>>
      BY <1>6, <3>2 DEF TypeOK
    <3> QED
      BY <3>1, <3>2
  <2> QED
    BY <1>1, <2>1, <2>2 DEF UnsubmittedOK, Processes
<1>9. CASE pool = <<>>
  <2>1. op' = [op EXCEPT ![r] = Idle] /\ op'[r] = Idle
    BY <1>2, <1>6, <1>9 DEF TypeOK
  <2>2. TypeOK'
    BY <1>1, <1>6, <1>9, BoundAssumption DEF TypeOK
  <2>3. OpsOK'
    BY <1>1, <1>2, <2>1, IdleOK, OpsFrame
  <2>4. LedgerOK'
    <3> SUFFICES ASSUME NEW x \in Reports, rows[x] # NoRow, x \notin disturbed
                 PROVE  AgreeOK(x)'
      BY <1>1 DEF LedgerOK
    <3>1. \A v \in Reviewers : Marking(v, x)' <=> Marking(v, x)
      BY <1>2, <2>1 DEF Marking, Report, TypeOK
    <3>2. AgreeOK(x)
      BY DEF LedgerOK
    <3>3. CASE x # r
      BY <1>1, <2>1, <3>1, <3>2, <3>3, AgreeFrame DEF TypeOK
    <3>4. CASE x = r
      <4>1. ~Linking(r)'
        BY <2>1 DEF Linking, Idle
      <4>2. <<>> \in ModeratorPools
        BY <1>9
      <4> QED
        BY <1>1, <1>7, <3>1, <3>2, <3>4, <4>1, <4>2 DEF AgreeOK
    <3> QED
      BY <3>3, <3>4
  <2> QED
    BY <1>8, <2>2, <2>3, <2>4
<1>10. CASE pool # <<>>
  <2> DEFINE n == (rrCursor % Len(pool)) + 1
             entity == [Known(r) EXCEPT !.assignee = pool[n], !.status = "under_review"]
             o == Changed(r, entity, "ending")
  <2>1. op' = [op EXCEPT ![r] = o] /\ rrCursor' = NextCursor(pool) /\ setbacks' = setbacks
    BY <1>6, <1>10
  <2>2. Len(pool) \in Nat /\ Len(pool) > 0 /\ pool \in Seq(Users) /\ DOMAIN pool = 1..Len(pool)
    BY <1>10, PoolAssumption
  <2>3. \A c, l \in Nat : l > 0 => /\ (c % l) + 1 \in 1..l
                                   /\ (c + 1) % l \in Nat /\ (c + 1) % l < l
    OBVIOUS
  <2>4. n \in DOMAIN pool /\ rrCursor' \in Nat /\ rrCursor' < Len(pool)
    BY <2>1, <2>2, <2>3 DEF TypeOK, NextCursor
  <2>5. pool[n] \in Users
    BY <2>4, UsersOfPool
  <2> HIDE DEF n
  <2>6. entity \in Rows /\ o \in Saving
    BY <1>4, <2>5 DEF Rows, Open, Saving, Changed
  <2> HIDE DEF entity
  <2>7. /\ op'[r] = o /\ op'[r].at = "saving" /\ op'[r].todo = op[r].todo
        /\ op'[r].entity = entity /\ op'[r].next = "ending"
    BY <1>2, <2>1 DEF TypeOK, Changed
  <2>8. Report(r)' = Report(r) /\ Known(r)' = Known(r)
    BY <2>7 DEF Report, Known
  <2>9. TypeOK'
    BY <1>1, <1>2, <2>1, <2>4, <2>6 DEF TypeOK
  <2>10. OpsOK'
    <3>1. SubmitterOK(r)'
      <4>1. \E u \in Users : entity = [Known(r) EXCEPT !.assignee = u, !.status = "under_review"]
        BY <2>5 DEF entity
      <4> QED
        BY <1>5, <2>7, <2>8, <4>1 DEF SubmitterOK
    <3>2. ProcessOK(r)'
      BY <1>1, <1>2, <1>3, <2>7, <3>1 DEF ProcessOK
    <3> HIDE DEF o
    <3> QED
      BY <1>1, <1>2, <2>1, <3>2, OpsFrame
  <2>11. LedgerOK'
    <3> SUFFICES ASSUME NEW x \in Reports, rows[x] # NoRow, x \notin disturbed
                 PROVE  AgreeOK(x)'
      BY <1>1 DEF LedgerOK
    <3>1. \A v \in Reviewers : Marking(v, x)' <=> Marking(v, x)
      BY <1>2, <2>1 DEF Marking, Report, TypeOK
    <3>2. AgreeOK(x)
      BY DEF LedgerOK
    <3>3. CASE x # r
      BY <1>1, <2>1, <3>1, <3>2, <3>3, AgreeFrame DEF TypeOK
    <3>4. CASE x = r
      <4>1. ~Linking(r)'
        BY <2>7 DEF Linking
      <4> QED
        BY <1>1, <1>7, <2>7, <3>1, <3>2, <3>4, <4>1 DEF AgreeOK
    <3> QED
      BY <3>3, <3>4
  <2> QED
    BY <1>8, <2>9, <2>10, <2>11
<1> QED
  BY <1>9, <1>10

LEMMA ReviewReportInv ==
  ASSUME IInv, NEW v \in Reviewers, NEW r \in Reports, NEW d \in Final, ReviewReport(v, r, d)
  PROVE  IInv'
<1> DEFINE todo == <<[report |-> r, row |-> rows[r]]>>
           entity == [rows[r] EXCEPT !.status = d]
           o == [at |-> "saving", todo |-> todo, entity |-> entity, next |-> "marking"]
<1> USE DEF IInv
<1>1. /\ op[v] = Idle /\ rows[r].status \in Open /\ op' = [op EXCEPT ![v] = o]
      /\ rows' = rows /\ items' = items /\ overdue' = overdue /\ rrCursor' = rrCursor
      /\ setbacks' = setbacks /\ disturbed' = disturbed
  BY DEF ReviewReport, Undecided
<1>2. v \in Processes /\ v \notin Reports /\ v \notin Sweeps
  BY ProcessAssumption DEF Processes
<1>3. rows[r] \in Rows /\ rows[r] # NoRow
  BY <1>1 DEF TypeOK, NoRow, Open
<1>4. entity \in Rows /\ todo \in Seq(Copies)
  BY <1>3 DEF Rows, Copies
<1> HIDE DEF entity
<1>5. o \in Saving
  BY <1>4 DEF Saving
<1>6. op'[v] = o /\ \A q \in Processes : q # v => op'[q] = op[q]
  BY <1>1, <1>2 DEF TypeOK
<1>7. /\ op'[v].at = "saving" /\ op'[v].todo = todo /\ op'[v].entity = entity
      /\ op'[v].next = "marking"
  BY <1>6
<1>8. /\ Len(op'[v].todo) = 1 /\ DOMAIN op'[v].todo = {1} /\ op'[v].todo[1].report = r
      /\ Known(v)' = rows[r]
  <2>1. Len(todo) = 1 /\ DOMAIN todo = {1} /\ todo[1] = [report |-> r, row |-> rows[r]]
    OBVIOUS
  <2>2. Head(todo) = [report |-> r, row |-> rows[r]]
    OBVIOUS
  <2> QED
    BY <1>7, <2>1, <2>2 DEF Known
<1>9. TypeOK'
  <2> HIDE DEF o
  <2> QED
    BY <1>1, <1>2, <1>5 DEF TypeOK
<1>10. OpsOK'
  <2>1. ReviewerOK(v)'
    <3>1. \E e \in Final : entity = [rows[r] EXCEPT !.status = e]
      BY DEF entity
    <3> QED
      BY <1>1, <1>7, <1>8, <3>1 DEF ReviewerOK
  <2>2. ProcessOK(v)'
    BY <1>1, <1>2, <1>3, <1>7, <1>8, <2>1 DEF ProcessOK
  <2> HIDE DEF o
  <2> QED
    BY <1>1, <1>2, <2>2, OpsFrame
<1>11. UnsubmittedOK'
  BY <1>1, <1>2 DEF UnsubmittedOK, TypeOK, Processes
<1>12. LedgerOK'
  <2> SUFFICES ASSUME NEW x \in Reports, rows[x] # NoRow, x \notin disturbed
               PROVE  AgreeOK(x)'
    BY <1>1 DEF LedgerOK
  <2>1. \A w \in Reviewers : Marking(w, x)' <=> Marking(w, x)
    BY <1>1, <1>6, <1>7 DEF Marking, Report, Idle, Processes
  <2>2. op'[x] = op[x]
    BY <1>2, <1>6 DEF Processes
  <2> QED
    BY <1>1, <2>1, <2>2, AgreeFrame DEF LedgerOK
<1> QED
  BY <1>9, <1>10, <1>11, <1>12

LEMMA MarkReviewedInv ==
  ASSUME IInv, NEW v \in Reviewers, MarkReviewed(v)
  PROVE  IInv'
<1> USE DEF IInv
<1>1. /\ op[v].at = "marking" /\ op' = [op EXCEPT ![v] = Idle]
      /\ items' = [items EXCEPT ![Report(v)] = "reviewed"]
      /\ rows' = rows /\ overdue' = overdue /\ rrCursor' = rrCursor
      /\ setbacks' = setbacks /\ disturbed' = disturbed
  BY DEF MarkReviewed
<1>2. v \in Processes /\ v \notin Reports /\ v \notin Sweeps
  BY ProcessAssumption DEF Processes
<1>3. op'[v] = Idle /\ \A q \in Processes : q # v => op'[q] = op[q]
  BY <1>1, <1>2 DEF TypeOK
<1>4. Report(v) \in Reports /\ rows[Report(v)] \in Rows
  BY <1>1, <1>2, HeadTyped DEF OpsOK
<1>5. TypeOK'
  BY <1>1, <1>2 DEF TypeOK
<1>6. OpsOK'
  BY <1>1, <1>2, <1>3, IdleOK, OpsFrame
<1>7. UnsubmittedOK'
  <2>1. rows[Report(v)] # NoRow
    BY <1>4 DEF Rows, NoRow, Open, Final
  <2> QED
    BY <1>1, <1>2, <1>3, <2>1 DEF UnsubmittedOK, TypeOK, Processes
<1>8. LedgerOK'
  <2> SUFFICES ASSUME NEW x \in Reports, rows[x] # NoRow, x \notin disturbed
               PROVE  AgreeOK(x)'
    BY <1>1 DEF LedgerOK
  <2>1. AgreeOK(x) /\ op'[x] = op[x]
    BY <1>2, <1>3 DEF LedgerOK, Processes
  <2>2. ~Marking(v, x)' /\ \A w \in Reviewers : w # v => (Marking(w, x)' <=> Marking(w, x))
    BY <1>3 DEF Marking, Report, Idle, Processes
  <2>3. CASE x # Report(v)
    <3>1. ~Marking(v, x)
      BY <2>3 DEF Marking
    <3>2. items'[x] = items[x]
      BY <1>1, <2>3 DEF TypeOK
    <3> QED
      BY <1>1, <2>1, <2>2, <3>1, <3>2, AgreeFrame
  <2>4. CASE x = Report(v)
    <3>1. Marking(v, x)
      BY <1>1, <2>4 DEF Marking
    <3>2. items'[x] = "reviewed"
      BY <1>1, <2>4 DEF TypeOK
    <3>3. Linking(x)' <=> Linking(x)
      BY <2>1 DEF Linking
    <3> QED
      BY <1>1, <2>1, <2>2, <3>1, <3>2, <3>3 DEF AgreeOK
  <2> QED
    BY <2>3, <2>4
<1> QED
  BY <1>5, <1>6, <1>7, <1>8

LEMMA AgeInv ==
  ASSUME IInv, NEW r \in Reports, Age(r)
  PROVE  IInv'
<1> USE DEF IInv, Age
<1>1. TypeOK'
  BY DEF TypeOK
<1>2. OpsOK'
  <2> SUFFICES ASSUME NEW p \in Processes
               PROVE  ProcessOK(p)'
    BY DEF OpsOK
  <2>1. op' = op /\ rows' = rows /\ ProcessOK(p)
    BY DEF OpsOK
  <2>2. SubmitterOK(p) => SubmitterOK(p)'
    BY <2>1, ZenonT(30) DEF SubmitterOK, Report, Known
  <2>3. ReviewerOK(p) => ReviewerOK(p)'
    BY <2>1 DEF ReviewerOK, Known
  <2>4. SweepOK(p) => SweepOK(p)'
    BY <2>1 DEF SweepOK, Known
  <2> QED
    BY <2>1, <2>2, <2>3, <2>4 DEF ProcessOK
<1>3. UnsubmittedOK' /\ LedgerOK'
  BY DEF UnsubmittedOK, LedgerOK, AgreeOK, Marking, Linking, Report
<1> QED
  BY <1>1, <1>2, <1>3

LEMMA FailInv ==
  ASSUME IInv, NEW p \in Processes, Fail(p)
  PROVE  IInv'
<1> USE DEF IInv
<1>1. /\ op[p] # Idle /\ setbacks < MaxSetbacks /\ setbacks' = setbacks + 1
      /\ op' = [op EXCEPT ![p] = Idle] /\ disturbed' = disturbed \cup {Report(p)}
      /\ rows' = rows /\ items' = items /\ overdue' = overdue /\ rrCursor' = rrCursor
  BY DEF Fail
<1>2. op'[p] = Idle /\ \A q \in Processes : q # p => op'[q] = op[q]
  BY <1>1 DEF TypeOK
<1>3. ProcessOK(p) /\ op[p].at # "idle"
  BY <1>1, OpTyped DEF OpsOK
<1>4. Report(p) \in Reports
  BY <1>3, HeadTyped
<1>5. TypeOK'
  BY <1>1, <1>4, BoundAssumption DEF TypeOK
<1>6. OpsOK'
  BY <1>1, <1>2, IdleOK, OpsFrame
<1>7. UnsubmittedOK'
  BY <1>1, <1>2 DEF UnsubmittedOK, Processes, Idle
<1>8. LedgerOK'
  <2> SUFFICES ASSUME NEW x \in Reports, rows[x] # NoRow, x \notin disturbed, x # Report(p)
               PROVE  AgreeOK(x)'
    BY <1>1 DEF LedgerOK
  <2>1. x # p
    <3>1. p \in Reports => SubmitterOK(p)
      BY <1>3 DEF ProcessOK
    <3>2. p \in Reports => Report(p) = p
      BY <1>3, <3>1, Zenon DEF SubmitterOK
    <3> QED
      BY <3>2
  <2>2. AgreeOK(x) /\ op'[x] = op[x]
    BY <1>2, <2>1 DEF LedgerOK, Processes
  <2>3. \A w \in Reviewers : Marking(w, x)' <=> Marking(w, x)
    BY <1>2 DEF Marking, Report, Idle, Processes
  <2> QED
    BY <1>1, <2>2, <2>3, AgreeFrame
<1> QED
  BY <1>5, <1>6, <1>7, <1>8

LEMMA SweepInv ==
  ASSUME IInv, NEW s \in Sweeps, Sweep(s)
  PROVE  IInv'
<1> USE DEF IInv
<1>1. PICK found \in SetToSeqs(OverdueReports) :
        op' = [op EXCEPT ![s] = [at |-> "choosing",
                todo |-> [n \in DOMAIN found |-> [report |-> found[n], row |-> rows[found[n]]]]]]
  BY DEF Sweep
<1> DEFINE todo == [n \in DOMAIN found |-> [report |-> found[n], row |-> rows[found[n]]]]
           o == [at |-> "choosing", todo |-> todo]
<1>2. /\ op[s] = Idle /\ OverdueReports # {} /\ op' = [op EXCEPT ![s] = o]
      /\ rows' = rows /\ items' = items /\ overdue' = overdue /\ rrCursor' = rrCursor
      /\ setbacks' = setbacks /\ disturbed' = disturbed
  BY <1>1 DEF Sweep
<1>3. s \in Processes /\ s \notin Reports /\ s \notin Reviewers
  BY ProcessAssumption DEF Processes
<1>4. /\ IsFiniteSet(OverdueReports) /\ OverdueReports \in SUBSET Reports
      /\ \A r \in OverdueReports : rows[r] \in Rows /\ rows[r] # NoRow
  <2>1. OverdueReports \in SUBSET Reports
    BY DEF TypeOK, OverdueReports
  <2>2. \A r \in OverdueReports : rows[r] \in Rows /\ rows[r] # NoRow
    BY <2>1 DEF TypeOK, OverdueReports, NoRow, Open
  <2> QED
    BY <2>1, <2>2, FS_Subset, ProcessAssumption
<1>5. Cardinality(OverdueReports) \in Nat /\ Cardinality(OverdueReports) > 0
  BY <1>2, <1>4, FS_CardinalityType, FS_EmptySet
<1>6. /\ DOMAIN found = 1..Cardinality(OverdueReports)
      /\ \A n \in DOMAIN found : found[n] \in OverdueReports
  BY DEF SetToSeqs
<1>7. \A n \in DOMAIN found : [report |-> found[n], row |-> rows[found[n]]] \in Copies
  BY <1>4, <1>6 DEF Copies
<1>8. todo \in Seq(Copies) /\ Len(todo) > 0 /\ DOMAIN todo = DOMAIN found
  BY <1>5, <1>6, <1>7
<1>9. \A n \in DOMAIN todo : rows[todo[n].report] # NoRow
  BY <1>4, <1>6, <1>8
<1> HIDE DEF todo
<1>10. o \in Engaged
  BY <1>8 DEF Engaged
<1>11. op'[s] = o /\ \A q \in Processes : q # s => op'[q] = op[q]
  BY <1>2, <1>3 DEF TypeOK
<1>12. op'[s].at = "choosing" /\ op'[s].todo = todo
  BY <1>11
<1> HIDE DEF o
<1>13. TypeOK'
  BY <1>2, <1>3, <1>10 DEF TypeOK
<1>14. OpsOK'
  <2>1. ProcessOK(s)'
    BY <1>2, <1>3, <1>8, <1>9, <1>12 DEF ProcessOK, SweepOK
  <2> QED
    BY <1>2, <1>3, <2>1, OpsFrame
<1>15. UnsubmittedOK'
  BY <1>2, <1>3, <1>11 DEF UnsubmittedOK, Processes
<1>16. LedgerOK'
  <2> SUFFICES ASSUME NEW x \in Reports, rows[x] # NoRow, x \notin disturbed
               PROVE  AgreeOK(x)'
    BY <1>2 DEF LedgerOK
  <2>1. AgreeOK(x) /\ op'[x] = op[x]
    BY <1>3, <1>11 DEF LedgerOK, Processes
  <2>2. \A w \in Reviewers : Marking(w, x)' <=> Marking(w, x)
    BY <1>3, <1>11 DEF Marking, Report, Processes
  <2> QED
    BY <1>2, <2>1, <2>2, AgreeFrame
<1> QED
  BY <1>13, <1>14, <1>15, <1>16

\* The rest of a sweep's list.
LEMMA RestOK ==
  ASSUME IInv, NEW s \in Sweeps, op[s].at # "idle"
  PROVE  /\ Rest(s) \in {Idle} \cup Engaged
         /\ Rest(s) = Idle \/ /\ Rest(s).at = "choosing"
                              /\ Len(Rest(s).todo) > 0
                              /\ \A n \in DOMAIN Rest(s).todo : rows[Rest(s).todo[n].report] # NoRow
<1> USE DEF IInv
<1>1. s \in Processes /\ ProcessOK(s)
  BY DEF OpsOK, Processes
<1>2. CASE Len(op[s].todo) = 1
  BY <1>2 DEF Rest
<1>3. CASE Len(op[s].todo) # 1
  <2>1. Rest(s) = [at |-> "choosing", todo |-> Tail(op[s].todo)]
    BY <1>3 DEF Rest
  <2>2. Len(op[s].todo) > 1
    <3>1. Len(op[s].todo) \in Nat /\ Len(op[s].todo) > 0
      BY <1>1, HeadTyped
    <3>2. \A l \in Nat : l > 0 /\ l # 1 => l > 1
      OBVIOUS
    <3> QED
      BY <1>3, <3>1, <3>2
  <2>3. Tail(op[s].todo) \in Seq(Copies) /\ Len(Tail(op[s].todo)) > 0
    BY <1>1, <2>2, HeadTyped
  <2>4. \A n \in DOMAIN Tail(op[s].todo) : /\ n + 1 \in DOMAIN op[s].todo
                                           /\ Tail(op[s].todo)[n] = op[s].todo[n + 1]
    BY <1>1, <2>2, HeadTyped
  <2>5. \A n \in DOMAIN Tail(op[s].todo) : rows[Tail(op[s].todo)[n].report] # NoRow
    BY <1>1, <2>4 DEF ProcessOK
  <2> QED
    BY <2>1, <2>3, <2>5 DEF Engaged
<1> QED
  BY <1>2, <1>3

LEMMA RestSafe ==
  ASSUME IInv, NEW s \in Sweeps, op[s].at # "idle", op'[s] = Rest(s),
         \A r \in Reports : rows[r] # NoRow => rows'[r] # NoRow
  PROVE  ProcessOK(s)'
<1> USE DEF IInv
<1>1. s \in Processes /\ s \notin Reports /\ s \notin Reviewers
  BY ProcessAssumption DEF Processes
<1>2. CASE Rest(s) = Idle
  BY <1>1, <1>2, IdleOK
<1>3. CASE Rest(s) # Idle
  <2>1. /\ op'[s] \in Engaged /\ op'[s].at = "choosing" /\ Len(op'[s].todo) > 0
        /\ \A n \in DOMAIN op'[s].todo : rows[op'[s].todo[n].report] # NoRow
    BY <1>3, RestOK
  <2>2. op'[s].todo \in Seq(Copies)
    BY <2>1 DEF Engaged
  <2>3. \A n \in DOMAIN op'[s].todo : op'[s].todo[n].report \in Reports
    <3> SUFFICES ASSUME NEW n \in DOMAIN op'[s].todo
                 PROVE  op'[s].todo[n].report \in Reports
      OBVIOUS
    <3>1. op'[s].todo[n] \in Copies
      BY <2>2
    <3> QED
      BY <3>1 DEF Copies
  <2>4. \A n \in DOMAIN op'[s].todo : rows'[op'[s].todo[n].report] # NoRow
    BY <2>1, <2>3
  <2> QED
    BY <1>1, <2>1, <2>4 DEF ProcessOK, SweepOK
<1> QED
  BY <1>2, <1>3

LEMMA EscalateReportInv ==
  ASSUME IInv, NEW s \in Sweeps, EscalateReport(s)
  PROVE  IInv'
<1> USE DEF IInv
<1>1. /\ op[s].at = "choosing" /\ rows' = rows /\ items' = items /\ overdue' = overdue
      /\ rrCursor' = rrCursor /\ disturbed' = disturbed
  BY DEF EscalateReport
<1>2. s \in Processes /\ s \notin Reports /\ s \notin Reviewers
  BY ProcessAssumption DEF Processes
<1>3. ProcessOK(s) /\ SweepOK(s)
  BY <1>2 DEF OpsOK, ProcessOK
<1>4. PICK admins \in AdminPools :
        IF admins = <<>>
        THEN /\ setbacks < MaxSetbacks
             /\ setbacks' = setbacks + 1
             /\ op' = [op EXCEPT ![s] = Rest(s)]
        ELSE /\ op' = [op EXCEPT ![s] = Changed(s, [Known(s) EXCEPT
                         !.assignee = SelectEscalationTarget(admins),
                         !.escalated = TRUE], "choosing")]
             /\ UNCHANGED setbacks
  BY DEF EscalateReport
<1>5. op[s].todo \in Seq(Copies) /\ Len(op[s].todo) > 0 /\ Known(s) \in Rows
  BY <1>1, <1>2, <1>3, HeadTyped
<1>6. /\ op'[s] \in {Idle} \cup Engaged \cup Saving
      /\ \A q \in Processes : q # s => op'[q] = op[q]
      /\ op' = [op EXCEPT ![s] = op'[s]]
      /\ setbacks' \in 0..MaxSetbacks
      /\ ProcessOK(s)'
      /\ op'[s].at # "marking"
  <2>1. CASE admins = <<>>
    <3>1. op' = [op EXCEPT ![s] = Rest(s)] /\ setbacks' \in 0..MaxSetbacks
      BY <1>4, <2>1, BoundAssumption DEF TypeOK
    <3>2. op'[s] = Rest(s) /\ \A q \in Processes : q # s => op'[q] = op[q]
      BY <1>2, <3>1 DEF TypeOK
    <3>3. ProcessOK(s)'
      BY <1>1, <3>2, RestSafe
    <3>4. Rest(s) \in {Idle} \cup Engaged /\ Rest(s).at # "marking"
      BY <1>1, RestOK DEF Idle
    <3> QED
      BY <3>1, <3>2, <3>3, <3>4
  <2>2. CASE admins # <<>>
    <3> DEFINE target == SelectEscalationTarget(admins)
               entity == [Known(s) EXCEPT !.assignee = target, !.escalated = TRUE]
               o == Changed(s, entity, "choosing")
    <3>1. op' = [op EXCEPT ![s] = o] /\ setbacks' = setbacks
      BY <1>4, <2>2
    <3>2. target \in Admins /\ target \in Users
      BY <2>2, TargetIsAdmin
    <3> HIDE DEF target
    <3>3. entity \in Rows
      BY <1>5, <3>2 DEF Rows
    <3>4. \E a \in Admins : entity = [Known(s) EXCEPT !.assignee = a, !.escalated = TRUE]
      BY <3>2
    <3> HIDE DEF entity
    <3>5. o \in Saving
      BY <1>5, <3>3 DEF Saving, Changed
    <3>6. op'[s] = o /\ \A q \in Processes : q # s => op'[q] = op[q]
      BY <1>2, <3>1 DEF TypeOK
    <3>7. /\ op'[s].at = "saving" /\ op'[s].todo = op[s].todo
          /\ op'[s].entity = entity /\ op'[s].next = "choosing"
      BY <3>6 DEF Changed
    <3>8. Known(s)' = Known(s)
      BY <3>7 DEF Known
    <3>9. SweepOK(s)'
      BY <1>5, <3>4, <3>7, <3>8 DEF SweepOK
    <3>10. ProcessOK(s)'
      BY <1>1, <1>2, <1>3, <3>7, <3>9 DEF ProcessOK
    <3> HIDE DEF o
    <3> QED
      BY <3>1, <3>5, <3>6, <3>7, <3>10 DEF TypeOK
  <2> QED
    BY <2>1, <2>2
<1>7. TypeOK'
  BY <1>1, <1>2, <1>6 DEF TypeOK
<1>8. OpsOK'
  BY <1>1, <1>2, <1>6, OpsFrame
<1>9. UnsubmittedOK'
  BY <1>1, <1>2, <1>6 DEF UnsubmittedOK, Processes
<1>10. LedgerOK'
  <2> SUFFICES ASSUME NEW x \in Reports, rows[x] # NoRow, x \notin disturbed
               PROVE  AgreeOK(x)'
    BY <1>1 DEF LedgerOK
  <2>1. AgreeOK(x) /\ op'[x] = op[x]
    BY <1>2, <1>6 DEF LedgerOK, Processes
  <2>2. \A w \in Reviewers : Marking(w, x)' <=> Marking(w, x)
    BY <1>2, <1>6 DEF Marking, Report, Processes
  <2> QED
    BY <1>1, <2>1, <2>2, AgreeFrame
<1> QED
  BY <1>7, <1>8, <1>9, <1>10

\* What a save is followed by.
LEMMA ProceedOK ==
  ASSUME IInv, NEW p \in Processes, op[p].at = "saving", op'[p] = Proceed(p),
         \A r \in Reports : rows[r] # NoRow => rows'[r] # NoRow
  PROVE  /\ Proceed(p) \in {Idle} \cup Engaged
         /\ ProcessOK(p)'
         /\ p \in Reports => /\ Proceed(p).at # "queueing" /\ Proceed(p).at # "saving"
                             /\ op[p].next = "assigning" => Proceed(p).at = "assigning"
         /\ p \in Reviewers => Proceed(p) = IF op[p].entity.linked
                                            THEN [at |-> "marking", todo |-> op[p].todo]
                                            ELSE Idle
<1> USE DEF IInv
<1>1. ProcessOK(p)
  BY DEF OpsOK
<1>2. /\ op[p].todo \in Seq(Copies) /\ op[p].entity \in Rows /\ Report(p) \in Reports
      /\ 1 \in DOMAIN op[p].todo /\ rows[Report(p)] # NoRow
      /\ Head(op[p].todo) = op[p].todo[1]
  BY <1>1, HeadTyped, EntityFields DEF Rows, NoRow, Open, Final
<1>3. CASE p \in Reports
  <2>1. p \notin Reviewers /\ p \notin Sweeps
    BY <1>3, ProcessAssumption
  <2>2. /\ Report(p) = p /\ Len(op[p].todo) = 1
        /\ op[p].entity.linked /\ ~op[p].entity.escalated
        /\ \/ /\ op[p].next = "assigning"
              /\ op[p].entity.status = "pending" /\ op[p].entity.assignee = NoOne
           \/ op[p].next = "ending"
    BY <1>1, <1>3, EntityFields
  <2>3. CASE op[p].next = "assigning"
    <3> DEFINE copy == [report |-> Report(p), row |-> op[p].entity]
               o == [at |-> "assigning", todo |-> <<copy>>]
    <3>1. Proceed(p) = o
      BY <2>3 DEF Proceed
    <3>2. copy \in Copies
      BY <1>2 DEF Copies
    <3>3. copy.report = p /\ copy.row = op[p].entity
      BY <2>2
    <3> HIDE DEF copy
    <3>4. o \in Engaged
      BY <3>2 DEF Engaged
    <3>5. op'[p].at = "assigning" /\ op'[p].todo = <<copy>>
      BY <3>1
    <3>6. /\ Len(op'[p].todo) = 1 /\ DOMAIN op'[p].todo = {1} /\ op'[p].todo[1] = copy
          /\ Head(op'[p].todo) = copy
      BY <3>5
    <3>7. Report(p)' = p /\ Known(p)' = op[p].entity
      BY <3>3, <3>6 DEF Report, Known
    <3>8. SubmitterOK(p)'
      BY <2>2, <2>3, <3>5, <3>6, <3>7 DEF SubmitterOK
    <3>9. rows'[p] # NoRow
      BY <1>2, <1>3, <2>2
    <3>10. ProcessOK(p)'
      BY <2>1, <3>3, <3>5, <3>6, <3>8, <3>9 DEF ProcessOK
    <3> QED
      BY <2>1, <3>1, <3>4, <3>10
  <2>4. CASE op[p].next = "ending"
    <3>1. Proceed(p) = Idle
      BY <2>2, <2>4 DEF Proceed, Rest
    <3> QED
      BY <2>1, <2>4, <3>1, IdleOK DEF Idle
  <2> QED
    BY <2>2, <2>3, <2>4
<1>4. CASE p \in Reviewers
  <2>1. p \notin Reports /\ p \notin Sweeps
    BY <1>4, ProcessAssumption
  <2>2. Len(op[p].todo) = 1 /\ op[p].next = "marking" /\ op[p].entity.linked \in BOOLEAN
    BY <1>1, <1>2, <1>4, EntityFields DEF Rows
  <2>3. CASE op[p].entity.linked
    <3> DEFINE o == [at |-> "marking", todo |-> op[p].todo]
    <3>1. Proceed(p) = o
      BY <2>2, <2>3 DEF Proceed
    <3>2. o \in Engaged
      BY <1>2 DEF Engaged
    <3>3. op'[p].at = "marking" /\ op'[p].todo = op[p].todo
      BY <3>1
    <3>4. ReviewerOK(p)'
      BY <2>2, <3>3 DEF ReviewerOK
    <3>5. DOMAIN op[p].todo = {1} /\ op[p].todo[1].report = Report(p)
      BY <1>2, <2>2 DEF Report
    <3>6. rows'[Report(p)] # NoRow
      BY <1>2
    <3>7. ProcessOK(p)'
      BY <2>1, <3>3, <3>4, <3>5, <3>6 DEF ProcessOK
    <3> QED
      BY <2>1, <2>3, <3>1, <3>2, <3>7
  <2>4. CASE ~op[p].entity.linked
    <3>1. Proceed(p) = Idle
      BY <2>2, <2>4 DEF Proceed
    <3> QED
      BY <2>1, <2>4, <3>1, IdleOK
  <2> QED
    BY <2>2, <2>3, <2>4
<1>5. CASE p \in Sweeps
  <2>1. p \notin Reports /\ p \notin Reviewers
    BY <1>5, ProcessAssumption
  <2>2. op[p].next = "choosing"
    BY <1>1, <1>5, EntityFields
  <2>3. Proceed(p) = Rest(p)
    BY <2>2 DEF Proceed
  <2>4. Rest(p) \in {Idle} \cup Engaged
    BY <1>5, RestOK
  <2>5. ProcessOK(p)'
    BY <1>5, <2>3, RestSafe
  <2> QED
    BY <2>1, <2>3, <2>4, <2>5
<1> QED
  BY <1>3, <1>4, <1>5 DEF Processes

LEMMA SaveInv ==
  ASSUME IInv, NEW p \in Processes, Save(p)
  PROVE  IInv'
<1> USE DEF IInv
<1> DEFINE r == Report(p)
<1>1. /\ op[p].at = "saving" /\ rows' = [rows EXCEPT ![r] = op[p].entity]
      /\ op' = [op EXCEPT ![p] = Proceed(p)]
      /\ disturbed' = disturbed \cup (IF Current(p) THEN {} ELSE {r})
      /\ items' = items /\ overdue' = overdue /\ rrCursor' = rrCursor /\ setbacks' = setbacks
  BY DEF Save
<1>2. ProcessOK(p)
  BY DEF OpsOK
<1>3. r \in Reports /\ rows[r] \in Rows /\ Known(p) \in Rows /\ op[p].entity \in Rows
  BY <1>1, <1>2, HeadTyped, EntityFields
<1>4. op[p].entity # NoRow /\ rows[r] # NoRow
  BY <1>3 DEF Rows, NoRow, Open, Final
<1>5. op'[p] = Proceed(p) /\ \A q \in Processes : q # p => op'[q] = op[q]
  BY <1>1 DEF TypeOK
<1>6. rows'[r] = op[p].entity /\ \A x \in Reports : x # r => rows'[x] = rows[x]
  BY <1>1, <1>3 DEF TypeOK
<1>7. \A x \in Reports : rows[x] # NoRow => rows'[x] # NoRow
  BY <1>4, <1>6
<1>8. /\ Proceed(p) \in {Idle} \cup Engaged
      /\ ProcessOK(p)'
      /\ p \in Reports => /\ Proceed(p).at # "queueing" /\ Proceed(p).at # "saving"
                          /\ op[p].next = "assigning" => Proceed(p).at = "assigning"
      /\ p \in Reviewers => Proceed(p) = IF op[p].entity.linked
                                         THEN [at |-> "marking", todo |-> op[p].todo]
                                         ELSE Idle
  BY <1>1, <1>5, <1>7, ProceedOK
<1> HIDE DEF r
<1>9. TypeOK'
  <2>1. disturbed' \subseteq Reports
    BY <1>1, <1>3 DEF TypeOK
  <2>2. rows' \in [Reports -> Rows \cup {NoRow}]
    BY <1>1, <1>3 DEF TypeOK
  <2>3. op' \in [Processes -> {Idle} \cup Engaged \cup Saving]
    BY <1>1, <1>8 DEF TypeOK
  <2> QED
    BY <1>1, <2>1, <2>2, <2>3 DEF TypeOK
<1>10. OpsOK'
  BY <1>1, <1>7, <1>8, OpsFrame
<1>11. p \in Reports => p = r
  BY <1>1, <1>2, EntityFields DEF r
<1>12. UnsubmittedOK'
  <2> SUFFICES ASSUME NEW x \in Reports, rows'[x] = NoRow
               PROVE  op'[x].at = "idle" /\ items'[x] = "none"
    BY DEF UnsubmittedOK
  <2>1. x # r /\ rows[x] = NoRow
    BY <1>4, <1>6
  <2> QED
    BY <1>1, <1>5, <1>11, <2>1 DEF UnsubmittedOK, Processes
<1>13. LedgerOK'
  <2> SUFFICES ASSUME NEW x \in Reports, rows'[x] # NoRow, x \notin disturbed'
               PROVE  AgreeOK(x)'
    BY DEF LedgerOK
  <2>1. x \notin disturbed /\ (x = r => Current(p))
    BY <1>1
  <2>2. \A w \in Reviewers : w # p => (Marking(w, x)' <=> Marking(w, x))
    BY <1>5 DEF Marking, Report, Processes
  <2>3. p \in Reviewers => /\ ~Marking(p, x)
                           /\ Marking(p, x)' <=> op[p].entity.linked /\ x = r
    <3> SUFFICES ASSUME p \in Reviewers
                 PROVE  /\ ~Marking(p, x)
                        /\ Marking(p, x)' <=> op[p].entity.linked /\ x = r
      OBVIOUS
    <3>1. ~Marking(p, x)
      BY <1>1 DEF Marking
    <3>2. CASE op[p].entity.linked
      <4>1. op'[p].at = "marking" /\ op'[p].todo = op[p].todo
        BY <1>5, <1>8, <3>2
      <4>2. Report(p)' = r
        BY <4>1 DEF Report, r
      <4> QED
        BY <3>1, <3>2, <4>1, <4>2 DEF Marking
    <3>3. CASE ~op[p].entity.linked
      BY <1>5, <1>8, <3>1, <3>3 DEF Marking, Idle
    <3> QED
      BY <3>2, <3>3
  <2>4. CASE x # r
    <3>1. AgreeOK(x) /\ op'[x] = op[x] /\ rows'[x] = rows[x]
      BY <1>5, <1>6, <1>11, <2>1, <2>4 DEF LedgerOK, Processes
    <3>2. \A w \in Reviewers : Marking(w, x)' <=> Marking(w, x)
      BY <2>2, <2>3, <2>4
    <3> QED
      BY <1>1, <3>1, <3>2, AgreeFrame
  <2>5. CASE x = r
    <3>1. rows[x] = Known(p) /\ AgreeOK(x)
      BY <1>4, <2>1, <2>5 DEF Current, LedgerOK, r
    <3>2. rows'[x] = op[p].entity /\ rows[x] \in Rows /\ rows'[x] \in Rows
      BY <1>3, <1>6, <2>5
    <3>3. Users \cap {NoOne} = {}
      BY PoolAssumption
    <3>4. CASE p \in Reports
      <4>1. /\ rows[x].status = "pending" /\ rows'[x].linked
            /\ \/ /\ op[p].next = "assigning" /\ ~rows[x].linked /\ rows'[x].status = "pending"
               \/ /\ op[p].next = "ending"
                  /\ rows'[x].status = "under_review" /\ rows'[x].assignee \in Users
        BY <1>1, <1>2, <3>1, <3>2, <3>4, EntityFields
      <4>2. op'[x] = Proceed(p) /\ p \notin Reviewers
        BY <1>5, <1>11, <2>5, <3>4, ProcessAssumption
      <4>3. ~Linking(x)'
        BY <1>8, <3>4, <4>2 DEF Linking
      <4>4. op'[x].at = "idle" => rows'[x].assignee # NoOne
        BY <1>8, <3>3, <3>4, <4>1, <4>2
      <4>5. rows[x].status \notin Final /\ rows'[x].status \notin Final
        BY <4>1 DEF Final
      <4>6. items[x] # "reviewed" /\ \A w \in Reviewers : ~Marking(w, x)
        BY <3>1, <4>5 DEF AgreeOK
      <4>7. \A w \in Reviewers : ~Marking(w, x)'
        BY <2>2, <4>2, <4>6
      <4> QED
        BY <1>1, <4>1, <4>3, <4>4, <4>5, <4>6, <4>7 DEF AgreeOK
    <3>5. CASE p \in Reviewers
      <4>1. /\ rows[x].status \in Open /\ rows'[x].status \in Final
            /\ rows'[x].linked = rows[x].linked /\ rows'[x].assignee = rows[x].assignee
        BY <1>1, <1>2, <3>1, <3>2, <3>5, EntityFields
      <4>2. op'[x] = op[x]
        BY <1>5, <3>5, ProcessAssumption DEF Processes
      <4>3. Linking(x)' <=> Linking(x)
        BY <4>2 DEF Linking
      <4>4. rows[x].status \notin Final
        BY <4>1 DEF Open, Final
      <4>5. items[x] # "reviewed" /\ \A w \in Reviewers : ~Marking(w, x)
        BY <3>1, <4>4 DEF AgreeOK
      <4>6. Marking(p, x)' <=> rows'[x].linked
        BY <2>3, <2>5, <3>2, <3>5
      <4>7. \A w \in Reviewers : w # p => ~Marking(w, x)'
        BY <2>2, <4>5
      <4> QED
        BY <1>1, <3>1, <3>5, <4>1, <4>2, <4>3, <4>5, <4>6, <4>7 DEF AgreeOK
    <3>6. CASE p \in Sweeps
      <4>1. /\ rows'[x].status = rows[x].status /\ rows'[x].linked = rows[x].linked
            /\ rows'[x].assignee \in Admins
        BY <1>1, <1>2, <3>1, <3>2, <3>6, EntityFields
      <4>2. op'[x] = op[x] /\ p \notin Reviewers
        BY <1>5, <3>6, ProcessAssumption DEF Processes
      <4>3. Linking(x)' <=> Linking(x)
        BY <4>2 DEF Linking
      <4>4. \A w \in Reviewers : Marking(w, x)' <=> Marking(w, x)
        BY <2>2, <4>2
      <4>5. rows'[x].assignee # NoOne
        BY <3>3, <4>1 DEF Users, Admins
      <4> QED
        BY <1>1, <3>1, <4>1, <4>2, <4>3, <4>4, <4>5 DEF AgreeOK
    <3> QED
      BY <3>4, <3>5, <3>6 DEF Processes
  <2> QED
    BY <2>4, <2>5
<1> QED
  BY <1>9, <1>10, <1>12, <1>13

LEMMA StepInv == IInv /\ [Next]_vars => IInv'
<1> SUFFICES ASSUME IInv, [Next]_vars
             PROVE  IInv'
  OBVIOUS
<1>1. CASE \E r \in Reports : Submit(r) \/ Age(r)
  BY <1>1, SubmitInv, AgeInv
<1>2. CASE \E v \in Reviewers, r \in Reports, d \in Final : ReviewReport(v, r, d)
  BY <1>2, ReviewReportInv
<1>3. CASE \E s \in Sweeps : Sweep(s)
  BY <1>3, SweepInv
<1>4. CASE \E p \in Processes : Continue(p) \/ Fail(p)
  BY <1>4, EnqueueInv, AssignReportInv, MarkReviewedInv, EscalateReportInv, SaveInv, FailInv
     DEF Continue
<1>5. CASE UNCHANGED vars
  <2>1. TypeOK'
    BY <1>5 DEF IInv, TypeOK, vars
  <2>2. OpsOK'
    <3> SUFFICES ASSUME NEW p \in Processes
                 PROVE  ProcessOK(p)'
      BY DEF OpsOK
    <3>1. op' = op /\ rows' = rows /\ ProcessOK(p)
      BY <1>5 DEF vars, IInv, OpsOK
    <3>2. /\ SubmitterOK(p) => SubmitterOK(p)'
          /\ ReviewerOK(p) => ReviewerOK(p)'
          /\ SweepOK(p) => SweepOK(p)'
      BY <3>1 DEF SubmitterOK, ReviewerOK, SweepOK, Report, Known
    <3> QED
      BY <3>1, <3>2 DEF ProcessOK
  <2>3. UnsubmittedOK' /\ LedgerOK'
    BY <1>5 DEF vars, IInv, UnsubmittedOK, LedgerOK, AgreeOK, Marking, Linking, Report
  <2> QED
    BY <2>1, <2>2, <2>3 DEF IInv
<1> QED
  BY <1>1, <1>2, <1>3, <1>4, <1>5 DEF Next

-----------------------------------------------------------------------------
\* IInv is what every step of the service keeps: types, what each request or run
\* knows, and the agreement of a report with its item.
THEOREM Invariance == Spec => []IInv
  BY InitInv, StepInv, PTL DEF Spec

\* Whatever requests and sweeps interleave, the variables keep their types: rows
\* are complete, a sweep's list holds reports with the row it read.
THEOREM TypeTheorem == Spec => []TypeOK
<1>1. IInv => TypeOK
  BY DEF IInv
<1> QED
  BY <1>1, Invariance, PTL

\* For any number of reports, reviewers and runs of the job: of a report at rest
\* on which nothing failed and no save was overtaken, the item in the queue says
\* what the row says.
THEOREM ItemTheorem == Spec => []ItemFollowsReport
<1>1. IInv => ItemFollowsReport
  <2> SUFFICES ASSUME IInv, NEW r \in Reports, rows[r] # NoRow, AtRest(r), r \notin disturbed
               PROVE  /\ items[r] = "reviewed" <=> rows[r].status \in Final
                      /\ rows[r].linked
                      /\ rows[r].assignee = NoOne => <<>> \in ModeratorPools
    BY DEF ItemFollowsReport
  <2> USE DEF IInv
  <2>1. AgreeOK(r)
    BY DEF LedgerOK
  <2>2. \A p \in Processes : op[p].at # "idle" => Report(p) # r
    <3> SUFFICES ASSUME NEW p \in Processes, op[p].at # "idle", Report(p) = r
                 PROVE  FALSE
      OBVIOUS
    <3>1. Head(op[p].todo) = op[p].todo[1] /\ 1 \in DOMAIN op[p].todo
      BY HeadTyped DEF OpsOK
    <3>2. op[p] # Idle
      BY DEF Idle
    <3> QED
      BY <3>1, <3>2 DEF AtRest, Report
  <2>3. r \in Processes /\ Reviewers \subseteq Processes
    BY DEF Processes
  <2>4. op[r].at = "idle"
    <3>1. SubmitterOK(r)
      BY <2>3 DEF OpsOK, ProcessOK
    <3>2. op[r].at # "idle" => Report(r) = r
      BY <3>1, Zenon DEF SubmitterOK
    <3> QED
      BY <2>2, <2>3, <3>2
  <2>5. ~Linking(r)
    BY <2>4 DEF Linking
  <2>6. \A v \in Reviewers : ~Marking(v, r)
    BY <2>2, <2>3 DEF Marking
  <2> QED
    BY <2>1, <2>4, <2>5, <2>6 DEF AgreeOK
<1> QED
  BY <1>1, Invariance, PTL

\* Only a save that goes back to an overtaken reading takes back a decision, an
\* escalation or a link.
THEOREM UndoTheorem == Spec => OnlyOvertakenSavesUndo
<1> DEFINE Kept == \A r \in Reports : rows[r] # NoRow /\ Undone(rows[r], rows'[r]) =>
                     \E p \in Processes : op[p].at = "saving" /\ Report(p) = r /\ ~Current(p)
<1>1. IInv /\ [Next]_vars => [Kept]_vars
  <2> SUFFICES ASSUME IInv, Next, NEW r \in Reports, rows[r] # NoRow, Undone(rows[r], rows'[r])
               PROVE  \E p \in Processes : op[p].at = "saving" /\ Report(p) = r /\ ~Current(p)
    OBVIOUS
  <2> USE DEF IInv
  <2>1. rows'[r] # rows[r]
    BY DEF Undone
  <2>2. PICK p \in Processes : Save(p)
    <3>1. ASSUME NEW x \in Reports
          PROVE  ~Submit(x)
      <4>1. Submit(x) => x # r /\ rows'[r] = rows[r]
        BY DEF Submit, TypeOK
      <4> QED
        BY <2>1, <4>1
    <3> QED
      BY <2>1, <3>1 DEF Next, Continue, Age, ReviewReport, Sweep, Enqueue, AssignReport,
                        MarkReviewed, EscalateReport, Fail
  <2>3. op[p].at = "saving" /\ ProcessOK(p) /\ rows' = [rows EXCEPT ![Report(p)] = op[p].entity]
    BY <2>2 DEF Save, OpsOK
  <2>4. Report(p) = r /\ rows'[r] = op[p].entity
    BY <2>1, <2>3 DEF TypeOK
  <2>5. ~Current(p)
    <3> SUFFICES ASSUME rows[r] = Known(p)
                 PROVE  FALSE
      BY <2>4 DEF Current
    <3>1. CASE p \in Reports
      BY <2>3, <2>4, <3>1, EntityFields DEF Undone, Final
    <3>2. CASE p \in Reviewers
      BY <2>3, <2>4, <3>2, EntityFields DEF Undone, Open, Final
    <3>3. CASE p \in Sweeps
      BY <2>3, <2>4, <3>3, EntityFields DEF Undone
    <3> QED
      BY <3>1, <3>2, <3>3 DEF Processes
  <2> QED
    BY <2>3, <2>4, <2>5
<1> QED
  BY <1>1, Invariance, PTL DEF Spec, OnlyOvertakenSavesUndo
=============================================================================
