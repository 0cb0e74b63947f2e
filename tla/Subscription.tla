---------------------------- MODULE Subscription ----------------------------
(***************************************************************************)
(* SubscriptionsService and the resume job of SubscriptionJobProcessor, on *)
(* one subscription.  Every operation reads the row, checks its status,    *)
(* may call the payment provider, changes its copy, the entity, and saves  *)
(* it.  A worker is one such operation at a time, in some process.         *)
(*                                                                         *)
(* TypeORM's save compares the entity with the row and updates every       *)
(* column that differs: a stale entity puts all its columns back.  It      *)
(* increments the version column and never compares it.                    *)
(***************************************************************************)
EXTENDS Integers, Sequences

CONSTANTS Workers,
          Plans,          \* plans, each named by its amount
          InitialPlan,
          MaxRetries,     \* maxRetries of processRenewal
          MayFail,        \* whether saves may fail and processes die
          MayLose,        \* whether an answer of the provider may get lost
          MaxVersion,     \* bound: no operation starts at a later version
          MaxPayments     \* bound: no charge or credit after so many

ASSUME PlanAssumption == Plans \subseteq Nat \ {0} /\ InitialPlan \in Plans
ASSUME RetryAssumption == MaxRetries \in Nat \ {0}
ASSUME MayAssumption == MayFail \in BOOLEAN /\ MayLose \in BOOLEAN
ASSUME BoundAssumption == MaxVersion \in Nat /\ MaxPayments \in Nat

VARIABLES row,        \* the row of the subscriptions table
          op,         \* where each worker is in its operation
          payments,   \* provider: what was charged and credited, in order
          recorded    \* the payments whose id some save has put in the row

vars == <<row, op, payments, recorded>>

\* The statuses these operations set; from unpaid, trialing and incomplete, which
\* others set, only CancelSubscription leads on, as from past_due.
Statuses == {"active", "paused", "past_due", "cancelled"}

\* plan stands for amount, pending for properties.pendingDowngrade (0: none),
\* renewals for properties.renewalAttempts and the period that goes with it.
Rows == [status : Statuses, plan : Plans, pending : Plans \cup {0},
         renewals : Nat, version : Nat]

\* entity: the worker's copy; target: the plan asked for; payment: the index
\* in payments it got an id for (0: none); attempt: of the renewal.
Operations == [at : {"idle", "charging", "crediting", "resuming", "renewing", "saving"},
               entity : Rows, target : Plans, payment : Nat, attempt : Nat]

Payments == [kind : {"charge", "credit"}, to : Plans]

InitialRow == [status |-> "active", plan |-> InitialPlan, pending |-> 0,
               renewals |-> 0, version |-> 1]

Idle == [at |-> "idle", entity |-> InitialRow, target |-> InitialPlan,
         payment |-> 0, attempt |-> 0]

TypeOK == /\ row \in Rows
          /\ op \in [Workers -> Operations]
          /\ payments \in Seq(Payments)
          /\ recorded \in SUBSET Nat

Init == /\ row = InitialRow
        /\ op = [w \in Workers |-> Idle]
        /\ payments = <<>>
        /\ recorded = {}

-----------------------------------------------------------------------------
\* An operation reads the row and goes on, at phase, with its changed copy.
Begin(w, phase, entity) ==
  /\ op[w].at = "idle"
  /\ row.version < MaxVersion
  /\ op' = [op EXCEPT ![w] = [Idle EXCEPT !.at = phase, !.entity = entity]]
  /\ UNCHANGED <<row, payments, recorded>>

\* One with a provider call for a change to the plan target.
BeginPayment(w, phase, target) ==
  /\ op[w].at = "idle"
  /\ row.version < MaxVersion
  /\ Len(payments) < MaxPayments
  /\ op' = [op EXCEPT ![w] = [Idle EXCEPT !.at = phase, !.entity = row, !.target = target]]
  /\ UNCHANGED <<row, payments, recorded>>

PauseSubscription(w) ==
  /\ row.status = "active"
  /\ Begin(w, "saving", [row EXCEPT !.status = "paused"])

\* A mutant: resume whatever the status is.
ResumeUnchecked(w) ==
  Begin(w, "saving", [row EXCEPT !.status = "active"])

ResumeSubscription(w) ==
  /\ row.status = "paused"
  /\ Begin(w, "saving", [row EXCEPT !.status = "active"])

CancelSubscription(w) ==
  /\ row.status # "cancelled"
  /\ Begin(w, "saving", [row EXCEPT !.status = "cancelled"])

UpgradeSubscription(w, target) ==
  /\ row.status = "active"
  /\ target > row.plan
  /\ BeginPayment(w, "charging", target)

\* prorationType credit, the default.
DowngradeSubscription(w, target) ==
  /\ row.status = "active"
  /\ target < row.plan
  /\ BeginPayment(w, "crediting", target)

\* prorationType none: only pendingDowngrade is set.
DeferDowngrade(w, target) ==
  /\ row.status = "active"
  /\ target < row.plan
  /\ Begin(w, "saving", [row EXCEPT !.pending = target])

\* handleResumeSubscription, the job: the provider comes first.
ResumeJob(w) ==
  /\ row.status = "paused"
  /\ Begin(w, "resuming", row)

ResumedAtProvider(w) ==
  /\ op[w].at = "resuming"
  /\ op' = [op EXCEPT ![w].at = "saving", ![w].entity.status = "active"]
  /\ UNCHANGED <<row, payments, recorded>>

\* The copy a renewal attempt saves; each attempt starts from the last one's.
Renewed(entity) == [entity EXCEPT !.status = "active", !.renewals = @ + 1]

ProcessRenewal(w) ==
  /\ row.status \in {"active", "past_due"}
  /\ op[w].at = "idle"
  /\ row.version < MaxVersion
  /\ op' = [op EXCEPT ![w] = [Idle EXCEPT !.at = "renewing", !.entity = Renewed(row),
                                          !.attempt = 1]]
  /\ UNCHANGED <<row, payments, recorded>>

-----------------------------------------------------------------------------
PaymentOf(w) == [kind |-> IF op[w].at = "charging" THEN "charge" ELSE "credit",
                 to   |-> op[w].target]

\* chargeCustomer or issueCredit answers: the plan change may be saved.
PaymentSucceeds(w) ==
  /\ op[w].at \in {"charging", "crediting"}
  /\ payments' = Append(payments, PaymentOf(w))
  /\ op' = [op EXCEPT ![w].at = "saving",
                      ![w].entity.plan = op[w].target,
                      ![w].payment = Len(payments) + 1]
  /\ UNCHANGED <<row, recorded>>

\* A mutant: a failed charge does not end the upgrade.
PaymentFailsUnnoticed(w) ==
  /\ op[w].at \in {"charging", "crediting"}
  /\ op' = [op EXCEPT ![w].at = "saving", ![w].entity.plan = op[w].target]
  /\ UNCHANGED <<row, payments, recorded>>

\* The provider refuses, or does it and the answer is lost: either way the call
\* throws, and the row stays as it is.
PaymentFails(w) ==
  /\ op[w].at \in {"charging", "crediting"}
  /\ payments' \in {payments} \cup (IF MayLose THEN {Append(payments, PaymentOf(w))} ELSE {})
  /\ op' = [op EXCEPT ![w] = Idle]
  /\ UNCHANGED <<row, recorded>>

ResumeFailsAtProvider(w) ==
  /\ op[w].at = "resuming"
  /\ op' = [op EXCEPT ![w] = Idle]
  /\ UNCHANGED <<row, payments, recorded>>

-----------------------------------------------------------------------------
\* save: the columns of the entity, and the next version.
Save(w) ==
  /\ op[w].at \in {"saving", "renewing"}
  /\ row' = [op[w].entity EXCEPT !.version = row.version + 1]
  /\ recorded' = IF op[w].payment = 0 THEN recorded ELSE recorded \cup {op[w].payment}
  /\ op' = [op EXCEPT ![w] = Idle]
  /\ UNCHANGED payments

\* save throws: the operation is over.
SaveFails(w) ==
  /\ MayFail
  /\ op[w].at = "saving"
  /\ op' = [op EXCEPT ![w] = Idle]
  /\ UNCHANGED <<row, payments, recorded>>

\* A mutant: after the last attempt the renewal starts over instead of giving up.
RenewalStartsOver(w) ==
  /\ MayFail
  /\ op[w].at = "renewing"
  /\ op' = [op EXCEPT ![w] =
              IF op[w].attempt < MaxRetries
              THEN [op[w] EXCEPT !.entity = Renewed(@), !.attempt = @ + 1]
              ELSE [op[w] EXCEPT !.entity = Renewed(row), !.attempt = 1]]
  /\ UNCHANGED <<row, payments, recorded>>

\* The save of a renewal attempt throws: try again, or save PAST_DUE.
RenewalFails(w) ==
  /\ MayFail
  /\ op[w].at = "renewing"
  /\ op' = [op EXCEPT ![w] =
              IF op[w].attempt < MaxRetries
              THEN [op[w] EXCEPT !.entity = Renewed(@), !.attempt = @ + 1]
              ELSE [op[w] EXCEPT !.entity.status = "past_due", !.at = "saving"]]
  /\ UNCHANGED <<row, payments, recorded>>

\* The process dies in the middle of an operation.
Die(w) ==
  /\ MayFail
  /\ op[w].at # "idle"
  /\ op' = [op EXCEPT ![w] = Idle]
  /\ UNCHANGED <<row, payments, recorded>>

Start(w) == \/ PauseSubscription(w) \/ ResumeSubscription(w) \/ CancelSubscription(w)
            \/ \E target \in Plans : \/ UpgradeSubscription(w, target)
                                     \/ DowngradeSubscription(w, target)
                                     \/ DeferDowngrade(w, target)
            \/ ResumeJob(w) \/ ProcessRenewal(w)

Continue(w) == \/ PaymentSucceeds(w) \/ PaymentFails(w)
               \/ ResumedAtProvider(w) \/ ResumeFailsAtProvider(w)
               \/ Save(w) \/ SaveFails(w) \/ RenewalFails(w)

Next == \E w \in Workers : Start(w) \/ Continue(w) \/ Die(w)

Spec == Init /\ [][Next]_vars

\* The provider and the database answer, and the timers of the backoff fire.
FairSpec == Spec /\ \A w \in Workers : WF_vars(Continue(w))

-----------------------------------------------------------------------------
Backed(plan) == plan = InitialPlan \/ \E i \in DOMAIN payments : payments[i].to = plan

\* "Only persist the plan change after the payment succeeds": however
\* operations overwrite each other, the row names no plan that was never
\* paid for or credited.
PlanIsBacked == Backed(row.plan)

Legal == {<<"active", s>> : s \in Statuses}
           \cup {<<"paused", "active">>, <<"paused", "cancelled">>}
           \cup {<<"past_due", s>> : s \in {"active", "past_due", "cancelled"}}

\* What goes wrong goes wrong by a stale save.  A save of an entity read at
\* the row's version (the only ones a check of the version column would let
\* through) makes a legal change of status, never touches a cancelled row,
\* renews no paused one and changes the plan of an active one only.
FreshSavesAreLegal ==
  [][\A w \in Workers :
       op[w].at \in {"saving", "renewing"} /\ op[w].entity.version = row.version =>
         row' = row \/ op'[w].at # "idle"
           \/ /\ <<row.status, row'.status>> \in Legal
              /\ row'.renewals # row.renewals => row.status \in {"active", "past_due"}
              /\ row'.plan # row.plan => row.status = "active"]_vars

\* Whatever fails, a renewal gives up after its last attempt.
RenewalEnds == \A w \in Workers : op[w].at = "renewing" ~> op[w].at = "idle"

\* "Skip paused subscriptions - they should not be renewed".
PausedNotRenewed ==
  [][row.status = "paused" => row'.renewals = row.renewals]_vars

\* "the actual plan switch will be handled when the subscription renews".
DowngradeAppliesAtRenewal ==
  [][row.pending # 0 /\ row'.renewals > row.renewals => row'.plan = row.pending]_vars

\* "Record the provider chargeId / creditId on the subscription for
\* reconciliation": when nothing is under way, none went unrecorded.
PaymentsRecorded ==
  (\A w \in Workers : op[w].at = "idle") => DOMAIN payments \subseteq recorded
=============================================================================
