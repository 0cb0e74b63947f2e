-------------------------- MODULE SubscriptionProofs --------------------------
(***************************************************************************)
(* Theorems about Subscription, for any workers, plans, retries and        *)
(* bounds.                                                                 *)
(***************************************************************************)
EXTENDS Subscription, TLAPS

\* The plan in the row, and the one in any copy of it, is backed.
PlansAreBacked == /\ PlanIsBacked
                  /\ \A w \in Workers : Backed(op[w].entity.plan)

\* The plan is backed by the payments of the next state.
BackedNext(plan) ==
  plan = InitialPlan \/ \E i \in DOMAIN payments' : payments'[i].to = plan

\* What the save of the entity e may do to the row while the row is the one e
\* was read from.
Allowed(e) == /\ <<row.status, e.status>> \in Legal
              /\ e.renewals # row.renewals => row.status \in {"active", "past_due"}
              /\ e.plan # row.plan => row.status = "active"

\* No copy is newer than the row, and one as new still follows from the row as
\* its operation says.
CopyFollows(o) ==
  o.at # "idle" =>
    /\ o.entity.version <= row.version
    /\ o.entity.version = row.version =>
         /\ o.at \in {"charging", "crediting"} => o.entity = row /\ row.status = "active"
         /\ o.at = "resuming" => o.entity = row /\ row.status = "paused"
         /\ o.at = "renewing" => /\ row.status \in {"active", "past_due"}
                                 /\ o.entity.plan = row.plan
         /\ o.at \in {"saving", "renewing"} => Allowed(o.entity)

CopiesFollow == \A w \in Workers : CopyFollows(op[w])

IInv == TypeOK /\ PlansAreBacked /\ CopiesFollow

USE PlanAssumption, RetryAssumption, MayAssumption, BoundAssumption

LEMMA IdleOperation == Idle \in Operations
BY DEF Idle, Operations, InitialRow, Rows, Statuses

LEMMA InitInv == Init => IInv
BY IdleOperation
   DEF Init, IInv, TypeOK, InitialRow, Rows, Statuses, Payments, PlansAreBacked,
       PlanIsBacked, Backed, CopiesFollow, CopyFollows, Idle

\* A step that changes the operation of w alone, to o, and adds at most to the
\* payments, need only be checked on o.
LEMMA LocalStep ==
  ASSUME IInv, NEW w \in Workers, NEW o \in Operations,
         row' = row, op' = [op EXCEPT ![w] = o], recorded' = recorded,
         payments' \in Seq(Payments),
         \A plan \in Plans : Backed(plan) => Backed(plan)',
         BackedNext(o.entity.plan), CopyFollows(o)
  PROVE  IInv'
<1>1. TypeOK'
  BY DEF IInv, TypeOK
<1>2. \A v \in Workers : op'[v] = IF v = w THEN o ELSE op[v]
  BY DEF IInv, TypeOK
<1>3. PlansAreBacked'
  <2>1. ASSUME NEW v \in Workers PROVE Backed(op[v].entity.plan)'
    <3>1. op[v].entity.plan \in Plans
      BY DEF IInv, TypeOK, Operations, Rows
    <3>2. CASE v = w
      BY <3>2, <1>2 DEF Backed, BackedNext
    <3>3. CASE v # w
      <4> DEFINE plan == op[v].entity.plan
      <4>1. plan' = plan
        BY <3>3, <1>2
      <4>2. \A p \in Plans : Backed(p) => Backed(p)'
        OBVIOUS
      <4>3. Backed(plan)
        BY DEF IInv, PlansAreBacked
      <4> HIDE DEF plan
      <4>4. Backed(plan)'
        BY <3>1, <4>1, <4>2, <4>3 DEF plan, Backed
      <4> QED
        BY <4>4 DEF plan
    <3> QED
      BY <3>2, <3>3
  <2>2. Backed(row.plan)'
    BY DEF IInv, TypeOK, Rows, PlansAreBacked, PlanIsBacked, Backed
  <2> QED
    BY <2>1, <2>2 DEF PlansAreBacked, PlanIsBacked
<1>4. CopiesFollow'
  BY <1>2 DEF IInv, CopiesFollow, CopyFollows, Allowed
<1> QED
  BY <1>1, <1>3, <1>4 DEF IInv

\* What an operation starts with satisfies LocalStep's conditions when its copy
\* is the row but for a change the row allows.
LEMMA StartInv ==
  ASSUME IInv, NEW w \in Workers, Start(w)
  PROVE  IInv'
<1>0. row \in Rows /\ Backed(row.plan)
  BY DEF IInv, TypeOK, PlansAreBacked, PlanIsBacked
<1>1. SUFFICES ASSUME NEW o \in Operations,
                      op' = [op EXCEPT ![w] = o],
                      UNCHANGED <<row, payments, recorded>>,
                      o.entity.plan = row.plan,
                      CopyFollows(o)
               PROVE  IInv'
  <2> DEFINE Starting(o) == /\ op' = [op EXCEPT ![w] = o]
                            /\ UNCHANGED <<row, payments, recorded>>
                            /\ o.entity.plan = row.plan
                            /\ CopyFollows(o)
  <2> SUFFICES \E o \in Operations : Starting(o)
    BY <1>1
  <2> USE <1>0 DEF Idle, Operations, Rows, Statuses, InitialRow, CopyFollows, Allowed, Legal
  <2>1. ASSUME NEW e \in Rows, NEW phase \in {"saving", "resuming"}, Begin(w, phase, e),
               e.plan = row.plan, e.renewals = row.renewals, e.version = row.version,
               IF phase = "saving" THEN <<row.status, e.status>> \in Legal
                                   ELSE e = row /\ row.status = "paused"
        PROVE  \E o \in Operations : Starting(o)
    <3> DEFINE o == [Idle EXCEPT !.at = phase, !.entity = e]
    <3>1. o \in Operations
      OBVIOUS
    <3>2. CopyFollows(o)
      BY <2>1
    <3> QED
      BY <2>1, <3>1, <3>2 DEF Begin
  <2>2. ASSUME NEW target \in Plans, NEW phase \in {"charging", "crediting"},
               row.status = "active", BeginPayment(w, phase, target)
        PROVE  \E o \in Operations : Starting(o)
    <3> DEFINE o == [Idle EXCEPT !.at = phase, !.entity = row, !.target = target]
    <3>1. o \in Operations
      OBVIOUS
    <3>2. CopyFollows(o)
      BY <2>2
    <3> QED
      BY <2>2, <3>1, <3>2 DEF BeginPayment
  <2> HIDE DEF Starting
  <2>3. CASE PauseSubscription(w)
    <3> DEFINE e == [row EXCEPT !.status = "paused"]
    <3>1. /\ e \in Rows
          /\ e.plan = row.plan /\ e.renewals = row.renewals /\ e.version = row.version
          /\ <<row.status, e.status>> \in Legal
      BY <2>3 DEF PauseSubscription
    <3>2. Begin(w, "saving", e)
      BY <2>3 DEF PauseSubscription
    <3> HIDE DEF e
    <3> QED
      BY <3>1, <3>2, <2>1
  <2>4. CASE ResumeSubscription(w)
    <3> DEFINE e == [row EXCEPT !.status = "active"]
    <3>1. /\ e \in Rows
          /\ e.plan = row.plan /\ e.renewals = row.renewals /\ e.version = row.version
          /\ <<row.status, e.status>> \in Legal
      BY <2>4 DEF ResumeSubscription
    <3>2. Begin(w, "saving", e)
      BY <2>4 DEF ResumeSubscription
    <3> HIDE DEF e
    <3> QED
      BY <3>1, <3>2, <2>1
  <2>5. CASE CancelSubscription(w)
    <3> DEFINE e == [row EXCEPT !.status = "cancelled"]
    <3>1. /\ e \in Rows
          /\ e.plan = row.plan /\ e.renewals = row.renewals /\ e.version = row.version
          /\ <<row.status, e.status>> \in Legal
      BY <2>5 DEF CancelSubscription
    <3>2. Begin(w, "saving", e)
      BY <2>5 DEF CancelSubscription
    <3> HIDE DEF e
    <3> QED
      BY <3>1, <3>2, <2>1
  <2>6. ASSUME NEW target \in Plans,
               UpgradeSubscription(w, target) \/ DowngradeSubscription(w, target)
        PROVE  \E o \in Operations : Starting(o)
    BY <2>6, <2>2 DEF UpgradeSubscription, DowngradeSubscription
  <2>7. ASSUME NEW target \in Plans, DeferDowngrade(w, target)
        PROVE  \E o \in Operations : Starting(o)
    <3> DEFINE e == [row EXCEPT !.pending = target]
    <3>1. /\ e \in Rows
          /\ e.plan = row.plan /\ e.renewals = row.renewals /\ e.version = row.version
          /\ <<row.status, e.status>> \in Legal
      BY <2>7 DEF DeferDowngrade
    <3>2. Begin(w, "saving", e)
      BY <2>7 DEF DeferDowngrade
    <3> HIDE DEF e
    <3> QED
      BY <3>1, <3>2, <2>1
  <2>8. CASE ResumeJob(w)
    BY <2>8, <2>1 DEF ResumeJob
  <2>9. CASE ProcessRenewal(w)
    <3> DEFINE e == [row EXCEPT !.status = "active", !.renewals = @ + 1]
               o == [Idle EXCEPT !.at = "renewing", !.entity = e, !.attempt = 1]
    <3>1. e \in Rows /\ e.plan = row.plan /\ e.version = row.version /\ e.status = "active"
      <4>1. row.renewals + 1 \in Nat
        OBVIOUS
      <4>2. e \in Rows
        BY <4>1
      <4> QED
        BY <4>2
    <3>2. row.status \in {"active", "past_due"} /\ op' = [op EXCEPT ![w] = o]
          /\ UNCHANGED <<row, payments, recorded>>
      BY <2>9 DEF ProcessRenewal, Renewed
    <3> HIDE DEF e
    <3>3. o \in Operations /\ o.entity = e /\ o.at = "renewing"
      BY <3>1
    <3> HIDE DEF o
    <3>4. CopyFollows(o)
      BY <3>1, <3>2, <3>3
    <3> QED
      BY <3>1, <3>2, <3>3, <3>4 DEF Starting
  <2> QED
    BY <2>3, <2>4, <2>5, <2>6, <2>7, <2>8, <2>9 DEF Start
<1>2. \A plan \in Plans : Backed(plan) => Backed(plan)'
  BY <1>1 DEF Backed
<1>3. BackedNext(o.entity.plan)
  BY <1>0, <1>1 DEF Backed, BackedNext
<1>4. payments' \in Seq(Payments) /\ row' = row /\ recorded' = recorded
  BY <1>1 DEF IInv, TypeOK
<1> QED
  BY <1>1, <1>2, <1>3, <1>4, LocalStep

\* Answers of the provider, and saves that fail, change one copy each.
LEMMA AnswerInv ==
  ASSUME IInv, NEW w \in Workers,
         PaymentSucceeds(w) \/ PaymentFails(w) \/ ResumedAtProvider(w)
           \/ ResumeFailsAtProvider(w) \/ SaveFails(w) \/ RenewalFails(w) \/ Die(w)
  PROVE  IInv'
<1>0. /\ op[w] \in Operations /\ row \in Rows /\ payments \in Seq(Payments)
      /\ Backed(op[w].entity.plan) /\ CopyFollows(op[w])
  BY DEF IInv, TypeOK, PlansAreBacked, CopiesFollow
<1>1. PaymentOf(w) \in Payments
  BY <1>0 DEF PaymentOf, Payments, Operations
<1>2. ASSUME NEW p \in Payments, payments' = Append(payments, p)
      PROVE  /\ payments' \in Seq(Payments)
             /\ \A plan \in Plans : Backed(plan) => Backed(plan)'
             /\ BackedNext(p.to)
  <2>1. /\ payments' \in Seq(Payments)
        /\ DOMAIN payments' = 1..Len(payments) + 1
        /\ \A i \in DOMAIN payments : i \in DOMAIN payments' /\ payments'[i] = payments[i]
        /\ payments'[Len(payments) + 1] = p
    BY <1>0, <1>2
  <2>2. Len(payments) + 1 \in DOMAIN payments'
    BY <1>0, <2>1
  <2>3. BackedNext(p.to)
    BY <2>1, <2>2 DEF BackedNext
  <2>4. \A plan \in Plans : Backed(plan) => Backed(plan)'
    BY <2>1 DEF Backed
  <2> QED
    BY <2>1, <2>3, <2>4
<1>3. ASSUME payments' = payments
      PROVE  /\ payments' \in Seq(Payments)
             /\ \A plan \in Plans : Backed(plan) => Backed(plan)'
  BY <1>0, <1>3 DEF Backed
<1>4. CopyFollows(Idle) /\ Idle \in Operations /\ BackedNext(Idle.entity.plan)
  BY IdleOperation DEF CopyFollows, Idle, InitialRow, BackedNext
<1>5. CASE PaymentSucceeds(w)
  <2> DEFINE e == [op[w].entity EXCEPT !.plan = op[w].target]
             o == [op[w] EXCEPT !.at = "saving", !.entity = e, !.payment = Len(payments) + 1]
  <2>1. /\ op[w].at \in {"charging", "crediting"}
        /\ op' = [op EXCEPT ![w] = o]
        /\ payments' = Append(payments, PaymentOf(w))
        /\ UNCHANGED <<row, recorded>>
    BY <1>0, <1>5 DEF PaymentSucceeds, IInv, TypeOK, Operations
  <2>2. e \in Rows /\ e.plan = op[w].target /\ e.status = op[w].entity.status
        /\ e.renewals = op[w].entity.renewals /\ e.version = op[w].entity.version
    BY <1>0 DEF Operations, Rows
  <2> HIDE DEF e
  <2>3. o \in Operations /\ o.entity = e /\ o.at = "saving"
    <3>1. Len(payments) + 1 \in Nat
      BY <1>0
    <3> QED
      BY <1>0, <2>2, <3>1 DEF Operations
  <2> HIDE DEF o
  <2>4. CopyFollows(o)
    BY <1>0, <2>1, <2>2, <2>3 DEF CopyFollows, Allowed, Legal, Rows, Statuses
  <2>5. BackedNext(PaymentOf(w).to)
    BY <1>1, <1>2, <2>1
  <2>6. BackedNext(o.entity.plan)
    BY <2>2, <2>3, <2>5 DEF PaymentOf
  <2> QED
    BY <1>1, <1>2, <2>1, <2>3, <2>4, <2>6, LocalStep
<1>6. CASE PaymentFails(w)
  <2>1. op' = [op EXCEPT ![w] = Idle] /\ UNCHANGED <<row, recorded>>
    BY <1>6 DEF PaymentFails
  <2>2. CASE payments' = payments
    BY <1>3, <1>4, <2>1, <2>2, LocalStep
  <2>3. CASE payments' = Append(payments, PaymentOf(w))
    BY <1>1, <1>2, <1>4, <2>1, <2>3, LocalStep
  <2> QED
    BY <1>6, <2>2, <2>3 DEF PaymentFails
<1>7. CASE ResumedAtProvider(w)
  <2> DEFINE e == [op[w].entity EXCEPT !.status = "active"]
             o == [op[w] EXCEPT !.at = "saving", !.entity = e]
  <2>1. /\ op[w].at = "resuming" /\ op' = [op EXCEPT ![w] = o]
        /\ UNCHANGED <<row, payments, recorded>>
    BY <1>0, <1>7 DEF ResumedAtProvider, IInv, TypeOK, Operations
  <2>2. e \in Rows /\ e.plan = op[w].entity.plan /\ e.status = "active"
        /\ e.renewals = op[w].entity.renewals /\ e.version = op[w].entity.version
    BY <1>0 DEF Operations, Rows, Statuses
  <2> HIDE DEF e
  <2>3. o \in Operations /\ o.entity = e /\ o.at = "saving"
    BY <1>0, <2>2 DEF Operations
  <2> HIDE DEF o
  <2>4. CopyFollows(o)
    BY <1>0, <2>1, <2>2, <2>3 DEF CopyFollows, Allowed, Legal
  <2>5. BackedNext(o.entity.plan)
    BY <1>0, <2>1, <2>2, <2>3 DEF Backed, BackedNext
  <2> QED
    BY <1>3, <2>1, <2>3, <2>4, <2>5, LocalStep
<1>8. CASE ResumeFailsAtProvider(w) \/ SaveFails(w) \/ Die(w)
  <2>1. op' = [op EXCEPT ![w] = Idle] /\ UNCHANGED <<row, payments, recorded>>
    BY <1>8 DEF ResumeFailsAtProvider, SaveFails, Die
  <2> QED
    BY <1>3, <1>4, <2>1, LocalStep
<1>9. CASE RenewalFails(w)
  <2> DEFINE again == [op[w].entity EXCEPT !.status = "active", !.renewals = @ + 1]
             late  == [op[w].entity EXCEPT !.status = "past_due"]
             e     == IF op[w].attempt < MaxRetries THEN again ELSE late
             o     == IF op[w].attempt < MaxRetries
                      THEN [op[w] EXCEPT !.entity = again, !.attempt = @ + 1]
                      ELSE [op[w] EXCEPT !.entity = late, !.at = "saving"]
  <2>1. /\ op[w].at = "renewing" /\ op' = [op EXCEPT ![w] = o]
        /\ UNCHANGED <<row, payments, recorded>>
    BY <1>0, <1>9 DEF RenewalFails, Renewed, IInv, TypeOK, Operations
  <2>2. again \in Rows /\ late \in Rows
    <3>1. op[w].entity \in Rows /\ op[w].entity.renewals + 1 \in Nat
      BY <1>0 DEF Operations, Rows
    <3> QED
      BY <3>1 DEF Rows, Statuses
  <2>3. /\ e \in Rows /\ e.plan = op[w].entity.plan /\ e.status \in {"active", "past_due"}
        /\ e.version = op[w].entity.version
    BY <1>0, <2>2 DEF Operations, Rows
  <2>4. o \in Operations /\ o.entity = e /\ o.at \in {"renewing", "saving"}
    <3>1. op[w].attempt + 1 \in Nat
      BY <1>0 DEF Operations
    <3> HIDE DEF again, late
    <3> QED
      BY <1>0, <2>1, <2>2, <3>1 DEF Operations
  <2> HIDE DEF e, o
  <2>5. CopyFollows(o)
    BY <1>0, <2>1, <2>3, <2>4 DEF CopyFollows, Allowed, Legal, Statuses
  <2>6. BackedNext(o.entity.plan)
    BY <1>0, <2>1, <2>3, <2>4 DEF Backed, BackedNext
  <2> QED
    BY <1>3, <2>1, <2>4, <2>5, <2>6, LocalStep
<1> QED
  BY <1>5, <1>6, <1>7, <1>8, <1>9

\* A save leaves every other copy older than the row.
LEMMA SaveInv ==
  ASSUME IInv, NEW w \in Workers, Save(w)
  PROVE  IInv'
<1>0. /\ op \in [Workers -> Operations] /\ op[w] \in Operations
      /\ row \in Rows /\ row.version + 1 \in Nat
  BY DEF IInv, TypeOK, Operations, Rows
<1>1. /\ row' \in Rows /\ row'.version = row.version + 1
      /\ row'.plan = op[w].entity.plan
  BY <1>0 DEF Save, Operations, Rows
<1>2. op' \in [Workers -> Operations]
      /\ \A v \in Workers : op'[v] = IF v = w THEN Idle ELSE op[v]
  BY <1>0, IdleOperation DEF Save
<1>3. recorded' \in SUBSET Nat /\ payments' = payments
  BY <1>0 DEF Save, IInv, TypeOK, Operations
<1>4. PlansAreBacked'
  BY <1>1, <1>2, <1>3
     DEF IInv, PlansAreBacked, PlanIsBacked, Backed, Idle, InitialRow
<1>5. CopiesFollow'
  <2> SUFFICES ASSUME NEW v \in Workers, op'[v].at # "idle"
               PROVE  op'[v].entity.version < row'.version
    BY <1>0, <1>1, <1>2 DEF CopiesFollow, CopyFollows, Operations, Rows
  <2>1. v # w /\ op'[v] = op[v]
    BY <1>2 DEF Idle
  <2>2. op[v].entity.version <= row.version
    BY <2>1 DEF IInv, CopiesFollow, CopyFollows
  <2> QED
    BY <1>0, <1>1, <2>1, <2>2 DEF Operations, Rows
<1> QED
  BY <1>1, <1>2, <1>3, <1>4, <1>5 DEF IInv, TypeOK

LEMMA StepInv == IInv /\ [Next]_vars => IInv'
<1> SUFFICES ASSUME IInv, [Next]_vars PROVE IInv'
  OBVIOUS
<1>1. ASSUME NEW w \in Workers, Start(w) \/ Continue(w) \/ Die(w) PROVE IInv'
  BY <1>1, StartInv, AnswerInv, SaveInv DEF Continue
<1>2. CASE UNCHANGED vars
  BY <1>2 DEF vars, IInv, TypeOK, PlansAreBacked, PlanIsBacked, Backed, CopiesFollow,
              CopyFollows, Allowed
<1> QED
  BY <1>1, <1>2 DEF Next

LEMMA InvAlways == Spec => []IInv
BY InitInv, StepInv, PTL DEF Spec

\* Types of the row, of every copy of it, and of the payments.
THEOREM TypeCorrect == Spec => []TypeOK
<1>1. IInv => TypeOK
  BY DEF IInv
<1> QED
  BY <1>1, InvAlways, PTL

\* The row names no plan that was never paid for or credited.
THEOREM PlanTheorem == Spec => []PlanIsBacked
<1>1. IInv => PlanIsBacked
  BY DEF IInv, PlansAreBacked
<1> QED
  BY <1>1, InvAlways, PTL

\* Every save of an entity as new as the row is legal: the races are all stale
\* saves, which a check of the version column would refuse.
THEOREM FreshSavesTheorem == Spec => FreshSavesAreLegal
<1>1. ASSUME IInv, [Next]_vars, NEW w \in Workers,
             op[w].at \in {"saving", "renewing"}, op[w].entity.version = row.version,
             row' # row, op'[w].at = "idle"
      PROVE  /\ <<row.status, row'.status>> \in Legal
             /\ row'.renewals # row.renewals => row.status \in {"active", "past_due"}
             /\ row'.plan # row.plan => row.status = "active"
  <2>1. PICK v \in Workers : Save(v)
    BY <1>1 DEF Next, vars, Start, Continue, Begin, BeginPayment, PauseSubscription,
       ResumeSubscription, CancelSubscription, UpgradeSubscription,
       DowngradeSubscription, DeferDowngrade, ResumeJob, ProcessRenewal,
       PaymentSucceeds, PaymentFails, ResumedAtProvider, ResumeFailsAtProvider,
       SaveFails, RenewalFails, Die
  <2>2. v = w
    BY <1>1, <2>1 DEF Save, IInv, TypeOK
  <2>3. Allowed(op[w].entity)
    BY <1>1 DEF IInv, CopiesFollow, CopyFollows
  <2>4. /\ row'.status = op[w].entity.status /\ row'.plan = op[w].entity.plan
        /\ row'.renewals = op[w].entity.renewals
    BY <2>1, <2>2 DEF Save, IInv, TypeOK, Operations, Rows
  <2> QED
    BY <2>3, <2>4 DEF Allowed
<1>2. IInv /\ [Next]_vars =>
        [\A w \in Workers :
           op[w].at \in {"saving", "renewing"} /\ op[w].entity.version = row.version =>
             row' = row \/ op'[w].at # "idle"
               \/ /\ <<row.status, row'.status>> \in Legal
                  /\ row'.renewals # row.renewals => row.status \in {"active", "past_due"}
                  /\ row'.plan # row.plan => row.status = "active"]_vars
  BY <1>1
<1> QED
  BY <1>2, InvAlways, PTL DEF Spec, FreshSavesAreLegal
=============================================================================
