-------------------------- MODULE EnrollmentProofs --------------------------
(***************************************************************************)
(* Theorems about Enrollment, for any workers, users, courses, lists and   *)
(* bounds.                                                                 *)
(***************************************************************************)
EXTENDS Enrollment, TLAPS

IsUpdating(w) == op[w].at \in {"loading", "updating"}

\* The ids w's transaction has used or is going to use.
Held(w) == IF IsEnrolling(w)
           THEN {r.id : r \in op[w].inserted} \cup (op[w].base .. (op[w].base + Len(op[w].items) - 1))
           ELSE {}

EnrollingOK(w) ==
  IsEnrolling(w) =>
    /\ op[w].base >= 1 /\ op[w].base + Len(op[w].items) =< issued + 1
    /\ op[w].at # "ending" => Len(op[w].items) > 0
    /\ \A n \in DOMAIN op[w].items : op[w].items[n] \in op[w].keys
    /\ \A r \in op[w].inserted : r.id < op[w].base /\ r.key \in op[w].keys /\ r.status = "active"
    /\ \A r, s \in op[w].inserted : r.id = s.id => r = s

\* The copy of a row a request changed is one it may change it to.
UpdatingOK(w) ==
  IsUpdating(w) =>
    /\ op[w].entity.id = op[w].read.id /\ op[w].entity.key = op[w].read.key
    /\ op[w].entity.progress >= op[w].read.progress
    /\ Consistent(op[w].read) => Consistent(op[w].entity)
    /\ op[w].read.id =< issued

WorkersOK == \A w \in Workers : EnrollingOK(w) /\ UpdatingOK(w)

\* An id means one row: in the table, in a transaction, in a request's copy.
IdsOK ==
  /\ \A r \in rows : r.id =< issued
  /\ \A r, s \in rows : r.id = s.id => r = s
  /\ \A w \in Workers, r \in rows : r.id \notin Held(w)
  /\ \A v, w \in Workers : IsUpdating(v) => op[v].read.id \notin Held(w)
  /\ \A v, w \in Workers : v # w => Held(v) \cap Held(w) = {}
  /\ \A w \in Workers, r \in rows : IsUpdating(w) /\ r.id = op[w].read.id => r.key = op[w].read.key
  /\ \A v, w \in Workers : IsUpdating(v) /\ IsUpdating(w) /\ op[v].read.id = op[w].read.id =>
                             op[v].read.key = op[w].read.key

Met(k) == LET required == Prerequisite[k.course]
          IN  required # NoCourse => [k EXCEPT !.course = required] \in completed

\* What each worker was let through with, has a prerequisite completed before.
PrerequisiteOK(w) ==
  /\ IsEnrolling(w) => \A r \in op[w].inserted : Met(r.key)
  /\ op[w].at = "saving" => Met(Item(w))
  /\ IsUpdating(w) => /\ Met(op[w].read.key)
                      /\ op[w].entity.status = "completed" => op[w].read.key \in completed

CompletionOK ==
  /\ \A r \in rows : Met(r.key) /\ (r.status = "completed" => r.key \in completed)
  /\ \A w \in Workers : PrerequisiteOK(w)

\* Without a race, what w inserted and is about to insert is nowhere else.
RaceOK(w) ==
  /\ IsEnrolling(w) =>
       /\ \A r, s \in op[w].inserted : r.key = s.key /\ r.key \notin raced => r = s
       /\ \A r \in op[w].inserted, s \in rows : r.key = s.key => r.key \in raced
  /\ op[w].at \in {"checking", "saving"} /\ Item(w) \notin raced => ~IsEnrolled(w)

SinglesOK ==
  /\ OneRowPerCourse
  /\ \A v, w \in Workers : v # w /\ IsEnrolling(v) /\ IsEnrolling(w) =>
                             op[v].keys \cap op[w].keys \subseteq raced
  /\ \A w \in Workers : RaceOK(w)

IInv == TypeOK /\ WorkersOK /\ IdsOK /\ CompletionOK /\ SinglesOK

LEMMA InitInv == Init => IInv
<1> SUFFICES ASSUME Init
             PROVE  IInv
  OBVIOUS
<1>1. \A w \in Workers : op[w] = Idle /\ op[w].at = "idle"
  BY DEF Init, Idle
<1>2. \A w \in Workers : ~IsEnrolling(w) /\ ~IsUpdating(w) /\ Held(w) = {}
  BY <1>1 DEF IsEnrolling, IsUpdating, Held
<1>3. TypeOK
  BY BoundAssumption DEF Init, TypeOK
<1>4. WorkersOK
  BY <1>2 DEF WorkersOK, EnrollingOK, UpdatingOK
<1>5. IdsOK
  BY <1>2 DEF Init, IdsOK
<1>6. CompletionOK
  BY <1>1, <1>2 DEF Init, CompletionOK, PrerequisiteOK
<1>7. SinglesOK
  BY <1>1, <1>2 DEF Init, SinglesOK, RaceOK, OneRowPerCourse
<1> QED
  BY <1>3, <1>4, <1>5, <1>6, <1>7 DEF IInv

LEMMA OpTyped ==
  ASSUME TypeOK, NEW w \in Workers
  PROVE  /\ op[w].at = "idle" <=> op[w] = Idle
         /\ IsEnrolling(w) <=> op[w] \in Enrolling
         /\ IsUpdating(w) <=> op[w] \in Updating
         /\ op[w].at = "removing" <=> op[w] \in Removing
BY DEF TypeOK, Enrolling, Updating, Removing, Idle, IsEnrolling, IsUpdating

\* The first item of the list, and the list without it.
LEMMA DoneFields ==
  ASSUME TypeOK, NEW w \in Workers, EnrollingOK(w),
         op[w].at \in {"looking", "checking", "saving"}
  PROVE  /\ Item(w) \in Keys /\ Item(w) \in op[w].keys
         /\ Done(w) \in Enrolling
         /\ Done(w).at \in {"looking", "ending"}
         /\ Len(Done(w).items) = Len(op[w].items) - 1
         /\ Done(w).at # "ending" => Len(Done(w).items) > 0
         /\ \A n \in DOMAIN Done(w).items : Done(w).items[n] \in op[w].keys
         /\ Done(w).bulk = op[w].bulk /\ Done(w).keys = op[w].keys
         /\ Done(w).inserted = op[w].inserted /\ Done(w).base = op[w].base
         /\ Done(w).failed = op[w].failed
         /\ op[w] \in Enrolling /\ Len(op[w].items) \in Nat /\ Len(op[w].items) > 0
<1>1. IsEnrolling(w) /\ op[w] \in Enrolling /\ op[w].at # "ending"
  BY OpTyped DEF IsEnrolling
<1>2. op[w].items \in Seq(Keys) /\ Len(op[w].items) \in Nat
  BY <1>1 DEF Enrolling
<1>3. Len(op[w].items) > 0 /\ \A n \in DOMAIN op[w].items : op[w].items[n] \in op[w].keys
  BY <1>1 DEF EnrollingOK
<1>4. Head(op[w].items) = op[w].items[1] /\ 1 \in DOMAIN op[w].items /\ op[w].items[1] \in Keys
  BY <1>2, <1>3
<1>5. Item(w) \in Keys /\ Item(w) \in op[w].keys
  BY <1>3, <1>4 DEF Item
<1> DEFINE t == Tail(op[w].items)
<1>6. t \in Seq(Keys) /\ Len(t) = Len(op[w].items) - 1
  BY <1>2, <1>3
<1>7. \A n \in DOMAIN t : t[n] = op[w].items[n + 1] /\ n + 1 \in DOMAIN op[w].items
  BY <1>2, <1>3
<1>8. \A n \in DOMAIN t : t[n] \in op[w].keys
  BY <1>3, <1>7
<1> HIDE DEF t
<1> DEFINE at == IF Len(op[w].items) = 1 THEN "ending" ELSE "looking"
<1>9. Done(w) = [op[w] EXCEPT !.items = t, !.at = at]
  BY DEF Done, t
<1>10. at \in {"looking", "ending"} /\ (at # "ending" => Len(t) > 0)
  <2>1. \A l \in Nat : l > 0 /\ l # 1 => l - 1 > 0
    OBVIOUS
  <2> QED
    BY <1>2, <1>3, <1>6, <2>1
<1> HIDE DEF at
<1>11. /\ Done(w) \in Enrolling /\ Done(w).items = t /\ Done(w).at = at
       /\ Done(w).bulk = op[w].bulk /\ Done(w).keys = op[w].keys
       /\ Done(w).inserted = op[w].inserted /\ Done(w).base = op[w].base
       /\ Done(w).failed = op[w].failed
  BY <1>1, <1>6, <1>9, <1>10 DEF Enrolling
<1> QED
  BY <1>1, <1>2, <1>3, <1>5, <1>6, <1>8, <1>10, <1>11

-----------------------------------------------------------------------------
\* A step of w that takes no new id and brings no row back but its own copy's.
LEMMA IdsFrame ==
  ASSUME TypeOK, IdsOK, NEW w \in Workers,
         \A v \in Workers : v # w => op'[v] = op[v],
         issued' = issued,
         Held(w)' \subseteq Held(w),
         IsUpdating(w)' => IsUpdating(w) /\ op'[w].read = op[w].read,
         UpdatingOK(w),
         \A s \in rows' : \/ \E r \in rows : r.id = s.id /\ r.key = s.key
                          \/ IsUpdating(w) /\ s.id = op[w].read.id /\ s.key = op[w].read.key,
         \A r, s \in rows' : r.id = s.id => r = s
  PROVE  IdsOK'
<1>1. \A v \in Workers : v # w => Held(v)' = Held(v) /\ (IsUpdating(v)' <=> IsUpdating(v))
  BY DEF Held, IsEnrolling, IsUpdating
<1>2. \A v \in Workers : Held(v)' \subseteq Held(v)
  BY <1>1
<1>3. \A v \in Workers : IsUpdating(v)' => IsUpdating(v) /\ op'[v].read = op[v].read
  BY <1>1
<1>4. \A r \in rows' : r.id =< issued'
  BY DEF IdsOK, UpdatingOK
<1>5. \A v \in Workers, r \in rows' : r.id \notin Held(v)'
  BY <1>2 DEF IdsOK
<1>6. \A u, v \in Workers : IsUpdating(u)' => op'[u].read.id \notin Held(v)'
  BY <1>2, <1>3 DEF IdsOK
<1>7. \A u, v \in Workers : u # v => Held(u)' \cap Held(v)' = {}
  BY <1>2 DEF IdsOK
<1>8. \A v \in Workers, r \in rows' : IsUpdating(v)' /\ r.id = op'[v].read.id => r.key = op'[v].read.key
  BY <1>3 DEF IdsOK
<1>9. \A u, v \in Workers : IsUpdating(u)' /\ IsUpdating(v)' /\ op'[u].read.id = op'[v].read.id =>
                              op'[u].read.key = op'[v].read.key
  BY <1>3 DEF IdsOK
<1> QED
  BY <1>4, <1>5, <1>6, <1>7, <1>8, <1>9 DEF IdsOK

LEMMA WorkersFrame ==
  ASSUME WorkersOK, NEW w \in Workers,
         \A v \in Workers : v # w => op'[v] = op[v],
         issued \in Nat, issued' \in Nat, issued' >= issued, TypeOK,
         EnrollingOK(w)', UpdatingOK(w)'
  PROVE  WorkersOK'
<1> SUFFICES ASSUME NEW v \in Workers, v # w
             PROVE  EnrollingOK(v)' /\ UpdatingOK(v)'
  BY DEF WorkersOK
<1>1. op'[v] = op[v] /\ EnrollingOK(v) /\ UpdatingOK(v)
  BY DEF WorkersOK
<1>2. IsEnrolling(v) => op[v].base \in Nat /\ Len(op[v].items) \in Nat
  BY OpTyped DEF Enrolling
<1>3. IsUpdating(v) => op[v].read.id \in Nat
  BY OpTyped, BoundAssumption DEF Updating, Rows, Ids
<1>4. EnrollingOK(v)'
  BY <1>1, <1>2 DEF EnrollingOK, IsEnrolling
<1>5. UpdatingOK(v)'
  BY <1>1, <1>3 DEF UpdatingOK, IsUpdating, Consistent
<1> QED
  BY <1>4, <1>5

LEMMA CompletionFrame ==
  ASSUME CompletionOK, NEW w \in Workers,
         \A v \in Workers : v # w => op'[v] = op[v],
         completed \subseteq completed',
         \A s \in rows' : Met(s.key) /\ (s.status = "completed" => s.key \in completed'),
         PrerequisiteOK(w)'
  PROVE  CompletionOK'
<1>1. \A k : Met(k) => Met(k)'
  BY DEF Met
<1>2. \A v \in Workers : v # w => PrerequisiteOK(v)'
  BY <1>1 DEF CompletionOK, PrerequisiteOK, IsEnrolling, IsUpdating, Item
<1> QED
  BY <1>1, <1>2 DEF CompletionOK

\* Rows that come and go without a race touch nobody's keys.
LEMMA SinglesFrame ==
  ASSUME SinglesOK, WorkersOK, TypeOK, NEW w \in Workers,
         \A v \in Workers : v # w => op'[v] = op[v],
         raced \subseteq raced',
         IsEnrolling(w)' => IsEnrolling(w) /\ op'[w].keys = op[w].keys,
         \A s \in rows' : \/ s.key \in raced' \/ \E r \in rows : r.key = s.key
                          \/ IsEnrolling(w) /\ s.key \in op[w].keys,
         OneRowPerCourse',
         RaceOK(w)'
  PROVE  SinglesOK'
<1>1. \A u, v \in Workers : u # v /\ IsEnrolling(u)' /\ IsEnrolling(v)' =>
                              op'[u].keys \cap op'[v].keys \subseteq raced'
  BY DEF SinglesOK, IsEnrolling
<1>2. ASSUME NEW v \in Workers, v # w
      PROVE  RaceOK(v)'
  <2>1. op'[v] = op[v] /\ RaceOK(v) /\ EnrollingOK(v)
    BY <1>2 DEF SinglesOK, WorkersOK
  <2>2. IsEnrolling(v)' <=> IsEnrolling(v)
    BY <2>1 DEF IsEnrolling
  <2>3. \A k : IsEnrolling(v) /\ k \in op[v].keys /\ k \notin raced' =>
                 \A s \in rows' : s.key = k => \E r \in rows : r.key = k
    BY <1>2 DEF SinglesOK
  <2>4. IsEnrolling(v)' =>
          /\ \A r, s \in op'[v].inserted : r.key = s.key /\ r.key \notin raced' => r = s
          /\ \A r \in op'[v].inserted, s \in rows' : r.key = s.key => r.key \in raced'
    BY <2>1, <2>2, <2>3 DEF RaceOK, EnrollingOK
  <2>5. op'[v].at \in {"checking", "saving"} /\ Item(v)' \notin raced' => ~IsEnrolled(v)'
    <3> SUFFICES ASSUME op[v].at \in {"checking", "saving"}, Item(v) \notin raced'
                 PROVE  ~IsEnrolled(v)'
      BY <2>1 DEF Item
    <3>1. Item(v) \in op[v].keys /\ IsEnrolling(v)
      BY <2>1, DoneFields DEF IsEnrolling
    <3>2. ~IsEnrolled(v)
      BY <2>1 DEF RaceOK
    <3>3. \A s \in rows' : s.key # Item(v)
      BY <2>3, <3>1, <3>2 DEF IsEnrolled, Visible
    <3> QED
      BY <2>1, <3>2, <3>3 DEF IsEnrolled, Visible, Item
  <2> QED
    BY <2>4, <2>5 DEF RaceOK
<1> QED
  BY <1>1, <1>2 DEF SinglesOK

-----------------------------------------------------------------------------
\* One lemma per kind of action.

\* A worker without a request.
LEMMA IdleOK ==
  ASSUME NEW w \in Workers, op'[w] = Idle
  PROVE  /\ ~IsEnrolling(w)' /\ ~IsUpdating(w)' /\ Held(w)' = {}
         /\ EnrollingOK(w)' /\ UpdatingOK(w)' /\ PrerequisiteOK(w)' /\ RaceOK(w)'
<1>1. op'[w].at = "idle"
  BY DEF Idle
<1>2. ~IsEnrolling(w)' /\ ~IsUpdating(w)'
  BY <1>1 DEF IsEnrolling, IsUpdating
<1> QED
  BY <1>1, <1>2 DEF Held, EnrollingOK, UpdatingOK, PrerequisiteOK, RaceOK

LEMMA BeginInv ==
  ASSUME IInv, NEW w \in Workers, NEW items \in Seq(Keys), Len(items) > 0,
         NEW bulk \in BOOLEAN, Begin(w, items, bulk)
  PROVE  IInv'
<1> USE DEF IInv
<1> DEFINE keys == ToSet(items)
           o == [at |-> "looking", bulk |-> bulk, items |-> items, keys |-> keys,
                 inserted |-> {}, base |-> issued + 1, failed |-> FALSE]
<1>1. /\ op[w] = Idle /\ issued + Len(items) =< MaxRows /\ issued' = issued + Len(items)
      /\ op' = [op EXCEPT ![w] = o] /\ rows' = rows /\ completed' = completed
      /\ raced' = raced \cup {k \in keys :
                                \E v \in Workers : IsEnrolling(v) /\ k \in op[v].keys}
  BY DEF Begin
<1>2. issued \in Nat /\ Len(items) \in Nat /\ issued' \in 0..MaxRows /\ issued' \in Nat /\ issued' >= issued
  BY <1>1, BoundAssumption DEF TypeOK
<1>3. keys \in SUBSET Keys /\ \A n \in DOMAIN items : items[n] \in keys
  BY DEF ToSet
<1> HIDE DEF keys
<1>4. o \in Enrolling
  BY <1>2, <1>3 DEF Enrolling
<1>5. op'[w] = o /\ \A v \in Workers : v # w => op'[v] = op[v]
  BY <1>1 DEF TypeOK
<1>6. /\ op'[w].at = "looking" /\ op'[w].items = items /\ op'[w].keys = keys
      /\ op'[w].inserted = {} /\ op'[w].base = issued + 1
  BY <1>5
<1> HIDE DEF o
<1>7. IsEnrolling(w)' /\ ~IsUpdating(w)' /\ ~IsEnrolling(w) /\ ~IsUpdating(w)
  BY <1>1, <1>6 DEF IsEnrolling, IsUpdating, Idle
<1>8. TypeOK'
  <2>1. raced' \subseteq Keys
    BY <1>1, <1>3 DEF TypeOK
  <2>2. op' \in [Workers -> {Idle} \cup Enrolling \cup Updating \cup Removing]
    BY <1>1, <1>4 DEF TypeOK
  <2> QED
    BY <1>1, <1>2, <2>1, <2>2 DEF TypeOK
<1>9. WorkersOK'
  <2>1. EnrollingOK(w)'
    BY <1>1, <1>2, <1>3, <1>6 DEF EnrollingOK
  <2>2. UpdatingOK(w)'
    BY <1>7 DEF UpdatingOK
  <2> QED
    BY <1>2, <1>5, <2>1, <2>2, WorkersFrame
<1>10. IdsOK'
  <2>1. \A v \in Workers : v # w => Held(v)' = Held(v) /\ (IsUpdating(v)' <=> IsUpdating(v))
    BY <1>5 DEF Held, IsEnrolling, IsUpdating
  <2>2. \A i \in Held(w)' : i > issued
    BY <1>2, <1>6, <1>7 DEF Held
  <2>3. \A v \in Workers : \A i \in Held(v) : i =< issued
    <3> SUFFICES ASSUME NEW v \in Workers, NEW i \in Held(v)
                 PROVE  i =< issued
      OBVIOUS
    <3>1. IsEnrolling(v) /\ EnrollingOK(v)
      BY DEF Held, WorkersOK
    <3>2. op[v] \in Enrolling /\ op[v].base \in Nat /\ Len(op[v].items) \in Nat
          /\ \A r \in op[v].inserted : r.id \in Nat
      BY <3>1, OpTyped, BoundAssumption DEF Enrolling, Rows, Ids
    <3> QED
      BY <1>2, <3>1, <3>2, SMTT(30) DEF Held, EnrollingOK
  <2>4. \A v \in Workers : v # w => Held(w)' \cap Held(v)' = {} /\ Held(v)' \cap Held(w)' = {}
    <3> SUFFICES ASSUME NEW v \in Workers, v # w, NEW i \in Held(w)', i \in Held(v)'
                 PROVE  FALSE
      OBVIOUS
    <3>1. i > issued /\ i =< issued
      BY <2>1, <2>2, <2>3
    <3>2. i \in Nat
      BY <1>2, <1>6, <1>7 DEF Held
    <3> QED
      BY <1>2, <3>1, <3>2
  <2>5. \A r \in rows : r.id =< issued /\ r.id \in Nat
    BY BoundAssumption DEF TypeOK, Rows, Ids, IdsOK
  <2>6. \A v \in Workers : IsUpdating(v) => op[v].read.id =< issued /\ op[v].read.id \in Nat
    BY OpTyped, BoundAssumption DEF Updating, Rows, Ids, WorkersOK, UpdatingOK
  <2>7. \A r \in rows : r.id \notin Held(w)'
    BY <1>2, <2>2, <2>5
  <2>8. \A v \in Workers : IsUpdating(v) => op[v].read.id \notin Held(w)'
    BY <1>2, <2>2, <2>6
  <2>9. \A v \in Workers : IsUpdating(v)' => IsUpdating(v) /\ op'[v].read = op[v].read
    BY <1>5, <1>7, <2>1
  <2>10. \A r \in rows' : r.id =< issued'
    BY <1>1, <1>2, <2>5
  <2>11. /\ \A v \in Workers, r \in rows' : r.id \notin Held(v)'
         /\ \A u, v \in Workers : IsUpdating(u)' => op'[u].read.id \notin Held(v)'
    BY <1>1, <2>1, <2>7, <2>8, <2>9 DEF IdsOK
  <2>12. \A u, v \in Workers : u # v => Held(u)' \cap Held(v)' = {}
    BY <2>1, <2>4 DEF IdsOK
  <2>13. /\ \A r, s \in rows' : r.id = s.id => r = s
         /\ \A v \in Workers, r \in rows' : IsUpdating(v)' /\ r.id = op'[v].read.id => r.key = op'[v].read.key
         /\ \A u, v \in Workers : IsUpdating(u)' /\ IsUpdating(v)' /\ op'[u].read.id = op'[v].read.id =>
                                    op'[u].read.key = op'[v].read.key
    BY <1>1, <2>9 DEF IdsOK
  <2> QED
    BY <2>10, <2>11, <2>12, <2>13 DEF IdsOK
<1>11. CompletionOK'
  <2>1. PrerequisiteOK(w)'
    BY <1>6, <1>7 DEF PrerequisiteOK
  <2> QED
    BY <1>1, <1>5, <2>1, CompletionFrame DEF CompletionOK
<1>12. SinglesOK'
  <2>1. \A u, v \in Workers : u # v /\ IsEnrolling(u)' /\ IsEnrolling(v)' =>
                                op'[u].keys \cap op'[v].keys \subseteq raced'
    <3> SUFFICES ASSUME NEW u \in Workers, NEW v \in Workers, u # v,
                        IsEnrolling(u)', IsEnrolling(v)',
                        NEW k \in op'[u].keys, k \in op'[v].keys
                 PROVE  k \in raced'
      OBVIOUS
    <3>1. \A x \in Workers : x # w => (IsEnrolling(x)' <=> IsEnrolling(x))
      BY <1>5 DEF IsEnrolling
    <3>2. CASE u = w
      BY <1>1, <1>5, <1>6, <3>1, <3>2
    <3>3. CASE v = w
      BY <1>1, <1>5, <1>6, <3>1, <3>3
    <3>4. CASE u # w /\ v # w
      BY <1>1, <1>5, <3>1, <3>4 DEF SinglesOK
    <3> QED
      BY <3>2, <3>3, <3>4
  <2>2. OneRowPerCourse'
    BY <1>1 DEF SinglesOK, OneRowPerCourse
  <2>3. ASSUME NEW v \in Workers
        PROVE  RaceOK(v)'
    <3>1. CASE v = w
      BY <1>6, <3>1 DEF RaceOK
    <3>2. CASE v # w
      <4>1. op'[v] = op[v] /\ RaceOK(v)
        BY <1>5, <3>2 DEF SinglesOK
      <4> QED
        BY <1>1, <4>1 DEF RaceOK, IsEnrolling, IsEnrolled, Visible, Item
    <3> QED
      BY <3>1, <3>2
  <2> QED
    BY <2>1, <2>2, <2>3 DEF SinglesOK
<1> QED
  BY <1>8, <1>9, <1>10, <1>11, <1>12

\* w goes on with its list: o is where it is next.
LEMMA ListStep ==
  ASSUME IInv, NEW w \in Workers, IsEnrolling(w), NEW o \in Enrolling,
         op' = [op EXCEPT ![w] = o], UNCHANGED <<rows, issued, completed, raced>>,
         o.keys = op[w].keys,
         EnrollingOK(w)', Held(w)' \subseteq Held(w), PrerequisiteOK(w)', RaceOK(w)'
  PROVE  IInv'
<1> USE DEF IInv
<1>1. op'[w] = o /\ \A v \in Workers : v # w => op'[v] = op[v]
  BY DEF TypeOK
<1>2. ~IsUpdating(w)'
  BY <1>1 DEF IsUpdating, Enrolling
<1>3. TypeOK'
  BY DEF TypeOK
<1>4. UpdatingOK(w)' /\ UpdatingOK(w)
  BY <1>2 DEF UpdatingOK, WorkersOK
<1>5. issued \in Nat
  BY BoundAssumption DEF TypeOK
<1>6. WorkersOK'
  BY <1>1, <1>4, <1>5, WorkersFrame
<1>7. IdsOK'
  BY <1>1, <1>2, <1>4, IdsFrame DEF IdsOK
<1>8. CompletionOK'
  BY <1>1, CompletionFrame DEF CompletionOK
<1>9. OneRowPerCourse'
  BY DEF SinglesOK, OneRowPerCourse
<1>10. SinglesOK'
  BY <1>1, <1>9, SinglesFrame
<1> QED
  BY <1>3, <1>6, <1>7, <1>8, <1>10

\* w leaves an item behind, refused or skipped.
LEMMA DoneStep ==
  ASSUME IInv, NEW w \in Workers, op[w].at \in {"looking", "checking", "saving"},
         NEW o \in Enrolling,
         o.at = Done(w).at, o.items = Done(w).items, o.keys = op[w].keys,
         o.inserted = op[w].inserted, o.base = op[w].base,
         op' = [op EXCEPT ![w] = o], UNCHANGED <<rows, issued, completed, raced>>
  PROVE  IInv'
<1> USE DEF IInv
<1>1. op'[w] = o
  BY DEF TypeOK
<1>2. IsEnrolling(w) /\ EnrollingOK(w)
  BY DEF IsEnrolling, WorkersOK
<1>3. /\ Done(w).at \in {"looking", "ending"}
      /\ Len(Done(w).items) = Len(op[w].items) - 1
      /\ Done(w).at # "ending" => Len(Done(w).items) > 0
      /\ \A n \in DOMAIN Done(w).items : Done(w).items[n] \in op[w].keys
      /\ Len(op[w].items) \in Nat /\ op[w] \in Enrolling
  BY <1>2, DoneFields
<1>4. op[w].base \in Nat /\ issued \in Nat
  BY <1>3, BoundAssumption DEF Enrolling, TypeOK
<1>5. IsEnrolling(w)'
  BY <1>1, <1>3 DEF IsEnrolling
<1>6. EnrollingOK(w)'
  BY <1>1, <1>2, <1>3, <1>4, SMTT(30) DEF EnrollingOK
<1>7. Held(w)' \subseteq Held(w)
  <2>1. op[w].base .. (op[w].base + (Len(op[w].items) - 1) - 1)
          \subseteq op[w].base .. (op[w].base + Len(op[w].items) - 1)
    BY <1>3, <1>4
  <2> QED
    BY <1>1, <1>2, <1>3, <1>5, <2>1 DEF Held
<1>8. PrerequisiteOK(w)'
  <2>1. PrerequisiteOK(w) /\ op'[w].at # "saving" /\ ~IsUpdating(w)'
    BY <1>1, <1>3 DEF CompletionOK, IsUpdating
  <2> QED
    BY <1>1, <1>2, <2>1 DEF PrerequisiteOK, Met
<1>9. RaceOK(w)'
  <2>1. RaceOK(w) /\ op'[w].at \notin {"checking", "saving"}
    BY <1>1, <1>3 DEF SinglesOK
  <2> QED
    BY <1>1, <1>2, <2>1 DEF RaceOK
<1> QED
  BY <1>2, <1>6, <1>7, <1>8, <1>9, ListStep

\* w looks at its item again in another place of the code.
LEMMA MoveStep ==
  ASSUME IInv, NEW w \in Workers, NEW here \in {"looking", "checking"}, op[w].at = here,
         NEW at \in {"checking", "saving"},
         op' = [op EXCEPT ![w] = [op[w] EXCEPT !.at = at]],
         UNCHANGED <<rows, issued, completed, raced>>,
         Item(w) \notin raced => ~IsEnrolled(w),
         at = "saving" => Met(Item(w))
  PROVE  IInv'
<1> USE DEF IInv
<1> DEFINE o == [op[w] EXCEPT !.at = at]
<1>1. IsEnrolling(w) /\ EnrollingOK(w) /\ op[w] \in Enrolling
  BY OpTyped DEF IsEnrolling, WorkersOK
<1>2. /\ o \in Enrolling /\ o.at = at /\ o.items = op[w].items /\ o.keys = op[w].keys
      /\ o.inserted = op[w].inserted /\ o.base = op[w].base
  BY <1>1 DEF Enrolling
<1> HIDE DEF o
<1>3. op' = [op EXCEPT ![w] = o] /\ op'[w] = o
  BY DEF TypeOK, o
<1>4. IsEnrolling(w)' /\ ~IsUpdating(w)'
  BY <1>2, <1>3 DEF IsEnrolling, IsUpdating
<1>5. op[w].at # "ending"
  OBVIOUS
<1>6. EnrollingOK(w)'
  BY <1>1, <1>2, <1>3, <1>5 DEF EnrollingOK
<1>7. Held(w)' \subseteq Held(w)
  BY <1>1, <1>2, <1>3, <1>4 DEF Held
<1>8. Item(w)' = Item(w) /\ (IsEnrolled(w)' <=> IsEnrolled(w))
  BY <1>2, <1>3 DEF Item, IsEnrolled, Visible
<1>9. PrerequisiteOK(w)'
  <2>1. PrerequisiteOK(w)
    BY DEF CompletionOK
  <2> QED
    BY <1>1, <1>2, <1>3, <1>4, <1>8, <2>1 DEF PrerequisiteOK, Met
<1>10. RaceOK(w)'
  <2>1. RaceOK(w)
    BY DEF SinglesOK
  <2> QED
    BY <1>1, <1>2, <1>3, <1>8, <2>1 DEF RaceOK
<1> QED
  BY <1>1, <1>2, <1>3, <1>6, <1>7, <1>9, <1>10, ListStep

LEMMA RefusedFields ==
  ASSUME TypeOK, NEW w \in Workers, EnrollingOK(w),
         op[w].at \in {"looking", "checking", "saving"}
  PROVE  /\ Refused(w) \in Enrolling /\ Refused(w).at = Done(w).at
         /\ Refused(w).items = Done(w).items /\ Refused(w).keys = op[w].keys
         /\ Refused(w).inserted = op[w].inserted /\ Refused(w).base = op[w].base
<1>1. /\ Done(w) \in Enrolling /\ Done(w).keys = op[w].keys
      /\ Done(w).inserted = op[w].inserted /\ Done(w).base = op[w].base
  BY DoneFields
<1> QED
  BY <1>1 DEF Refused, Enrolling

LEMMA FindExistingInv ==
  ASSUME IInv, NEW w \in Workers, FindExisting(w)
  PROVE  IInv'
<1> USE DEF IInv
<1>1. op[w].at = "looking" /\ EnrollingOK(w) /\ UNCHANGED <<rows, issued, completed, raced>>
  BY DEF FindExisting, WorkersOK
<1>2. PICK o : /\ op' = [op EXCEPT ![w] = o]
               /\ \/ o = Refused(w)
                  \/ o = Done(w)
                  \/ o = [op[w] EXCEPT !.at = "checking"] /\ ~IsEnrolled(w)
  <2>1. CASE Item(w).course \notin Published
    BY <2>1 DEF FindExisting
  <2>2. CASE Item(w).course \in Published /\ IsEnrolled(w)
    BY <2>2 DEF FindExisting, Skipped
  <2>3. CASE Item(w).course \in Published /\ ~IsEnrolled(w)
    BY <2>3 DEF FindExisting
  <2> QED
    BY <2>1, <2>2, <2>3
<1>3. CASE o = Refused(w)
  BY <1>1, <1>2, <1>3, RefusedFields, DoneStep
<1>4. CASE o = Done(w)
  BY <1>1, <1>2, <1>4, DoneFields, DoneStep
<1>5. CASE o = [op[w] EXCEPT !.at = "checking"] /\ ~IsEnrolled(w)
  BY <1>1, <1>2, <1>5, MoveStep
<1> QED
  BY <1>2, <1>3, <1>4, <1>5

\* What the lookup of the prerequisite finds was completed, and announced.
LEMMA PrerequisiteWasCompleted ==
  ASSUME IInv, NEW w \in Workers, IsEnrolling(w), PrerequisiteMet(w)
  PROVE  Met(Item(w))
<1> USE DEF IInv
<1> DEFINE required == Prerequisite[Item(w).course]
<1> SUFFICES ASSUME required # NoCourse
             PROVE  [Item(w) EXCEPT !.course = required] \in completed
  BY DEF Met
<1>1. PICK r \in Visible(w) : r.key = [Item(w) EXCEPT !.course = required] /\ r.status = "completed"
  BY DEF PrerequisiteMet
<1>2. r \notin op[w].inserted
  BY <1>1 DEF WorkersOK, EnrollingOK
<1> QED
  BY <1>1, <1>2 DEF Visible, CompletionOK

LEMMA ValidatePrerequisitesInv ==
  ASSUME IInv, NEW w \in Workers, ValidatePrerequisites(w)
  PROVE  IInv'
<1> USE DEF IInv
<1>1. /\ op[w].at = "checking" /\ EnrollingOK(w) /\ IsEnrolling(w)
      /\ UNCHANGED <<rows, issued, completed, raced>>
  BY DEF ValidatePrerequisites, WorkersOK, IsEnrolling
<1>2. CASE PrerequisiteMet(w)
  <2>1. op' = [op EXCEPT ![w] = [op[w] EXCEPT !.at = "saving"]]
    BY <1>2 DEF ValidatePrerequisites
  <2>2. Met(Item(w)) /\ (Item(w) \notin raced => ~IsEnrolled(w))
    BY <1>1, <1>2, PrerequisiteWasCompleted DEF SinglesOK, RaceOK
  <2> QED
    BY <1>1, <2>1, <2>2, MoveStep
<1>3. CASE ~PrerequisiteMet(w)
  <2>1. op' = [op EXCEPT ![w] = Refused(w)]
    BY <1>3 DEF ValidatePrerequisites
  <2> QED
    BY <1>1, <2>1, RefusedFields, DoneStep
<1> QED
  BY <1>2, <1>3

LEMMA SaveNewInv ==
  ASSUME IInv, NEW w \in Workers, SaveNew(w)
  PROVE  IInv'
<1> USE DEF IInv
<1> DEFINE row == [id |-> op[w].base, key |-> Item(w), progress |-> 0, status |-> "active"]
           o == [Done(w) EXCEPT !.inserted = op[w].inserted \cup {row}, !.base = op[w].base + 1]
<1>1. op[w].at = "saving" /\ op' = [op EXCEPT ![w] = o] /\ UNCHANGED <<rows, issued, completed, raced>>
  BY DEF SaveNew
<1>2. IsEnrolling(w) /\ EnrollingOK(w)
  BY <1>1 DEF IsEnrolling, WorkersOK
<1>3. /\ Item(w) \in Keys /\ Item(w) \in op[w].keys
      /\ Done(w) \in Enrolling
      /\ Done(w).at \in {"looking", "ending"}
      /\ Len(Done(w).items) = Len(op[w].items) - 1
      /\ Done(w).at # "ending" => Len(Done(w).items) > 0
      /\ \A n \in DOMAIN Done(w).items : Done(w).items[n] \in op[w].keys
      /\ Done(w).keys = op[w].keys
      /\ op[w] \in Enrolling /\ Len(op[w].items) \in Nat /\ Len(op[w].items) > 0
  BY <1>1, <1>2, DoneFields
<1>4. op[w].base \in Nat /\ issued \in Nat /\ op[w].base >= 1 /\ op[w].base + Len(op[w].items) =< issued + 1
  BY <1>2, <1>3, BoundAssumption DEF Enrolling, TypeOK, EnrollingOK
<1>5. op[w].base \in Ids
  <2>1. issued =< MaxRows
    BY DEF TypeOK
  <2> QED
    BY <1>3, <1>4, <2>1, BoundAssumption DEF Ids
<1>6. row \in Rows /\ row.id = op[w].base /\ row.key = Item(w) /\ row.status = "active"
  BY <1>3, <1>5, ProgressAssumption DEF Rows
<1> HIDE DEF row
<1>7. /\ o \in Enrolling /\ o.at = Done(w).at /\ o.items = Done(w).items /\ o.keys = op[w].keys
      /\ o.inserted = op[w].inserted \cup {row} /\ o.base = op[w].base + 1
  <2> DEFINE i == op[w].inserted \cup {row}
             n == op[w].base + 1
  <2>1. i \in SUBSET Rows /\ n \in Nat
    BY <1>3, <1>4, <1>6 DEF Enrolling
  <2>2. o = [Done(w) EXCEPT !.inserted = i, !.base = n]
    OBVIOUS
  <2> HIDE DEF i, n, o
  <2>3. /\ o \in Enrolling /\ o.at = Done(w).at /\ o.items = Done(w).items /\ o.keys = Done(w).keys
        /\ o.inserted = i /\ o.base = n
    BY <1>3, <2>1, <2>2 DEF Enrolling
  <2> QED
    BY <1>3, <2>3 DEF i, n
<1> HIDE DEF o
<1>8. op'[w] = o
  BY <1>1 DEF TypeOK
<1>9. IsEnrolling(w)' /\ ~IsUpdating(w)' /\ op'[w].at \notin {"checking", "saving"}
  BY <1>3, <1>7, <1>8 DEF IsEnrolling, IsUpdating
<1>10. \A r \in op[w].inserted : r.id \in Nat /\ r.id < op[w].base /\ r.key \in op[w].keys /\ r.status = "active"
  BY <1>2, <1>3, BoundAssumption DEF Enrolling, EnrollingOK, Rows, Ids
<1>11. EnrollingOK(w)'
  <2>1. op'[w].base >= 1 /\ op'[w].base + Len(op'[w].items) =< issued' + 1
    BY <1>1, <1>3, <1>4, <1>7, <1>8, SMTT(30)
  <2>2. \A r \in op'[w].inserted : r.id < op'[w].base /\ r.key \in op'[w].keys /\ r.status = "active"
    BY <1>3, <1>4, <1>6, <1>7, <1>8, <1>10
  <2>3. \A r, s \in op'[w].inserted : r.id = s.id => r = s
    BY <1>2, <1>4, <1>6, <1>7, <1>8, <1>10 DEF EnrollingOK
  <2>4. \A n \in DOMAIN op'[w].items : op'[w].items[n] \in op'[w].keys
    BY <1>3, <1>7, <1>8
  <2>5. op'[w].at # "ending" => Len(op'[w].items) > 0
    BY <1>3, <1>7, <1>8
  <2> QED
    BY <2>1, <2>2, <2>3, <2>4, <2>5 DEF EnrollingOK
<1>12. Held(w)' \subseteq Held(w)
  <2> DEFINE upto == op[w].base + Len(op[w].items) - 1
  <2>1. op[w].base + 1 + (Len(op[w].items) - 1) - 1 = upto /\ upto \in Int /\ op[w].base =< upto
    <3> DEFINE b == op[w].base
               l == Len(op[w].items)
    <3>1. b \in Nat /\ l \in Nat /\ l > 0 /\ upto = b + l - 1
      BY <1>3, <1>4
    <3> HIDE DEF b, l, upto
    <3>2. b + 1 + (l - 1) - 1 = upto /\ upto \in Int /\ b =< upto
      BY <3>1
    <3> QED
      BY <3>2 DEF b, l
  <2>2. Held(w) = {r.id : r \in op[w].inserted} \cup (op[w].base .. upto)
    BY <1>2 DEF Held
  <2>3. Held(w)' = {r.id : r \in op[w].inserted \cup {row}} \cup ((op[w].base + 1) .. upto)
    BY <1>3, <1>7, <1>8, <1>9, <2>1 DEF Held
  <2> HIDE DEF upto
  <2>4. op[w].base \in op[w].base .. upto /\ ((op[w].base + 1) .. upto) \subseteq (op[w].base .. upto)
    BY <1>4, <2>1
  <2> QED
    BY <1>6, <2>2, <2>3, <2>4
<1>13. PrerequisiteOK(w)'
  <2>1. PrerequisiteOK(w)
    BY DEF CompletionOK
  <2>2. Met(Item(w)) /\ \A r \in op[w].inserted : Met(r.key)
    BY <1>1, <1>2, <2>1 DEF PrerequisiteOK
  <2>3. \A k : Met(k) => Met(k)'
    BY <1>1 DEF Met
  <2>4. \A r \in op'[w].inserted : Met(r.key)'
    BY <1>6, <1>7, <1>8, <2>2, <2>3
  <2> QED
    BY <1>9, <2>4 DEF PrerequisiteOK
<1>14. RaceOK(w)'
  <2>1. RaceOK(w)
    BY DEF SinglesOK
  <2>2. Item(w) \notin raced => ~IsEnrolled(w)
    BY <1>1, <2>1 DEF RaceOK
  <2>3. \A r \in rows \cup op[w].inserted : r.key = Item(w) => Item(w) \in raced
    BY <2>2 DEF IsEnrolled, Visible
  <2>4. /\ \A r, s \in op'[w].inserted : r.key = s.key /\ r.key \notin raced => r = s
        /\ \A r \in op'[w].inserted, s \in rows : r.key = s.key => r.key \in raced
    BY <1>2, <1>6, <1>7, <1>8, <2>1, <2>3 DEF RaceOK
  <2> QED
    BY <1>1, <1>9, <2>4 DEF RaceOK
<1> QED
  BY <1>1, <1>2, <1>7, <1>11, <1>12, <1>13, <1>14, ListStep

\* w's request is over; the rows there are then were there, or are its own copy.
LEMMA EndStep ==
  ASSUME IInv, NEW w \in Workers, op' = [op EXCEPT ![w] = Idle],
         UNCHANGED <<issued, completed>>,
         rows' \subseteq Rows, raced \subseteq raced', raced' \subseteq Keys,
         \A s \in rows' : \/ \E r \in rows : r.id = s.id /\ r.key = s.key
                          \/ IsUpdating(w) /\ s.id = op[w].read.id /\ s.key = op[w].read.key,
         \A r, s \in rows' : r.id = s.id => r = s,
         \A s \in rows' : Met(s.key) /\ (s.status = "completed" => s.key \in completed),
         \A s \in rows' : s.key \in raced' \/ \E r \in rows : r.key = s.key,
         OneRowPerCourse'
  PROVE  IInv'
<1> USE DEF IInv
<1>1. op'[w] = Idle /\ \A v \in Workers : v # w => op'[v] = op[v]
  BY DEF TypeOK
<1>2. /\ ~IsEnrolling(w)' /\ ~IsUpdating(w)' /\ Held(w)' = {}
      /\ EnrollingOK(w)' /\ UpdatingOK(w)' /\ PrerequisiteOK(w)' /\ RaceOK(w)'
  BY <1>1, IdleOK
<1>3. TypeOK'
  BY DEF TypeOK
<1>4. WorkersOK'
  BY <1>1, <1>2, BoundAssumption, WorkersFrame DEF TypeOK
<1>5. IdsOK'
  BY <1>1, <1>2, IdsFrame DEF WorkersOK
<1>6. CompletionOK'
  BY <1>1, <1>2, CompletionFrame
<1>7. SinglesOK'
  BY <1>1, <1>2, SinglesFrame
<1> QED
  BY <1>3, <1>4, <1>5, <1>6, <1>7

\* In particular when the table keeps at most what it had.
LEMMA IdleStep ==
  ASSUME IInv, NEW w \in Workers, op' = [op EXCEPT ![w] = Idle],
         rows' \subseteq rows, UNCHANGED <<issued, completed, raced>>
  PROVE  IInv'
<1> USE DEF IInv
<1>1. rows' \subseteq Rows /\ raced' \subseteq Keys
  BY DEF TypeOK
<1>2. \A r, s \in rows' : r.id = s.id => r = s
  BY DEF IdsOK
<1>3. \A s \in rows' : Met(s.key) /\ (s.status = "completed" => s.key \in completed)
  BY DEF CompletionOK
<1>4. OneRowPerCourse'
  BY DEF SinglesOK, OneRowPerCourse
<1> QED
  BY <1>1, <1>2, <1>3, <1>4, EndStep

LEMMA CommitInv ==
  ASSUME IInv, NEW w \in Workers, Commit(w)
  PROVE  IInv'
<1> USE DEF IInv
<1>1. /\ op[w].at = "ending" /\ op' = [op EXCEPT ![w] = Idle]
      /\ rows' = rows \cup op[w].inserted /\ UNCHANGED <<issued, completed, raced>>
  BY DEF Commit
<1>2. op'[w] = Idle /\ \A v \in Workers : v # w => op'[v] = op[v]
  BY <1>1 DEF TypeOK
<1>3. /\ ~IsEnrolling(w)' /\ ~IsUpdating(w)' /\ Held(w)' = {}
      /\ EnrollingOK(w)' /\ UpdatingOK(w)' /\ PrerequisiteOK(w)' /\ RaceOK(w)'
  BY <1>2, IdleOK
<1>4. /\ IsEnrolling(w) /\ ~IsUpdating(w) /\ EnrollingOK(w) /\ op[w] \in Enrolling
      /\ op[w].inserted \subseteq Rows /\ op[w].base \in Nat /\ Len(op[w].items) \in Nat
  BY <1>1, OpTyped DEF IsEnrolling, IsUpdating, WorkersOK, Enrolling
<1>5. issued \in Nat /\ \A r \in op[w].inserted : r.id \in Nat /\ r.id \in Held(w)
  BY <1>4, BoundAssumption DEF TypeOK, Rows, Ids, Held
<1>6. TypeOK'
  BY <1>1, <1>4 DEF TypeOK
<1>7. WorkersOK'
  BY <1>1, <1>2, <1>3, <1>5, WorkersFrame
<1>8. IdsOK'
  <2>1. \A v \in Workers : v # w => Held(v)' = Held(v) /\ (IsUpdating(v)' <=> IsUpdating(v))
    BY <1>2 DEF Held, IsEnrolling, IsUpdating
  <2>2. \A r \in rows' : r.id =< issued'
    BY <1>1, <1>4, <1>5 DEF IdsOK, EnrollingOK
  <2>3. \A r \in rows, s \in op[w].inserted : r.id # s.id
    BY <1>5 DEF IdsOK
  <2>4. \A r, s \in rows' : r.id = s.id => r = s
    BY <1>1, <1>4, <2>3 DEF IdsOK, EnrollingOK
  <2>5. \A v \in Workers, r \in rows' : r.id \notin Held(v)'
    <3> SUFFICES ASSUME NEW v \in Workers, v # w, NEW r \in rows'
                 PROVE  r.id \notin Held(v)
      BY <1>3, <2>1
    <3>1. CASE r \in rows
      BY <3>1 DEF IdsOK
    <3>2. CASE r \in op[w].inserted
      BY <1>5, <3>2 DEF IdsOK
    <3> QED
      BY <1>1, <3>1, <3>2
  <2>6. \A u, v \in Workers : IsUpdating(u)' => op'[u].read.id \notin Held(v)'
    BY <1>2, <1>3, <2>1 DEF IdsOK
  <2>7. \A u, v \in Workers : u # v => Held(u)' \cap Held(v)' = {}
    BY <1>3, <2>1 DEF IdsOK
  <2>8. \A v \in Workers, r \in rows' : IsUpdating(v)' /\ r.id = op'[v].read.id => r.key = op'[v].read.key
    <3> SUFFICES ASSUME NEW v \in Workers, v # w, NEW r \in rows', IsUpdating(v), r.id = op[v].read.id
                 PROVE  r.key = op[v].read.key
      BY <1>2, <1>3, <2>1
    <3>1. r \notin op[w].inserted
      BY <1>5 DEF IdsOK
    <3> QED
      BY <1>1, <3>1 DEF IdsOK
  <2>9. \A u, v \in Workers : IsUpdating(u)' /\ IsUpdating(v)' /\ op'[u].read.id = op'[v].read.id =>
                                op'[u].read.key = op'[v].read.key
    BY <1>2, <1>3, <2>1 DEF IdsOK
  <2> QED
    BY <2>2, <2>4, <2>5, <2>6, <2>7, <2>8, <2>9 DEF IdsOK
<1>9. CompletionOK'
  <2>1. \A s \in rows' : Met(s.key) /\ (s.status = "completed" => s.key \in completed')
    BY <1>1, <1>4 DEF CompletionOK, PrerequisiteOK, EnrollingOK
  <2> QED
    BY <1>1, <1>2, <1>3, <2>1, CompletionFrame
<1>10. SinglesOK'
  <2>1. RaceOK(w)
    BY DEF SinglesOK
  <2>2. OneRowPerCourse'
    BY <1>1, <1>4, <2>1 DEF SinglesOK, OneRowPerCourse, RaceOK
  <2>3. \A s \in rows' : (\E r \in rows : r.key = s.key) \/ s.key \in op[w].keys
    BY <1>1, <1>4 DEF EnrollingOK
  <2> QED
    BY <1>1, <1>2, <1>3, <1>4, <2>2, <2>3, SinglesFrame
<1> QED
  BY <1>6, <1>7, <1>8, <1>9, <1>10

\* The changed copy: no less progress, and completed only at 100.
LEMMA ReportedFields ==
  ASSUME NEW r \in Rows, NEW p \in Progress, MayReport(r, p)
  PROVE  /\ Reported(r, p) \in Rows /\ Reported(r, p).id = r.id /\ Reported(r, p).key = r.key
         /\ Reported(r, p).progress = p /\ p >= r.progress
         /\ Reported(r, p).status = "completed" => r.status = "completed" \/ Completes(r, p)
         /\ Consistent(r) => Consistent(Reported(r, p))
<1> DEFINE status == IF Completes(r, p) THEN "completed" ELSE r.status
<1>1. r.progress \in 0..100 /\ p \in 0..100 /\ p >= r.progress /\ r.status \in {"active", "completed"}
  BY ProgressAssumption DEF Rows, MayReport
<1>2. status \in {"active", "completed"}
  BY <1>1
<1>3. Reported(r, p) = [r EXCEPT !.progress = p, !.status = status]
  BY DEF Reported, Rows
<1>4. status = "completed" => r.status = "completed" \/ Completes(r, p)
  OBVIOUS
<1>5. (r.status = "completed" <=> r.progress = 100) => (status = "completed" <=> p = 100)
  BY <1>1 DEF Completes
<1> HIDE DEF status
<1>6. /\ Reported(r, p) \in Rows /\ Reported(r, p).id = r.id /\ Reported(r, p).key = r.key
      /\ Reported(r, p).progress = p /\ Reported(r, p).status = status
  BY <1>2, <1>3 DEF Rows
<1> QED
  BY <1>1, <1>4, <1>5, <1>6 DEF Consistent

LEMMA UpdateProgressInv ==
  ASSUME IInv, NEW w \in Workers, NEW r \in rows, NEW p \in Progress, UpdateProgress(w, r, p)
  PROVE  IInv'
<1> USE DEF IInv
<1> DEFINE entity == Reported(r, p)
           o == [at |-> "loading", read |-> r, entity |-> entity, found |-> {}]
<1>1. /\ op[w] = Idle /\ op' = [op EXCEPT ![w] = o] /\ UNCHANGED <<rows, issued, raced>>
      /\ completed' = completed \cup (IF Completes(r, p) THEN {r.key} ELSE {})
      /\ MayReport(r, p)
  BY DEF UpdateProgress
<1>2. r \in Rows /\ r.key \in Keys /\ r.id \in Nat /\ issued \in Nat
  BY BoundAssumption DEF TypeOK, Rows, Ids
<1>3. /\ entity \in Rows /\ entity.id = r.id /\ entity.key = r.key
      /\ entity.progress = p /\ p >= r.progress
      /\ entity.status = "completed" => r.status = "completed" \/ Completes(r, p)
      /\ Consistent(r) => Consistent(entity)
  BY <1>1, <1>2, ReportedFields
<1> HIDE DEF entity
<1>4. o \in Updating
  BY <1>2, <1>3 DEF Updating
<1>5. op'[w] = o /\ \A v \in Workers : v # w => op'[v] = op[v]
  BY <1>1 DEF TypeOK
<1>6. op'[w].at = "loading" /\ op'[w].read = r /\ op'[w].entity = entity
  BY <1>5
<1> HIDE DEF o
<1>7. ~IsEnrolling(w)' /\ IsUpdating(w)' /\ ~IsEnrolling(w) /\ ~IsUpdating(w)
  BY <1>1, <1>6 DEF IsEnrolling, IsUpdating, Idle
<1>8. TypeOK'
  <2>1. completed' \subseteq Keys
    BY <1>1, <1>2 DEF TypeOK
  <2> QED
    BY <1>1, <1>4, <2>1 DEF TypeOK
<1>9. WorkersOK'
  <2>1. EnrollingOK(w)'
    BY <1>7 DEF EnrollingOK
  <2>2. UpdatingOK(w)'
    <3>1. r.id =< issued
      BY DEF IdsOK
    <3> QED
      BY <1>1, <1>3, <1>6, <3>1 DEF UpdatingOK, Consistent
  <2> QED
    BY <1>1, <1>2, <1>5, <2>1, <2>2, WorkersFrame
<1>10. IdsOK'
  <2>1. \A v \in Workers : v # w => Held(v)' = Held(v) /\ (IsUpdating(v)' <=> IsUpdating(v))
    BY <1>5 DEF Held, IsEnrolling, IsUpdating
  <2>2. Held(w)' = {}
    BY <1>7 DEF Held
  <2>3. \A v \in Workers : Held(v)' \subseteq Held(v)
    BY <2>1, <2>2
  <2>4. \A u, v \in Workers : IsUpdating(u)' => op'[u].read.id \notin Held(v)'
    BY <1>5, <1>6, <2>1, <2>3 DEF IdsOK
  <2>5. /\ \A s \in rows' : s.id =< issued'
        /\ \A s, t \in rows' : s.id = t.id => s = t
        /\ \A v \in Workers, s \in rows' : s.id \notin Held(v)'
        /\ \A u, v \in Workers : u # v => Held(u)' \cap Held(v)' = {}
    BY <1>1, <2>3 DEF IdsOK
  <2>6. \A v \in Workers, s \in rows' : IsUpdating(v)' /\ s.id = op'[v].read.id => s.key = op'[v].read.key
    BY <1>1, <1>5, <1>6, <2>1 DEF IdsOK
  <2>7. ASSUME NEW u \in Workers, NEW v \in Workers, IsUpdating(u)', IsUpdating(v)',
               op'[u].read.id = op'[v].read.id
        PROVE  op'[u].read.key = op'[v].read.key
    <3>1. CASE u = w
      BY <1>1, <1>6, <2>6, <2>7, <3>1
    <3>2. CASE v = w
      BY <1>1, <1>6, <2>6, <2>7, <3>2
    <3>3. CASE u # w /\ v # w
      BY <1>5, <2>1, <2>7, <3>3 DEF IdsOK
    <3> QED
      BY <3>1, <3>2, <3>3
  <2> QED
    BY <2>4, <2>5, <2>6, <2>7 DEF IdsOK
<1>11. CompletionOK'
  <2>1. Met(r.key) /\ (r.status = "completed" => r.key \in completed)
    BY DEF CompletionOK
  <2>2. completed \subseteq completed' /\ \A k : Met(k) => Met(k)'
    BY <1>1 DEF Met
  <2>3. entity.status = "completed" => r.key \in completed'
    BY <1>1, <1>3, <2>1
  <2>4. PrerequisiteOK(w)'
    BY <1>6, <1>7, <2>1, <2>2, <2>3 DEF PrerequisiteOK
  <2>5. \A s \in rows' : Met(s.key) /\ (s.status = "completed" => s.key \in completed')
    BY <1>1, <2>2 DEF CompletionOK
  <2> QED
    BY <1>5, <2>2, <2>4, <2>5, CompletionFrame
<1>12. SinglesOK'
  <2>1. OneRowPerCourse'
    BY <1>1 DEF SinglesOK, OneRowPerCourse
  <2>2. RaceOK(w)'
    BY <1>6, <1>7 DEF RaceOK
  <2> QED
    BY <1>1, <1>5, <1>7, <2>1, <2>2, SinglesFrame
<1> QED
  BY <1>8, <1>9, <1>10, <1>11, <1>12

LEMMA LoadForSaveInv ==
  ASSUME IInv, NEW w \in Workers, LoadForSave(w)
  PROVE  IInv'
<1> USE DEF IInv
<1> DEFINE found == {r \in rows : r.id = op[w].entity.id}
           o == [op[w] EXCEPT !.at = "updating", !.found = found]
<1>1. /\ op[w].at = "loading" /\ op' = [op EXCEPT ![w] = o]
      /\ UNCHANGED <<rows, issued, completed, raced>>
  BY DEF LoadForSave
<1>2. IsUpdating(w) /\ op[w] \in Updating /\ found \in SUBSET Rows
  BY <1>1, OpTyped DEF IsUpdating, TypeOK
<1> HIDE DEF found
<1>3. o \in Updating /\ o.at = "updating" /\ o.read = op[w].read /\ o.entity = op[w].entity
  BY <1>2 DEF Updating
<1> HIDE DEF o
<1>4. op'[w] = o /\ \A v \in Workers : v # w => op'[v] = op[v]
  BY <1>1 DEF TypeOK
<1>5. IsUpdating(w)' /\ ~IsEnrolling(w)' /\ ~IsEnrolling(w)
  BY <1>1, <1>3, <1>4 DEF IsUpdating, IsEnrolling
<1>6. TypeOK'
  BY <1>1, <1>3 DEF TypeOK
<1>7. UpdatingOK(w) /\ UpdatingOK(w)'
  BY <1>1, <1>2, <1>3, <1>4 DEF WorkersOK, UpdatingOK, Consistent
<1>8. WorkersOK'
  <2>1. EnrollingOK(w)' /\ issued \in Nat
    BY <1>5, BoundAssumption DEF EnrollingOK, TypeOK
  <2> QED
    BY <1>1, <1>4, <1>7, <2>1, WorkersFrame
<1>9. IdsOK'
  <2>1. Held(w)' = {}
    BY <1>5 DEF Held
  <2>2. \A r, s \in rows' : r.id = s.id => r = s
    BY <1>1 DEF IdsOK
  <2> QED
    BY <1>1, <1>2, <1>3, <1>4, <1>7, <2>1, <2>2, IdsFrame
<1>10. CompletionOK'
  <2>1. PrerequisiteOK(w)'
    <3>1. PrerequisiteOK(w)
      BY DEF CompletionOK
    <3> QED
      BY <1>1, <1>2, <1>3, <1>4, <1>5, <3>1 DEF PrerequisiteOK, Met
  <2>2. \A s \in rows' : Met(s.key) /\ (s.status = "completed" => s.key \in completed')
    BY <1>1 DEF CompletionOK
  <2> QED
    BY <1>1, <1>4, <2>1, <2>2, CompletionFrame
<1>11. SinglesOK'
  <2>1. OneRowPerCourse'
    BY <1>1 DEF SinglesOK, OneRowPerCourse
  <2>2. RaceOK(w)'
    BY <1>3, <1>4, <1>5 DEF RaceOK
  <2> QED
    BY <1>1, <1>4, <1>5, <2>1, <2>2, SinglesFrame
<1> QED
  BY <1>6, <1>8, <1>9, <1>10, <1>11

LEMMA UnenrollInv ==
  ASSUME IInv, NEW w \in Workers, NEW r \in rows, Unenroll(w, r)
  PROVE  IInv'
<1> USE DEF IInv
<1> DEFINE o == [at |-> "removing", id |-> r.id]
<1>1. /\ op[w] = Idle /\ op' = [op EXCEPT ![w] = o]
      /\ UNCHANGED <<rows, issued, completed, raced>>
  BY DEF Unenroll
<1>2. o \in Removing
  BY DEF Removing, TypeOK, Rows
<1>3. op'[w] = o /\ \A v \in Workers : v # w => op'[v] = op[v]
  BY <1>1 DEF TypeOK
<1>4. op'[w].at = "removing"
  BY <1>3
<1> HIDE DEF o
<1>5. ~IsEnrolling(w)' /\ ~IsUpdating(w)' /\ ~IsUpdating(w)
  BY <1>1, <1>4 DEF IsEnrolling, IsUpdating, Idle
<1>6. /\ Held(w)' = {} /\ EnrollingOK(w)' /\ UpdatingOK(w)' /\ UpdatingOK(w)
      /\ PrerequisiteOK(w)' /\ RaceOK(w)'
  BY <1>4, <1>5 DEF Held, EnrollingOK, UpdatingOK, PrerequisiteOK, RaceOK
<1>7. TypeOK'
  BY <1>1, <1>2 DEF TypeOK
<1>8. WorkersOK'
  BY <1>1, <1>3, <1>6, BoundAssumption, WorkersFrame DEF TypeOK
<1>9. IdsOK'
  <2>1. \A s, t \in rows' : s.id = t.id => s = t
    BY <1>1 DEF IdsOK
  <2> QED
    BY <1>1, <1>3, <1>5, <1>6, <2>1, IdsFrame
<1>10. CompletionOK'
  BY <1>1, <1>3, <1>6, CompletionFrame DEF CompletionOK
<1>11. SinglesOK'
  <2>1. OneRowPerCourse'
    BY <1>1 DEF SinglesOK, OneRowPerCourse
  <2> QED
    BY <1>1, <1>3, <1>5, <1>6, <2>1, SinglesFrame
<1> QED
  BY <1>7, <1>8, <1>9, <1>10, <1>11

\* The UPDATE changes the progress and the status, each to the entity's or not.
LEMMA PatchedFields ==
  ASSUME NEW r \in Rows, NEW e \in Rows, NEW f
  PROVE  /\ Patched(r, e, f) \in Rows /\ Patched(r, e, f).id = r.id /\ Patched(r, e, f).key = r.key
         /\ Patched(r, e, f).status \in {r.status, e.status}
         /\ f = r => Patched(r, e, f).progress = e.progress /\ Patched(r, e, f).status = e.status
<1> DEFINE progress == IF e.progress = f.progress THEN r.progress ELSE e.progress
           status == IF e.status = f.status THEN r.status ELSE e.status
<1>1. Patched(r, e, f) = [r EXCEPT !.progress = progress, !.status = status]
  BY DEF Patched, Rows
<1>2. progress \in Progress /\ status \in {"active", "completed"} /\ status \in {r.status, e.status}
  BY DEF Rows
<1>3. f = r => progress = e.progress /\ status = e.status
  OBVIOUS
<1> HIDE DEF progress, status
<1> QED
  BY <1>1, <1>2, <1>3 DEF Rows

\* Every row of the table after the UPDATE, with the row it was.
LEMMA SaveFoundRows ==
  ASSUME IInv, NEW w \in Workers, SaveFound(w), NEW s \in rows'
  PROVE  \E r \in rows : /\ s \in Rows /\ s.id = r.id /\ s.key = r.key
                         /\ s.status \in {r.status, op[w].entity.status}
                         /\ s = r \/ r.id = op[w].entity.id
                         /\ Current(w, r) /\ r.id = op[w].entity.id =>
                              s.progress = op[w].entity.progress /\ s.status = op[w].entity.status
                         /\ s = IF r.id = op[w].entity.id
                                THEN Patched(r, op[w].entity, CHOOSE f \in op[w].found : TRUE)
                                ELSE r
<1> USE DEF IInv
<1> DEFINE f == CHOOSE g \in op[w].found : TRUE
<1>1. PICK r \in rows : s = IF r.id = op[w].entity.id THEN Patched(r, op[w].entity, f) ELSE r
  BY DEF SaveFound
<1>2. r \in Rows /\ op[w].entity \in Rows
  BY OpTyped DEF SaveFound, TypeOK, Updating, IsUpdating
<1>3. Current(w, r) => f = r
  BY DEF Current
<1> HIDE DEF f
<1>4. CASE r.id = op[w].entity.id
  <2>1. s = Patched(r, op[w].entity, f)
    BY <1>1, <1>4
  <2>2. /\ s \in Rows /\ s.id = r.id /\ s.key = r.key
        /\ s.status \in {r.status, op[w].entity.status}
        /\ f = r => s.progress = op[w].entity.progress /\ s.status = op[w].entity.status
    BY <1>2, <2>1, PatchedFields
  <2> QED
    BY <1>1, <1>3, <1>4, <2>2 DEF f
<1>5. CASE r.id # op[w].entity.id
  BY <1>1, <1>2, <1>5 DEF f
<1> QED
  BY <1>4, <1>5

LEMMA SaveFoundInv ==
  ASSUME IInv, NEW w \in Workers, SaveFound(w)
  PROVE  IInv'
<1> USE DEF IInv
<1>1. /\ op[w].at = "updating" /\ op' = [op EXCEPT ![w] = Idle]
      /\ UNCHANGED <<issued, completed, raced>>
  BY DEF SaveFound
<1>2. IsUpdating(w) /\ UpdatingOK(w) /\ PrerequisiteOK(w)
  BY <1>1 DEF IsUpdating, WorkersOK, CompletionOK
<1>3. rows' \subseteq Rows
  BY SaveFoundRows
<1>4. \A s \in rows' : \E r \in rows : r.id = s.id /\ r.key = s.key
  BY SaveFoundRows
<1>5. \A s, t \in rows' : \A r \in rows : r.id = s.id /\ r.id = t.id => s = t
  <2> SUFFICES ASSUME NEW s \in rows', NEW t \in rows', NEW r \in rows, r.id = s.id, r.id = t.id
               PROVE  s = t
    OBVIOUS
  <2> DEFINE image(q) == IF q.id = op[w].entity.id
                         THEN Patched(q, op[w].entity, CHOOSE f \in op[w].found : TRUE)
                         ELSE q
  <2>1. PICK x \in rows : s.id = x.id /\ s = image(x)
    BY SaveFoundRows, ZenonT(30)
  <2>2. PICK y \in rows : t.id = y.id /\ t = image(y)
    BY SaveFoundRows
  <2> HIDE DEF image
  <2>3. x.id = y.id
    BY <2>1, <2>2
  <2>4. x = y
    BY <2>3 DEF IdsOK
  <2> QED
    BY <2>1, <2>2, <2>4, Zenon
<1>6. \A s, t \in rows' : s.id = t.id => s = t
  BY <1>4, <1>5
<1>7. \A s \in rows' : Met(s.key) /\ (s.status = "completed" => s.key \in completed)
  <2> SUFFICES ASSUME NEW s \in rows'
               PROVE  Met(s.key) /\ (s.status = "completed" => s.key \in completed)
    OBVIOUS
  <2>1. PICK r \in rows : /\ s.id = r.id /\ s.key = r.key
                          /\ s.status \in {r.status, op[w].entity.status}
                          /\ s = r \/ r.id = op[w].entity.id
    BY SaveFoundRows
  <2>2. Met(r.key) /\ (r.status = "completed" => r.key \in completed)
    BY DEF CompletionOK
  <2>3. CASE s = r
    BY <2>2, <2>3
  <2>4. CASE r.id = op[w].entity.id
    <3>1. r.key = op[w].read.key
      BY <1>2, <2>4 DEF UpdatingOK, IdsOK
    <3>2. op[w].entity.status = "completed" => r.key \in completed
      BY <1>2, <3>1 DEF PrerequisiteOK
    <3> QED
      BY <2>1, <2>2, <3>2
  <2> QED
    BY <2>1, <2>3, <2>4
<1>8. OneRowPerCourse'
  <2> SUFFICES ASSUME NEW s \in rows', NEW t \in rows', s.key = t.key, s.key \notin raced
               PROVE  s = t
    BY <1>1 DEF OneRowPerCourse
  <2>1. PICK x \in rows : x.id = s.id /\ x.key = s.key
    BY <1>4
  <2>2. PICK y \in rows : y.id = t.id /\ y.key = t.key
    BY <1>4
  <2>3. x = y
    BY <2>1, <2>2 DEF SinglesOK, OneRowPerCourse
  <2> QED
    BY <1>5, <2>1, <2>2, <2>3
<1>9. raced \subseteq Keys
  BY DEF TypeOK
<1> QED
  BY <1>1, <1>3, <1>4, <1>6, <1>7, <1>8, <1>9, EndStep

LEMMA SaveGoneInv ==
  ASSUME IInv, NEW w \in Workers, SaveGone(w)
  PROVE  IInv'
<1> USE DEF IInv
<1> DEFINE e == op[w].entity
<1>1. /\ op[w].at = "updating" /\ op' = [op EXCEPT ![w] = Idle]
      /\ UNCHANGED <<issued, completed>> /\ raced' = raced \cup {e.key}
      /\ rows' = rows \cup (IF \E r \in rows : r.id = e.id THEN {} ELSE {e})
  BY DEF SaveGone
<1>2. IsUpdating(w) /\ UpdatingOK(w) /\ PrerequisiteOK(w) /\ op[w] \in Updating
  BY <1>1, OpTyped DEF IsUpdating, WorkersOK, CompletionOK
<1>3. e \in Rows /\ e.key \in Keys
  BY <1>2 DEF Updating, Rows
<1>4. e.id = op[w].read.id /\ e.key = op[w].read.key
  BY <1>2 DEF UpdatingOK
<1>5. Met(e.key) /\ (e.status = "completed" => e.key \in completed)
  BY <1>2, <1>4 DEF PrerequisiteOK
<1> HIDE DEF e
<1>6. rows' \subseteq Rows /\ raced' \subseteq Keys
  BY <1>1, <1>3 DEF TypeOK
<1>7. \A s \in rows' : s \in rows \/ s = e
  BY <1>1
<1>8. \A s, t \in rows' : s.id = t.id => s = t
  BY <1>1 DEF IdsOK
<1>9. \A s \in rows' : Met(s.key) /\ (s.status = "completed" => s.key \in completed)
  BY <1>5, <1>7 DEF CompletionOK
<1>10. OneRowPerCourse'
  BY <1>1, <1>7 DEF SinglesOK, OneRowPerCourse
<1> QED
  BY <1>1, <1>2, <1>4, <1>6, <1>7, <1>8, <1>9, <1>10, EndStep

LEMMA StepInv == IInv /\ [Next]_vars => IInv'
<1> SUFFICES ASSUME IInv, [Next]_vars
             PROVE  IInv'
  OBVIOUS
<1>1. ASSUME NEW w \in Workers, Request(w)
      PROVE  IInv'
  <2>1. CASE \E k \in Keys : Enroll(w, k)
    <3>1. PICK k \in Keys : Begin(w, <<k>>, FALSE)
      BY <2>1 DEF Enroll
    <3>2. <<k>> \in Seq(Keys) /\ Len(<<k>>) > 0
      OBVIOUS
    <3> QED
      BY <3>1, <3>2, BeginInv
  <2>2. CASE \E n \in 1..MaxItems : \E items \in [1..n -> Keys] : BulkEnroll(w, items)
    <3>1. PICK n \in 1..MaxItems : \E items \in [1..n -> Keys] : BulkEnroll(w, items)
      BY <2>2
    <3>2. PICK items \in [1..n -> Keys] : Begin(w, items, TRUE)
      BY <3>1 DEF BulkEnroll
    <3>3. n \in Nat /\ n > 0
      BY BoundAssumption
    <3>4. items \in Seq(Keys) /\ Len(items) > 0
      BY <3>3
    <3> QED
      BY <3>2, <3>4, BeginInv
  <2>3. CASE \E r \in rows : Unenroll(w, r)
    BY <2>3, UnenrollInv
  <2>4. CASE \E r \in rows, p \in Progress : UpdateProgress(w, r, p)
    BY <2>4, UpdateProgressInv
  <2> QED
    BY <1>1, <2>1, <2>2, <2>3, <2>4 DEF Request
<1>2. ASSUME NEW w \in Workers, Continue(w)
      PROVE  IInv'
  <2>1. CASE Rollback(w)
    BY <2>1, IdleStep DEF Rollback
  <2>2. CASE DeleteRow(w)
    <3>1. op' = [op EXCEPT ![w] = Idle] /\ rows' \subseteq rows /\ UNCHANGED <<issued, completed, raced>>
      BY <2>2 DEF DeleteRow
    <3> QED
      BY <3>1, IdleStep
  <2> QED
    BY <1>2, <2>1, <2>2, FindExistingInv, ValidatePrerequisitesInv, SaveNewInv, CommitInv,
       LoadForSaveInv, SaveFoundInv, SaveGoneInv DEF Continue
<1>3. ASSUME NEW w \in Workers, Fail(w)
      PROVE  IInv'
  BY <1>3, IdleStep DEF Fail
<1>4. CASE UNCHANGED vars
  <2> USE <1>4 DEF IInv, vars
  <2>1. TypeOK'
    BY DEF TypeOK
  <2>2. WorkersOK'
    BY DEF WorkersOK, EnrollingOK, UpdatingOK, IsEnrolling, IsUpdating, Consistent
  <2>3. IdsOK'
    BY DEF IdsOK, Held, IsEnrolling, IsUpdating
  <2>4. CompletionOK'
    BY DEF CompletionOK, PrerequisiteOK, Met, IsEnrolling, IsUpdating, Item
  <2>5. SinglesOK'
    BY DEF SinglesOK, OneRowPerCourse, RaceOK, IsEnrolling, IsEnrolled, Visible, Item
  <2> QED
    BY <2>1, <2>2, <2>3, <2>4, <2>5
<1> QED
  BY <1>1, <1>2, <1>3, <1>4 DEF Next

-----------------------------------------------------------------------------
\* IInv is what every statement keeps: types, one meaning per id, the announced
\* prerequisites, and what a transaction inserted without a race.
THEOREM Invariance == Spec => []IInv
  BY InitInv, StepInv, PTL DEF Spec

\* Ids stay within those issued, progress within what clients may report, and a
\* list is never looked at beyond its end, for any lists and bounds.
THEOREM TypeTheorem == Spec => []TypeOK
<1>1. IInv => TypeOK
  BY DEF IInv
<1> QED
  BY <1>1, Invariance, PTL

\* For any number of requests: a user has two rows for a course only if two
\* requests enrolled him at once or a late save put a deleted row back.
THEOREM OneRowTheorem == Spec => []OneRowPerCourse
<1>1. IInv => OneRowPerCourse
  BY DEF IInv, SinglesOK
<1> QED
  BY <1>1, Invariance, PTL

\* For any prerequisites: whoever is enrolled was announced to have completed
\* what the course requires.
THEOREM PrerequisiteTheorem == Spec => []EnrolledAfterPrerequisite
<1>1. IInv => EnrolledAfterPrerequisite
  BY DEF IInv, CompletionOK, Met, EnrolledAfterPrerequisite
<1> QED
  BY <1>1, Invariance, PTL

\* Progress falls, or the status and the progress of a row part, only by a save
\* one of whose two readings was overtaken.
THEOREM StaleSaveTheorem == Spec => OnlyStaleSavesDamage
<1> DEFINE Kept == \A r \in rows, s \in rows' :
                     r.id = s.id => \/ s.progress >= r.progress /\ (Consistent(r) => Consistent(s))
                                    \/ \E w \in Workers : /\ op[w].at = "updating"
                                                         /\ op[w].entity.id = r.id
                                                         /\ ~Current(w, r)
<1>1. \A p \in Progress : p \in Int
  BY ProgressAssumption
<1>2. IInv /\ IInv' /\ [Next]_vars => [Kept]_vars
  <2> SUFFICES ASSUME IInv, IInv', Next, NEW r \in rows, NEW s \in rows', r.id = s.id
               PROVE  \/ s.progress >= r.progress /\ (Consistent(r) => Consistent(s))
                      \/ \E w \in Workers : /\ op[w].at = "updating"
                                           /\ op[w].entity.id = r.id
                                           /\ ~Current(w, r)
    OBVIOUS
  <2> USE DEF IInv
  <2>1. r.progress \in Int
    <3>1. r.progress \in Progress
      BY DEF TypeOK, Rows
    <3> QED
      BY <1>1, <3>1
  <2>2. CASE s = r
    BY <2>1, <2>2
  <2>3. CASE s # r
    <3>1. r \notin rows'
      BY <2>3 DEF IdsOK
    <3>2. s \notin rows
      BY <2>3 DEF IdsOK
    <3>3. PICK w \in Workers : SaveFound(w)
      <4>1. ASSUME NEW w \in Workers, Request(w)
            PROVE  rows' = rows
        BY <4>1 DEF Request, Enroll, BulkEnroll, Begin, Unenroll, UpdateProgress
      <4>2. ASSUME NEW w \in Workers, Continue(w), ~SaveFound(w)
            PROVE  rows \subseteq rows' \/ rows' \subseteq rows
        BY <4>2 DEF Continue, FindExisting, ValidatePrerequisites, SaveNew, Commit, Rollback,
                    LoadForSave, SaveGone, DeleteRow
      <4>3. ASSUME NEW w \in Workers, Fail(w)
            PROVE  rows' = rows
        BY <4>3 DEF Fail
      <4> QED
        BY <3>1, <3>2, <4>1, <4>2, <4>3 DEF Next
    <3>4. op[w].at = "updating" /\ UpdatingOK(w)
      BY <3>3 DEF SaveFound, WorkersOK
    <3>5. PICK q \in rows : /\ s.id = q.id /\ (s = q \/ q.id = op[w].entity.id)
                            /\ Current(w, q) /\ q.id = op[w].entity.id =>
                                 s.progress = op[w].entity.progress /\ s.status = op[w].entity.status
      BY <3>3, SaveFoundRows
    <3>6. q = r /\ r.id = op[w].entity.id
      BY <2>3, <3>5 DEF IdsOK
    <3>7. CASE Current(w, r)
      <4>1. s.progress = op[w].entity.progress /\ s.status = op[w].entity.status
        BY <3>5, <3>6, <3>7
      <4>2. op[w].read = r
        BY <3>7 DEF Current
      <4>3. op[w].entity.progress >= r.progress /\ (Consistent(r) => Consistent(op[w].entity))
        BY <3>4, <4>2 DEF UpdatingOK, IsUpdating
      <4> QED
        BY <4>1, <4>3 DEF Consistent
    <3> QED
      BY <3>4, <3>6, <3>7
  <2> QED
    BY <2>2, <2>3
<1> QED
  BY <1>2, Invariance, PTL DEF Spec, OnlyStaleSavesDamage
=============================================================================
