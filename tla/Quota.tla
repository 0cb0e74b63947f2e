------------------------------- MODULE Quota -------------------------------
(***************************************************************************)
(* QuotaTrackingService: the counters behind the QuotaGuard every request  *)
(* passes.  A client has one row per period, which a unique index on the   *)
(* client and the period enforces; a row ends with its window and is then  *)
(* deleted and made anew, by whoever finds it first.                       *)
(*                                                                         *)
(* A worker is one request at a time and takes one statement per action.   *)
(* It keeps the time it began at, and copies of the rows it has read.      *)
(***************************************************************************)
EXTENDS Integers, Sequences, FiniteSets

CONSTANTS Workers,
          Clients,      \* identifiers: user:... or ip:...
          Periods,      \* the order in which the windows are read
          Length,       \* of each period's window, in instants
          Limit,        \* of each period, for an idle machine
          Loads,        \* of each period: the percentages of it the CPU's load leaves
          MaxTime,      \* bound: the last instant
          MaxRequests   \* bound: as many requests are ever begun

Period == {Periods[i] : i \in DOMAIN Periods}

ASSUME PeriodAssumption == /\ Len(Periods) \in Nat \ {0} /\ DOMAIN Periods = 1..Len(Periods)
                           /\ \A i, j \in DOMAIN Periods : Periods[i] = Periods[j] => i = j
                           /\ Length \in [Period -> Nat \ {0}]
ASSUME LimitAssumption == /\ Limit \in [Period -> Nat \ {0}]
                          /\ \A p \in Period : Loads[p] \subseteq 0..100 /\ 100 \in Loads[p]
ASSUME BoundAssumption == MaxTime \in Nat /\ MaxRequests \in Nat
ASSUME WorkersAssumption == IsFiniteSet(Workers)

VARIABLES clock,
          rows,     \* the table user_quota_usage
          op,       \* where each worker is in its request
          begun,    \* how many requests have begun
          issued    \* the newest row's id; uuids in the code, in order of creation here

vars == <<clock, rows, op, begun, issued>>

Times == 0..MaxTime

Rows == [id : Nat, client : Clients, period : Period, end : Nat, count : Nat, blocked : BOOLEAN]

Idle == [at |-> "idle"]

\* limits: the adjusted ones; read: the copies so far, in the order of Periods;
\* expired: the row to delete; looked: the newest id there was when this period's
\* row was looked for.
Reading == [at : {"reading", "deleting", "saving"}, client : Clients, status : BOOLEAN,
            now : Times, limits : [Period -> Nat], read : Seq(Rows),
            expired : Nat, looked : Nat]

\* left: the copies of the rows still to be updated.
Updating == [at : {"counting", "marking"}, left : SUBSET Rows]

TypeOK == /\ clock \in Times
          /\ rows \subseteq Rows
          /\ op \in [Workers -> {Idle} \cup Reading \cup Updating]
          /\ begun \in 0..MaxRequests
          /\ issued \in Nat
          /\ \A r \in rows : r.id =< issued
          /\ \A r, s \in rows : r.id = s.id \/ (r.client = s.client /\ r.period = s.period) => r = s

Init == /\ clock = 0
        /\ rows = {}
        /\ op = [w \in Workers |-> Idle]
        /\ begun = 0
        /\ issued = 0

-----------------------------------------------------------------------------
\* adjustLimit: each period's limit is scaled by a reading of the CPU's load of its own.
Readings == {loads \in [Period -> UNION {Loads[p] : p \in Period}] :
               \A p \in Period : loads[p] \in Loads[p]}

Adjusted(p, load) == (Limit[p] * load) \div 100

\* The limits are settled and the request takes its time.
Begin(w, client, loads, status) ==
  /\ op[w] = Idle
  /\ begun < MaxRequests
  /\ begun' = begun + 1
  /\ op' = [op EXCEPT ![w] = [at |-> "reading", client |-> client, status |-> status,
                              now |-> clock,
                              limits |-> [p \in Period |-> Adjusted(p, loads[p])],
                              read |-> <<>>, expired |-> 0, looked |-> 0]]
  /\ UNCHANGED <<clock, rows, issued>>

CheckAndIncrement(w, client, loads) == Begin(w, client, loads, FALSE)

\* getStatus reads, and makes, the same rows; its limits only go into the answer.
GetStatus(w, client) == Begin(w, client, [p \in Period |-> 100], TRUE)

\* The period whose row w is looking for.
Current(w) == Periods[Len(op[w].read) + 1]

\* computeWindow: the end is the window's last instant, not the next one's first.
WindowEnd(p, now) == (now \div Length[p]) * Length[p] + Length[p] - 1

\* A mutant: the last request over the limit.
WithinOrAt(o, r) == r.count =< o.limits[r.period]

Within(o, r) == r.count < o.limits[r.period]

IsBlocked(o, r) == r.blocked /\ r.end > o.now

\* What follows when all rows are read, with no statement in between.
Decided(o) ==
  LET windows == {o.read[i] : i \in DOMAIN o.read}
      over == {r \in windows : ~Within(o, r)}
  IN  CASE o.status \/ (\E r \in windows : IsBlocked(o, r)) -> Idle
        [] ~o.status /\ (\A r \in windows : ~IsBlocked(o, r)) /\ over = {} ->
             [at |-> "counting", left |-> windows]
        [] OTHER -> [at |-> "marking", left |-> over]

\* w has the row of the current period and goes on to the next.
Got(w, r) ==
  LET o == [op[w] EXCEPT !.at = "reading", !.read = Append(@, r), !.expired = 0, !.looked = 0]
  IN  IF Len(o.read) < Len(Periods) THEN o ELSE Decided(o)

Own(w) == {r \in rows : r.client = op[w].client /\ r.period = Current(w)}

FindUsage(w) ==
  /\ op[w].at = "reading"
  /\ UNCHANGED <<clock, rows, begun, issued>>
  /\ \/ \E r \in Own(w) : r.end > op[w].now /\ op' = [op EXCEPT ![w] = Got(w, r)]
     \/ \E r \in Own(w) : /\ r.end =< op[w].now
                          /\ op' = [op EXCEPT ![w].at = "deleting", ![w].expired = r.id,
                                              ![w].looked = issued]
     \/ Own(w) = {} /\ op' = [op EXCEPT ![w].at = "saving", ![w].looked = issued]

\* Mutants: the client's row of the period goes, whichever it is now; none does.
WholePeriod(w) == Own(w)
NoRow(w) == {}

ExpiredRows(w) == {r \in rows : r.id = op[w].expired}

DeleteExpired(w) ==
  /\ op[w].at = "deleting"
  /\ rows' = rows \ ExpiredRows(w)
  /\ op' = [op EXCEPT ![w].at = "saving"]
  /\ UNCHANGED <<clock, begun, issued>>

SaveUsage(w) ==
  LET r == [id |-> issued + 1, client |-> op[w].client, period |-> Current(w),
            end |-> WindowEnd(Current(w), op[w].now), count |-> 0, blocked |-> FALSE]
  IN  /\ op[w].at = "saving"
      /\ Own(w) = {}
      /\ rows' = rows \cup {r}
      /\ issued' = issued + 1
      /\ op' = [op EXCEPT ![w] = Got(w, r)]
      /\ UNCHANGED <<clock, begun>>

Failed(w) == Idle

\* The unique index refuses the row, and the guard throws.
SaveRefused(w) ==
  /\ op[w].at = "saving"
  /\ Own(w) # {}
  /\ op' = [op EXCEPT ![w] = Failed(w)]
  /\ UNCHANGED <<clock, rows, begun, issued>>

\* The three increments are sent at once and arrive in any order.
Increment(w) ==
  /\ op[w].at = "counting"
  /\ UNCHANGED <<clock, begun, issued>>
  /\ \E s \in op[w].left :
       /\ rows' = {IF r.id = s.id THEN [r EXCEPT !.count = @ + 1] ELSE r : r \in rows}
       /\ op' = [op EXCEPT ![w] = IF op[w].left = {s} THEN Idle
                                              ELSE [op[w] EXCEPT !.left = @ \ {s}]]

\* A mutant: the update says which client and which periods, not which rows.
OverByPeriod(w) ==
  {r \in rows : \E s \in op[w].left : s.client = r.client /\ s.period = r.period}

Over(w) == {r \in rows : \E s \in op[w].left : s.id = r.id}

MarkOverage(w) ==
  /\ op[w].at = "marking"
  /\ rows' = {IF r \in Over(w) THEN [r EXCEPT !.blocked = TRUE] ELSE r : r \in rows}
  /\ op' = [op EXCEPT ![w] = Idle]
  /\ UNCHANGED <<clock, begun, issued>>

-----------------------------------------------------------------------------
\* An administrator resets one period of a client or all of them.
ResetUser(client, ps) ==
  /\ rows' = {r \in rows : r.client # client \/ r.period \notin ps}
  /\ UNCHANGED <<clock, op, begun, issued>>

\* The scheduler's, or an administrator's.
ResetExpiredWindows(p) ==
  /\ rows' = {r \in rows : r.period # p \/ r.end >= clock}
  /\ UNCHANGED <<clock, op, begun, issued>>

Tick == /\ clock < MaxTime
        /\ clock' = clock + 1
        /\ UNCHANGED <<rows, op, begun, issued>>

Request(w) == \E client \in Clients :
                \/ \E loads \in Readings : CheckAndIncrement(w, client, loads)
                \/ GetStatus(w, client)

Continue(w) == \/ FindUsage(w)
               \/ DeleteExpired(w)
               \/ SaveUsage(w)
               \/ SaveRefused(w)
               \/ Increment(w)
               \/ MarkOverage(w)

Reset == \/ \E client \in Clients, ps \in {Period} \cup {{p} : p \in Period} : ResetUser(client, ps)
         \/ \E p \in Period : ResetExpiredWindows(p)

Next == Tick \/ Reset \/ \E w \in Workers : Request(w) \/ Continue(w)

Spec == Init /\ [][Next]_vars

-----------------------------------------------------------------------------
\* The check (lines 54 to 57) looks at copies and the increment (61) comes later, so
\* a window takes more than its limit; but every request beyond the last needs
\* another one in flight with it.
OvershootIsBounded ==
  \A r \in rows : r.count < Limit[r.period] + Cardinality(Workers)

\* A row is blocked only when as many requests as one of the adjusted limits were
\* counted in that very row: a request that saw the window before this one full
\* (line 165 updates by id) does not block a new window.
BlockedRowsWereFull ==
  \A r \in rows : r.blocked => \E load \in Loads[r.period] : r.count >= Adjusted(r.period, load)

\* Apart from an administrator's reset, a row is deleted only in or after the
\* last instant of its window: nobody deletes the new row that replaced the
\* expired one he read (line 220 deletes by id, the scheduler before its clock).
OnlyEndedWindowsVanish ==
  [][\A r \in rows : \/ \E s \in rows' : s.id = r.id
                     \/ r.end =< clock
                     \/ \E client \in Clients, ps \in SUBSET Period : ResetUser(client, ps)]_vars

\* The unique index refuses a request's insertion (line 233) only when another
\* request inserted the row after this one had looked for it: a client that sends
\* one request at a time never gets the error.
RefusedOnlyWhenRaced ==
  \A w \in Workers : op[w].at = "saving" => \A r \in Own(w) : r.id > op[w].looked

\* What the comment of line 29 promises of checkAndIncrement, "Atomically
\* increment the user's counters and check if they are within quota".
CountedWithinQuota == \A r \in rows : r.count =< Limit[r.period]
=============================================================================
