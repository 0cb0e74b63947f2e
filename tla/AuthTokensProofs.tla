-------------------------- MODULE AuthTokensProofs --------------------------
(***************************************************************************)
(* Theorems about AuthTokens, for any workers, users, lives and bounds.    *)
(***************************************************************************)
EXTENDS AuthTokens, TLAPS

\* Rounding up to seconds never shortens a time.
LEMMA RoundedUp ==
  ASSUME NEW a \in Nat \ {0}, NEW s \in Nat \ {0}
  PROVE  (a + s - 1) \div s \in Nat /\ ((a + s - 1) \div s) * s >= a
OBVIOUS

LEMMA Product ==
  ASSUME NEW a \in Nat, NEW s \in Nat \ {0}
  PROVE  a * s \in Nat
OBVIOUS

-----------------------------------------------------------------------------
\* What a request has in hand at each place of its course.
LoginOK(o) == /\ o.at = "storing"
              /\ o.old = NoPair
              /\ o.new \in DOMAIN pairs /\ pairs[o.new].root = o.new

RefreshOK(o) == /\ o.at \in {"checking", "blacklisting", "revoking", "storing"}
                /\ o.new # NoPair
                /\ o.old \in given
                /\ pairs[o.old].user = o.user
                /\ pairs[o.old].root \notin loggedOut
                /\ o.at = "storing" => /\ o.new \in DOMAIN pairs
                                       /\ pairs[o.new].root = pairs[o.old].root
                /\ o.at \in {"checking", "blacklisting"} => o.new \notin DOMAIN pairs

LogoutOK(o) == /\ o.at \in {"guarding", "blacklisting", "revoking"}
               /\ o.old \in given
               /\ o.new = NoPair

RequestOK(o) == /\ o.kind = "login" => LoginOK(o)
                /\ o.kind = "refresh" => RefreshOK(o)
                /\ o.kind = "logout" => LogoutOK(o)
                /\ o.at = "storing" => pairs[o.new].user = o.user /\ o.new \notin given
                /\ o.new =< issued

RequestsOK == \A w \in Workers : op[w] # Idle => RequestOK(op[w])

\* A number is reserved by one request.
NumbersDiffer ==
  \A v, w \in Workers :
    v # w /\ op[v] # Idle /\ op[w] # Idle /\ op[v].new # NoPair => op[v].new # op[w].new

PairsOK == /\ \A n \in given : pairs[n].root \in given
           /\ \A n \in DOMAIN pairs : /\ pairs[n].root \in DOMAIN pairs
                                      /\ pairs[pairs[n].root].user = pairs[n].user
           /\ \A u \in Users : stored[u] # NoPair => pairs[stored[u]].user = u

\* The TTL a request is about to send reaches the token's expiry.
SentTTLIsEnough ==
  \A w \in Workers : op[w] # Idle /\ op[w].at = "blacklisting"
                       => clock + op[w].ttl * Second >=
                            Expiry([kind |-> IF op[w].kind = "refresh" THEN "refresh" ELSE "access",
                                    pair |-> op[w].old])

EntriesOfGiven == \A t \in DOMAIN until : t.pair \in given

SharedIsRaced ==
  \A v, w \in Workers, n \in given : v # w /\ Refreshing(v, n) /\ Refreshing(w, n) => n \in raced

\* A blacklisted refresh token is no user's stored one, but for a request that is
\* storing its successor or an accident.
RotatedIsNotStored ==
  \A n \in given : Refresh(n) \in DOMAIN until =>
    \/ n \in raced
    \/ stored[pairs[n].user] # n
    \/ \E v \in Workers : Refreshing(v, n) /\ op[v].at = "storing"

UncheckedIsNotBlacklisted ==
  \A w \in Workers, n \in given :
    Refreshing(w, n) /\ op[w].at \in {"checking", "blacklisting"} /\ Refresh(n) \in DOMAIN until
      => n \in raced

IInv == /\ TypeOK
        /\ RequestsOK
        /\ NumbersDiffer
        /\ PairsOK
        /\ SentTTLIsEnough
        /\ EntriesOfGiven
        /\ SharedIsRaced
        /\ RotatedIsNotStored
        /\ UncheckedIsNotBlacklisted
        /\ RevocationHolds
        /\ BlacklistedUntilExpired
        /\ ReuseHasACause

LEMMA InitInv == Init => IInv
BY BoundAssumption
   DEF Init, IInv, TypeOK, RequestsOK, NumbersDiffer, PairsOK, SentTTLIsEnough, EntriesOfGiven,
       SharedIsRaced, RotatedIsNotStored, UncheckedIsNotBlacklisted, RevocationHolds,
       BlacklistedUntilExpired, ReuseHasACause, Times, Tokens, Pairs, Idle

LEMMA RequestTyped ==
  ASSUME TypeOK, NEW w \in Workers, op[w] # Idle
  PROVE  op[w] \in Requests
BY DEF TypeOK

\* Signing a new pair leaves the others as they are.
LEMMA Signing ==
  ASSUME TypeOK, NEW o \in Requests, o.new \in Ids, o.new \notin DOMAIN pairs,
         o.old # NoPair => o.old \in DOMAIN pairs, pairs' = WithPair(o)
  PROVE  /\ DOMAIN pairs' = DOMAIN pairs \cup {o.new}
         /\ \A n \in DOMAIN pairs : pairs'[n] = pairs[n]
         /\ pairs'[o.new].user = o.user
         /\ pairs'[o.new].root = IF o.old = NoPair THEN o.new ELSE pairs[o.old].root
         /\ pairs' \in [DOMAIN pairs' -> Pairs]
<1>1. clock \div Second \in Nat
  BY TimeAssumption DEF TypeOK, Times
<1>2. Signed(o) \in Pairs
  BY <1>1 DEF Signed, Pairs, Requests, TypeOK, Ids, NoPair
<1> QED
  BY <1>2 DEF WithPair, Signed, TypeOK

LEMMA LoginInv ==
  ASSUME IInv, NEW w \in Workers, NEW u \in Users, Login(w, u)
  PROVE  IInv'
<1> DEFINE o == [kind |-> "login", at |-> "storing", user |-> u, old |-> NoPair,
                 new |-> issued + 1, ttl |-> 0]
<1> USE DEF IInv
<1>1. o \in Requests /\ o.new \in Ids /\ o.new \notin DOMAIN pairs
  BY BoundAssumption DEF Login, TypeOK, Requests, Ids, NoPair
<1>2. /\ DOMAIN pairs' = DOMAIN pairs \cup {o.new}
      /\ \A n \in DOMAIN pairs : pairs'[n] = pairs[n]
      /\ pairs'[o.new].user = o.user
      /\ pairs'[o.new].root = o.new
      /\ pairs' \in [DOMAIN pairs' -> Pairs]
  BY <1>1, Signing DEF Login
<1>3. op' = [op EXCEPT ![w] = o] /\ issued' = issued + 1 /\ issued \in Nat
  BY BoundAssumption DEF Login, TypeOK
<1>4. /\ op[w] = Idle
      /\ UNCHANGED <<clock, stored, until, given, failures, raced, loggedOut>>
  BY DEF Login, history
<1> HIDE DEF o
<1>5. TypeOK'
  BY <1>1, <1>2, <1>3, <1>4 DEF TypeOK, Ids, Login
<1>6. RequestsOK'
  BY <1>1, <1>2, <1>3, <1>4 DEF TypeOK, RequestsOK, RequestOK, LoginOK, RefreshOK, LogoutOK, o, Ids, NoPair, Requests
<1>7. NumbersDiffer'
  BY <1>1, <1>2, <1>3, <1>4, RequestTyped DEF TypeOK, RequestsOK, RequestOK, NumbersDiffer, o, Ids, NoPair, Requests
<1>8. PairsOK'
  BY <1>2, <1>4 DEF TypeOK, PairsOK, NoPair
<1>9. SentTTLIsEnough'
  BY <1>1, <1>2, <1>3, <1>4 DEF TypeOK, RequestsOK, RequestOK, LoginOK, RefreshOK, LogoutOK, SentTTLIsEnough, Expiry, o, Requests
<1>10. EntriesOfGiven' /\ BlacklistedUntilExpired'
  BY <1>2, <1>4 DEF TypeOK, EntriesOfGiven, BlacklistedUntilExpired, Expiry
<1>11. SharedIsRaced' /\ RotatedIsNotStored' /\ UncheckedIsNotBlacklisted'
  BY <1>2, <1>3, <1>4 DEF TypeOK, SharedIsRaced, RotatedIsNotStored, UncheckedIsNotBlacklisted, Refreshing, Refresh, o
<1>12. RevocationHolds' /\ ReuseHasACause'
  BY <1>2, <1>3, <1>4 DEF TypeOK, RevocationHolds, ReuseHasACause, NoPair, o, Idle
<1> QED
  BY <1>5, <1>6, <1>7, <1>8, <1>9, <1>10, <1>11, <1>12

LEMMA BeginRefreshInv ==
  ASSUME IInv, NEW w \in Workers, NEW n \in given, BeginRefresh(w, n)
  PROVE  IInv'
<1> DEFINE o == [kind |-> "refresh", at |-> "checking", user |-> pairs[n].user,
                 old |-> n, new |-> issued + 1, ttl |-> 0]
<1> USE DEF IInv
<1>1. o \in Requests /\ o.new \in Ids /\ o.new \notin DOMAIN pairs /\ n \in DOMAIN pairs
  BY BoundAssumption DEF BeginRefresh, TypeOK, Requests, Ids, NoPair, Pairs
<1>2. /\ op[w] = Idle
      /\ op' = [op EXCEPT ![w] = o]
      /\ issued' = issued + 1 /\ issued \in Nat /\ issued < MaxPairs
      /\ stored[pairs[n].user] = n
      /\ UNCHANGED <<clock, pairs, stored, until, given, failures, loggedOut>>
  BY BoundAssumption DEF BeginRefresh, TypeOK, Matches
<1>3. /\ \/ raced' = raced
         \/ raced' = raced \cup {n}
      /\ (\E v \in Workers : Refreshing(v, n)) => n \in raced'
  BY DEF BeginRefresh
<1> HIDE DEF o
<1>4. TypeOK'
  BY <1>1, <1>2, <1>3, BoundAssumption DEF TypeOK, Ids
<1>5. RequestsOK'
  BY <1>1, <1>2 DEF TypeOK, RequestsOK, RequestOK, LoginOK, RefreshOK, LogoutOK, PairsOK, RevocationHolds,
                    o, Ids, NoPair, Requests, Pairs
<1>6. NumbersDiffer'
  BY <1>1, <1>2, RequestTyped DEF TypeOK, RequestsOK, RequestOK, NumbersDiffer, o, Ids, NoPair, Requests
<1>7. PairsOK' /\ EntriesOfGiven' /\ RevocationHolds'
  BY <1>2 DEF PairsOK, EntriesOfGiven, RevocationHolds
<1>8. SentTTLIsEnough' /\ BlacklistedUntilExpired'
  BY <1>1, <1>2 DEF TypeOK, SentTTLIsEnough, BlacklistedUntilExpired, Expiry, o
<1>9. SharedIsRaced'
  BY <1>2, <1>3 DEF TypeOK, SharedIsRaced, Refreshing, o
<1>10. RotatedIsNotStored'
  BY <1>2, <1>3 DEF TypeOK, RotatedIsNotStored, Refreshing, Refresh, o, Idle
<1>11. UncheckedIsNotBlacklisted'
  <2>1. Refresh(n) \in DOMAIN until => n \in raced'
    BY <1>2, <1>3 DEF RotatedIsNotStored
  <2> QED
    BY <1>2, <1>3, <2>1 DEF TypeOK, UncheckedIsNotBlacklisted, Refreshing, Refresh, o
<1>12. ReuseHasACause'
  BY <1>2, <1>3 DEF TypeOK, ReuseHasACause, o
<1> QED
  BY <1>4, <1>5, <1>6, <1>7, <1>8, <1>9, <1>10, <1>11, <1>12

\* The TTL computed from now on reaches the expiry of the token.
LEMMA TTLReaches ==
  ASSUME TypeOK, NEW t \in Tokens, t.pair \in DOMAIN pairs, clock < Expiry(t)
  PROVE  /\ RemainingSeconds(t) \in Nat
         /\ clock + RemainingSeconds(t) * Second >= Expiry(t)
<1>1. Expiry(t) \in Nat /\ clock \in Nat /\ Second \in Nat \ {0}
  <2>1. pairs[t.pair].born + Life[t.kind] \in Nat /\ Second \in Nat \ {0}
    BY TimeAssumption DEF TypeOK, Pairs, Tokens
  <2> QED
    BY <2>1, Product DEF TypeOK, Times, Expiry
<1>2. Expiry(t) - clock \in Nat \ {0}
  BY <1>1
<1> DEFINE r == RemainingSeconds(t)
<1>3. r \in Nat /\ r * Second >= Expiry(t) - clock
  BY <1>1, <1>2, RoundedUp DEF RemainingSeconds
<1> HIDE DEF r
<1>4. r * Second \in Nat
  BY <1>1, <1>3, Product
<1>5. clock + r * Second >= Expiry(t)
  BY <1>1, <1>3, <1>4
<1> QED
  BY <1>3, <1>5 DEF r

\* A request goes on to another place without signing a pair.
LEMMA MoveInv ==
  ASSUME IInv, NEW w \in Workers, op[w] # Idle, NEW o \in Requests,
         op' = [op EXCEPT ![w] = o],
         o.kind = op[w].kind, o.old = op[w].old, o.new = op[w].new, o.user = op[w].user,
         o.at # "storing", o.at \in {"checking", "blacklisting"} => op[w].at = "checking" \/ o.kind = "logout",
         o.kind = "logout" => o.at \in {"blacklisting", "revoking"},
         o.kind = "refresh" => o.at \in {"blacklisting", "revoking"} /\ op[w].at = "checking",
         o.kind # "login",
         o.at = "blacklisting" => clock + o.ttl * Second >=
            Expiry([kind |-> IF o.kind = "refresh" THEN "refresh" ELSE "access", pair |-> o.old]),
         o.at = "revoking" /\ o.kind = "refresh" => o.old \in raced,
         UNCHANGED <<clock, pairs, stored, until, issued, given, history>>
  PROVE  IInv'
<1> USE DEF IInv, history
<1>1. TypeOK'
  BY DEF TypeOK
<1>2. RequestsOK'
  BY DEF TypeOK, RequestsOK, RequestOK, LoginOK, RefreshOK, LogoutOK, Requests
<1>3. NumbersDiffer'
  BY DEF TypeOK, NumbersDiffer
<1>4. PairsOK' /\ EntriesOfGiven' /\ RevocationHolds' /\ BlacklistedUntilExpired'
  BY DEF PairsOK, EntriesOfGiven, RevocationHolds, BlacklistedUntilExpired, Expiry
<1>5. SentTTLIsEnough'
  BY DEF TypeOK, SentTTLIsEnough, Expiry
<1>6. SharedIsRaced' /\ UncheckedIsNotBlacklisted'
  BY DEF TypeOK, SharedIsRaced, UncheckedIsNotBlacklisted, Refreshing, Refresh
<1>7. RotatedIsNotStored'
  BY DEF TypeOK, RotatedIsNotStored, Refreshing, Refresh
<1>8. ReuseHasACause'
  BY DEF TypeOK, ReuseHasACause
<1> QED
  BY <1>1, <1>2, <1>3, <1>4, <1>5, <1>6, <1>7, <1>8

\* The effect of the SET, whether its answer arrives or not.
LEMMA BlacklistedOK ==
  ASSUME IInv, NEW w \in Workers, op[w] # Idle, op[w].at = "blacklisting", until' = Blacklisted(w)
  PROVE  LET t == IF op[w].kind = "refresh" THEN Refresh(op[w].old) ELSE Access(op[w].old)
         IN  /\ t \in Tokens
             /\ op[w].old \in given
             /\ DOMAIN until' = DOMAIN until \cup {t}
             /\ until' \in [DOMAIN until' -> Nat]
             /\ \A s \in DOMAIN until : s # t => until'[s] = until[s]
             /\ until'[t] >= Expiry(t)
<1> DEFINE t == IF op[w].kind = "refresh" THEN Refresh(op[w].old) ELSE Access(op[w].old)
<1> USE DEF IInv
<1>1. op[w] \in Requests /\ op[w].old \in given /\ op[w].old \in Ids
  <2>1. op[w] \in Requests /\ op[w].old \in given
    BY RequestTyped DEF RequestsOK, RequestOK, LoginOK, RefreshOK, LogoutOK, Requests
  <2>2. given \subseteq Ids
    BY BoundAssumption DEF TypeOK, Ids
  <2> QED
    BY <2>1, <2>2
<1>2. t \in Tokens
  BY <1>1 DEF Tokens, Refresh, Access
<1>3. clock + op[w].ttl * Second \in Nat
  BY <1>1, TimeAssumption, Product DEF TypeOK, Times, Requests
<1>4. clock + op[w].ttl * Second >= Expiry(t)
  BY DEF SentTTLIsEnough, Refresh, Access
<1>5. until' = [s \in DOMAIN until \cup {t} |->
                 IF s \in {t} THEN clock + op[w].ttl * Second ELSE until[s]]
  BY DEF Blacklisted, Revoked
<1> HIDE DEF t
<1>6. /\ DOMAIN until' = DOMAIN until \cup {t}
      /\ until' \in [DOMAIN until' -> Nat]
      /\ \A s \in DOMAIN until : s # t => until'[s] = until[s]
      /\ until'[t] >= Expiry(t)
  BY <1>3, <1>4, <1>5 DEF TypeOK
<1> QED
  BY <1>1, <1>2, <1>6 DEF t

\* A refresh signs its new pair, with the old token blacklisted or expired.
LEMMA SignInv ==
  ASSUME IInv, NEW w \in Workers, op[w] # Idle, op[w].kind = "refresh",
         op[w].at \in {"checking", "blacklisting"},
         NEW o \in Requests, op' = [op EXCEPT ![w] = o], o.at = "storing",
         o.kind = "refresh", o.old = op[w].old, o.new = op[w].new, o.user = op[w].user,
         pairs' = WithPair(op[w]),
         \/ until' = until
         \/ op[w].at = "blacklisting" /\ until' = Blacklisted(w),
         UNCHANGED <<clock, stored, issued, given, history>>
  PROVE  IInv'
<1> USE DEF IInv, history
<1> DEFINE t == Refresh(o.old)
<1>1. /\ op[w] \in Requests /\ RefreshOK(op[w]) /\ op[w].new =< issued
      /\ o.old \in given /\ o.old \in DOMAIN pairs /\ given \subseteq DOMAIN pairs
      /\ o.new \notin DOMAIN pairs
  BY RequestTyped DEF TypeOK, RequestsOK, RequestOK, RefreshOK
<1>2. o.old # NoPair /\ o.new \in 1..issued /\ o.new \in Ids
  BY <1>1, BoundAssumption DEF TypeOK, RefreshOK, Ids, NoPair, Requests
<1>3. /\ DOMAIN pairs' = DOMAIN pairs \cup {o.new}
      /\ \A n \in DOMAIN pairs : pairs'[n] = pairs[n]
      /\ pairs'[o.new].user = o.user
      /\ pairs'[o.new].root = pairs[o.old].root
      /\ pairs' \in [DOMAIN pairs' -> Pairs]
  BY <1>1, <1>2, Signing
<1>4. /\ t \in Tokens /\ t.pair = o.old
      /\ DOMAIN until \subseteq DOMAIN until' /\ DOMAIN until' \subseteq DOMAIN until \cup {t}
      /\ until' \in [DOMAIN until' -> Nat]
      /\ \A s \in DOMAIN until' : until'[s] >= Expiry(s)
  <2>1. t \in Tokens /\ t.pair = o.old
    BY <1>1, <1>2 DEF Tokens, Refresh, Requests, Ids, NoPair
  <2>2. CASE until' = until
    BY <2>1, <2>2 DEF TypeOK, BlacklistedUntilExpired
  <2>3. CASE op[w].at = "blacklisting" /\ until' = Blacklisted(w)
    <3>1. /\ DOMAIN until' = DOMAIN until \cup {t}
          /\ until' \in [DOMAIN until' -> Nat]
          /\ \A s \in DOMAIN until : s # t => until'[s] = until[s]
          /\ until'[t] >= Expiry(t)
      BY <2>3, BlacklistedOK
    <3> QED
      BY <2>1, <3>1 DEF BlacklistedUntilExpired
  <2> QED
    BY <2>2, <2>3
<1> HIDE DEF t
<1>5. TypeOK'
  BY <1>1, <1>2, <1>3, <1>4 DEF TypeOK
<1>6. RequestsOK'
  BY <1>1, <1>2, <1>3 DEF TypeOK, RequestsOK, RequestOK, LoginOK, RefreshOK, LogoutOK, NumbersDiffer, Requests
<1>7. NumbersDiffer' /\ PairsOK'
  BY <1>1, <1>3 DEF TypeOK, NumbersDiffer, PairsOK, RefreshOK, NoPair
<1>8. SentTTLIsEnough'
  <2>1. \A v \in Workers : op[v] # Idle /\ op[v].at = "blacklisting" => op[v].old \in DOMAIN pairs
    BY <1>1, RequestTyped DEF RequestsOK, RequestOK, LoginOK, RefreshOK, LogoutOK, Requests
  <2>2. \A v \in Workers : op'[v].at = "blacklisting" => op'[v] = op[v]
    BY DEF TypeOK
  <2> QED
    BY <1>3, <2>1, <2>2 DEF SentTTLIsEnough, Expiry
<1>9. EntriesOfGiven' /\ BlacklistedUntilExpired'
  BY <1>1, <1>3, <1>4 DEF TypeOK, EntriesOfGiven, BlacklistedUntilExpired, Expiry
<1>10. SharedIsRaced' /\ UncheckedIsNotBlacklisted'
  BY <1>1, <1>4 DEF TypeOK, SharedIsRaced, UncheckedIsNotBlacklisted, Refreshing, Refresh, t, Idle, Requests
<1>11. RotatedIsNotStored'
  BY <1>1, <1>3, <1>4 DEF TypeOK, RotatedIsNotStored, Refreshing, Refresh, t, Idle, Requests
<1>12. RevocationHolds' /\ ReuseHasACause'
  BY <1>3 DEF TypeOK, RevocationHolds, ReuseHasACause, NoPair
<1> QED
  BY <1>5, <1>6, <1>7, <1>8, <1>9, <1>10, <1>11, <1>12

\* A logout goes on to revoke the refresh token, whatever became of its SET.
LEMMA LogoutBlacklistedInv ==
  ASSUME IInv, NEW w \in Workers, op[w] # Idle, op[w].kind = "logout", op[w].at = "blacklisting",
         NEW o \in Requests, op' = [op EXCEPT ![w] = o], o.at = "revoking",
         o.kind = "logout", o.old = op[w].old, o.new = op[w].new, o.user = op[w].user,
         until' = until \/ until' = Blacklisted(w),
         failures' \in 0..MaxFailures,
         UNCHANGED <<clock, pairs, stored, issued, given, raced, loggedOut>>
  PROVE  IInv'
<1> USE DEF IInv
<1> DEFINE t == Access(o.old)
<1>1. /\ t \in Tokens /\ t.pair \in given /\ t.kind = "access"
      /\ DOMAIN until \subseteq DOMAIN until' /\ DOMAIN until' \subseteq DOMAIN until \cup {t}
      /\ until' \in [DOMAIN until' -> Nat]
      /\ \A s \in DOMAIN until' : until'[s] >= Expiry(s)
  <2>1. /\ op[w].old \in given /\ op[w].old \in Ids
    BY BoundAssumption DEF TypeOK, RequestsOK, RequestOK, LogoutOK, Ids
  <2>2. t \in Tokens /\ t.pair \in given /\ t.kind = "access"
    BY <2>1 DEF Tokens, Access
  <2>3. CASE until' = until
    BY <2>2, <2>3 DEF TypeOK, BlacklistedUntilExpired
  <2>4. CASE until' = Blacklisted(w)
    <3>1. /\ DOMAIN until' = DOMAIN until \cup {t}
          /\ until' \in [DOMAIN until' -> Nat]
          /\ \A s \in DOMAIN until : s # t => until'[s] = until[s]
          /\ until'[t] >= Expiry(t)
      BY <2>4, BlacklistedOK
    <3> QED
      BY <2>2, <3>1 DEF BlacklistedUntilExpired
  <2> QED
    BY <2>3, <2>4
<1> HIDE DEF t
<1>2. TypeOK'
  BY <1>1 DEF TypeOK
<1>3. RequestsOK' /\ NumbersDiffer' /\ PairsOK' /\ RevocationHolds'
  BY DEF TypeOK, RequestsOK, RequestOK, LoginOK, RefreshOK, LogoutOK, NumbersDiffer, PairsOK, RevocationHolds
<1>4. SentTTLIsEnough' /\ ReuseHasACause'
  BY DEF TypeOK, SentTTLIsEnough, ReuseHasACause, Expiry
<1>5. EntriesOfGiven' /\ BlacklistedUntilExpired'
  BY <1>1 DEF EntriesOfGiven, BlacklistedUntilExpired, Expiry
<1>6. \A n : Refresh(n) \in DOMAIN until' <=> Refresh(n) \in DOMAIN until
  BY <1>1 DEF Refresh
<1>7. SharedIsRaced' /\ UncheckedIsNotBlacklisted' /\ RotatedIsNotStored'
  BY <1>6 DEF TypeOK, SharedIsRaced, UncheckedIsNotBlacklisted, RotatedIsNotStored, Refreshing
<1> QED
  BY <1>2, <1>3, <1>4, <1>5, <1>7

LEMMA CheckRefreshInv ==
  ASSUME IInv, NEW w \in Workers, CheckRefresh(w)
  PROVE  IInv'
<1> DEFINE t == Refresh(op[w].old)
<1>1. op[w] # Idle /\ op[w] \in Requests /\ op[w].kind = "refresh" /\ op[w].old \in given
  <2>1. op[w] # Idle
    BY DEF CheckRefresh, Idle
  <2> QED
    BY <2>1, RequestTyped DEF CheckRefresh, IInv, RequestsOK, RequestOK, LoginOK, RefreshOK, LogoutOK, Requests
<1>2. t \in Tokens /\ t.pair \in DOMAIN pairs
  BY <1>1, BoundAssumption DEF IInv, TypeOK, Tokens, Refresh, Ids
<1>3. CASE IsBlacklisted(t) /\ op' = [op EXCEPT ![w].at = "revoking"] /\ UNCHANGED pairs
  <2> DEFINE o == [op[w] EXCEPT !.at = "revoking"]
  <2>1. /\ o \in Requests /\ o.at = "revoking" /\ op' = [op EXCEPT ![w] = o]
        /\ o.kind = op[w].kind /\ o.old = op[w].old /\ o.new = op[w].new /\ o.user = op[w].user
    BY <1>1, <1>3 DEF Requests
  <2>2. o.old \in raced
    BY <1>1, <1>3, <2>1 DEF CheckRefresh, IInv, UncheckedIsNotBlacklisted, Refreshing, IsBlacklisted
  <2> HIDE DEF o
  <2> QED
    BY <1>1, <1>3, <2>1, <2>2, MoveInv DEF CheckRefresh
<1>4. CASE /\ ~IsBlacklisted(t) /\ clock < Expiry(t)
           /\ op' = [op EXCEPT ![w].at = "blacklisting", ![w].ttl = RemainingSeconds(t)]
           /\ UNCHANGED pairs
  <2> DEFINE o == [op[w] EXCEPT !.at = "blacklisting", !.ttl = RemainingSeconds(t)]
  <2>1. RemainingSeconds(t) \in Nat /\ clock + RemainingSeconds(t) * Second >= Expiry(t)
    BY <1>2, <1>4, TTLReaches DEF IInv
  <2>2. /\ o \in Requests /\ o.at = "blacklisting" /\ op' = [op EXCEPT ![w] = o]
        /\ o.kind = op[w].kind /\ o.old = op[w].old /\ o.new = op[w].new /\ o.user = op[w].user
        /\ o.ttl = RemainingSeconds(t)
    BY <1>1, <1>4, <2>1 DEF Requests
  <2>3. clock + o.ttl * Second >=
            Expiry([kind |-> IF o.kind = "refresh" THEN "refresh" ELSE "access", pair |-> o.old])
    BY <1>1, <2>1, <2>2 DEF Refresh
  <2> HIDE DEF o
  <2> QED
    BY <1>1, <1>4, <2>2, <2>3, MoveInv DEF CheckRefresh
<1>5. CASE /\ ~IsBlacklisted(t) /\ clock >= Expiry(t)
           /\ op' = [op EXCEPT ![w].at = "storing"]
           /\ pairs' = WithPair(op[w])
  <2> DEFINE o == [op[w] EXCEPT !.at = "storing"]
  <2>1. /\ o \in Requests /\ o.at = "storing" /\ op' = [op EXCEPT ![w] = o]
        /\ o.kind = op[w].kind /\ o.old = op[w].old /\ o.new = op[w].new /\ o.user = op[w].user
    BY <1>1, <1>5 DEF Requests
  <2> HIDE DEF o
  <2> QED
    BY <1>1, <1>5, <2>1, SignInv DEF CheckRefresh
<1> QED
  BY <1>3, <1>4, <1>5 DEF CheckRefresh

LEMMA BlacklistInv ==
  ASSUME IInv, NEW w \in Workers, Blacklist(w)
  PROVE  IInv'
<1>1. op[w] # Idle /\ op[w] \in Requests /\ op[w].at = "blacklisting"
  <2>1. op[w] # Idle
    BY DEF Blacklist, Idle
  <2> QED
    BY <2>1, RequestTyped DEF Blacklist, IInv
<1>2. CASE op[w].kind = "refresh"
  <2> DEFINE o == [op[w] EXCEPT !.at = "storing", !.ttl = 0]
  <2>1. /\ o \in Requests /\ o.at = "storing" /\ op' = [op EXCEPT ![w] = o]
        /\ o.kind = op[w].kind /\ o.old = op[w].old /\ o.new = op[w].new /\ o.user = op[w].user
    BY <1>1, <1>2 DEF Requests, Blacklist
  <2> HIDE DEF o
  <2> QED
    BY <1>1, <1>2, <2>1, SignInv DEF Blacklist
<1>3. CASE op[w].kind = "logout"
  <2> DEFINE o == [op[w] EXCEPT !.at = "revoking", !.ttl = 0]
  <2>1. /\ o \in Requests /\ o.at = "revoking" /\ op' = [op EXCEPT ![w] = o]
        /\ o.kind = "logout" /\ o.old = op[w].old /\ o.new = op[w].new /\ o.user = op[w].user
    BY <1>1, <1>3 DEF Requests, Blacklist
  <2>2. /\ until' = Blacklisted(w)
        /\ failures' \in 0..MaxFailures
        /\ UNCHANGED <<clock, pairs, stored, issued, given, raced, loggedOut>>
    BY <1>3 DEF Blacklist, history, IInv, TypeOK
  <2> HIDE DEF o
  <2> QED
    BY <1>1, <1>3, <2>1, <2>2, LogoutBlacklistedInv
<1> QED
  BY <1>2, <1>3 DEF Blacklist

\* A request ends without an effect on the stored tokens: it failed or was refused.
LEMMA EndInv ==
  ASSUME IInv, NEW w \in Workers, op[w] # Idle, op' = [op EXCEPT ![w] = Idle],
         failures' \in 0..MaxFailures,
         raced' = IF op[w].kind = "refresh" /\ op[w].at # "checking" THEN raced \cup {op[w].old} ELSE raced,
         \/ until' = until
         \/ op[w].kind = "refresh" /\ op[w].at = "blacklisting" /\ until' = Blacklisted(w),
         UNCHANGED <<clock, pairs, stored, issued, given, loggedOut>>
  PROVE  IInv'
<1> USE DEF IInv
<1>1. raced \subseteq raced' /\ raced' \subseteq given
  BY DEF TypeOK, RequestsOK, RequestOK, RefreshOK
<1>2. \A v \in Workers : op'[v] # Idle => v # w /\ op'[v] = op[v]
  BY DEF TypeOK
<1>3. /\ DOMAIN until' \subseteq Tokens /\ until' \in [DOMAIN until' -> Nat]
      /\ \A t \in DOMAIN until' : until'[t] >= Expiry(t) /\ t.pair \in given
      /\ \A n : Refresh(n) \in DOMAIN until' /\ n \notin raced' => Refresh(n) \in DOMAIN until
  <2>1. CASE until' = until
    BY <2>1 DEF TypeOK, BlacklistedUntilExpired, EntriesOfGiven
  <2>2. CASE op[w].kind = "refresh" /\ op[w].at = "blacklisting" /\ until' = Blacklisted(w)
    <3> DEFINE t == Refresh(op[w].old)
    <3>1. /\ t \in Tokens
          /\ op[w].old \in given
          /\ DOMAIN until' = DOMAIN until \cup {t}
          /\ until' \in [DOMAIN until' -> Nat]
          /\ \A s \in DOMAIN until : s # t => until'[s] = until[s]
          /\ until'[t] >= Expiry(t)
      BY <2>2, BlacklistedOK
    <3>2. t.pair = op[w].old /\ op[w].old \in raced'
      BY <2>2 DEF Refresh
    <3>3. \A n : n \notin raced' => Refresh(n) # t
      BY <3>2 DEF Refresh
    <3> HIDE DEF t
    <3> QED
      BY <3>1, <3>2, <3>3 DEF TypeOK, BlacklistedUntilExpired, EntriesOfGiven
  <2> QED
    BY <2>1, <2>2
<1>4. TypeOK'
  BY <1>1, <1>3 DEF TypeOK
<1>5. RequestsOK' /\ NumbersDiffer' /\ PairsOK' /\ RevocationHolds'
  BY <1>2 DEF RequestsOK, RequestOK, LoginOK, RefreshOK, LogoutOK, NumbersDiffer, PairsOK, RevocationHolds
<1>6. SentTTLIsEnough'
  BY <1>2 DEF SentTTLIsEnough, Expiry
<1>7. ReuseHasACause'
  <2>1. \A v \in Workers : op'[v].at = "revoking" => op'[v] # Idle
    BY DEF Idle
  <2> QED
    BY <1>1, <1>2, <2>1 DEF ReuseHasACause
<1>8. EntriesOfGiven' /\ BlacklistedUntilExpired'
  BY <1>3 DEF EntriesOfGiven, BlacklistedUntilExpired, Expiry
<1>9. SharedIsRaced' /\ UncheckedIsNotBlacklisted'
  BY <1>1, <1>2, <1>3 DEF SharedIsRaced, UncheckedIsNotBlacklisted, Refreshing, Refresh
<1>10. RotatedIsNotStored'
  <2> SUFFICES ASSUME NEW n \in given, Refresh(n) \in DOMAIN until', n \notin raced',
                      stored[pairs[n].user] = n
               PROVE  \E v \in Workers : Refreshing(v, n)' /\ op'[v].at = "storing"
    BY DEF RotatedIsNotStored, Refresh
  <2>1. PICK v \in Workers : Refreshing(v, n) /\ op[v].at = "storing"
    BY <1>1, <1>3 DEF RotatedIsNotStored
  <2>2. v # w
    BY <2>1 DEF Refreshing
  <2> QED
    BY <2>1, <2>2 DEF Refreshing, TypeOK
<1> QED
  BY <1>4, <1>5, <1>6, <1>7, <1>8, <1>9, <1>10

\* The hash of the new token is stored, whether the client hears of it or not.
LEMMA StoredInv ==
  ASSUME IInv, NEW w \in Workers, op[w] # Idle, op[w].at = "storing", op' = [op EXCEPT ![w] = Idle],
         stored' = [stored EXCEPT ![op[w].user] = op[w].new],
         given' = given \/ given' = given \cup {op[w].new},
         failures' \in 0..MaxFailures,
         raced \subseteq raced', raced' \subseteq given,
         UNCHANGED <<clock, pairs, until, issued, loggedOut>>
  PROVE  IInv'
<1> PICK m : m = op[w].new
  OBVIOUS
<1> USE DEF IInv
<1>1. /\ op[w] \in Requests /\ m \in DOMAIN pairs /\ m # NoPair /\ m \notin given
      /\ pairs[m].user = op[w].user
      /\ pairs[m].root \in given \cup {m}
      /\ pairs[m].root \notin loggedOut
  <2>1. op[w] \in Requests /\ RequestOK(op[w]) /\ DOMAIN pairs \subseteq 1..issued /\ loggedOut \subseteq given
    BY RequestTyped DEF RequestsOK, TypeOK
  <2>2. m \in DOMAIN pairs /\ m \notin given /\ pairs[m].user = op[w].user
    BY <2>1 DEF RequestOK, LoginOK, RefreshOK, LogoutOK, Requests
  <2>3. pairs[m].root \in given \cup {m} /\ pairs[m].root \notin loggedOut
    BY <2>1, <2>2 DEF RequestOK, LoginOK, RefreshOK, LogoutOK, Requests, PairsOK
  <2> QED
    BY <2>1, <2>2, <2>3 DEF NoPair
<1>2. \A v \in Workers : op'[v] # Idle => v # w /\ op'[v] = op[v] /\ op[v].new # m
  BY <1>1 DEF TypeOK, NumbersDiffer
<1>3. stored' = [stored EXCEPT ![op[w].user] = m] /\ (given' = given \/ given' = given \cup {m})
  OBVIOUS
<1>4. TypeOK'
  BY <1>1, <1>3 DEF TypeOK, Requests
<1>5. RequestsOK'
  BY <1>2, <1>3 DEF RequestsOK, RequestOK, LoginOK, RefreshOK, LogoutOK
<1>6. NumbersDiffer' /\ SentTTLIsEnough' /\ EntriesOfGiven' /\ BlacklistedUntilExpired'
  BY <1>2, <1>3 DEF NumbersDiffer, SentTTLIsEnough, EntriesOfGiven, BlacklistedUntilExpired, Expiry
<1>7. PairsOK'
  <2>1. \A u \in Users : (stored'[u] = m /\ u = op[w].user) \/ stored'[u] = stored[u]
    BY <1>3 DEF TypeOK
  <2> QED
    BY <1>1, <1>3, <2>1 DEF PairsOK
<1>8. \A v \in Workers : ~Refreshing(v, m)'
  BY <1>1, <1>2 DEF RequestsOK, RequestOK, RefreshOK, Refreshing
<1>9. SharedIsRaced'
  BY <1>2, <1>3, <1>8 DEF SharedIsRaced, Refreshing
<1>10. UncheckedIsNotBlacklisted'
  BY <1>2, <1>3, <1>8 DEF UncheckedIsNotBlacklisted, Refreshing, Refresh
<1>11. RotatedIsNotStored'
  <2> SUFFICES ASSUME NEW n \in given', Refresh(n) \in DOMAIN until, n \notin raced',
                      stored'[pairs[n].user] = n
               PROVE  \E v \in Workers : Refreshing(v, n)' /\ op'[v].at = "storing"
    BY DEF RotatedIsNotStored, Refresh
  <2>1. n \in given /\ n # m
    BY <1>1, <1>3 DEF EntriesOfGiven, Refresh
  <2>2. pairs[n].user # op[w].user /\ stored[pairs[n].user] = n
    BY <1>1, <1>3, <2>1 DEF TypeOK, Requests
  <2>3. PICK v \in Workers : Refreshing(v, n) /\ op[v].at = "storing"
    BY <2>1, <2>2 DEF RotatedIsNotStored
  <2>4. v # w
    BY <2>1, <2>2, <2>3 DEF Refreshing, RequestsOK, RequestOK, RefreshOK
  <2> QED
    BY <2>3, <2>4 DEF Refreshing, TypeOK
<1>12. RevocationHolds'
  BY <1>1, <1>3 DEF TypeOK, RevocationHolds
<1>13. ReuseHasACause'
  <2>1. \A v \in Workers : op'[v].at = "revoking" => op'[v] # Idle
    BY DEF Idle
  <2> QED
    BY <1>2, <2>1 DEF ReuseHasACause
<1> QED
  BY <1>4, <1>5, <1>6, <1>7, <1>9, <1>10, <1>11, <1>12, <1>13

\* The user's row is cleared.
LEMMA RevokedInv ==
  ASSUME IInv, NEW w \in Workers, op[w] # Idle, op[w].at = "revoking", op' = [op EXCEPT ![w] = Idle],
         stored' = Cleared(w),
         failures' \in 0..MaxFailures,
         raced \subseteq raced', raced' \subseteq given,
         loggedOut' \subseteq given,
         \A r \in loggedOut' : pairs[r].user = op[w].user \/ r \in loggedOut,
         \A v \in Workers \ {w}, n \in given : Refreshing(v, n) => pairs[n].root \notin loggedOut',
         UNCHANGED <<clock, pairs, until, issued, given>>
  PROVE  IInv'
<1> USE DEF IInv
<1>1. op[w] \in Requests
  BY RequestTyped
<1>2. \A v \in Workers : op'[v] # Idle => v # w /\ op'[v] = op[v]
  BY DEF TypeOK
<1>3. \A u \in Users : stored'[u] = IF u = op[w].user THEN NoPair ELSE stored[u]
  BY DEF Cleared, TypeOK
<1>4. TypeOK'
  BY <1>1 DEF TypeOK, Cleared
<1>5. RequestsOK'
  <2> SUFFICES ASSUME NEW v \in Workers, op'[v] # Idle
               PROVE  RequestOK(op[v])'
    BY DEF RequestsOK
  <2>1. v # w /\ op'[v] = op[v] /\ op[v] # Idle /\ RequestOK(op[v])
    BY <1>2 DEF RequestsOK
  <2>2. op[v].kind = "refresh" => pairs[op[v].old].root \notin loggedOut'
    BY <2>1 DEF RequestOK, RefreshOK, Refreshing
  <2> QED
    BY <2>1, <2>2 DEF RequestOK, LoginOK, RefreshOK, LogoutOK
<1>6. NumbersDiffer' /\ SentTTLIsEnough' /\ EntriesOfGiven' /\ BlacklistedUntilExpired'
  BY <1>2 DEF NumbersDiffer, SentTTLIsEnough, EntriesOfGiven, BlacklistedUntilExpired, Expiry
<1>7. PairsOK'
  BY <1>3 DEF PairsOK
<1>8. SharedIsRaced' /\ UncheckedIsNotBlacklisted'
  BY <1>2 DEF SharedIsRaced, UncheckedIsNotBlacklisted, Refreshing, Refresh
<1>9. RotatedIsNotStored'
  <2> SUFFICES ASSUME NEW n \in given, Refresh(n) \in DOMAIN until, n \notin raced',
                      stored'[pairs[n].user] = n
               PROVE  \E v \in Workers : Refreshing(v, n)' /\ op'[v].at = "storing"
    BY DEF RotatedIsNotStored, Refresh
  <2>1. n # NoPair /\ pairs[n].user \in Users
    BY DEF TypeOK, NoPair, Pairs
  <2>2. stored[pairs[n].user] = n
    BY <1>3, <2>1
  <2>3. PICK v \in Workers : Refreshing(v, n) /\ op[v].at = "storing"
    BY <2>2 DEF RotatedIsNotStored
  <2> QED
    BY <2>3 DEF Refreshing, TypeOK
<1>10. RevocationHolds'
  <2> SUFFICES ASSUME NEW u \in Users, stored'[u] # NoPair, pairs[stored'[u]].root \in loggedOut'
               PROVE  FALSE
    BY DEF RevocationHolds
  <2>1. u # op[w].user /\ stored'[u] = stored[u] /\ stored[u] \in DOMAIN pairs /\ stored[u] # NoPair
    BY <1>3 DEF TypeOK
  <2>2. pairs[pairs[stored[u]].root].user = u
    BY <2>1 DEF PairsOK
  <2> QED
    BY <2>1, <2>2 DEF RevocationHolds
<1>11. ReuseHasACause'
  <2>1. \A v \in Workers : op'[v].at = "revoking" => op'[v] # Idle
    BY DEF Idle
  <2> QED
    BY <1>2, <2>1 DEF ReuseHasACause
<1> QED
  BY <1>4, <1>5, <1>6, <1>7, <1>8, <1>9, <1>10, <1>11

LEMMA BeginLogoutInv ==
  ASSUME IInv, NEW w \in Workers, NEW n \in given, BeginLogout(w, n)
  PROVE  IInv'
<1> DEFINE o == [kind |-> "logout", at |-> "guarding", user |-> pairs[n].user,
                 old |-> n, new |-> NoPair, ttl |-> 0]
<1> USE DEF IInv
<1>1. o \in Requests /\ issued \in Nat
  BY BoundAssumption DEF TypeOK, Requests, Ids, NoPair, Pairs
<1>2. /\ op[w] = Idle
      /\ op' = [op EXCEPT ![w] = o]
      /\ UNCHANGED <<clock, pairs, stored, until, issued, given, failures, raced, loggedOut>>
  BY DEF BeginLogout, history
<1> HIDE DEF o
<1>3. \A v \in Workers : v # w => op'[v] = op[v]
  BY <1>2
<1>4. op'[w] = o /\ o # Idle
  BY <1>2 DEF TypeOK, o, Idle
<1>5. TypeOK'
  BY <1>1, <1>2 DEF TypeOK
<1>6. RequestsOK'
  <2>1. RequestOK(o)
    BY <1>1 DEF RequestOK, LogoutOK, o, NoPair
  <2> QED
    BY <1>2, <1>3, <1>4, <2>1 DEF RequestsOK, RequestOK, LoginOK, RefreshOK, LogoutOK
<1>7. NumbersDiffer'
  BY <1>3, <1>4, RequestTyped DEF NumbersDiffer, o
<1>8. SentTTLIsEnough' /\ ReuseHasACause'
  BY <1>2, <1>3, <1>4 DEF SentTTLIsEnough, ReuseHasACause, Expiry, o
<1>9. PairsOK' /\ EntriesOfGiven' /\ RevocationHolds' /\ BlacklistedUntilExpired'
  BY <1>2 DEF PairsOK, EntriesOfGiven, RevocationHolds, BlacklistedUntilExpired, Expiry
<1>10. \A v \in Workers, p \in given : Refreshing(v, p)' <=> Refreshing(v, p)
  BY <1>2, <1>3, <1>4 DEF Refreshing, o
<1>11. \A v \in Workers, p \in given : Refreshing(v, p) => v # w
  BY <1>2 DEF Refreshing
<1>12. SharedIsRaced'
  BY <1>2, <1>10 DEF SharedIsRaced
<1>13. UncheckedIsNotBlacklisted'
  BY <1>2, <1>3, <1>10, <1>11 DEF UncheckedIsNotBlacklisted, Refresh
<1>14. RotatedIsNotStored'
  BY <1>2, <1>3, <1>10, <1>11 DEF RotatedIsNotStored, Refresh
<1> QED
  BY <1>5, <1>6, <1>7, <1>8, <1>9, <1>12, <1>13, <1>14

LEMMA GuardInv ==
  ASSUME IInv, NEW w \in Workers, Guard(w)
  PROVE  IInv'
<1> DEFINE t == Access(op[w].old)
<1>1. op[w] # Idle /\ op[w] \in Requests /\ op[w].kind = "logout" /\ op[w].old \in given
  <2>1. op[w] # Idle
    BY DEF Guard, Idle
  <2> QED
    BY <2>1, RequestTyped DEF Guard, IInv, RequestsOK, RequestOK, LoginOK, RefreshOK, LogoutOK, Requests
<1>2. t \in Tokens /\ t.pair \in DOMAIN pairs
  BY <1>1, BoundAssumption DEF IInv, TypeOK, Tokens, Access, Ids
<1>3. CASE IsBlacklisted(t)
  <2>1. op' = [op EXCEPT ![w] = Idle]
    BY <1>3 DEF Guard, Refused
  <2>2. failures' \in 0..MaxFailures
    BY DEF Guard, history, IInv, TypeOK
  <2> QED
    BY <1>1, <2>1, <2>2, EndInv DEF Guard, history
<1>4. CASE ~IsBlacklisted(t) /\ clock < Expiry(t)
  <2> DEFINE o == [op[w] EXCEPT !.at = "blacklisting", !.ttl = RemainingSeconds(t)]
  <2>1. RemainingSeconds(t) \in Nat /\ clock + RemainingSeconds(t) * Second >= Expiry(t)
    BY <1>2, <1>4, TTLReaches DEF IInv
  <2>2. op' = [op EXCEPT ![w] = o]
    BY <1>4 DEF Guard
  <2>3. /\ o \in Requests /\ o.at = "blacklisting"
        /\ o.kind = op[w].kind /\ o.old = op[w].old /\ o.new = op[w].new /\ o.user = op[w].user
        /\ o.ttl = RemainingSeconds(t)
    BY <1>1, <2>1 DEF Requests
  <2>4. clock + o.ttl * Second >=
            Expiry([kind |-> IF o.kind = "refresh" THEN "refresh" ELSE "access", pair |-> o.old])
    BY <1>1, <2>1, <2>3 DEF Access
  <2>5. UNCHANGED <<clock, pairs, stored, until, issued, given, history>>
    BY DEF Guard
  <2> HIDE DEF o
  <2> QED
    BY <1>1, <2>2, <2>3, <2>4, <2>5, MoveInv DEF history
<1>5. CASE ~IsBlacklisted(t) /\ ~(clock < Expiry(t))
  <2> DEFINE o == [op[w] EXCEPT !.at = "revoking"]
  <2>1. op' = [op EXCEPT ![w] = o]
    BY <1>5 DEF Guard
  <2>2. /\ o \in Requests /\ o.at = "revoking"
        /\ o.kind = op[w].kind /\ o.old = op[w].old /\ o.new = op[w].new /\ o.user = op[w].user
    BY <1>1 DEF Requests
  <2>3. UNCHANGED <<clock, pairs, stored, until, issued, given, history>>
    BY DEF Guard
  <2> HIDE DEF o
  <2> QED
    BY <1>1, <2>1, <2>2, <2>3, MoveInv DEF history
<1> QED
  BY <1>3, <1>4, <1>5

LEMMA StoreHashInv ==
  ASSUME IInv, NEW w \in Workers, StoreHash(w)
  PROVE  IInv'
<1>1. op[w] # Idle
  BY DEF StoreHash, Idle
<1>2. failures' \in 0..MaxFailures /\ raced \subseteq raced' /\ raced' \subseteq given
  BY DEF StoreHash, history, IInv, TypeOK
<1> QED
  BY <1>1, <1>2, StoredInv DEF StoreHash, history

LEMMA RevokeUserTokensInv ==
  ASSUME IInv, NEW w \in Workers, RevokeUserTokens(w)
  PROVE  IInv'
<1> DEFINE rootsOf(s) == {pairs[n].root : n \in s}
           refreshed == {n \in given : \E v \in Workers \ {w} : Refreshing(v, n)}
           gone == rootsOf(LoggedIn(op[w].user)) \ rootsOf(refreshed)
<1>1. op[w] # Idle
  BY DEF RevokeUserTokens, Idle
<1>2. failures' \in 0..MaxFailures /\ raced \subseteq raced' /\ raced' \subseteq given
  BY DEF RevokeUserTokens, IInv, TypeOK
<1>3. loggedOut' = loggedOut \cup gone
  BY DEF RevokeUserTokens
<1>4. \A r \in gone : r \in given /\ pairs[r].user = op[w].user
  BY DEF IInv, PairsOK, TypeOK, LoggedIn
<1>5. \A v \in Workers \ {w}, n \in given :
        Refreshing(v, n) => pairs[n].root \notin gone /\ pairs[n].root \notin loggedOut
  BY DEF Refreshing, IInv, RequestsOK, RequestOK, RefreshOK
<1> HIDE DEF gone
<1>6. loggedOut' \subseteq given
  BY <1>3, <1>4 DEF IInv, TypeOK
<1>7. \A r \in loggedOut' : pairs[r].user = op[w].user \/ r \in loggedOut
  BY <1>3, <1>4
<1>8. \A v \in Workers \ {w}, n \in given : Refreshing(v, n) => pairs[n].root \notin loggedOut'
  BY <1>3, <1>5
<1> QED
  BY <1>1, <1>2, <1>6, <1>7, <1>8, RevokedInv DEF RevokeUserTokens

LEMMA FailInv ==
  ASSUME IInv, NEW w \in Workers, Fail(w)
  PROVE  IInv'
<1> DEFINE old == op[w].old
<1>1. /\ op[w] # Idle
      /\ failures' \in 0..MaxFailures
      /\ raced' = IF op[w].kind = "refresh" /\ op[w].at # "checking" THEN raced \cup {op[w].old} ELSE raced
      /\ UNCHANGED <<clock, pairs, issued, given, loggedOut>>
  BY BoundAssumption DEF Fail, IInv, TypeOK
<1>2. raced \subseteq raced' /\ raced' \subseteq given
  BY <1>1 DEF IInv, TypeOK, RequestsOK, RequestOK, RefreshOK
<1>3. CASE op[w].kind = "logout" /\ op[w].at = "blacklisting"
  <2> DEFINE o == [op[w] EXCEPT !.at = "revoking", !.ttl = 0]
  <2>1. op' = [op EXCEPT ![w] = o]
    BY <1>3 DEF Fail
  <2>2. op[w] \in Requests
    BY <1>1, RequestTyped DEF IInv
  <2>3. /\ o \in Requests /\ o.at = "revoking"
        /\ o.kind = "logout" /\ o.old = op[w].old /\ o.new = op[w].new /\ o.user = op[w].user
    BY <1>3, <2>2 DEF Requests
  <2>4. until' = until \/ until' = Blacklisted(w)
    BY DEF Fail
  <2>5. stored' = stored /\ raced' = raced
    BY <1>1, <1>3 DEF Fail
  <2> HIDE DEF o
  <2> QED
    BY <1>1, <1>3, <2>1, <2>3, <2>4, <2>5, LogoutBlacklistedInv
<1>4. CASE ~(op[w].kind = "logout" /\ op[w].at = "blacklisting")
  <2>1. op' = [op EXCEPT ![w] = Idle]
    BY <1>4 DEF Fail
  <2>2. op[w].at = "blacklisting" => op[w].kind = "refresh"
    BY <1>1, <1>4, RequestTyped DEF IInv, RequestsOK, RequestOK, LoginOK, Requests
  <2>3. CASE stored' = stored
    BY <1>1, <2>1, <2>2, <2>3, EndInv DEF Fail
  <2>4. CASE op[w].at = "storing" /\ stored' = [stored EXCEPT ![op[w].user] = op[w].new]
    <3>1. until' = until
      BY <2>4 DEF Fail
    <3> QED
      BY <1>1, <1>2, <2>1, <2>4, <3>1, StoredInv
  <2>5. CASE op[w].at = "revoking" /\ stored' = Cleared(w)
    <3>1. until' = until
      BY <2>5 DEF Fail
    <3>2. /\ loggedOut' \subseteq given
          /\ \A r \in loggedOut' : pairs[r].user = op[w].user \/ r \in loggedOut
      BY <1>1 DEF IInv, TypeOK
    <3>3. \A v \in Workers \ {w}, n \in given : Refreshing(v, n) => pairs[n].root \notin loggedOut'
      BY <1>1 DEF Refreshing, IInv, RequestsOK, RequestOK, RefreshOK
    <3> QED
      BY <1>1, <1>2, <2>1, <2>5, <3>1, <3>2, <3>3, RevokedInv
  <2> QED
    BY <2>3, <2>4, <2>5 DEF Fail
<1> QED
  BY <1>3, <1>4

LEMMA TickInv ==
  ASSUME IInv, Tick
  PROVE  IInv'
<1> USE DEF IInv
<1>1. /\ clock \in Nat /\ clock' = clock + 1 /\ clock' \in Times
      /\ UNCHANGED <<pairs, stored, until, op, issued, given, failures, raced, loggedOut>>
  BY BoundAssumption DEF Tick, TypeOK, Times, history
<1>2. TypeOK'
  BY <1>1 DEF TypeOK
<1>3. RequestsOK' /\ NumbersDiffer' /\ PairsOK'
  BY <1>1 DEF RequestsOK, RequestOK, LoginOK, RefreshOK, LogoutOK, NumbersDiffer, PairsOK
<1>4. SentTTLIsEnough'
  <2> SUFFICES ASSUME NEW w \in Workers, op[w] # Idle, op[w].at = "blacklisting"
               PROVE  clock' + op[w].ttl * Second >=
                        Expiry([kind |-> IF op[w].kind = "refresh" THEN "refresh" ELSE "access",
                                pair |-> op[w].old])
    BY <1>1 DEF SentTTLIsEnough, Expiry
  <2> DEFINE t == [kind |-> IF op[w].kind = "refresh" THEN "refresh" ELSE "access", pair |-> op[w].old]
  <2>1. op[w].old \in DOMAIN pairs
    BY RequestTyped DEF RequestsOK, RequestOK, LoginOK, RefreshOK, LogoutOK, Requests, TypeOK
  <2>2. pairs[op[w].old].born + Life[t.kind] \in Nat /\ Second \in Nat \ {0} /\ op[w].ttl \in Nat
    BY <2>1, RequestTyped, TimeAssumption DEF TypeOK, Pairs, Requests
  <2>3. Expiry(t) \in Nat /\ op[w].ttl * Second \in Nat
    BY <2>2, Product DEF Expiry
  <2>4. clock + op[w].ttl * Second >= Expiry(t)
    BY DEF SentTTLIsEnough
  <2> HIDE DEF t
  <2>5. clock' + op[w].ttl * Second >= Expiry(t)
    BY <1>1, <2>3, <2>4
  <2> QED
    BY <2>5 DEF t
<1>5. EntriesOfGiven' /\ SharedIsRaced' /\ RotatedIsNotStored' /\ UncheckedIsNotBlacklisted'
  BY <1>1 DEF EntriesOfGiven, SharedIsRaced, RotatedIsNotStored, UncheckedIsNotBlacklisted, Refreshing, Refresh
<1>6. RevocationHolds' /\ BlacklistedUntilExpired' /\ ReuseHasACause'
  BY <1>1 DEF RevocationHolds, BlacklistedUntilExpired, ReuseHasACause, Expiry
<1> QED
  BY <1>2, <1>3, <1>4, <1>5, <1>6

LEMMA StepInv == IInv /\ [Next]_vars => IInv'
<1> SUFFICES ASSUME IInv, [Next]_vars
             PROVE  IInv'
  OBVIOUS
<1>1. CASE UNCHANGED vars
  BY <1>1 DEF vars, IInv, TypeOK, RequestsOK, RequestOK, LoginOK, RefreshOK, LogoutOK, NumbersDiffer,
              PairsOK, SentTTLIsEnough, EntriesOfGiven, SharedIsRaced, RotatedIsNotStored,
              UncheckedIsNotBlacklisted, Refreshing, RevocationHolds, BlacklistedUntilExpired,
              ReuseHasACause, Expiry
<1>2. CASE Tick
  BY <1>2, TickInv
<1>3. ASSUME NEW w \in Workers, Request(w)
      PROVE  IInv'
  BY <1>3, LoginInv, BeginRefreshInv, BeginLogoutInv DEF Request
<1>4. ASSUME NEW w \in Workers, Continue(w)
      PROVE  IInv'
  BY <1>4, CheckRefreshInv, BlacklistInv, StoreHashInv, GuardInv, RevokeUserTokensInv DEF Continue
<1>5. ASSUME NEW w \in Workers, Fail(w)
      PROVE  IInv'
  BY <1>5, FailInv
<1> QED
  BY <1>1, <1>2, <1>3, <1>4, <1>5 DEF Next

LEMMA Invariance == Spec => []IInv
BY InitInv, StepInv, PTL DEF Spec

-----------------------------------------------------------------------------
\* The variables of the tokens' model keep their types.
THEOREM TypeTheorem == Spec => []TypeOK
BY Invariance, PTL DEF IInv

\* A revocation of a user's tokens (logout, 187-201, or the reuse branch, 151-166) ends
\* every login he had, whatever else runs: no refresh token that descends from one of
\* them is stored again, but by a refresh that was under way.
THEOREM RevocationTheorem == Spec => []RevocationHolds
BY Invariance, PTL DEF IInv

\* The TTL computed before the SET (170-173, 192-195) keeps a revoked token on the
\* blacklist until it expires, however long the SET takes.
THEOREM BlacklistTheorem == Spec => []BlacklistedUntilExpired
BY Invariance, PTL DEF IInv

\* Without a failure and without two refreshes using one token, the rotation (169-177)
\* never makes a client's own next refresh look like a reuse (151-166).
THEOREM ReuseTheorem == Spec => []ReuseHasACause
BY Invariance, PTL DEF IInv
=============================================================================
