----------------------------- MODULE AuthTokens -----------------------------
(***************************************************************************)
(* AuthService: login, refreshTokens and logout.  A user's row keeps the   *)
(* hash of one refresh token; TokenBlacklistService keeps the ids of the   *)
(* tokens that were revoked before they expired, in the cache, with a TTL. *)
(*                                                                         *)
(* An access token and the refresh token issued with it are a pair, named  *)
(* by a number.  A worker is one request at a time; each of its actions is *)
(* one command to the database or the cache, with the code up to the next. *)
(* Time is counted in instants, several to a second: tokens expire on full *)
(* seconds and the TTL is rounded to one.                                  *)
(***************************************************************************)
EXTENDS Integers

CONSTANTS Workers,
          Users,
          Second,      \* instants in a second
          Life,        \* of each kind of token, in seconds
          MaxTime,     \* bound: the last instant
          MaxPairs,    \* bound: as many pairs are ever asked for
          MaxFailures  \* bound: as many commands fail

ASSUME TimeAssumption == /\ Second \in Nat \ {0}
                         /\ Life \in [{"access", "refresh"} -> Nat \ {0}]
ASSUME BoundAssumption == MaxTime \in Nat /\ MaxPairs \in Nat /\ MaxFailures \in Nat

VARIABLES clock,
          pairs,      \* what is known of each pair that was signed
          stored,     \* of each user: the pair whose refresh token's hash his row has
          until,      \* of each blacklisted token: when its entry expires
          op,         \* where each worker is in its request
          issued,     \* how many numbers of pairs are taken
          given,      \* the pairs a client was answered with
          failures,   \* how many commands have failed
          raced,      \* history: pairs two refreshes used at once, or one failed to rotate
          loggedOut   \* history: the logins of a user whose tokens were revoked, but for
                      \* those a request was refreshing just then

vars == <<clock, pairs, stored, until, op, issued, given, failures, raced, loggedOut>>
history == <<failures, raced, loggedOut>>

NoPair == 0
Ids == 1..MaxPairs
Times == 0..MaxTime
Tokens == [kind : {"access", "refresh"}, pair : Ids]

\* root: the pair of the login it descends from; born: the second it was signed in.
Pairs == [user : Users, root : Ids, born : Nat]

Idle == [at |-> "idle"]

\* old: the pair presented, none at a login; new: the number of the pair to sign;
\* ttl: in seconds, of the entry being made.
Requests == [kind : {"login", "refresh", "logout"},
             at : {"guarding", "checking", "blacklisting", "revoking", "storing"},
             user : Users, old : Ids \cup {NoPair}, new : Ids \cup {NoPair}, ttl : Nat]

TypeOK == /\ clock \in Times
          /\ DOMAIN pairs \subseteq 1..issued /\ pairs \in [DOMAIN pairs -> Pairs]
          /\ stored \in [Users -> DOMAIN pairs \cup {NoPair}]
          /\ DOMAIN until \subseteq Tokens /\ until \in [DOMAIN until -> Nat]
          /\ op \in [Workers -> {Idle} \cup Requests]
          /\ issued \in 0..MaxPairs
          /\ given \subseteq DOMAIN pairs
          /\ failures \in 0..MaxFailures
          /\ raced \subseteq given
          /\ loggedOut \subseteq given

Init == /\ clock = 0
        /\ pairs = [n \in {} |-> {}]
        /\ stored = [u \in Users |-> NoPair]
        /\ until = [t \in {} |-> 0]
        /\ op = [w \in Workers |-> Idle]
        /\ issued = 0
        /\ given = {}
        /\ failures = 0
        /\ raced = {}
        /\ loggedOut = {}

-----------------------------------------------------------------------------
Access(n) == [kind |-> "access", pair |-> n]
Refresh(n) == [kind |-> "refresh", pair |-> n]

Expiry(t) == (pairs[t.pair].born + Life[t.kind]) * Second

IsBlacklisted(t) == t \in DOMAIN until /\ clock < until[t]

\* A mutant: the TTL is cut to full seconds.
FullSeconds(t) == (Expiry(t) - clock) \div Second

\* The TTL in seconds of the entry that revokes t, rounded up.
RemainingSeconds(t) == (Expiry(t) - clock + Second - 1) \div Second

Refreshing(v, n) == op[v] # Idle /\ op[v].kind = "refresh" /\ op[v].old = n

\* The pair a request signs: a login's is a root.
Signed(o) == [user |-> o.user,
              root |-> IF o.old = NoPair THEN o.new ELSE pairs[o.old].root,
              born |-> clock \div Second]

WithPair(o) == [n \in DOMAIN pairs \cup {o.new} |-> IF n = o.new THEN Signed(o) ELSE pairs[n]]

\* The credentials were right; the tokens are signed.
Login(w, u) ==
  LET o == [kind |-> "login", at |-> "storing", user |-> u, old |-> NoPair,
            new |-> issued + 1, ttl |-> 0]
  IN  /\ op[w] = Idle
      /\ issued < MaxPairs
      /\ issued' = issued + 1
      /\ pairs' = WithPair(o)
      /\ op' = [op EXCEPT ![w] = o]
      /\ UNCHANGED <<clock, stored, until, given, history>>

Matches(n) == stored[pairs[n].user] = n

\* The token verifies and its hash is the stored one; else the request is refused.
BeginRefresh(w, n) ==
  /\ op[w] = Idle
  /\ issued < MaxPairs
  /\ n \in given
  /\ clock < Expiry(Refresh(n))
  /\ Matches(n)
  /\ issued' = issued + 1
  /\ op' = [op EXCEPT ![w] = [kind |-> "refresh", at |-> "checking", user |-> pairs[n].user,
                              old |-> n, new |-> issued + 1, ttl |-> 0]]
  /\ raced' = IF \E v \in Workers : Refreshing(v, n) THEN raced \cup {n} ELSE raced
  /\ UNCHANGED <<clock, pairs, stored, until, given, failures, loggedOut>>

\* A blacklisted token ends the user's session.  Otherwise it is blacklisted now,
\* unless it has expired since it was verified.
CheckRefresh(w) ==
  LET t == Refresh(op[w].old)
  IN  /\ op[w].at = "checking"
      /\ UNCHANGED <<clock, stored, until, issued, given, history>>
      /\ \/ /\ IsBlacklisted(t)
            /\ op' = [op EXCEPT ![w].at = "revoking"]
            /\ UNCHANGED pairs
         \/ /\ ~IsBlacklisted(t) /\ clock < Expiry(t)
            /\ op' = [op EXCEPT ![w].at = "blacklisting", ![w].ttl = RemainingSeconds(t)]
            /\ UNCHANGED pairs
         \/ /\ ~IsBlacklisted(t) /\ clock >= Expiry(t)
            /\ op' = [op EXCEPT ![w].at = "storing"]
            /\ pairs' = WithPair(op[w])

\* Mutants: the entry is made for all refresh tokens of the user; none is made.
OfUser(w) == {Refresh(n) : n \in {m \in DOMAIN pairs : pairs[m].user = op[w].user}}

\* The token the request revokes: refreshTokens' own, or logout's access token.
Revoked(w) == {IF op[w].kind = "refresh" THEN Refresh(op[w].old) ELSE Access(op[w].old)}

\* SET bl_token:<jti> 'revoked' with the TTL.
Blacklisted(w) == [t \in DOMAIN until \cup Revoked(w) |->
                     IF t \in Revoked(w) THEN clock + op[w].ttl * Second ELSE until[t]]

Blacklist(w) ==
  /\ op[w].at = "blacklisting"
  /\ until' = Blacklisted(w)
  /\ \/ /\ op[w].kind = "refresh"
        /\ op' = [op EXCEPT ![w].at = "storing", ![w].ttl = 0]
        /\ pairs' = WithPair(op[w])
     \/ /\ op[w].kind = "logout"
        /\ op' = [op EXCEPT ![w].at = "revoking", ![w].ttl = 0]
        /\ UNCHANGED pairs
  /\ UNCHANGED <<clock, stored, issued, given, history>>

\* updateRefreshTokenHash, and the answer.
StoreHash(w) ==
  /\ op[w].at = "storing"
  /\ stored' = [stored EXCEPT ![op[w].user] = op[w].new]
  /\ given' = given \cup {op[w].new}
  /\ op' = [op EXCEPT ![w] = Idle]
  /\ UNCHANGED <<clock, pairs, until, issued, history>>

\* logout with the access token of n, which the strategy has verified.
BeginLogout(w, n) ==
  /\ op[w] = Idle
  /\ n \in given
  /\ clock < Expiry(Access(n))
  /\ op' = [op EXCEPT ![w] = [kind |-> "logout", at |-> "guarding", user |-> pairs[n].user,
                              old |-> n, new |-> NoPair, ttl |-> 0]]
  /\ UNCHANGED <<clock, pairs, stored, until, issued, given, history>>

Refused(w) == Idle

\* JwtStrategy refuses a blacklisted token; logout starts otherwise.
Guard(w) ==
  LET t == Access(op[w].old)
  IN  /\ op[w].at = "guarding"
      /\ op' = [op EXCEPT ![w] =
           CASE IsBlacklisted(t) -> Refused(w)
             [] ~IsBlacklisted(t) /\ clock < Expiry(t) ->
                  [@ EXCEPT !.at = "blacklisting", !.ttl = RemainingSeconds(t)]
             [] OTHER -> [@ EXCEPT !.at = "revoking"]]
      /\ UNCHANGED <<clock, pairs, stored, until, issued, given, history>>

LoggedIn(u) == {n \in given : pairs[n].user = u}

\* A mutant: TypeORM leaves a column alone that is to be undefined.
NotCleared(w) == stored

Cleared(w) == [stored EXCEPT ![op[w].user] = NoPair]

\* revokeUserTokens, by logout or because a blacklisted token came back.
RevokeUserTokens(w) ==
  /\ op[w].at = "revoking"
  /\ stored' = Cleared(w)
  /\ op' = [op EXCEPT ![w] = Idle]
  /\ LET rootsOf(s) == {pairs[n].root : n \in s}
         refreshed == {n \in given : \E v \in Workers \ {w} : Refreshing(v, n)}
     IN  loggedOut' = loggedOut \cup (rootsOf(LoggedIn(op[w].user)) \ rootsOf(refreshed))
  /\ UNCHANGED <<clock, pairs, until, issued, given, failures, raced>>

-----------------------------------------------------------------------------
\* A command fails, before or after it took effect.  Only logout goes on, after
\* a failed SET; a refresh that failed may come again with the same token.
Fail(w) ==
  /\ op[w] # Idle
  /\ failures < MaxFailures
  /\ failures' = failures + 1
  /\ until' = until \/ (op[w].at = "blacklisting" /\ until' = Blacklisted(w))
  /\ \/ stored' = stored
     \/ op[w].at = "storing" /\ stored' = [stored EXCEPT ![op[w].user] = op[w].new]
     \/ op[w].at = "revoking" /\ stored' = Cleared(w)
  /\ op' = [op EXCEPT ![w] = IF op[w].kind = "logout" /\ op[w].at = "blacklisting"
                               THEN [op[w] EXCEPT !.at = "revoking", !.ttl = 0] ELSE Idle]
  /\ raced' = IF op[w].kind = "refresh" /\ op[w].at # "checking" THEN raced \cup {op[w].old} ELSE raced
  /\ UNCHANGED <<clock, pairs, issued, given, loggedOut>>

Tick == /\ clock < MaxTime
        /\ clock' = clock + 1
        /\ UNCHANGED <<pairs, stored, until, op, issued, given, history>>

Request(w) == \/ \E u \in Users : Login(w, u)
              \/ \E n \in given : BeginRefresh(w, n) \/ BeginLogout(w, n)

Continue(w) == \/ CheckRefresh(w)
               \/ Blacklist(w)
               \/ StoreHash(w)
               \/ Guard(w)
               \/ RevokeUserTokens(w)

Next == Tick \/ \E w \in Workers : Request(w) \/ Continue(w) \/ Fail(w)

Spec == Init /\ [][Next]_vars

-----------------------------------------------------------------------------
\* Once a user's tokens are revoked, none of the logins he had leads to a stored
\* refresh token again, unless a refresh was under way when they were revoked and
\* stored its token afterwards (line 177).
RevocationHolds ==
  \A u \in Users : stored[u] # NoPair => pairs[stored[u]].root \notin loggedOut

\* A blacklisted token stays blacklisted for as long as it would verify, for all
\* rounding of its TTL and all delay of the SET.
BlacklistedUntilExpired == \A t \in DOMAIN until : until[t] >= Expiry(t)

\* A refresh takes its token for a reused one, and the user's session away (line
\* 165), only if another refresh used the same token at the same time or failed:
\* the rotation itself never blacklists a token that a client still needs.
ReuseHasACause ==
  \A w \in Workers : op[w].at = "revoking" /\ op[w].kind = "refresh" => op[w].old \in raced
=============================================================================
