-------------------------------- MODULE Sessions --------------------------------
(***************************************************************************)
(* Tokens between the auth service, its Redis blacklist and the gateway's  *)
(* token cache: Login, RefreshToken and Logout in the auth service, and    *)
(* the Auth middleware in front of every protected route of the gateway.   *)
(*                                                                         *)
(* A token is a signed string over its claims and has no identifier of its *)
(* own: what distinguishes two tokens of one user and kind is iat, which   *)
(* NumericDate rounds down to a second.  Time is counted in seconds here,  *)
(* so that a token is the record of these three.                           *)
(***************************************************************************)
EXTENDS Naturals, FiniteSets

CONSTANTS Users,
          Refreshes,   \* RefreshToken requests
          Calls,       \* clients of the gateway's protected routes, a request at a time
          AccessTTL,   \* JWT_ACCESS_EXPIRY
          RefreshTTL,  \* JWT_REFRESH_EXPIRY
          CacheTTL,    \* life of a cache entry (2 minutes in the code)
          CacheSize,   \* its maxEntries (10,000 in the code)
          RpcTimeout,  \* of the ValidateToken RPC (3 s in the code)
          LastLogin,   \* bound on the time of logins
          MaxTime      \* bound on the clock

ASSUME TimesAssumption ==
    /\ AccessTTL \in Nat \ {0}
    /\ RefreshTTL \in Nat \ {0}
    /\ CacheTTL \in Nat
    /\ CacheSize \in Nat
    /\ RpcTimeout \in Nat
    /\ LastLogin \in Nat
    /\ MaxTime \in Nat

VARIABLES now,        \* seconds since the start
          issued,     \* tokens handed to clients
          blacklist,  \* the second each Redis key expires; 0 without a key
          revoked,    \* the second each token was first blacklisted, or Never
          refreshPc,  \* where each RefreshToken request stands
          old,        \* the token it presents
          new,        \* the refresh token it generated
          callPc,     \* where the request of each client stands
          bearer,     \* the token it carries
          since,      \* when the auth service vouched for it, then when it passed
          cache,      \* the second each cache entry expires; 0 without one
          logins,     \* auxiliary: the refresh tokens that Login handed out
          causes      \* auxiliary: what went wrong with a user's refreshes

aux         == <<logins, causes>>
refreshVars == <<refreshPc, old, new>>
callVars    == <<callPc, bearer, since, cache>>
vars        == <<now, issued, blacklist, revoked, refreshVars, callVars, aux>>

Times   == 0..MaxTime
Never   == MaxTime + 1

Tokens  == [kind: {"access", "refresh"}, user: Users, iat: Times]
NoToken == [kind |-> "none", user |-> "nobody", iat |-> 0]

TypeOK ==
    /\ now \in Times
    /\ issued \subseteq Tokens
    /\ blacklist \in [Tokens -> 0..(MaxTime + AccessTTL + RefreshTTL)]
    /\ revoked \in [Tokens -> Times \cup {Never}]
    /\ refreshPc \in [Refreshes -> {"idle", "checked", "revoking"}]
    /\ old \in [Refreshes -> Tokens \cup {NoToken}]
    /\ new \in [Refreshes -> Tokens \cup {NoToken}]
    /\ callPc \in [Calls -> {"idle", "vouched", "passed"}]
    /\ bearer \in [Calls -> Tokens \cup {NoToken}]
    /\ since \in [Calls -> Times]
    /\ cache \in [Tokens -> 0..(MaxTime + CacheTTL)]
    /\ logins \subseteq Tokens
    /\ causes \in [Users -> SUBSET {"overlap", "lost", "second"}]

Init ==
    /\ now = 0
    /\ issued = {}
    /\ blacklist = [t \in Tokens |-> 0]
    /\ revoked = [t \in Tokens |-> Never]
    /\ refreshPc = [r \in Refreshes |-> "idle"]
    /\ old = [r \in Refreshes |-> NoToken]
    /\ new = [r \in Refreshes |-> NoToken]
    /\ callPc = [g \in Calls |-> "idle"]
    /\ bearer = [g \in Calls |-> NoToken]
    /\ since = [g \in Calls |-> 0]
    /\ cache = [t \in Tokens |-> 0]
    /\ logins = {}
    /\ causes = [u \in Users |-> {}]

Expiry(t) == t.iat + (IF t.kind = "access" THEN AccessTTL ELSE RefreshTTL)

Expired(t)       == now >= Expiry(t)
IsBlacklisted(t) == now < blacklist[t]

Access(u)  == [kind |-> "access", user |-> u, iat |-> now]
Refresh(u) == [kind |-> "refresh", user |-> u, iat |-> now]

\* Mutant: the life of an access token for either kind.
RevokeAsAccess(t) ==
    /\ blacklist' = [blacklist EXCEPT ![t] = now + AccessTTL]
    /\ revoked' = [revoked EXCEPT ![t] = IF @ = Never THEN now ELSE @]

\* SET with the token's remaining life as TTL.
Revoke(t) ==
    /\ blacklist' = [blacklist EXCEPT ![t] = now + (Expiry(t) - now)]
    /\ revoked' = [revoked EXCEPT ![t] = IF @ = Never THEN now ELSE @]

--------------------------------------------------------------------------------
(* The auth service                                                        *)

Because(u, cause) == causes' = [causes EXCEPT ![u] = @ \cup {cause}]

InHand(r, t) == refreshPc[r] # "idle" /\ old[r] = t

\* Login or Register hands out a pair.
Login(u) ==
    /\ now <= LastLogin
    /\ issued' = issued \cup {Access(u), Refresh(u)}
    /\ logins' = logins \cup {Refresh(u)}
    /\ UNCHANGED <<now, blacklist, revoked, refreshVars, callVars, causes>>

\* IsBlacklisted (which fails closed), then ValidateRefreshToken.
CheckRefresh(r, t) ==
    /\ refreshPc[r] = "idle"
    /\ t \in issued
    /\ t.kind = "refresh"
    /\ ~IsBlacklisted(t)
    /\ ~Expired(t)
    /\ refreshPc' = [refreshPc EXCEPT ![r] = "checked"]
    /\ old' = [old EXCEPT ![r] = t]
    /\ IF \E s \in Refreshes : InHand(s, t) THEN Because(t.user, "overlap") ELSE UNCHANGED causes
    /\ UNCHANGED <<now, issued, blacklist, revoked, new, callVars, logins>>

\* Mutant: the old token is blacklisted before the new pair is generated.
GenerateRevoked(r) ==
    /\ refreshPc[r] = "checked"
    /\ refreshPc' = [refreshPc EXCEPT ![r] = "revoking"]
    /\ new' = [new EXCEPT ![r] = Refresh(old[r].user)]
    /\ IF Expired(old[r]) THEN UNCHANGED <<blacklist, revoked>> ELSE Revoke(old[r])
    /\ UNCHANGED <<now, issued, old, callVars, aux>>

\* FindByID, then the new pair is generated; the client does not have it yet.
Generate(r) ==
    /\ refreshPc[r] = "checked"
    /\ refreshPc' = [refreshPc EXCEPT ![r] = "revoking"]
    /\ new' = [new EXCEPT ![r] = Refresh(old[r].user)]
    /\ UNCHANGED <<now, issued, blacklist, revoked, old, callVars, aux>>

Finish(r) ==
    /\ refreshPc' = [refreshPc EXCEPT ![r] = "idle"]
    /\ old' = [old EXCEPT ![r] = NoToken]
    /\ new' = [new EXCEPT ![r] = NoToken]

\* The old token is blacklisted, for 7 days when it has expired meanwhile (a
\* key nothing depends on any more), and the answer handed to the client: it is
\* a token that somebody has already, if both were generated in one second.
Rotate(r) ==
    /\ refreshPc[r] = "revoking"
    /\ IF Expired(old[r]) THEN UNCHANGED <<blacklist, revoked>> ELSE Revoke(old[r])
    /\ issued' = issued \cup {new[r], [new[r] EXCEPT !.kind = "access"]}
    /\ IF new[r] \in issued THEN Because(new[r].user, "second") ELSE UNCHANGED causes
    /\ Finish(r)
    /\ UNCHANGED <<now, callVars, logins>>

\* An error of the database or of Redis: the old token stays.
FailRefresh(r) ==
    /\ refreshPc[r] # "idle"
    /\ Finish(r)
    /\ UNCHANGED <<now, issued, blacklist, revoked, callVars, aux>>

\* The answer is lost, or Redis' own: the old token is blacklisted all the same.
LoseRefresh(r) ==
    /\ refreshPc[r] = "revoking"
    /\ ~Expired(old[r])
    /\ Revoke(old[r])
    /\ Because(old[r].user, "lost")
    /\ Finish(r)
    /\ UNCHANGED <<now, issued, callVars, logins>>

\* Logout blacklists the access token; the refresh token of the pair stays.  A
\* refresh token in the place of an access token names no user_id, and the
\* gateway's handler turns that away (auth_handler.go:139).
Logout(t) ==
    /\ t \in issued
    /\ t.kind = "access"
    /\ ~Expired(t)
    /\ Revoke(t)
    /\ UNCHANGED <<now, issued, refreshVars, callVars, aux>>

--------------------------------------------------------------------------------
(* The gateway's Auth middleware.  Nothing in it, or in ValidateToken,     *)
(* tells the two kinds of token apart: a refresh token is a bearer token   *)
(* as well, for a user with the empty ID.                                  *)

\* cache.get: an entry counts until its second is past.
Cached(t) == cache[t] # 0 /\ now <= cache[t]

\* Mutant: every hit extends the entry.
PassCachedSliding(g, t) ==
    /\ callPc[g] # "vouched"
    /\ t \in issued
    /\ Cached(t)
    /\ callPc' = [callPc EXCEPT ![g] = "passed"]
    /\ bearer' = [bearer EXCEPT ![g] = t]
    /\ since' = [since EXCEPT ![g] = now]
    /\ cache' = [cache EXCEPT ![t] = now + CacheTTL]
    /\ UNCHANGED <<now, issued, blacklist, revoked, refreshVars, aux>>

\* A hit: the auth service is not asked.
PassCached(g, t) ==
    /\ callPc[g] # "vouched"
    /\ t \in issued
    /\ Cached(t)
    /\ callPc' = [callPc EXCEPT ![g] = "passed"]
    /\ bearer' = [bearer EXCEPT ![g] = t]
    /\ since' = [since EXCEPT ![g] = now]
    /\ UNCHANGED <<now, issued, blacklist, revoked, refreshVars, cache, aux>>

\* A miss: ValidateToken vouches for the token, of either kind, in the auth
\* service.  It refuses one that is blacklisted or expired, which changes nothing.
Validate(g, t) ==
    /\ callPc[g] # "vouched"
    /\ t \in issued
    /\ ~Cached(t)
    /\ ~IsBlacklisted(t)
    /\ ~Expired(t)
    /\ callPc' = [callPc EXCEPT ![g] = "vouched"]
    /\ bearer' = [bearer EXCEPT ![g] = t]
    /\ since' = [since EXCEPT ![g] = now]
    /\ UNCHANGED <<now, issued, blacklist, revoked, refreshVars, cache, aux>>

\* The reply arrives: cache.set, which skips a full cache once its expired
\* entries are gone, and the request passes.
PassVouched(g) ==
    LET t    == bearer[g]
        full == Cardinality({s \in Tokens : Cached(s)}) >= CacheSize
    IN  /\ callPc[g] = "vouched"
        /\ callPc' = [callPc EXCEPT ![g] = "passed"]
        /\ since' = [since EXCEPT ![g] = now]
        /\ cache' = IF full THEN cache ELSE [cache EXCEPT ![t] = now + CacheTTL]
        /\ UNCHANGED <<now, issued, blacklist, revoked, refreshVars, bearer, aux>>

\* The reply is lost or late: the request is refused.
TimeOut(g) ==
    /\ callPc[g] = "vouched"
    /\ callPc' = [callPc EXCEPT ![g] = "idle"]
    /\ bearer' = [bearer EXCEPT ![g] = NoToken]
    /\ since' = [since EXCEPT ![g] = 0]
    /\ UNCHANGED <<now, issued, blacklist, revoked, refreshVars, cache, aux>>

--------------------------------------------------------------------------------
Passed(g) == callPc[g] = "passed"

\* A second passes; no RPC outlives its timeout.  Entries that have expired are
\* evicted: until evict or set comes to them they count for nothing either way.
\* A request that has passed is remembered for the second in which it did.
Tick ==
    /\ now < MaxTime
    /\ \A g \in Calls : callPc[g] = "vouched" => now < since[g] + RpcTimeout
    /\ now' = now + 1
    /\ cache' = [t \in Tokens |-> IF cache[t] < now' THEN 0 ELSE cache[t]]
    /\ callPc' = [g \in Calls |-> IF Passed(g) THEN "idle" ELSE callPc[g]]
    /\ bearer' = [g \in Calls |-> IF Passed(g) THEN NoToken ELSE bearer[g]]
    /\ since' = [g \in Calls |-> IF Passed(g) THEN 0 ELSE since[g]]
    /\ UNCHANGED <<issued, blacklist, revoked, refreshVars, aux>>

Next ==
    \/ \E u \in Users : Login(u)
    \/ \E r \in Refreshes : \/ \E t \in issued : CheckRefresh(r, t)
                            \/ Generate(r)
                            \/ Rotate(r)
                            \/ FailRefresh(r)
                            \/ LoseRefresh(r)
    \/ \E t \in issued : Logout(t)
    \/ \E g \in Calls : \/ \E t \in issued : PassCached(g, t) \/ Validate(g, t)
                        \/ PassVouched(g)
                        \/ TimeOut(g)
    \/ Tick

Spec == Init /\ [][Next]_vars

--------------------------------------------------------------------------------
(* Properties                                                              *)

\* The Redis key of a revoked token, which expires by itself, is there for as
\* long as the token would be valid, for tokens of either life
\* (services/auth/application/refresh_token/handler.go:69-75).
RevocationOutlivesToken ==
    \A t \in Tokens : revoked[t] # Never => IsBlacklisted(t) \/ Expired(t)

\* The cache masks a revocation, and a token's expiry, for no longer than the
\* life of one entry and one RPC, however requests, logouts and rotations
\* interleave; a refresh token that was rotated away passes no longer either
\* (gateway/ports/http/middleware/auth.go:115).
MaskedBriefly ==
    \A g \in Calls : Passed(g) =>
        /\ since[g] <= revoked[bearer[g]] + RpcTimeout + CacheTTL
        /\ since[g] <= Expiry(bearer[g]) + RpcTimeout + CacheTTL

\* The refresh tokens that a user can still exchange.
Live(u) ==
    {t \in issued : t.kind = "refresh" /\ t.user = u /\ ~Expired(t) /\ ~IsBlacklisted(t)}

\* Rotation does not multiply sessions: a user has no more live refresh tokens
\* than logins, unless two requests had one token in hand at a time
\* (services/auth/application/refresh_token/handler.go:68).
RotationKeepsCount ==
    \A u \in Users : "overlap" \notin causes[u] =>
        Cardinality(Live(u)) <= Cardinality({t \in logins : t.user = u})

\* Nor does it lock a user out: while a token that the user was given has not
\* expired, one of them can be exchanged, unless an answer was lost or two
\* tokens were generated in one second, and are the same
\* (services/auth/application/refresh_token/handler.go:56-57).
NotLockedOut ==
    \A u \in Users :
        /\ \E t \in issued : t.kind = "refresh" /\ t.user = u /\ ~Expired(t)
        /\ causes[u] \cap {"lost", "second"} = {}
        => Live(u) # {}

================================================================================
