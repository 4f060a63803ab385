------------------------------ MODULE AuthProofs ------------------------------
(***************************************************************************)
(* Theorems about the auth service's tokens (Sessions) and about how a     *)
(* registration becomes a profile (Registration).  The two specifications  *)
(* share no name; a theorem speaks of one of them.                         *)
(*                                                                         *)
(* What a revocation is worth: the argument follows a token from its key   *)
(* in Redis (KeysLast), through the answers the auth service gave before   *)
(* the revocation (VouchedInTime), to the cache entries made from those    *)
(* answers (EntriesBounded) and the requests that pass on them.            *)
(*                                                                         *)
(* What refreshes do to a user's tokens: each token is followed by one     *)
(* that is not revoked (Followed), and those that may still make another   *)
(* are as few as the logins (CountKept), since a request has its token to  *)
(* itself (SingleHanded).                                                  *)
(*                                                                         *)
(* That a registration is never forgotten: the argument follows an event   *)
(* from its outbox row (FromOutbox) to the copies of it, of which one is   *)
(* left until the profile exists or a cause is known (PublishedAccounted). *)
(***************************************************************************)
EXTENDS Sessions, Registration, FiniteSetTheorems, TLAPS

--------------------------------------------------------------------------------
(* Sessions                                                                *)

\* What a request works on, from the step that reads it.
RequestsTyped ==
    /\ \A r \in Refreshes : refreshPc[r] \in {"checked", "revoking"} => old[r] \in Tokens
    /\ \A r \in Refreshes : refreshPc[r] = "revoking" => new[r] \in Tokens
    /\ \A g \in Calls : callPc[g] \in {"vouched", "passed"} => bearer[g] \in Tokens

\* A revoked token was revoked in the past, and its key lives as long as it.
KeysLast ==
    \A t \in Tokens : revoked[t] # Never =>
        /\ revoked[t] <= now
        /\ blacklist[t] = Expiry(t)

\* An answer on its way is as old as an RPC may be, and was given before the
\* token was revoked or expired.
VouchedInTime ==
    \A g \in Calls : callPc[g] = "vouched" =>
        /\ since[g] <= now
        /\ now <= since[g] + RpcTimeout
        /\ since[g] <= revoked[bearer[g]]
        /\ since[g] <= Expiry(bearer[g])

\* An entry ends one life after a moment no later than now, and no later than
\* one RPC after the token's end.
EntriesBounded ==
    \A t \in Tokens : cache[t] # 0 =>
        /\ cache[t] <= now + CacheTTL
        /\ cache[t] <= revoked[t] + RpcTimeout + CacheTTL
        /\ cache[t] <= Expiry(t) + RpcTimeout + CacheTTL

\* A request that passed did so in the past.
PassedBefore ==
    \A g \in Calls : callPc[g] = "passed" => since[g] <= now

IInv == /\ TypeOK
        /\ RequestsTyped
        /\ KeysLast
        /\ VouchedInTime
        /\ EntriesBounded
        /\ PassedBefore
        /\ MaskedBriefly

\* The sum that Expiry is, for arithmetic: a token's life is one of the two.
LEMMA ExpiryNat ==
    ASSUME NEW t \in Tokens
    PROVE  /\ Expiry(t) \in Nat
           /\ Expiry(t) <= t.iat + AccessTTL + RefreshTTL
           /\ t.iat \in Times
  BY TimesAssumption DEF Expiry, Tokens, Times

\* What Revoke does, stated without EXCEPT.
LEMMA RevokeEffect ==
    ASSUME TypeOK, NEW t \in Tokens, ~Expired(t), Revoke(t)
    PROVE  /\ blacklist' \in [Tokens -> 0..(MaxTime + AccessTTL + RefreshTTL)]
           /\ revoked' \in [Tokens -> Times \cup {Never}]
           /\ blacklist'[t] = Expiry(t)
           /\ revoked'[t] = IF revoked[t] = Never THEN now ELSE revoked[t]
           /\ \A s \in Tokens \ {t} : blacklist'[s] = blacklist[s] /\ revoked'[s] = revoked[s]
<1>1. Expiry(t) \in Nat /\ now \in Nat /\ now < Expiry(t) /\ now <= MaxTime
  BY ExpiryNat, TimesAssumption DEF TypeOK, Expired, Times
<1>2. now + (Expiry(t) - now) = Expiry(t)
  BY <1>1
<1>3. Expiry(t) \in 0..(MaxTime + AccessTTL + RefreshTTL)
  BY ExpiryNat, TimesAssumption DEF Times
<1>4. blacklist' = [blacklist EXCEPT ![t] = Expiry(t)]
  BY <1>2 DEF Revoke
<1>5. revoked' = [revoked EXCEPT ![t] = IF revoked[t] = Never THEN now ELSE revoked[t]]
  BY DEF Revoke
<1>6. (IF revoked[t] = Never THEN now ELSE revoked[t]) \in Times \cup {Never}
  BY DEF TypeOK
<1> QED
  BY <1>3, <1>4, <1>5, <1>6 DEF TypeOK

\* Causes come from a fixed set.
LEMMA BecauseTyped ==
    ASSUME TypeOK, NEW u, NEW cause \in {"overlap", "lost", "second"}, Because(u, cause)
    PROVE  causes' \in [Users -> SUBSET {"overlap", "lost", "second"}]
  BY DEF Because, TypeOK

LEMMA TypeInit == Init => TypeOK /\ RequestsTyped
  BY TimesAssumption DEF Init, TypeOK, RequestsTyped, Times, Never

\* Type correctness is inductive: the arithmetic is in RevokeEffect.
LEMMA TypeStep == TypeOK /\ RequestsTyped /\ [Next]_vars => TypeOK' /\ RequestsTyped'
<1> SUFFICES ASSUME TypeOK, RequestsTyped, [Next]_vars PROVE TypeOK' /\ RequestsTyped'
  OBVIOUS
<1>m. now \in Times /\ now \in Nat /\ now <= MaxTime
  BY TimesAssumption DEF TypeOK, Times
<1>1. ASSUME NEW u \in Users, Login(u) PROVE TypeOK' /\ RequestsTyped'
  <2>1. Access(u) \in Tokens /\ Refresh(u) \in Tokens
    BY <1>m DEF Access, Refresh, Tokens
  <2> QED  BY <1>1, <2>1 DEF Login, TypeOK, RequestsTyped, refreshVars, callVars
<1>2. ASSUME NEW r \in Refreshes, NEW t \in issued, CheckRefresh(r, t)
      PROVE  TypeOK' /\ RequestsTyped'
  <2>1. causes' \in [Users -> SUBSET {"overlap", "lost", "second"}]
    BY <1>2, BecauseTyped DEF CheckRefresh, TypeOK
  <2> QED  BY <1>2, <2>1 DEF CheckRefresh, TypeOK, RequestsTyped, callVars
<1>3. ASSUME NEW r \in Refreshes, Generate(r) PROVE TypeOK' /\ RequestsTyped'
  <2>1. Refresh(old[r].user) \in Tokens
    BY <1>m, <1>3 DEF Generate, RequestsTyped, Refresh, Tokens
  <2> QED  BY <1>3, <2>1 DEF Generate, TypeOK, RequestsTyped, callVars, aux
<1>4. ASSUME NEW r \in Refreshes, Rotate(r) PROVE TypeOK' /\ RequestsTyped'
  <2>1. new[r] \in Tokens /\ old[r] \in Tokens
    BY <1>4 DEF Rotate, RequestsTyped
  <2>2. [new[r] EXCEPT !.kind = "access"] \in Tokens
    BY <2>1 DEF Tokens
  <2>3. /\ blacklist' \in [Tokens -> 0..(MaxTime + AccessTTL + RefreshTTL)]
        /\ revoked' \in [Tokens -> Times \cup {Never}]
    <3>1. CASE Expired(old[r])
      BY <1>4, <3>1 DEF Rotate, TypeOK
    <3>2. CASE ~Expired(old[r])
      BY <1>4, <3>2, <2>1, RevokeEffect DEF Rotate
    <3> QED  BY <3>1, <3>2
  <2>4. causes' \in [Users -> SUBSET {"overlap", "lost", "second"}]
    BY <1>4, BecauseTyped DEF Rotate, TypeOK
  <2> QED  BY <1>4, <2>1, <2>2, <2>3, <2>4 DEF Rotate, Finish, TypeOK, RequestsTyped, callVars
<1>5. ASSUME NEW r \in Refreshes, FailRefresh(r) PROVE TypeOK' /\ RequestsTyped'
  BY <1>5 DEF FailRefresh, Finish, TypeOK, RequestsTyped, callVars, aux
<1>12. ASSUME NEW r \in Refreshes, LoseRefresh(r) PROVE TypeOK' /\ RequestsTyped'
  <2>1. old[r] \in Tokens
    BY <1>12 DEF LoseRefresh, RequestsTyped
  <2>2. /\ blacklist' \in [Tokens -> 0..(MaxTime + AccessTTL + RefreshTTL)]
        /\ revoked' \in [Tokens -> Times \cup {Never}]
    BY <1>12, <2>1, RevokeEffect DEF LoseRefresh
  <2>3. causes' \in [Users -> SUBSET {"overlap", "lost", "second"}]
    BY <1>12, BecauseTyped DEF LoseRefresh
  <2> QED  BY <1>12, <2>2, <2>3 DEF LoseRefresh, Finish, TypeOK, RequestsTyped, callVars
<1>6. ASSUME NEW t \in issued, Logout(t) PROVE TypeOK' /\ RequestsTyped'
  <2>1. /\ blacklist' \in [Tokens -> 0..(MaxTime + AccessTTL + RefreshTTL)]
        /\ revoked' \in [Tokens -> Times \cup {Never}]
    <3>1. t \in Tokens
      BY DEF TypeOK
    <3> QED  BY <1>6, <3>1, RevokeEffect DEF Logout
  <2> QED  BY <1>6, <2>1 DEF Logout, TypeOK, RequestsTyped, refreshVars, callVars, aux
<1>7. ASSUME NEW g \in Calls, NEW t \in issued, PassCached(g, t) \/ Validate(g, t)
      PROVE  TypeOK' /\ RequestsTyped'
  <2>1. t \in Tokens
    BY DEF TypeOK
  <2>2. CASE PassCached(g, t)
    BY <2>1, <2>2, <1>m DEF PassCached, TypeOK, RequestsTyped, refreshVars, aux
  <2>3. CASE Validate(g, t)
    BY <2>1, <2>3, <1>m DEF Validate, TypeOK, RequestsTyped, refreshVars, aux
  <2> QED  BY <1>7, <2>2, <2>3
<1>8. ASSUME NEW g \in Calls, PassVouched(g) PROVE TypeOK' /\ RequestsTyped'
  <2>1. now + CacheTTL \in 0..(MaxTime + CacheTTL)
    BY <1>m, TimesAssumption
  <2>2. cache' \in [Tokens -> 0..(MaxTime + CacheTTL)]
    BY <1>8, <2>1 DEF PassVouched, TypeOK
  <2> QED  BY <1>8, <1>m, <2>2 DEF PassVouched, TypeOK, RequestsTyped, refreshVars, aux
<1>9. ASSUME NEW g \in Calls, TimeOut(g) PROVE TypeOK' /\ RequestsTyped'
  <2>1. 0 \in Times
    BY TimesAssumption DEF Times
  <2> QED  BY <1>9, <2>1 DEF TimeOut, TypeOK, RequestsTyped, refreshVars, aux
<1>10. CASE Tick
  <2>1. now' \in Times /\ 0 \in Times /\ 0 \in 0..(MaxTime + CacheTTL)
    BY <1>10, <1>m, TimesAssumption DEF Tick, Times
  <2>2. /\ callPc' \in [Calls -> {"idle", "vouched", "passed"}]
        /\ bearer' \in [Calls -> Tokens \cup {NoToken}]
        /\ since' \in [Calls -> Times]
        /\ cache' \in [Tokens -> 0..(MaxTime + CacheTTL)]
    BY <1>10, <2>1 DEF Tick, TypeOK
  <2> QED  BY <1>10, <2>1, <2>2 DEF Tick, Passed, TypeOK, RequestsTyped, refreshVars, aux
<1>11. CASE UNCHANGED vars
  BY <1>11 DEF vars, refreshVars, callVars, aux, TypeOK, RequestsTyped
<1> QED
  BY <1>1, <1>2, <1>3, <1>4, <1>5, <1>6, <1>7, <1>8, <1>9, <1>10, <1>11, <1>12 DEF Next

--------------------------------------------------------------------------------
\* Every step either leaves the keys alone or revokes one token that still
\* lives; the clock never goes back.
LEMMA KeysChange ==
    ASSUME TypeOK, RequestsTyped, [Next]_vars
    PROVE  /\ now <= now'
           /\ \/ UNCHANGED <<blacklist, revoked>>
              \/ /\ now' = now
                 /\ \E t \in Tokens : ~Expired(t) /\ Revoke(t)
<1>m. now \in Nat
  BY TimesAssumption DEF TypeOK, Times
<1>1. ASSUME NEW u \in Users, Login(u) PROVE UNCHANGED <<now, blacklist, revoked>>
  BY <1>1 DEF Login
<1>2. ASSUME NEW r \in Refreshes, (\E t \in issued : CheckRefresh(r, t)) \/ Generate(r)
      PROVE  UNCHANGED <<now, blacklist, revoked>>
  BY <1>2 DEF CheckRefresh, Generate
<1>3. ASSUME NEW r \in Refreshes, Rotate(r) \/ FailRefresh(r) \/ LoseRefresh(r)
      PROVE  /\ now' = now
             /\ \/ UNCHANGED <<blacklist, revoked>>
                \/ \E t \in Tokens : ~Expired(t) /\ Revoke(t)
  <2>1. CASE Rotate(r)
    BY <2>1 DEF Rotate, RequestsTyped
  <2>2. CASE FailRefresh(r)
    BY <2>2 DEF FailRefresh
  <2>3. CASE LoseRefresh(r)
    BY <2>3 DEF LoseRefresh, RequestsTyped
  <2> QED  BY <1>3, <2>1, <2>2, <2>3
<1>4. ASSUME NEW t \in issued, Logout(t)
      PROVE  now' = now /\ \E s \in Tokens : ~Expired(s) /\ Revoke(s)
  BY <1>4 DEF Logout, TypeOK
<1>5. ASSUME NEW g \in Calls,
             (\E t \in issued : PassCached(g, t) \/ Validate(g, t)) \/ PassVouched(g) \/ TimeOut(g)
      PROVE  UNCHANGED <<now, blacklist, revoked>>
  BY <1>5 DEF PassCached, Validate, PassVouched, TimeOut
<1>6. CASE Tick
  BY <1>6, <1>m DEF Tick
<1>7. CASE UNCHANGED vars
  BY <1>7, <1>m DEF vars
<1> QED
  BY <1>m, <1>1, <1>2, <1>3, <1>4, <1>5, <1>6, <1>7 DEF Next

\* A token is revoked once, and now.
LEMMA RevokedNow ==
    ASSUME TypeOK, RequestsTyped, [Next]_vars, NEW t \in Tokens
    PROVE  revoked'[t] = revoked[t] \/ (revoked'[t] = now /\ now' = now)
<1>1. CASE UNCHANGED <<blacklist, revoked>>
  BY <1>1
<1>2. ASSUME NEW s \in Tokens, ~Expired(s), Revoke(s), now' = now
      PROVE  revoked'[t] = revoked[t] \/ (revoked'[t] = now /\ now' = now)
  BY <1>2, RevokeEffect
<1> QED  BY <1>1, <1>2, KeysChange

LEMMA KeysStep ==
    ASSUME TypeOK, RequestsTyped, KeysLast, [Next]_vars
    PROVE  KeysLast'
<1>m. now \in Nat /\ now' \in Nat /\ now <= now'
  BY TypeStep, KeysChange, TimesAssumption DEF TypeOK, Times
<1>v. \A t \in Tokens : revoked[t] \in Nat
  BY TimesAssumption DEF TypeOK, Times, Never
<1>1. CASE UNCHANGED <<blacklist, revoked>>
  BY <1>1, <1>m, <1>v DEF KeysLast, Expiry, Never
<1>2. ASSUME NEW t \in Tokens, ~Expired(t), Revoke(t), now' = now PROVE KeysLast'
  <2>1. ASSUME NEW s \in Tokens, revoked'[s] # Never
        PROVE  revoked'[s] <= now' /\ blacklist'[s] = Expiry(s)
    <3>1. CASE s = t
      BY <1>2, <1>m, <3>1, RevokeEffect DEF KeysLast
    <3>2. CASE s # t
      BY <1>2, <2>1, <3>2, RevokeEffect DEF KeysLast
    <3> QED  BY <3>1, <3>2
  <2> QED  BY <2>1 DEF KeysLast, Expiry, Never
<1> QED
  BY <1>1, <1>2, KeysChange

\* Numbers for the arithmetic below.
LEMMA Numbers ==
    ASSUME TypeOK
    PROVE  /\ now \in Nat /\ now <= MaxTime
           /\ \A t \in Tokens : revoked[t] \in Nat /\ cache[t] \in Nat /\ Expiry(t) \in Nat
           /\ \A g \in Calls : since[g] \in Nat /\ since[g] <= MaxTime
           /\ RpcTimeout \in Nat /\ CacheTTL \in Nat /\ MaxTime \in Nat
  BY TimesAssumption, ExpiryNat DEF TypeOK, Times, Never

\* The auth service's steps and the clock's leave calls and entries in bounds:
\* a token revoked now was vouched for, cached and used before.
LEMMA OtherSteps ==
    ASSUME IInv, [Next]_vars, (UNCHANGED callVars /\ now' = now) \/ Tick
    PROVE  VouchedInTime' /\ EntriesBounded' /\ PassedBefore' /\ MaskedBriefly'
<1>t. TypeOK /\ RequestsTyped /\ now <= now'
  BY KeysChange DEF IInv
<1>n. /\ now \in Nat /\ now' \in Nat /\ now <= now'
      /\ \A t \in Tokens : revoked[t] \in Nat /\ revoked'[t] \in Nat /\ cache[t] \in Nat /\ Expiry(t) \in Nat
      /\ \A g \in Calls : since[g] \in Nat
      /\ RpcTimeout \in Nat /\ CacheTTL \in Nat
  <2>1. TypeOK'
    BY <1>t, TypeStep
  <2>2. now' \in Nat /\ \A t \in Tokens : revoked'[t] \in Nat
    BY <2>1, TimesAssumption DEF TypeOK, Times, Never
  <2> QED  BY <1>t, <2>2, Numbers
<1>r. \A t \in Tokens : revoked'[t] = revoked[t] \/ revoked'[t] = now
  BY <1>t, RevokedNow
<1>c. /\ \A g \in Calls : callPc'[g] \in {"vouched", "passed"} =>
            callPc'[g] = callPc[g] /\ bearer'[g] = bearer[g] /\ since'[g] = since[g]
      /\ \A t \in Tokens : cache'[t] # 0 => cache'[t] = cache[t]
  <2>1. CASE UNCHANGED callVars
    BY <2>1 DEF callVars
  <2>2. CASE Tick
    BY <2>2 DEF Tick, Passed
  <2> QED  BY <2>1, <2>2
<1>1. ASSUME NEW g \in Calls, callPc[g] = "vouched"
      PROVE  /\ since[g] <= now'
             /\ now' <= since[g] + RpcTimeout
             /\ since[g] <= revoked'[bearer[g]]
             /\ since[g] <= Expiry(bearer[g])
  <2>1. /\ bearer[g] \in Tokens
        /\ since[g] <= now
        /\ now <= since[g] + RpcTimeout
        /\ since[g] <= revoked[bearer[g]]
        /\ since[g] <= Expiry(bearer[g])
    BY <1>1 DEF IInv, RequestsTyped, VouchedInTime
  <2>2. now' <= since[g] + RpcTimeout
    BY <1>1, <1>n, <2>1 DEF Tick
  <2>3. since[g] <= revoked'[bearer[g]]
    BY <1>n, <1>r, <2>1
  <2>4. since[g] <= now'
    BY <1>n, <2>1
  <2> QED  BY <2>1, <2>2, <2>3, <2>4
<1>2. VouchedInTime'
  BY <1>1, <1>c DEF VouchedInTime, Expiry
<1>3. ASSUME NEW t \in Tokens, cache[t] # 0
      PROVE  /\ cache[t] <= now' + CacheTTL
             /\ cache[t] <= revoked'[t] + RpcTimeout + CacheTTL
             /\ cache[t] <= Expiry(t) + RpcTimeout + CacheTTL
  <2>1. /\ cache[t] <= now + CacheTTL
        /\ cache[t] <= revoked[t] + RpcTimeout + CacheTTL
        /\ cache[t] <= Expiry(t) + RpcTimeout + CacheTTL
    BY <1>3 DEF IInv, EntriesBounded
  <2>2. cache[t] <= now' + CacheTTL
    BY <1>n, <2>1
  <2>3. cache[t] <= revoked'[t] + RpcTimeout + CacheTTL
    BY <1>n, <1>r, <2>1
  <2> QED  BY <2>1, <2>2, <2>3
<1>4. EntriesBounded'
  BY <1>3, <1>c DEF EntriesBounded, Expiry
<1>5. ASSUME NEW g \in Calls, callPc[g] = "passed"
      PROVE  /\ since[g] <= now'
             /\ since[g] <= revoked'[bearer[g]] + RpcTimeout + CacheTTL
             /\ since[g] <= Expiry(bearer[g]) + RpcTimeout + CacheTTL
  <2>1. /\ bearer[g] \in Tokens
        /\ since[g] <= now
        /\ since[g] <= revoked[bearer[g]] + RpcTimeout + CacheTTL
        /\ since[g] <= Expiry(bearer[g]) + RpcTimeout + CacheTTL
    BY <1>5 DEF IInv, RequestsTyped, PassedBefore, MaskedBriefly, Passed
  <2>2. since[g] <= revoked'[bearer[g]] + RpcTimeout + CacheTTL
    BY <1>n, <1>r, <2>1
  <2>3. since[g] <= now'
    BY <1>n, <2>1
  <2> QED  BY <2>1, <2>2, <2>3
<1>6. PassedBefore' /\ MaskedBriefly'
  BY <1>5, <1>c DEF PassedBefore, MaskedBriefly, Passed, Expiry
<1> QED
  BY <1>2, <1>4, <1>6

\* The gateway's own steps.
LEMMA GatewaySteps ==
    ASSUME IInv, NEW g \in Calls,
           (\E t \in issued : PassCached(g, t) \/ Validate(g, t)) \/ PassVouched(g) \/ TimeOut(g)
    PROVE  VouchedInTime' /\ EntriesBounded' /\ PassedBefore' /\ MaskedBriefly'
<1>t. TypeOK /\ RequestsTyped /\ KeysLast /\ VouchedInTime /\ EntriesBounded /\ PassedBefore /\ MaskedBriefly
  BY DEF IInv
<1>n. /\ now \in Nat /\ now <= MaxTime
      /\ \A t \in Tokens : revoked[t] \in Nat /\ cache[t] \in Nat /\ Expiry(t) \in Nat
      /\ \A h \in Calls : since[h] \in Nat /\ since[h] <= MaxTime
      /\ RpcTimeout \in Nat /\ CacheTTL \in Nat /\ MaxTime \in Nat
  BY <1>t, Numbers
<1>e. now' = now /\ revoked' = revoked
  BY DEF PassCached, Validate, PassVouched, TimeOut
<1>1. ASSUME NEW t \in issued, PassCached(g, t)
      PROVE  VouchedInTime' /\ EntriesBounded' /\ PassedBefore' /\ MaskedBriefly'
  <2>1. /\ t \in Tokens
        /\ callPc' = [callPc EXCEPT ![g] = "passed"]
        /\ bearer' = [bearer EXCEPT ![g] = t]
        /\ since' = [since EXCEPT ![g] = now]
        /\ cache' = cache
        /\ cache[t] # 0
        /\ now <= cache[t]
    BY <1>1, <1>t DEF PassCached, Cached, TypeOK
  <2>2. /\ now <= revoked[t] + RpcTimeout + CacheTTL
        /\ now <= Expiry(t) + RpcTimeout + CacheTTL
    <3>1. /\ cache[t] <= revoked[t] + RpcTimeout + CacheTTL
          /\ cache[t] <= Expiry(t) + RpcTimeout + CacheTTL
      BY <1>t, <2>1 DEF EntriesBounded
    <3> QED  BY <1>n, <2>1, <3>1
  <2>3. VouchedInTime'
    BY <1>t, <1>e, <2>1 DEF VouchedInTime, Expiry, TypeOK
  <2>4. EntriesBounded'
    BY <1>t, <1>e, <2>1 DEF EntriesBounded, Expiry
  <2>5. PassedBefore'
    BY <1>t, <1>e, <1>n, <2>1 DEF PassedBefore, TypeOK
  <2>6. MaskedBriefly'
    BY <1>t, <1>e, <2>1, <2>2 DEF MaskedBriefly, Passed, Expiry, TypeOK
  <2> QED  BY <2>3, <2>4, <2>5, <2>6
<1>2. ASSUME NEW t \in issued, Validate(g, t)
      PROVE  VouchedInTime' /\ EntriesBounded' /\ PassedBefore' /\ MaskedBriefly'
  <2>1. /\ t \in Tokens
        /\ ~IsBlacklisted(t)
        /\ ~Expired(t)
        /\ callPc' = [callPc EXCEPT ![g] = "vouched"]
        /\ bearer' = [bearer EXCEPT ![g] = t]
        /\ since' = [since EXCEPT ![g] = now]
        /\ cache' = cache
    BY <1>2, <1>t DEF Validate, TypeOK
  <2>2. now <= revoked[t] /\ now <= Expiry(t)
    <3>1. now < Expiry(t)
      BY <2>1, <1>n DEF Expired
    <3>2. revoked[t] = Never
      BY <2>1, <3>1, <1>t DEF KeysLast, IsBlacklisted
    <3>3. now <= Never
      BY <1>n DEF Never
    <3>4. now <= Expiry(t)
      BY <1>n, <2>1, <3>1
    <3> QED  BY <3>2, <3>3, <3>4
  <2>3. VouchedInTime'
    <3>1. ASSUME NEW h \in Calls, callPc'[h] = "vouched"
          PROVE  /\ since'[h] <= now
                 /\ now <= since'[h] + RpcTimeout
                 /\ since'[h] <= revoked[bearer'[h]]
                 /\ since'[h] <= Expiry(bearer'[h])
      <4>1. CASE h = g
        <5>1. since'[h] = now /\ bearer'[h] = t
          BY <2>1, <4>1, <1>t DEF TypeOK
        <5>2. now <= now /\ now <= now + RpcTimeout
          BY <1>n
        <5> QED  BY <2>2, <5>1, <5>2
      <4>2. CASE h # g
        BY <2>1, <3>1, <4>2, <1>t DEF TypeOK, VouchedInTime
      <4> QED  BY <4>1, <4>2
    <3> QED  BY <3>1, <1>e DEF VouchedInTime, Expiry
  <2>4. EntriesBounded'
    BY <1>t, <1>e, <2>1 DEF EntriesBounded, Expiry
  <2>5. \A h \in Calls : callPc'[h] = "passed" =>
            callPc[h] = "passed" /\ since'[h] = since[h] /\ bearer'[h] = bearer[h]
    BY <1>t, <2>1 DEF TypeOK
  <2>6. PassedBefore' /\ MaskedBriefly'
    BY <1>t, <1>e, <2>5 DEF PassedBefore, MaskedBriefly, Passed, Expiry
  <2> QED  BY <2>3, <2>4, <2>6
<1>3. CASE PassVouched(g)
  <2>1. /\ bearer[g] \in Tokens
        /\ callPc' = [callPc EXCEPT ![g] = "passed"]
        /\ bearer' = bearer
        /\ since' = [since EXCEPT ![g] = now]
        /\ \/ cache' = cache
           \/ cache' = [cache EXCEPT ![bearer[g]] = now + CacheTTL]
    BY <1>3, <1>t DEF PassVouched, RequestsTyped
  <2>2. now <= revoked[bearer[g]] + RpcTimeout /\ now <= Expiry(bearer[g]) + RpcTimeout
    <3>1. /\ now <= since[g] + RpcTimeout
          /\ since[g] <= revoked[bearer[g]]
          /\ since[g] <= Expiry(bearer[g])
      BY <1>3, <1>t DEF VouchedInTime, PassVouched
    <3> QED  BY <1>n, <2>1, <3>1
  <2>3. /\ now + CacheTTL <= revoked[bearer[g]] + RpcTimeout + CacheTTL
        /\ now + CacheTTL <= Expiry(bearer[g]) + RpcTimeout + CacheTTL
        /\ now <= revoked[bearer[g]] + RpcTimeout + CacheTTL
        /\ now <= Expiry(bearer[g]) + RpcTimeout + CacheTTL
        /\ now + CacheTTL <= now + CacheTTL
    BY <1>n, <2>1, <2>2
  <2>4. VouchedInTime'
    BY <1>t, <1>e, <2>1 DEF VouchedInTime, Expiry, TypeOK
  <2>5. EntriesBounded'
    BY <1>t, <1>e, <2>1, <2>3 DEF EntriesBounded, Expiry, TypeOK
  <2>6. PassedBefore'
    BY <1>t, <1>e, <1>n, <2>1 DEF PassedBefore, TypeOK
  <2>7. MaskedBriefly'
    BY <1>t, <1>e, <2>1, <2>3 DEF MaskedBriefly, Passed, Expiry, TypeOK
  <2> QED  BY <2>4, <2>5, <2>6, <2>7
<1>4. CASE TimeOut(g)
  <2>1. /\ callPc' = [callPc EXCEPT ![g] = "idle"]
        /\ bearer' = [bearer EXCEPT ![g] = NoToken]
        /\ since' = [since EXCEPT ![g] = 0]
        /\ cache' = cache
    BY <1>4 DEF TimeOut
  <2>2. \A h \in Calls : callPc'[h] \in {"vouched", "passed"} =>
            callPc'[h] = callPc[h] /\ bearer'[h] = bearer[h] /\ since'[h] = since[h]
    BY <1>t, <2>1 DEF TypeOK
  <2> QED  BY <1>t, <1>e, <2>1, <2>2 DEF VouchedInTime, EntriesBounded, PassedBefore, MaskedBriefly, Passed, Expiry
<1> QED
  BY <1>1, <1>2, <1>3, <1>4

--------------------------------------------------------------------------------
LEMMA IInvInit == Init => IInv
<1> SUFFICES ASSUME Init PROVE IInv
  OBVIOUS
<1>1. TypeOK /\ RequestsTyped
  BY TypeInit
<1> QED
  BY <1>1 DEF Init, IInv, KeysLast, VouchedInTime, EntriesBounded, PassedBefore, MaskedBriefly, Passed

LEMMA IInvStep == IInv /\ [Next]_vars => IInv'
<1> SUFFICES ASSUME IInv, [Next]_vars PROVE IInv'
  OBVIOUS
<1>1. TypeOK' /\ RequestsTyped' /\ KeysLast'
  BY TypeStep, KeysStep DEF IInv
<1>2. CASE (UNCHANGED callVars /\ now' = now) \/ Tick
  BY <1>1, <1>2, OtherSteps DEF IInv
<1>3. ASSUME NEW g \in Calls,
             (\E t \in issued : PassCached(g, t) \/ Validate(g, t)) \/ PassVouched(g) \/ TimeOut(g)
      PROVE  IInv'
  BY <1>1, <1>3, GatewaySteps DEF IInv
<1>4. ASSUME NEW u \in Users, Login(u) PROVE UNCHANGED callVars /\ now' = now
  BY <1>4 DEF Login
<1>5. ASSUME NEW r \in Refreshes,
             (\E t \in issued : CheckRefresh(r, t)) \/ Generate(r) \/ Rotate(r)
                \/ FailRefresh(r) \/ LoseRefresh(r)
      PROVE  UNCHANGED callVars /\ now' = now
  BY <1>5 DEF CheckRefresh, Generate, Rotate, FailRefresh, LoseRefresh
<1>6. ASSUME NEW t \in issued, Logout(t) PROVE UNCHANGED callVars /\ now' = now
  BY <1>6 DEF Logout
<1>7. CASE Tick
  BY <1>7, <1>2
<1>8. CASE UNCHANGED vars
  BY <1>8, <1>2 DEF vars, callVars
<1> QED
  BY <1>2, <1>3, <1>4, <1>5, <1>6, <1>7, <1>8 DEF Next

LEMMA IInvAlways == Spec => []IInv
  BY IInvInit, IInvStep, PTL DEF Spec

\* Every variable stays in its range, whatever the lives of tokens and entries
\* (services/auth/adapters/security/redis_token_blacklist.go:22-27).
THEOREM SessionsTypeCorrect == Spec => []TypeOK
<1>1. IInv => TypeOK
  BY DEF IInv
<1> QED  BY <1>1, IInvAlways, PTL

\* A revoked token's key in Redis lives as long as the token, for all lives of
\* either kind (services/auth/application/refresh_token/handler.go:69-75).
THEOREM RevocationsLast == Spec => []RevocationOutlivesToken
<1>1. IInv => RevocationOutlivesToken
  <2> SUFFICES ASSUME IInv, NEW t \in Tokens, revoked[t] # Never
               PROVE  IsBlacklisted(t) \/ Expired(t)
    BY DEF RevocationOutlivesToken
  <2>1. blacklist[t] = Expiry(t)
    BY DEF IInv, KeysLast
  <2>2. now \in Nat /\ Expiry(t) \in Nat
    BY Numbers DEF IInv
  <2> QED  BY <2>1, <2>2 DEF IsBlacklisted, Expired
<1> QED  BY <1>1, IInvAlways, PTL

\* A revoked or expired token opens the gateway for no more than one cache life
\* and one RPC, for any number of requests and logouts
\* (gateway/ports/http/middleware/auth.go:112-154).
THEOREM RevocationsBite == Spec => []MaskedBriefly
<1>1. IInv => MaskedBriefly
  BY DEF IInv
<1> QED  BY <1>1, IInvAlways, PTL

--------------------------------------------------------------------------------
(* Rotation: what refreshes do to the tokens of a user                     *)

\* What a request works on: a token that its client was given, and the one made
\* from it, of the same user and no older.
HandsTracked ==
    /\ \A t \in issued : t.iat <= now
    /\ logins \subseteq issued
    /\ \A r \in Refreshes : refreshPc[r] # "idle" => old[r] \in issued /\ old[r].kind = "refresh"
    /\ \A r \in Refreshes : refreshPc[r] = "revoking" =>
          /\ new[r].kind = "refresh" /\ new[r].user = old[r].user
          /\ old[r].iat <= new[r].iat /\ new[r].iat <= now

\* Only what was given to somebody is revoked, and only the revoked has a key.
RevokedIssued ==
    \A t \in Tokens : IF revoked[t] = Never THEN blacklist[t] = 0 ELSE t \in issued

\* Each refresh token is followed by one that is not revoked, maybe itself.
Followed ==
    \A t \in issued : t.kind = "refresh" /\ causes[t.user] \cap {"lost", "second"} = {} =>
        \E s \in issued : s.kind = "refresh" /\ s.user = t.user /\ t.iat <= s.iat /\ revoked[s] = Never

\* Without an overlap a request has its token to itself, and nobody revokes it.
SingleHanded ==
    \A r \in Refreshes : refreshPc[r] # "idle" /\ "overlap" \notin causes[old[r].user] =>
        /\ revoked[old[r]] = Never
        /\ \A s \in Refreshes : InHand(s, old[r]) => s = r

\* The tokens that may still make another: those of requests count until the
\* request ends, though they expire meanwhile.
Unspent(u) ==
    {t \in issued : /\ t.kind = "refresh" /\ t.user = u /\ revoked[t] = Never
                    /\ ~Expired(t) \/ \E r \in Refreshes : InHand(r, t)}

LoginsOf(u) == {t \in logins : t.user = u}

CountKept ==
    \A u \in Users : "overlap" \notin causes[u] => Cardinality(Unspent(u)) <= Cardinality(LoginsOf(u))

\* The inductive invariant of the two theorems about rotation.
RotationInv ==
    /\ IInv
    /\ IsFiniteSet(issued) /\ HandsTracked /\ RevokedIssued
    /\ Followed /\ SingleHanded /\ CountKept

LEMMA RotationTyped ==
    ASSUME RotationInv
    PROVE  /\ TypeOK /\ RequestsTyped /\ now \in Nat /\ now < Never /\ Never \in Nat
           /\ issued \subseteq Tokens /\ logins \subseteq issued
           /\ \A t \in Tokens : t.iat \in Nat /\ t.user \in Users /\ Expiry(t) \in Nat
           /\ blacklist \in [Tokens -> Nat]
           /\ refreshPc \in [Refreshes -> {"idle", "checked", "revoking"}]
           /\ \A r \in Refreshes : refreshPc[r] # "idle" => old[r] \in Tokens
           /\ \A r \in Refreshes : refreshPc[r] = "revoking" => new[r] \in Tokens
           /\ causes \in [Users -> SUBSET {"overlap", "lost", "second"}]
<1>1. TypeOK /\ RequestsTyped /\ logins \subseteq issued
  BY DEF RotationInv, IInv, HandsTracked
<1>2. now \in Nat /\ now < Never /\ Never \in Nat /\ \A t \in Tokens : t.iat \in Nat /\ Expiry(t) \in Nat
  BY <1>1, ExpiryNat, TimesAssumption DEF TypeOK, Times, Never
<1>3. \A t \in Tokens : t.user \in Users
  BY DEF Tokens
<1>4. blacklist \in [Tokens -> Nat]
  BY <1>1, TimesAssumption DEF TypeOK
<1> QED
  BY <1>1, <1>2, <1>3, <1>4 DEF TypeOK, RequestsTyped

\* Sets of tokens, counted.
LEMMA NoMore ==
    ASSUME NEW U, IsFiniteSet(U), NEW V \in SUBSET U, NEW M, IsFiniteSet(M), NEW L \in SUBSET M,
           Cardinality(U) <= Cardinality(L)
    PROVE  Cardinality(V) <= Cardinality(M)
<1>1. IsFiniteSet(V) /\ Cardinality(V) <= Cardinality(U)
  BY FS_Subset
<1>2. IsFiniteSet(L) /\ Cardinality(L) <= Cardinality(M)
  BY FS_Subset
<1>3. Cardinality(U) \in Nat /\ Cardinality(V) \in Nat /\ Cardinality(L) \in Nat /\ Cardinality(M) \in Nat
  BY <1>1, <1>2, FS_CardinalityType
<1> QED
  BY <1>1, <1>2, <1>3

LEMMA AddedElement ==
    ASSUME NEW U, IsFiniteSet(U), NEW x
    PROVE  IsFiniteSet(U \cup {x}) /\ Cardinality(U \cup {x}) <= Cardinality(U) + 1
<1>1. Cardinality(U) \in Nat
  BY FS_CardinalityType
<1>2. IsFiniteSet(U \cup {x})
  BY FS_AddElement
<1>3. CASE x \in U
  BY <1>1, <1>2, <1>3, FS_AddElement
<1>4. CASE x \notin U
  <2>1. Cardinality(U \cup {x}) = Cardinality(U) + 1
    BY <1>4, FS_AddElement
  <2> QED
    BY <1>1, <1>2, <2>1
<1> QED
  BY <1>3, <1>4

LEMMA OneMore ==
    ASSUME NEW U, IsFiniteSet(U), NEW L, IsFiniteSet(L), NEW x, x \notin L,
           NEW V \in SUBSET (U \cup {x}), Cardinality(U) <= Cardinality(L)
    PROVE  Cardinality(V) <= Cardinality(L \cup {x})
<1>1. IsFiniteSet(U \cup {x}) /\ Cardinality(U \cup {x}) <= Cardinality(U) + 1
  BY AddedElement
<1>2. IsFiniteSet(L \cup {x}) /\ Cardinality(L \cup {x}) = Cardinality(L) + 1
  BY FS_AddElement
<1>3. Cardinality(V) <= Cardinality(U \cup {x}) /\ IsFiniteSet(V)
  BY <1>1, FS_Subset
<1>4. Cardinality(U) \in Nat /\ Cardinality(V) \in Nat /\ Cardinality(L) \in Nat /\ Cardinality(U \cup {x}) \in Nat
  BY <1>1, <1>3, FS_CardinalityType
<1> QED
  BY <1>1, <1>2, <1>3, <1>4

LEMMA Swapped ==
    ASSUME NEW U, IsFiniteSet(U), NEW o \in U, NEW n, NEW V \in SUBSET ((U \ {o}) \cup {n})
    PROVE  Cardinality(V) <= Cardinality(U)
<1>1. IsFiniteSet(U \ {o}) /\ Cardinality(U \ {o}) = Cardinality(U) - 1
  BY FS_RemoveElement
<1>2. Cardinality(U) \in Nat /\ Cardinality(U \ {o}) \in Nat
  BY <1>1, FS_CardinalityType
<1>3. IsFiniteSet((U \ {o}) \cup {n}) /\ Cardinality((U \ {o}) \cup {n}) <= Cardinality(U \ {o}) + 1
  BY <1>1, AddedElement
<1>4. Cardinality(V) <= Cardinality((U \ {o}) \cup {n}) /\ IsFiniteSet(V)
  BY <1>3, FS_Subset
<1>5. Cardinality(V) \in Nat /\ Cardinality((U \ {o}) \cup {n}) \in Nat
  BY <1>3, <1>4, FS_CardinalityType
<1> QED
  BY <1>1, <1>2, <1>3, <1>4, <1>5

LEMMA CountsFinite ==
    ASSUME RotationInv, NEW u \in Users
    PROVE  IsFiniteSet(Unspent(u)) /\ IsFiniteSet(LoginsOf(u))
<1>1. Unspent(u) \in SUBSET issued /\ LoginsOf(u) \in SUBSET issued
  BY RotationTyped DEF Unspent, LoginsOf
<1> QED
  BY <1>1, FS_Subset DEF RotationInv

\* Steps that spend tokens, if any, keep the count.
LEMMA CountShrinks ==
    ASSUME RotationInv, UNCHANGED <<issued, logins>>,
           \A u \in Users : causes[u] \subseteq causes'[u] /\ Unspent(u)' \subseteq Unspent(u)
    PROVE  CountKept'
<1> SUFFICES ASSUME NEW u \in Users, "overlap" \notin causes'[u]
             PROVE  Cardinality(Unspent(u)') <= Cardinality(LoginsOf(u)')
  BY DEF CountKept
<1>1. Cardinality(Unspent(u)) <= Cardinality(LoginsOf(u))
  BY DEF RotationInv, CountKept
<1>2. LoginsOf(u)' = LoginsOf(u)
  BY DEF LoginsOf
<1> QED
  BY <1>1, <1>2, CountsFinite, NoMore

\* A live token is not revoked.
LEMMA LiveUnrevoked ==
    ASSUME RotationInv, NEW t \in Tokens, ~Expired(t), ~IsBlacklisted(t)
    PROVE  revoked[t] = Never
<1>1. revoked[t] # Never => blacklist[t] = Expiry(t)
  BY DEF RotationInv, IInv, KeysLast
<1> QED
  BY <1>1, RotationTyped DEF Expired, IsBlacklisted

\* What the end of a token does, by revocation or because it had expired.
LEMMA SpentEffect ==
    ASSUME RotationInv, NEW t \in Tokens,
           IF Expired(t) THEN UNCHANGED <<blacklist, revoked>> ELSE Revoke(t)
    PROVE  /\ \A s \in Tokens : s # t => revoked'[s] = revoked[s] /\ blacklist'[s] = blacklist[s]
           /\ \A s \in Tokens : revoked'[s] = Never => revoked[s] = Never /\ blacklist'[s] = blacklist[s]
           /\ ~Expired(t) => revoked'[t] # Never
<1>1. CASE Expired(t)
  BY <1>1
<1>2. CASE ~Expired(t)
  <2>1. revoked'[t] = (IF revoked[t] = Never THEN now ELSE revoked[t])
        /\ \A s \in Tokens \ {t} : blacklist'[s] = blacklist[s] /\ revoked'[s] = revoked[s]
    BY <1>2, RevokeEffect, RotationTyped
  <2>2. revoked'[t] # Never
    BY <2>1, RotationTyped
  <2> QED
    BY <2>1, <2>2
<1> QED
  BY <1>1, <1>2

--------------------------------------------------------------------------------
\* What is left of the invariant to show, besides IInv.
Rotating == IsFiniteSet(issued) /\ HandsTracked /\ RevokedIssued /\ Followed /\ SingleHanded /\ CountKept

LEMMA RotatingInit == Init => RotationInv
<1> SUFFICES ASSUME Init PROVE RotationInv
  OBVIOUS
<1>1. IInv
  BY IInvInit
<1>2. \A u \in Users : Unspent(u) = {} /\ LoginsOf(u) = {}
  BY DEF Init, Unspent, LoginsOf
<1>3. CountKept
  BY <1>2, FS_EmptySet DEF CountKept
<1> QED
  BY <1>1, <1>3, FS_EmptySet
     DEF Init, RotationInv, HandsTracked, RevokedIssued, Followed, SingleHanded, Never

LEMMA LoginRotating ==
    ASSUME RotationInv, NEW u \in Users, Login(u)
    PROVE  Rotating'
<1> DEFINE n == Refresh(u)
           a == Access(u)
<1>1. /\ issued' = issued \cup {a, n} /\ logins' = logins \cup {n}
      /\ UNCHANGED <<now, blacklist, revoked, refreshPc, old, new, causes>>
  BY DEF Login, refreshVars
<1>2. /\ n \in Tokens /\ n.kind = "refresh" /\ n.user = u /\ n.iat = now
      /\ a \in Tokens /\ a.kind = "access" /\ a.iat = now
  BY RotationTyped DEF Refresh, Access, Tokens, TypeOK
<1> HIDE DEF n, a
<1>3. IsFiniteSet(issued')
  <2>1. issued' = (issued \cup {a}) \cup {n}
    BY <1>1
  <2> QED
    BY <2>1, FS_AddElement DEF RotationInv
<1>4. HandsTracked'
  <2>1. now <= now
    BY RotationTyped
  <2> QED
    BY <1>1, <1>2, <2>1 DEF RotationInv, HandsTracked
<1>5. RevokedIssued'
  BY <1>1 DEF RotationInv, RevokedIssued
<1>6. Followed'
  <2> SUFFICES ASSUME NEW t \in issued', t.kind = "refresh",
                      causes[t.user] \cap {"lost", "second"} = {}
               PROVE  \E s \in issued' : /\ s.kind = "refresh" /\ s.user = t.user
                                         /\ t.iat <= s.iat /\ revoked[s] = Never
    BY <1>1 DEF Followed
  <2>1. CASE t \in issued
    BY <1>1, <2>1 DEF RotationInv, Followed
  <2>2. CASE t \notin issued
    <3>1. t = n /\ n \notin issued /\ t \in Tokens
      BY <1>1, <1>2, <2>2
    <3>2. revoked[n] = Never /\ n.iat <= n.iat
      BY <1>2, <3>1, RotationTyped DEF RotationInv, RevokedIssued
    <3> QED
      BY <1>1, <1>2, <3>1, <3>2
  <2> QED
    BY <2>1, <2>2
<1>7. SingleHanded'
  BY <1>1 DEF RotationInv, SingleHanded, InHand
<1>8. CountKept'
  <2> SUFFICES ASSUME NEW v \in Users, "overlap" \notin causes[v]
               PROVE  Cardinality(Unspent(v)') <= Cardinality(LoginsOf(v)')
    BY <1>1 DEF CountKept
  <2>1. Cardinality(Unspent(v)) <= Cardinality(LoginsOf(v))
    BY DEF RotationInv, CountKept
  <2>2. Unspent(v)' \subseteq Unspent(v) \cup (IF v = u THEN {n} ELSE {})
    BY <1>1, <1>2 DEF Unspent, Expired, InHand, Expiry
  <2>3. LoginsOf(v)' = LoginsOf(v) \cup (IF v = u THEN {n} ELSE {})
    BY <1>1, <1>2 DEF LoginsOf
  <2>4. CASE v = u /\ n \in LoginsOf(v)
    <3>1. n \in issued /\ LoginsOf(v)' = LoginsOf(v)
      BY <2>3, <2>4, RotationTyped DEF LoginsOf
    <3>2. Unspent(v)' \subseteq Unspent(v)
      BY <1>1, <1>2, <3>1 DEF Unspent, Expired, InHand, Expiry
    <3> QED
      BY <2>1, <3>1, <3>2, CountsFinite, NoMore
  <2>5. CASE v = u /\ n \notin LoginsOf(v)
    BY <2>1, <2>2, <2>3, <2>5, CountsFinite, OneMore
  <2>6. CASE v # u
    BY <2>1, <2>2, <2>3, <2>6, CountsFinite, NoMore
  <2> QED
    BY <2>4, <2>5, <2>6
<1> QED
  BY <1>3, <1>4, <1>5, <1>6, <1>7, <1>8 DEF Rotating

LEMMA CheckRotating ==
    ASSUME RotationInv, NEW r \in Refreshes, NEW t \in issued, CheckRefresh(r, t)
    PROVE  Rotating'
<1>1. /\ refreshPc[r] = "idle" /\ t.kind = "refresh" /\ ~IsBlacklisted(t) /\ ~Expired(t) /\ t \in Tokens
      /\ refreshPc' = [refreshPc EXCEPT ![r] = "checked"] /\ old' = [old EXCEPT ![r] = t]
      /\ UNCHANGED <<now, issued, blacklist, revoked, new, logins>>
  BY RotationTyped DEF CheckRefresh
<1>2. refreshPc'[r] = "checked" /\ old'[r] = t
      /\ \A s \in Refreshes : s # r => refreshPc'[s] = refreshPc[s] /\ old'[s] = old[s]
  BY <1>1, RotationTyped DEF TypeOK
<1>3. /\ \A u \in Users : /\ causes[u] \subseteq causes'[u]
                          /\ causes'[u] \subseteq causes[u] \cup {"overlap"}
      /\ (\E s \in Refreshes : InHand(s, t)) => "overlap" \in causes'[t.user]
  BY <1>1, RotationTyped DEF CheckRefresh, Because
<1>4. revoked[t] = Never
  BY <1>1, LiveUnrevoked
<1>5. HandsTracked'
  BY <1>1, <1>2 DEF RotationInv, HandsTracked
<1>6. RevokedIssued'
  BY <1>1 DEF RotationInv, RevokedIssued
<1>7. Followed'
  BY <1>1, <1>3, RotationTyped DEF RotationInv, Followed
<1>8. SingleHanded'
  <2> SUFFICES ASSUME NEW q \in Refreshes, refreshPc'[q] # "idle", "overlap" \notin causes'[old'[q].user]
               PROVE  /\ revoked'[old'[q]] = Never
                      /\ \A s \in Refreshes : refreshPc'[s] # "idle" /\ old'[s] = old'[q] => s = q
    BY DEF SingleHanded, InHand
  <2>1. CASE q = r
    <3>1. \A s \in Refreshes : ~InHand(s, t)
      BY <1>2, <1>3, <2>1
    <3> QED
      BY <1>1, <1>2, <1>4, <2>1, <3>1 DEF InHand
  <2>2. CASE q # r
    <3>1. refreshPc[q] # "idle" /\ old'[q] = old[q] /\ old[q] \in Tokens
      BY <1>2, <2>2, RotationTyped
    <3>2. "overlap" \notin causes[old[q].user]
      BY <1>3, <3>1, RotationTyped
    <3>3. revoked[old[q]] = Never /\ \A s \in Refreshes : InHand(s, old[q]) => s = q
      BY <3>1, <3>2 DEF RotationInv, SingleHanded
    <3>4. t # old[q]
      <4>1. t = old[q] => InHand(q, t)
        BY <3>1 DEF InHand
      <4> QED
        BY <1>3, <3>1, <4>1
    <3> QED
      BY <1>1, <1>2, <3>1, <3>3, <3>4 DEF InHand
  <2> QED
    BY <2>1, <2>2
<1>9. CountKept'
  <2>1. \A u \in Users : Unspent(u)' \subseteq Unspent(u)
    BY <1>1, <1>2 DEF Unspent, Expired, InHand, Expiry
  <2> QED
    BY <1>1, <1>3, <2>1, CountShrinks
<1> QED
  BY <1>1, <1>5, <1>6, <1>7, <1>8, <1>9 DEF Rotating, RotationInv

LEMMA GenerateRotating ==
    ASSUME RotationInv, NEW r \in Refreshes, Generate(r)
    PROVE  Rotating'
<1>1. /\ refreshPc[r] = "checked" /\ refreshPc' = [refreshPc EXCEPT ![r] = "revoking"]
      /\ new' = [new EXCEPT ![r] = Refresh(old[r].user)]
      /\ UNCHANGED <<now, issued, blacklist, revoked, old, logins, causes>>
  BY DEF Generate, aux
<1>2. refreshPc'[r] = "revoking" /\ new'[r] = Refresh(old[r].user)
      /\ \A s \in Refreshes : s # r => refreshPc'[s] = refreshPc[s] /\ new'[s] = new[s]
  BY <1>1, RotationTyped DEF TypeOK
<1>3. \A s \in Refreshes : refreshPc'[s] # "idle" <=> refreshPc[s] # "idle"
  BY <1>1, <1>2
<1>4. HandsTracked'
  <2>1. old[r] \in issued /\ old[r].iat <= now /\ now <= now
    BY <1>1, RotationTyped DEF RotationInv, HandsTracked
  <2>2. new'[r].kind = "refresh" /\ new'[r].user = old[r].user /\ new'[r].iat = now
    BY <1>2 DEF Refresh
  <2> QED
    BY <1>1, <1>2, <1>3, <2>1, <2>2 DEF RotationInv, HandsTracked
<1>5. RevokedIssued' /\ Followed'
  BY <1>1 DEF RotationInv, RevokedIssued, Followed
<1>6. SingleHanded'
  BY <1>1, <1>3 DEF RotationInv, SingleHanded, InHand
<1>7. CountKept'
  <2>1. \A u \in Users : Unspent(u)' \subseteq Unspent(u)
    BY <1>1, <1>3 DEF Unspent, Expired, InHand, Expiry
  <2> QED
    BY <1>1, <2>1, CountShrinks
<1> QED
  BY <1>1, <1>4, <1>5, <1>6, <1>7 DEF Rotating, RotationInv

\* A request that ends leaves the others with what they have.
LEMMA FinishEffect ==
    ASSUME RotationInv, NEW r \in Refreshes, Finish(r)
    PROVE  /\ refreshPc'[r] = "idle"
           /\ \A s \in Refreshes : s # r => /\ refreshPc'[s] = refreshPc[s]
                                            /\ old'[s] = old[s] /\ new'[s] = new[s]
           /\ \A s \in Refreshes, t \in Tokens : InHand(s, t)' <=> InHand(s, t) /\ s # r
<1>1. refreshPc'[r] = "idle"
      /\ \A s \in Refreshes : s # r => /\ refreshPc'[s] = refreshPc[s]
                                       /\ old'[s] = old[s] /\ new'[s] = new[s]
  BY RotationTyped DEF Finish, TypeOK
<1> QED
  BY <1>1 DEF InHand

\* Requests that end, and tokens that are revoked with them, keep everybody
\* else's tokens as they are.
LEMMA OthersKept ==
    ASSUME RotationInv, NEW r \in Refreshes, Finish(r), NEW t \in Tokens,
           \A s \in Tokens : s # t => revoked'[s] = revoked[s],
           (t = old[r] /\ refreshPc[r] # "idle") \/ revoked'[t] = revoked[t],
           \A u \in Users : causes[u] \subseteq causes'[u],
           now' = now, issued \subseteq issued', logins' = logins,
           \A s \in issued' : s.iat <= now
    PROVE  HandsTracked' /\ SingleHanded'
<1>1. HandsTracked'
  BY FinishEffect DEF RotationInv, HandsTracked
<1>2. SingleHanded'
  <2> SUFFICES ASSUME NEW q \in Refreshes, refreshPc'[q] # "idle", "overlap" \notin causes'[old'[q].user]
               PROVE  /\ revoked'[old'[q]] = Never
                      /\ \A s \in Refreshes : refreshPc'[s] # "idle" /\ old'[s] = old'[q] => s = q
    BY DEF SingleHanded, InHand
  <2>1. q # r /\ refreshPc[q] # "idle" /\ old'[q] = old[q] /\ old[q] \in Tokens
    BY FinishEffect, RotationTyped
  <2>2. "overlap" \notin causes[old[q].user]
    BY <2>1, RotationTyped
  <2>3. revoked[old[q]] = Never /\ \A s \in Refreshes : InHand(s, old[q]) => s = q
    BY <2>1, <2>2 DEF RotationInv, SingleHanded
  <2>4. revoked'[old[q]] = revoked[old[q]]
    <3>1. CASE old[q] = t /\ t = old[r] /\ refreshPc[r] # "idle"
      BY <2>1, <2>3, <3>1 DEF InHand
    <3> QED
      BY <2>1, <3>1
  <2> QED
    BY <2>1, <2>3, <2>4, FinishEffect DEF InHand
<1> QED
  BY <1>1, <1>2

LEMMA RotateRotating ==
    ASSUME RotationInv, NEW r \in Refreshes, Rotate(r)
    PROVE  Rotating'
<1>o. PICK o : o = old[r]
  OBVIOUS
<1> DEFINE n == new[r]
           a == [new[r] EXCEPT !.kind = "access"]
<1>1. /\ refreshPc[r] = "revoking" /\ Finish(r) /\ issued' = issued \cup {n, a}
      /\ IF Expired(o) THEN UNCHANGED <<blacklist, revoked>> ELSE Revoke(o)
      /\ IF n \in issued THEN Because(n.user, "second") ELSE UNCHANGED causes
      /\ UNCHANGED <<now, logins>>
  BY <1>o DEF Rotate
<1>2. /\ n \in Tokens /\ o \in Tokens /\ o \in issued /\ o.kind = "refresh"
      /\ n.kind = "refresh" /\ n.user = o.user /\ o.iat <= n.iat /\ n.iat <= now
  BY <1>1, <1>o, RotationTyped DEF RotationInv, HandsTracked
<1>3. a \in Tokens /\ a.kind = "access" /\ a.iat = n.iat
  BY <1>2 DEF Tokens
<1>4. /\ \A s \in Tokens : s # o => revoked'[s] = revoked[s] /\ blacklist'[s] = blacklist[s]
      /\ \A s \in Tokens : revoked'[s] = Never => revoked[s] = Never /\ blacklist'[s] = blacklist[s]
      /\ ~Expired(o) => revoked'[o] # Never
  BY <1>1, <1>2, SpentEffect
<1>5. /\ \A u \in Users : causes[u] \subseteq causes'[u]
      /\ n \in issued => "second" \in causes'[o.user]
  BY <1>1, <1>2, RotationTyped DEF Because
<1> HIDE DEF n, a
<1>6. IsFiniteSet(issued')
  <2>1. issued' = (issued \cup {n}) \cup {a}
    BY <1>1
  <2> QED
    BY <2>1, FS_AddElement DEF RotationInv
<1>7. HandsTracked' /\ SingleHanded'
  <2>1. \A s \in issued' : s.iat <= now
    BY <1>1, <1>2, <1>3 DEF RotationInv, HandsTracked
  <2> QED
    BY <1>1, <1>2, <1>4, <1>5, <1>o, <2>1, OthersKept
<1>8. RevokedIssued'
  BY <1>1, <1>2, <1>4 DEF RotationInv, RevokedIssued
<1>9. Followed'
  <2> SUFFICES ASSUME NEW t \in issued', t.kind = "refresh",
                      causes'[t.user] \cap {"lost", "second"} = {}
               PROVE  \E s \in issued' : /\ s.kind = "refresh" /\ s.user = t.user
                                         /\ t.iat <= s.iat /\ revoked'[s] = Never
    BY DEF Followed
  <2>1. t \in Tokens /\ causes[t.user] \cap {"lost", "second"} = {}
    BY <1>1, <1>2, <1>3, <1>5, RotationTyped
  <2>2. CASE t.user # o.user
    <3>1. t \in issued
      BY <1>1, <1>2, <1>3, <2>2
    <3>2. PICK s \in issued : s.kind = "refresh" /\ s.user = t.user /\ t.iat <= s.iat /\ revoked[s] = Never
      BY <2>1, <3>1 DEF RotationInv, Followed
    <3> QED
      BY <1>1, <1>4, <2>2, <3>2, RotationTyped
  <2>3. CASE t.user = o.user
    <3>1. n \notin issued
      BY <1>5, <2>3
    <3>2. revoked'[n] = Never /\ n \in issued'
      BY <1>1, <1>2, <1>4, <3>1 DEF RotationInv, RevokedIssued
    <3>3. CASE t = n
      <4>1. n.iat <= n.iat
        BY <1>2, RotationTyped
      <4> QED
        BY <1>2, <3>2, <3>3, <4>1
    <3>4. CASE t \in issued
      <4>1. PICK s \in issued : s.kind = "refresh" /\ s.user = t.user /\ t.iat <= s.iat /\ revoked[s] = Never
        BY <2>1, <3>4 DEF RotationInv, Followed
      <4>2. CASE s # o
        BY <1>1, <1>4, <4>1, <4>2, RotationTyped
      <4>3. CASE s = o
        <5>1. t.iat \in Nat /\ o.iat \in Nat /\ n.iat \in Nat
          BY <1>2, <2>1, RotationTyped
        <5>2. t.iat <= n.iat
          BY <1>2, <4>1, <4>3, <5>1
        <5> QED
          BY <1>2, <2>3, <3>2, <5>2
      <4> QED
        BY <4>2, <4>3
    <3> QED
      BY <1>1, <1>3, <3>3, <3>4
  <2> QED
    BY <2>2, <2>3
<1>10. CountKept'
  <2> SUFFICES ASSUME NEW u \in Users, "overlap" \notin causes'[u]
               PROVE  Cardinality(Unspent(u)') <= Cardinality(LoginsOf(u)')
    BY DEF CountKept
  <2>1. "overlap" \notin causes[u] /\ Cardinality(Unspent(u)) <= Cardinality(LoginsOf(u))
    BY <1>5 DEF RotationInv, CountKept
  <2>2. LoginsOf(u)' = LoginsOf(u)
    BY <1>1 DEF LoginsOf
  <2>3. CASE u # o.user
    <3>1. Unspent(u)' \subseteq Unspent(u)
      <4>1. \A t \in issued' : t.kind = "refresh" /\ t.user = u => t \in issued
        BY <1>1, <1>2, <1>3, <2>3
      <4> QED
        BY <1>1, <1>4, <4>1, FinishEffect, RotationTyped DEF Unspent, Expired, Expiry
    <3> QED
      BY <2>1, <2>2, <3>1, CountsFinite, NoMore
  <2>4. CASE u = o.user
    <3>1. revoked[o] = Never /\ InHand(r, o) /\ \A s \in Refreshes : InHand(s, o) => s = r
      BY <1>1, <1>o, <2>1, <2>4 DEF RotationInv, SingleHanded, InHand
    <3>2. o \in Unspent(u)
      BY <1>2, <2>4, <3>1 DEF Unspent
    <3>3. o \notin Unspent(u)' \/ o = n
      <4>1. \A s \in Refreshes : ~InHand(s, o)'
        BY <1>1, <1>2, <3>1, FinishEffect
      <4>2. Expired(o)' = Expired(o)
        BY <1>1 DEF Expired, Expiry
      <4> QED
        BY <1>4, <4>1, <4>2 DEF Unspent
    <3>4. Unspent(u)' \subseteq (Unspent(u) \ {o}) \cup {n}
      <4>1. \A t \in issued' : t.kind = "refresh" => t \in issued \/ t = n
        BY <1>1, <1>3
      <4>2. ASSUME NEW t \in Unspent(u)', t # n PROVE t \in Unspent(u)
        <5>1. t \in issued /\ t \in Tokens /\ t.kind = "refresh" /\ t.user = u /\ revoked'[t] = Never
              /\ (~Expired(t) \/ \E s \in Refreshes : InHand(s, t)')
          BY <1>1, <4>1, <4>2, RotationTyped DEF Unspent, Expired, Expiry
        <5> QED
          BY <1>1, <1>4, <5>1, FinishEffect DEF Unspent
      <4> QED
        BY <3>3, <4>2
    <3>5. Cardinality(Unspent(u)') <= Cardinality(Unspent(u))
      BY <3>2, <3>4, CountsFinite, Swapped
    <3>6. Unspent(u)' \in SUBSET ((Unspent(u) \ {o}) \cup {n})
      BY <3>4
    <3>7. IsFiniteSet(Unspent(u)')
      <4>1. IsFiniteSet((Unspent(u) \ {o}) \cup {n})
        BY CountsFinite, FS_RemoveElement, FS_AddElement
      <4> QED
        BY <3>6, <4>1, FS_Subset
    <3>8. Cardinality(Unspent(u)') \in Nat /\ Cardinality(Unspent(u)) \in Nat /\ Cardinality(LoginsOf(u)) \in Nat
      BY <3>7, CountsFinite, FS_CardinalityType
    <3> QED
      BY <2>1, <2>2, <3>5, <3>8
  <2> QED
    BY <2>3, <2>4
<1> QED
  BY <1>6, <1>7, <1>8, <1>9, <1>10 DEF Rotating

LEMMA FailRotating ==
    ASSUME RotationInv, NEW r \in Refreshes, FailRefresh(r)
    PROVE  Rotating'
<1>1. /\ refreshPc[r] # "idle" /\ Finish(r) /\ old[r] \in Tokens
      /\ UNCHANGED <<now, issued, blacklist, revoked, logins, causes>>
  BY RotationTyped DEF FailRefresh, aux
<1>2. HandsTracked' /\ SingleHanded'
  <2>1. \A s \in issued' : s.iat <= now
    BY <1>1 DEF RotationInv, HandsTracked
  <2> QED
    BY <1>1, <2>1, OthersKept
<1>3. RevokedIssued' /\ Followed'
  BY <1>1 DEF RotationInv, RevokedIssued, Followed
<1>4. CountKept'
  <2>1. \A u \in Users : Unspent(u)' \subseteq Unspent(u)
    BY <1>1, FinishEffect, RotationTyped DEF Unspent, Expired, Expiry
  <2> QED
    BY <1>1, <2>1, CountShrinks
<1> QED
  BY <1>1, <1>2, <1>3, <1>4 DEF Rotating, RotationInv

LEMMA LoseRotating ==
    ASSUME RotationInv, NEW r \in Refreshes, LoseRefresh(r)
    PROVE  Rotating'
<1> DEFINE o == old[r]
<1>1. /\ refreshPc[r] = "revoking" /\ Finish(r) /\ o \in Tokens /\ o \in issued
      /\ ~Expired(o) /\ Revoke(o) /\ Because(o.user, "lost")
      /\ UNCHANGED <<now, issued, logins>>
  BY RotationTyped DEF LoseRefresh, RotationInv, HandsTracked
<1>2. /\ \A s \in Tokens : s # o => revoked'[s] = revoked[s] /\ blacklist'[s] = blacklist[s]
      /\ \A s \in Tokens : revoked'[s] = Never => revoked[s] = Never /\ blacklist'[s] = blacklist[s]
  BY <1>1, SpentEffect
<1>3. (\A u \in Users : causes[u] \subseteq causes'[u]) /\ "lost" \in causes'[o.user]
  BY <1>1, RotationTyped DEF Because
<1>4. HandsTracked' /\ SingleHanded'
  <2>1. \A s \in issued' : s.iat <= now
    BY <1>1 DEF RotationInv, HandsTracked
  <2> QED
    BY <1>1, <1>2, <1>3, <2>1, OthersKept
<1>5. RevokedIssued'
  BY <1>1, <1>2 DEF RotationInv, RevokedIssued
<1>6. Followed'
  <2> SUFFICES ASSUME NEW t \in issued, t.kind = "refresh",
                      causes'[t.user] \cap {"lost", "second"} = {}
               PROVE  \E s \in issued : /\ s.kind = "refresh" /\ s.user = t.user
                                        /\ t.iat <= s.iat /\ revoked'[s] = Never
    BY <1>1 DEF Followed
  <2>1. t \in Tokens /\ causes[t.user] \cap {"lost", "second"} = {} /\ t.user # o.user
    BY <1>3, RotationTyped
  <2>2. PICK s \in issued : s.kind = "refresh" /\ s.user = t.user /\ t.iat <= s.iat /\ revoked[s] = Never
    BY <2>1 DEF RotationInv, Followed
  <2> QED
    BY <1>2, <2>1, <2>2, RotationTyped
<1>7. CountKept'
  <2>1. \A u \in Users : Unspent(u)' \subseteq Unspent(u)
    BY <1>1, <1>2, FinishEffect, RotationTyped DEF Unspent, Expired, Expiry
  <2> QED
    BY <1>1, <1>3, <2>1, CountShrinks
<1> QED
  BY <1>1, <1>4, <1>5, <1>6, <1>7 DEF Rotating, RotationInv

LEMMA LogoutRotating ==
    ASSUME RotationInv, NEW t \in issued, Logout(t)
    PROVE  Rotating'
<1>1. /\ t \in Tokens /\ t.kind = "access" /\ ~Expired(t) /\ Revoke(t)
      /\ UNCHANGED <<now, issued, refreshPc, old, new, logins, causes>>
  BY RotationTyped DEF Logout, refreshVars, aux
<1>2. /\ \A s \in Tokens : s # t => revoked'[s] = revoked[s] /\ blacklist'[s] = blacklist[s]
      /\ \A s \in Tokens : revoked'[s] = Never => revoked[s] = Never /\ blacklist'[s] = blacklist[s]
  BY <1>1, SpentEffect
<1>3. HandsTracked'
  BY <1>1 DEF RotationInv, HandsTracked
<1>4. RevokedIssued'
  BY <1>1, <1>2 DEF RotationInv, RevokedIssued
<1>5. \A s \in issued : s.kind = "refresh" => revoked'[s] = revoked[s]
  BY <1>1, <1>2, RotationTyped
<1>6. Followed'
  BY <1>1, <1>5 DEF RotationInv, Followed
<1>7. SingleHanded'
  <2>1. \A r \in Refreshes : refreshPc[r] # "idle" => revoked'[old[r]] = revoked[old[r]]
    BY <1>5 DEF RotationInv, HandsTracked
  <2> QED
    BY <1>1, <2>1 DEF RotationInv, SingleHanded, InHand
<1>8. CountKept'
  <2>1. \A u \in Users : Unspent(u)' \subseteq Unspent(u)
    BY <1>1, <1>5 DEF Unspent, Expired, Expiry, InHand
  <2> QED
    BY <1>1, <2>1, CountShrinks
<1> QED
  BY <1>1, <1>3, <1>4, <1>6, <1>7, <1>8 DEF Rotating, RotationInv

\* Whatever leaves tokens and requests alone lets tokens expire at most.
LEMMA IdleRotating ==
    ASSUME RotationInv, now' = now \/ now' = now + 1,
           UNCHANGED <<issued, blacklist, revoked, refreshPc, old, new, logins, causes>>
    PROVE  Rotating'
<1>1. UNCHANGED <<issued, blacklist, revoked, refreshPc, old, new, logins, causes>>
  OBVIOUS
<1>2. now <= now' /\ now \in Nat /\ now' \in Nat
  BY RotationTyped
<1>3. HandsTracked'
  <2>1. \A t \in issued : t.iat <= now'
    BY <1>2, RotationTyped DEF RotationInv, HandsTracked
  <2>2. ASSUME NEW r \in Refreshes, refreshPc[r] = "revoking" PROVE new[r].iat <= now'
    <3>1. new[r].iat \in Nat /\ new[r].iat <= now
      BY <2>2, RotationTyped DEF RotationInv, HandsTracked
    <3> QED
      BY <1>2, <3>1
  <2> QED
    BY <1>1, <2>1, <2>2 DEF RotationInv, HandsTracked
<1>4. RevokedIssued' /\ Followed' /\ SingleHanded'
  BY <1>1 DEF RotationInv, RevokedIssued, Followed, SingleHanded, InHand, Never
<1>5. CountKept'
  <2>1. \A t \in Tokens : Expired(t) => Expired(t)'
    <3> SUFFICES ASSUME NEW t \in Tokens, now >= Expiry(t) PROVE now' >= Expiry(t)
      BY DEF Expired, Expiry
    <3> QED
      BY <1>2, RotationTyped
  <2>2. \A u \in Users : Unspent(u)' \subseteq Unspent(u)
    BY <1>1, <2>1, RotationTyped DEF Unspent, InHand
  <2> QED
    BY <1>1, <2>2, CountShrinks
<1> QED
  BY <1>1, <1>3, <1>4, <1>5 DEF Rotating, RotationInv

LEMMA RotationInvStep == RotationInv /\ [Next]_vars => RotationInv'
<1> SUFFICES ASSUME RotationInv, [Next]_vars PROVE RotationInv'
  OBVIOUS
<1>1. IInv'
  BY IInvStep DEF RotationInv
<1>2. ASSUME NEW g \in Calls,
             (\E t \in issued : PassCached(g, t) \/ Validate(g, t)) \/ PassVouched(g) \/ TimeOut(g)
      PROVE  Rotating'
  <2>1. now' = now /\ UNCHANGED <<issued, blacklist, revoked, refreshPc, old, new, logins, causes>>
    BY <1>2 DEF PassCached, Validate, PassVouched, TimeOut, refreshVars, aux
  <2> QED
    BY <2>1, IdleRotating
<1>3. ASSUME Tick PROVE Rotating'
  <2>1. now' = now + 1 /\ UNCHANGED <<issued, blacklist, revoked, refreshPc, old, new, logins, causes>>
    BY <1>3 DEF Tick, refreshVars, aux
  <2> QED
    BY <2>1, IdleRotating
<1>4. ASSUME UNCHANGED vars PROVE Rotating'
  <2>1. now' = now /\ UNCHANGED <<issued, blacklist, revoked, refreshPc, old, new, logins, causes>>
    BY <1>4 DEF vars, refreshVars, aux
  <2> QED
    BY <2>1, IdleRotating
<1>5. Rotating'
  BY <1>2, <1>3, <1>4, LoginRotating, CheckRotating, GenerateRotating, RotateRotating,
     FailRotating, LoseRotating, LogoutRotating DEF Next
<1> QED
  BY <1>1, <1>5 DEF RotationInv, Rotating

LEMMA RotationInvAlways == Spec => []RotationInv
  BY RotatingInit, RotationInvStep, PTL DEF Spec

\* A user has no more live refresh tokens than logins, unless requests had one
\* token at a time, for any number of requests and any lives
\* (services/auth/application/refresh_token/handler.go:68).
THEOREM SessionsNotMultiplied == Spec => []RotationKeepsCount
<1>1. RotationInv => RotationKeepsCount
  <2> SUFFICES ASSUME RotationInv, NEW u \in Users, "overlap" \notin causes[u]
               PROVE  Cardinality(Live(u)) <= Cardinality({t \in logins : t.user = u})
    BY DEF RotationKeepsCount
  <2>1. Live(u) \subseteq Unspent(u)
    BY LiveUnrevoked, RotationTyped DEF Live, Unspent
  <2>2. Cardinality(Unspent(u)) <= Cardinality(LoginsOf(u))
    BY DEF RotationInv, CountKept
  <2>3. Cardinality(Live(u)) <= Cardinality(LoginsOf(u))
    BY <2>1, <2>2, CountsFinite, NoMore
  <2> QED
    BY <2>3 DEF LoginsOf
<1> QED
  BY <1>1, RotationInvAlways, PTL

\* While a refresh token that a user was given has not expired, one can be
\* exchanged, unless an answer was lost or two tokens of the user are the same,
\* for any number of requests (services/auth/application/refresh_token/handler.go:56-57).
THEOREM NobodyLockedOut == Spec => []NotLockedOut
<1>1. RotationInv => NotLockedOut
  <2> SUFFICES ASSUME RotationInv, NEW u \in Users, causes[u] \cap {"lost", "second"} = {},
                      NEW t \in issued, t.kind = "refresh", t.user = u, ~Expired(t)
               PROVE  Live(u) # {}
    BY DEF NotLockedOut
  <2>1. PICK s \in issued : s.kind = "refresh" /\ s.user = t.user /\ t.iat <= s.iat /\ revoked[s] = Never
    BY DEF RotationInv, Followed
  <2>2. t \in Tokens /\ s \in Tokens /\ t.iat \in Nat /\ s.iat \in Nat /\ now \in Nat
    BY RotationTyped
  <2>3. ~IsBlacklisted(s)
    <3>1. blacklist[s] = 0
      BY <2>1, <2>2 DEF RotationInv, RevokedIssued
    <3> QED
      BY <2>2, <3>1 DEF IsBlacklisted
  <2>4. ~Expired(s)
    <3>1. now < t.iat + RefreshTTL
      BY <2>2, TimesAssumption DEF Expired, Expiry
    <3>2. now < s.iat + RefreshTTL
      BY <2>1, <2>2, <3>1, TimesAssumption
    <3> QED
      BY <2>1, <2>2, <3>2, TimesAssumption DEF Expired, Expiry
  <2> QED
    BY <2>1, <2>3, <2>4 DEF Live
<1> QED
  BY <1>1, RotationInvAlways, PTL

--------------------------------------------------------------------------------
(* Registration                                                            *)

\* An outbox row is written once, at the end of its request.
WrittenOnce ==
    /\ IsFiniteSet(Committed)
    /\ \A r \in Requests : regPc[r] \in {"idle", "hashing"} => r \notin Committed

\* Only committed rows are relayed, and only what was relayed is delivered.
FromOutbox ==
    /\ published \subseteq Committed
    /\ \A l \in Relays : relayed[l] \subseteq batch[l] /\ batch[l] \subseteq Committed
    /\ \A r \in Requests : copies[r] > 0 => r \in Committed
    /\ delivering # None => delivering \in Committed
    /\ profiles \subseteq Committed

\* The event of r is in the queue or in hand, or its work is done, or what
\* was lost of it has a known cause.
Accounted(r) ==
    r \in profiles \/ copies[r] > 0 \/ delivering = r \/ lost[r] # {}

\* A row counts as published, in a transaction that is open or committed, only
\* once its event is accounted for.
PublishedAccounted ==
    \A r \in Requests :
        (r \in published \/ \E l \in Relays : r \in relayed[l]) => Accounted(r)

CopiesBounded == \A r \in Requests : copies[r] + Held(r) <= MaxCopies

\* The inductive invariant of the theorems below.
RInv == RegTypeOK /\ CopiesBounded /\ WrittenOnce /\ FromOutbox /\ PublishedAccounted

--------------------------------------------------------------------------------
LEMMA InHandTyped == \A r : Held(r) \in {0, 1}
BY DEF Held

\* The steps that write the outbox or the profiles.
LEMMA CommittedStep ==
    ASSUME RInv, [RegNext]_regVars
    PROVE  \/ rowId' = rowId /\ Committed' = Committed
           \/ \E r \in Requests :
                 /\ CreateWithEvent(r) /\ r \notin Committed
                 /\ Committed' = Committed \cup {r}
                 /\ rowId'[r] \in Nat
                 /\ rowId' = [rowId EXCEPT ![r] = rowId'[r]]
<1>1. CASE rowId' = rowId
  BY <1>1 DEF Committed
<1>2. ASSUME NEW r \in Requests, CreateWithEvent(r)
      PROVE  /\ r \notin Committed
             /\ Committed' = Committed \cup {r}
             /\ rowId'[r] \in Nat
             /\ rowId' = [rowId EXCEPT ![r] = rowId'[r]]
  <2> DEFINE n == Cardinality(Committed) + 1
  <2>1. n \in Nat /\ n # 0
    BY FS_CardinalityType DEF RInv, WrittenOnce
  <2>2. rowId \in [Requests -> Nat] /\ rowId' = [rowId EXCEPT ![r] = n]
    BY <1>2 DEF CreateWithEvent, RInv, RegTypeOK
  <2> HIDE DEF n
  <2>3. r \notin Committed
    BY <1>2 DEF CreateWithEvent, RInv, WrittenOnce
  <2>4. \A s : s \in Committed' <=> s \in Committed \cup {r}
    BY <2>1, <2>2 DEF Committed
  <2> QED
    BY <2>1, <2>2, <2>3, <2>4
<1> QED
  BY <1>1, <1>2
     DEF RegNext, Register, Relay, Consume, Process, regVars, authVars, CheckEmail, FailRegister,
         BeginBatch, Publish, CommitBatch, AbortBatch, LoseLink, RestartAuth, StartConsumer,
         Deliver, CreateProfile, RejectProfile, RequeueProfile, StopConsumer, DiscardProfile,
         ExitConsumer, LoseConsumer, LoseChannel, EndDeaf, InsertInDoubt

LEMMA ProfileStep ==
    ASSUME [RegNext]_regVars
    PROVE  \/ profiles' = profiles
           \/ \E r \in Requests :
                 delivering = r /\ profiles' = profiles \cup {r} /\ UNCHANGED authVars
BY DEF RegNext, Register, Relay, Consume, Process, regVars, userVars, CheckEmail, CreateWithEvent, FailRegister,
       BeginBatch, Publish, CommitBatch, AbortBatch, LoseLink, RestartAuth, StartConsumer,
       Deliver, CreateProfile, RejectProfile, RequeueProfile, StopConsumer, DiscardProfile,
       ExitConsumer, LoseConsumer, LoseChannel, EndDeaf, InsertInDoubt

--------------------------------------------------------------------------------
(* Types                                                                   *)

LEMMA FaultTyped ==
    ASSUME faults \in 0..MaxFaults, Fault \/ UNCHANGED faults
    PROVE  faults' \in 0..MaxFaults
BY RegistrationAssumption DEF Fault

LEMMA RegisterTyped ==
    ASSUME RInv, NEW r \in Requests, Register(r)
    PROVE  RegTypeOK'
<1>1. rowId' \in [Requests -> Nat]
  <2>1. [RegNext]_regVars
    BY DEF RegNext
  <2> QED
    BY <2>1, CommittedStep DEF RInv, RegTypeOK
<1>2. regPc' \in [Requests -> {"idle", "hashing", "registered", "failed"}]
  BY DEF Register, CheckEmail, CreateWithEvent, FailRegister, RInv, RegTypeOK
<1> QED
  BY <1>1, <1>2 DEF Register, CheckEmail, CreateWithEvent, FailRegister, RInv, RegTypeOK,
                    relayVars, brokerVars, userVars

LEMMA RelayTyped ==
    ASSUME RInv, NEW l \in Relays, Relay(l)
    PROVE  RegTypeOK'
<1>u. authVars' = authVars /\ userVars' = userVars /\ bound' = bound
  BY DEF Relay, BeginBatch, Publish, CommitBatch, AbortBatch, LoseLink, RestartAuth, brokerVars
<1>f. faults' \in 0..MaxFaults
  BY FaultTyped DEF Relay, BeginBatch, Publish, CommitBatch, AbortBatch, LoseLink, RestartAuth,
                    RInv, RegTypeOK
<1>1. ASSUME NEW r \in Requests, Publish(l, r) PROVE RegTypeOK'
  <2>1. copies' \in [Requests -> 0..MaxCopies]
    <3>1. copies \in [Requests -> 0..MaxCopies] /\ MaxCopies \in Nat
      BY RegistrationAssumption DEF RInv, RegTypeOK
    <3>2. CASE copies' = copies
      BY <3>1, <3>2
    <3>3. CASE copies' = [copies EXCEPT ![r] = @ + 1] /\ copies[r] + Held(r) < MaxCopies
      <4>1. copies[r] + 1 \in 0..MaxCopies
        BY <3>1, <3>3, InHandTyped
      <4> QED
        BY <3>1, <3>3, <4>1
    <3> QED
      BY <1>1, <3>2, <3>3 DEF Publish
  <2>2. lost' \in [Requests -> SUBSET Causes]
    BY <1>1 DEF Publish, RInv, RegTypeOK, Causes
  <2>3. relayed' \in [Relays -> SUBSET Requests]
    BY <1>1 DEF Publish, RInv, RegTypeOK
  <2> QED
    BY <1>1, <1>u, <1>f, <2>1, <2>2, <2>3
       DEF Publish, RInv, RegTypeOK, authVars, userVars
<1>2. CASE BeginBatch(l)
  <2>1. batch' \in [Relays -> SUBSET Requests]
    BY <1>2 DEF BeginBatch, FreeRows, Committed, RInv, RegTypeOK
  <2> QED
    BY <1>2, <1>u, <1>f, <2>1 DEF BeginBatch, RInv, RegTypeOK, authVars, userVars, brokerVars
<1>3. CASE CommitBatch(l) \/ AbortBatch(l) \/ LoseLink(l) \/ RestartAuth(l)
  <2>1. /\ batch' = [batch EXCEPT ![l] = {}] /\ relayed' = [relayed EXCEPT ![l] = {}]
        /\ link' = link \/ \E b \in BOOLEAN : link' = [link EXCEPT ![l] = b]
        /\ published' = published \/ published' = published \cup batch[l]
        /\ UNCHANGED <<brokerVars, lost>>
    BY <1>3 DEF CommitBatch, AbortBatch, LoseLink, RestartAuth
  <2> QED
    BY <1>u, <1>f, <2>1 DEF RInv, RegTypeOK, authVars, userVars, brokerVars
<1> QED
  BY <1>1, <1>2, <1>3 DEF Relay

LEMMA UserTyped ==
    ASSUME RInv, (\E r \in Requests : Consume(r)) \/ Process
    PROVE  RegTypeOK'
<1>u. authVars' = authVars /\ relayVars' = relayVars
  BY DEF Consume, Process, Deliver, CreateProfile, RejectProfile, RequeueProfile, StopConsumer,
         DiscardProfile, ExitConsumer, LoseConsumer, LoseChannel, EndDeaf, InsertInDoubt, StartConsumer
<1>t. /\ copies \in [Requests -> 0..MaxCopies] /\ MaxCopies \in Nat
      /\ delivering \in Requests \cup {None} /\ lost \in [Requests -> SUBSET Causes]
      /\ profiles \subseteq Requests /\ faults \in 0..MaxFaults
      /\ \A r \in Requests : copies[r] + Held(r) <= MaxCopies
  BY RegistrationAssumption DEF RInv, RegTypeOK, CopiesBounded
<1>f. faults' \in 0..MaxFaults
  BY <1>t, FaultTyped
     DEF Consume, Process, Deliver, CreateProfile, RejectProfile, RequeueProfile, StopConsumer,
         DiscardProfile, ExitConsumer, LoseConsumer, LoseChannel, EndDeaf, InsertInDoubt, StartConsumer
<1>p. profiles' \subseteq Requests
  <2>1. [RegNext]_regVars
    BY DEF RegNext
  <2> QED
    BY <1>t, <2>1, ProfileStep
<1>s. lost' \in [Requests -> SUBSET Causes]
  BY <1>t DEF Consume, Process, Deliver, CreateProfile, RejectProfile, RequeueProfile,
              StopConsumer, DiscardProfile, ExitConsumer, LoseConsumer, LoseChannel, EndDeaf, InsertInDoubt, StartConsumer, Causes
<1>d. delivering' \in Requests \cup {None}
  BY <1>t DEF Consume, Process, Deliver, CreateProfile, RejectProfile, RequeueProfile,
              StopConsumer, DiscardProfile, ExitConsumer, LoseConsumer, LoseChannel, EndDeaf, InsertInDoubt, StartConsumer, userVars,
              Redeliver
<1>c. copies' \in [Requests -> 0..MaxCopies]
  <2>1. ASSUME NEW r \in Requests, Deliver(r) PROVE <1>c!:
    BY <1>t, <2>1 DEF Deliver
  <2>2. ASSUME NEW r \in Requests, RequeueProfile(r) PROVE <1>c!:
    <3>1. copies[r] + 1 \in 0..MaxCopies
      BY <1>t, <2>2 DEF RequeueProfile, Held
    <3> QED
      BY <1>t, <2>2, <3>1 DEF RequeueProfile
  <2>3. CASE Redeliver
    BY <1>t, <2>3, InHandTyped DEF Redeliver
  <2> QED
    BY <1>t, <2>1, <2>2, <2>3
       DEF Consume, Process, CreateProfile, RejectProfile, StopConsumer, DiscardProfile,
           ExitConsumer, LoseConsumer, LoseChannel, EndDeaf, InsertInDoubt, StartConsumer, brokerVars
<1>o. consumer' \in {"down", "up", "stopping", "deaf"} /\ bound' \in BOOLEAN
  BY DEF Consume, Process, Deliver, CreateProfile, RejectProfile, RequeueProfile, StopConsumer,
         DiscardProfile, ExitConsumer, LoseConsumer, LoseChannel, EndDeaf, InsertInDoubt, StartConsumer, brokerVars, RInv, RegTypeOK
<1> QED
  BY <1>u, <1>f, <1>p, <1>s, <1>d, <1>c, <1>o DEF authVars, relayVars, RInv, RegTypeOK

LEMMA TypeOKStep == RInv /\ [RegNext]_regVars => RegTypeOK'
<1>1. ASSUME RInv, UNCHANGED regVars PROVE RegTypeOK'
  BY <1>1 DEF RInv, RegTypeOK, regVars, authVars, relayVars, brokerVars, userVars
<1> QED
  BY <1>1, RegisterTyped, RelayTyped, UserTyped DEF RegNext

--------------------------------------------------------------------------------
(* The other parts of the invariant                                        *)

LEMMA CopiesBoundedStep == RInv /\ [RegNext]_regVars => CopiesBounded'
<1> SUFFICES ASSUME RInv, [RegNext]_regVars, NEW s \in Requests
             PROVE  copies'[s] + Held(s)' <= MaxCopies
  BY DEF CopiesBounded
<1>t. copies \in [Requests -> 0..MaxCopies] /\ MaxCopies \in Nat /\ copies[s] \in Nat
  BY RegistrationAssumption DEF RInv, RegTypeOK
<1>b. copies[s] + Held(s) <= MaxCopies
  BY DEF RInv, CopiesBounded
<1>n. None # s
  BY NoneAssumption
<1>1. ASSUME NEW r \in Requests, NEW l \in Relays, Publish(l, r)
      PROVE  copies'[s] + Held(s)' <= MaxCopies
  <2>1. Held(s)' = Held(s)
    BY <1>1 DEF Publish, userVars, Held
  <2>2. copies' = copies \/ (copies' = [copies EXCEPT ![r] = @ + 1] /\ copies[r] + Held(r) < MaxCopies)
    BY <1>1 DEF Publish
  <2> QED
    BY <1>t, <1>b, <2>1, <2>2, InHandTyped
<1>2. ASSUME NEW r \in Requests, Deliver(r)
      PROVE  copies'[s] + Held(s)' <= MaxCopies
  BY <1>t, <1>b, <1>2 DEF Deliver, Held
<1>3. ASSUME NEW r \in Requests, RequeueProfile(r)
      PROVE  copies'[s] + Held(s)' <= MaxCopies
  BY <1>t, <1>b, <1>n, <1>3 DEF RequeueProfile, Held
<1>4. ASSUME Redeliver
      PROVE  copies'[s] + Held(s)' <= MaxCopies
  BY <1>t, <1>b, <1>n, <1>4, InHandTyped DEF Redeliver, Held
<1>5. ASSUME copies' = copies, delivering' = delivering \/ delivering' = None
      PROVE  copies'[s] + Held(s)' <= MaxCopies
  BY <1>t, <1>b, <1>n, <1>5, InHandTyped DEF Held
<1> QED
  BY <1>1, <1>2, <1>3, <1>4, <1>5
     DEF RegNext, Register, Relay, Consume, Process, regVars, userVars, brokerVars, CheckEmail,
         CreateWithEvent, FailRegister, BeginBatch, CommitBatch, AbortBatch, LoseLink, RestartAuth,
         StartConsumer, CreateProfile, RejectProfile, StopConsumer, DiscardProfile,
         ExitConsumer, LoseConsumer, LoseChannel, EndDeaf, InsertInDoubt

LEMMA WrittenOnceStep == RInv /\ [RegNext]_regVars => WrittenOnce'
<1> SUFFICES ASSUME RInv, [RegNext]_regVars PROVE WrittenOnce'
  OBVIOUS
<1>1. IsFiniteSet(Committed')
  BY CommittedStep, FS_AddElement DEF RInv, WrittenOnce
<1>2. ASSUME NEW r \in Requests, regPc'[r] \in {"idle", "hashing"}
      PROVE  r \notin Committed'
  <2>t. regPc \in [Requests -> {"idle", "hashing", "registered", "failed"}]
    BY DEF RInv, RegTypeOK
  <2>1. regPc[r] \in {"idle", "hashing"}
    <3>1. ASSUME NEW s \in Requests, Register(s) PROVE regPc[r] \in {"idle", "hashing"}
      BY <1>2, <2>t, <3>1 DEF Register, CheckEmail, CreateWithEvent, FailRegister
    <3>2. CASE regPc' = regPc
      BY <1>2, <3>2
    <3> QED
      BY <3>1, <3>2
         DEF RegNext, Relay, Consume, Process, regVars, authVars,
             BeginBatch, Publish, CommitBatch, AbortBatch, LoseLink, RestartAuth, StartConsumer,
             Deliver, CreateProfile, RejectProfile, RequeueProfile, StopConsumer, DiscardProfile,
             ExitConsumer, LoseConsumer, LoseChannel, EndDeaf, InsertInDoubt
  <2>2. ~CreateWithEvent(r)
    BY <1>2, <2>t DEF CreateWithEvent
  <2> QED
    BY <2>1, <2>2, CommittedStep DEF RInv, WrittenOnce
<1> QED
  BY <1>1, <1>2 DEF WrittenOnce

LEMMA FromOutboxStep == RInv /\ [RegNext]_regVars => FromOutbox'
<1> SUFFICES ASSUME RInv, [RegNext]_regVars PROVE FromOutbox'
  OBVIOUS
<1>g. Committed \subseteq Committed'
  BY CommittedStep
<1>o. FromOutbox
  BY DEF RInv
<1>t. /\ batch \in [Relays -> SUBSET Requests] /\ relayed \in [Relays -> SUBSET Requests]
      /\ copies \in [Requests -> 0..MaxCopies] /\ MaxCopies \in Nat
  BY RegistrationAssumption DEF RInv, RegTypeOK
<1>p. profiles' \subseteq Committed'
  BY <1>g, <1>o, ProfileStep, NoneAssumption DEF FromOutbox
<1>1. ASSUME NEW r \in Requests, Register(r) PROVE FromOutbox'
  BY <1>1, <1>g, <1>o, <1>p
     DEF FromOutbox, Register, CheckEmail, CreateWithEvent, FailRegister, relayVars, brokerVars, userVars
<1>2. ASSUME NEW l \in Relays, Relay(l) PROVE FromOutbox'
  <2>1. delivering' = delivering
    BY <1>2 DEF Relay, BeginBatch, Publish, CommitBatch, AbortBatch, LoseLink, RestartAuth, userVars
  <2>2. published' \subseteq Committed'
    BY <1>2, <1>g, <1>o DEF FromOutbox, Relay, BeginBatch, Publish, CommitBatch, AbortBatch, LoseLink, RestartAuth
  <2>3. ASSUME NEW k \in Relays PROVE relayed'[k] \subseteq batch'[k] /\ batch'[k] \subseteq Committed'
    <3>1. ASSUME NEW r \in Requests, Publish(l, r)
          PROVE  relayed'[k] \subseteq batch'[k] /\ batch'[k] \subseteq Committed'
      BY <1>t, <1>g, <1>o, <3>1 DEF FromOutbox, Publish, IsNext
    <3>2. CASE BeginBatch(l)
      BY <1>t, <1>g, <1>o, <3>2 DEF FromOutbox, BeginBatch, FreeRows
    <3>3. CASE CommitBatch(l) \/ AbortBatch(l) \/ LoseLink(l) \/ RestartAuth(l)
      <4>1. batch' = [batch EXCEPT ![l] = {}] /\ relayed' = [relayed EXCEPT ![l] = {}]
        BY <3>3 DEF CommitBatch, AbortBatch, LoseLink, RestartAuth
      <4> QED
        BY <1>t, <1>g, <1>o, <4>1 DEF FromOutbox
    <3> QED
      BY <1>2, <3>1, <3>2, <3>3 DEF Relay
  <2>4. ASSUME NEW s \in Requests, copies'[s] > 0 PROVE s \in Committed'
    <3>1. ASSUME NEW r \in Requests, Publish(l, r) PROVE s \in Committed'
      <4>1. r \in Committed
        BY <1>o, <3>1 DEF FromOutbox, Publish, IsNext
      <4> QED
        BY <1>t, <1>g, <1>o, <2>4, <3>1, <4>1 DEF FromOutbox, Publish
    <3>2. CASE copies' = copies
      BY <1>g, <1>o, <2>4, <3>2 DEF FromOutbox
    <3> QED
      BY <1>2, <3>1, <3>2
         DEF Relay, BeginBatch, CommitBatch, AbortBatch, LoseLink, RestartAuth, brokerVars
  <2> QED
    BY <1>g, <1>o, <1>p, <2>1, <2>2, <2>3, <2>4 DEF FromOutbox
<1>3. CASE (\E r \in Requests : Consume(r)) \/ Process
  <2>1. published' = published /\ batch' = batch /\ relayed' = relayed
    BY <1>3 DEF Consume, Process, Deliver, CreateProfile, RejectProfile, RequeueProfile, StopConsumer,
         DiscardProfile, ExitConsumer, LoseConsumer, LoseChannel, EndDeaf, InsertInDoubt, StartConsumer, relayVars
  <2>2. ASSUME NEW s \in Requests, copies'[s] > 0 \/ delivering' = s PROVE s \in Committed'
    <3>1. copies[s] > 0 \/ delivering = s
      <4>n. s # None
        BY NoneAssumption
      <4>c. copies[s] \in Nat
        BY <1>t
      <4>1. ASSUME NEW r \in Requests, Deliver(r) PROVE <3>1!:
        BY <1>t, <2>2, <4>1, <4>n, <4>c DEF Deliver
      <4>2. ASSUME NEW r \in Requests, RequeueProfile(r) PROVE <3>1!:
        BY <1>t, <2>2, <4>2, <4>n DEF RequeueProfile
      <4>3. CASE Redeliver
        BY <1>t, <2>2, <4>3, <4>n, <4>c DEF Redeliver, Held
      <4>4. CASE copies' = copies /\ (delivering' = delivering \/ delivering' = None)
        BY <2>2, <4>4, <4>n
      <4> QED
        BY <1>3, <4>1, <4>2, <4>3, <4>4
           DEF Consume, Process, CreateProfile, RejectProfile, StopConsumer, DiscardProfile,
               ExitConsumer, LoseConsumer, LoseChannel, EndDeaf, InsertInDoubt, StartConsumer, brokerVars, userVars
    <3> QED
      BY <1>g, <1>o, <3>1, NoneAssumption DEF FromOutbox
  <2>3. delivering' # None => delivering' \in Requests
    BY <1>3, TypeOKStep DEF RInv, RegTypeOK
  <2> QED
    BY <1>g, <1>o, <1>p, <2>1, <2>2, <2>3 DEF FromOutbox
<1>4. CASE UNCHANGED regVars
  BY <1>4, <1>g, <1>o, <1>p DEF regVars, FromOutbox, relayVars, brokerVars, userVars
<1> QED
  BY <1>1, <1>2, <1>3, <1>4 DEF RegNext

\* What is accounted for stays so.
LEMMA AccountedKept ==
    ASSUME RInv, [RegNext]_regVars, NEW s \in Requests, Accounted(s)
    PROVE  Accounted(s)'
<1>t. /\ copies \in [Requests -> 0..MaxCopies] /\ MaxCopies \in Nat /\ copies[s] \in Nat
      /\ lost \in [Requests -> SUBSET Causes] /\ s # None
  BY RegistrationAssumption, NoneAssumption DEF RInv, RegTypeOK
<1>p. s \in profiles => s \in profiles'
  BY ProfileStep
<1>1. ASSUME NEW r \in Requests, NEW l \in Relays, Publish(l, r) PROVE Accounted(s)'
  BY <1>t, <1>1 DEF Publish, Accounted, userVars
<1>2. ASSUME NEW r \in Requests, Deliver(r) PROVE Accounted(s)'
  BY <1>t, <1>2 DEF Deliver, Accounted
<1>3. ASSUME NEW r \in Requests, CreateProfile(r) PROVE Accounted(s)'
  BY <1>t, <1>3 DEF CreateProfile, Accounted, brokerVars
<1>4. ASSUME NEW r \in Requests, RejectProfile(r) \/ DiscardProfile(r) PROVE Accounted(s)'
  BY <1>t, <1>4 DEF RejectProfile, DiscardProfile, Accounted, brokerVars
<1>5. ASSUME NEW r \in Requests, RequeueProfile(r) PROVE Accounted(s)'
  BY <1>t, <1>5 DEF RequeueProfile, Accounted
<1>6. ASSUME Redeliver, lost' = lost PROVE Accounted(s)'
  BY <1>t, <1>p, <1>6, InHandTyped DEF Redeliver, Accounted, Held
<1>7. ASSUME copies' = copies, delivering' = delivering, lost' = lost PROVE Accounted(s)'
  BY <1>p, <1>7 DEF Accounted
<1> QED
  BY <1>1, <1>2, <1>3, <1>4, <1>5, <1>6, <1>7
     DEF RegNext, Register, Relay, Consume, Process, regVars, userVars, brokerVars, CheckEmail,
         CreateWithEvent, FailRegister, BeginBatch, CommitBatch, AbortBatch, LoseLink, RestartAuth,
         StartConsumer, StopConsumer, ExitConsumer, LoseConsumer, LoseChannel, EndDeaf, InsertInDoubt

LEMMA PublishedAccountedStep == RInv /\ [RegNext]_regVars => PublishedAccounted'
<1> SUFFICES ASSUME RInv, [RegNext]_regVars, NEW s \in Requests,
                    s \in published' \/ \E l \in Relays : s \in relayed'[l],
                    ~(s \in published \/ \E l \in Relays : s \in relayed[l])
             PROVE  Accounted(s)'
  BY AccountedKept DEF RInv, PublishedAccounted, Accounted
<1>t. /\ batch \in [Relays -> SUBSET Requests] /\ relayed \in [Relays -> SUBSET Requests]
      /\ copies \in [Requests -> 0..MaxCopies] /\ MaxCopies \in Nat /\ copies[s] \in Nat
      /\ lost \in [Requests -> SUBSET Causes]
  BY RegistrationAssumption DEF RInv, RegTypeOK
<1>1. ASSUME NEW l \in Relays, NEW r \in Requests, Publish(l, r) PROVE Accounted(s)'
  <2>1. s = r
    BY <1>t, <1>1 DEF Publish
  <2> QED
    BY <1>t, <1>1, <2>1 DEF Publish, Accounted
<1>2. ASSUME NEW l \in Relays, CommitBatch(l) PROVE FALSE
  BY <1>t, <1>2 DEF CommitBatch
<1>3. ASSUME NEW l \in Relays, published' = published, relayed' = [relayed EXCEPT ![l] = {}]
      PROVE  FALSE
  BY <1>t, <1>3
<1>4. ASSUME published' = published, relayed' = relayed PROVE FALSE
  BY <1>4
<1> QED
  BY <1>1, <1>2, <1>3, <1>4
     DEF RegNext, Register, Relay, Consume, Process, regVars, relayVars, CheckEmail, CreateWithEvent,
         FailRegister, BeginBatch, AbortBatch, LoseLink, RestartAuth, StartConsumer,
         Deliver, CreateProfile, RejectProfile, RequeueProfile, StopConsumer, DiscardProfile,
         ExitConsumer, LoseConsumer, LoseChannel, EndDeaf, InsertInDoubt

LEMMA RInvInit == RegInit => RInv
<1> SUFFICES ASSUME RegInit PROVE RInv
  OBVIOUS
<1>1. Committed = {}
  BY DEF RegInit, Committed
<1>2. RegTypeOK
  <2>1. 0 \in 0..MaxCopies /\ 0 \in 0..MaxFaults
    BY RegistrationAssumption
  <2> QED
    BY <2>1 DEF RegInit, RegTypeOK
<1>3. CopiesBounded
  BY RegistrationAssumption, NoneAssumption DEF RegInit, CopiesBounded, Held
<1>4. WrittenOnce
  BY <1>1, FS_EmptySet DEF WrittenOnce
<1>5. FromOutbox /\ PublishedAccounted
  BY <1>1 DEF RegInit, FromOutbox, PublishedAccounted
<1> QED
  BY <1>2, <1>3, <1>4, <1>5 DEF RInv

LEMMA RInvStep == RInv /\ [RegNext]_regVars => RInv'
BY TypeOKStep, CopiesBoundedStep, WrittenOnceStep, FromOutboxStep, PublishedAccountedStep DEF RInv

(* Outbox, batches, queue and consumer keep their types, and no more copies *)
(* of an event are about than the bound allows.                             *)
THEOREM RegistrationTypeCorrect == RegSpec => []RegTypeOK
<1>1. RInv => RegTypeOK
  BY DEF RInv
<1> QED
  BY <1>1, RInvInit, RInvStep, PTL DEF RegSpec

(* A committed registration has its profile, or an event on its way, or one *)
(* of the known causes has lost a copy of the event: a rollback, a crash or *)
(* a redelivery forgets nothing.                                            *)
THEOREM NoneForgotten == RegSpec => []NothingForgotten
<1>1. RInv => NothingForgotten
  BY DEF RInv, PublishedAccounted, Accounted, NothingForgotten, Committed
<1> QED
  BY <1>1, RInvInit, RInvStep, PTL DEF RegSpec

--------------------------------------------------------------------------------
(* Registration implements Provisioning                                    *)

LEMMA StageMapStep ==
    ASSUME RInv, [RegNext]_regVars
    PROVE  [Abstract!Next]_StageMap
<1>c. FromOutbox /\ NoneAssumption
  BY NoneAssumption DEF RInv
<1>k. Committed \subseteq Requests
  BY DEF Committed
<1>1. ASSUME NEW r \in Requests, CreateWithEvent(r), r \notin Committed,
             Committed' = Committed \cup {r}
      PROVE  Abstract!Register(r)
  <2>1. profiles' = profiles
    BY <1>1 DEF CreateWithEvent, userVars
  <2>2. \A s \in Requests : StageMap[s] # "none" <=> s \in Committed
    BY <1>c DEF StageMap, Stage, FromOutbox
  <2>3. \A s \in Requests : s \in Committed => EmailOf[s] # EmailOf[r]
    BY <1>1 DEF CreateWithEvent, EmailTaken
  <2>4. StageMap[r] = "none" /\ r \notin profiles
    BY <1>1, <1>c, <2>2 DEF FromOutbox
  <2>5. StageMap' = [StageMap EXCEPT ![r] = "registered"]
    BY <1>1, <2>1, <2>4 DEF StageMap, Stage
  <2> QED
    BY <2>2, <2>3, <2>4, <2>5 DEF Abstract!Register
<1>2. ASSUME NEW r \in Requests, delivering = r, profiles' = profiles \cup {r}, UNCHANGED authVars
      PROVE  Abstract!Provision(r) \/ UNCHANGED StageMap
  <2>1. Committed' = Committed
    BY <1>2 DEF authVars, Committed
  <2>2. r \in Committed
    BY <1>2, <1>c DEF FromOutbox
  <2>3. CASE r \in profiles
    <3>1. profiles' = profiles
      BY <1>2, <2>3
    <3> QED
      BY <2>1, <3>1 DEF StageMap, Stage
  <2>4. CASE r \notin profiles
    <3>1. StageMap[r] = "registered"
      BY <2>2, <2>4 DEF StageMap, Stage
    <3>2. StageMap' = [StageMap EXCEPT ![r] = "provisioned"]
      BY <1>2, <2>1 DEF StageMap, Stage
    <3> QED
      BY <3>1, <3>2 DEF Abstract!Provision
  <2> QED
    BY <2>3, <2>4
<1>3. CASE Committed' = Committed /\ profiles' = profiles
  BY <1>3 DEF StageMap, Stage
<1> QED
  BY <1>1, <1>2, <1>3, CommittedStep, ProfileStep DEF Abstract!Next, CreateWithEvent, userVars

(* Hashing outside the transaction, at-least-once delivery and restarts    *)
(* included, an address has one owner, a profile comes only after its      *)
(* registration is committed, and neither is withdrawn.                    *)
THEOREM RegistrationProvisions == RegSpec => ImplementsProvisioning
<1>1. RegInit => Abstract!Init
  <2>1. ASSUME RegInit, NEW r \in Requests PROVE Stage(r) = "none"
    BY <2>1 DEF RegInit, Stage, Committed
  <2> QED
    BY <2>1 DEF Abstract!Init, StageMap
<1> QED
  BY <1>1, RInvInit, RInvStep, StageMapStep, PTL DEF RegSpec, ImplementsProvisioning, Abstract!Spec

================================================================================
