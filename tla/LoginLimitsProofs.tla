--------------------------- MODULE LoginLimitsProofs ---------------------------
(***************************************************************************)
(* Theorems about LoginLimits, for any addresses, logins, rates, limits    *)
(* and lives of keys.                                                      *)
(***************************************************************************)
EXTENDS LoginLimits, TLAPS

LEMMA LeastIs ==
    ASSUME NEW a \in Int, NEW b \in Int
    PROVE  /\ Least(a, b) \in Int /\ Least(a, b) <= a /\ Least(a, b) <= b
           /\ Least(a, b) = a \/ Least(a, b) = b
BY DEF Least

LEMMA ProductNat == ASSUME NEW a \in Nat, NEW b \in Nat PROVE a * b \in Nat
OBVIOUS

LEMMA OfTyped == ASSUME NEW r \in Logins PROVE IpOf[r] \in Ips /\ EmailOf[r] \in Emails
BY LimitAssumption

\* What an entry gives at time t.
LEMMA RefillTyped ==
    ASSUME NEW x \in Nat, NEW d \in Nat
    PROVE  /\ Least(Burst, x + Rate * d) \in Nat
           /\ Least(Burst, x + Rate * d) <= Burst
           /\ Least(Burst, x + Rate * (d + 1)) <= Least(Burst, x + Rate * d) + Rate
<1>1. Rate \in Nat /\ Burst \in Nat
  BY LimitAssumption
<1>2. Rate * d \in Nat
  BY <1>1, ProductNat
<1>3. Rate * (d + 1) = Rate * d + Rate
  BY <1>1
<1> QED
  BY <1>1, <1>2, <1>3 DEF Least

LEMMA AvailableTyped ==
    ASSUME IInv, NEW i \in Ips
    PROVE  Available(i) \in Nat /\ Available(i) <= Burst
<1>1. CASE bucket[i] = None
  BY <1>1, LimitAssumption DEF Available
<1>2. CASE bucket[i] # None
  <2>1. bucket[i].tokens \in Nat /\ now - bucket[i].last \in Nat
    BY <1>2 DEF IInv, TypeOK, SpansTracked
  <2> QED
    BY <1>2, <2>1, RefillTyped DEF Available, Refilled
<1> QED
  BY <1>1, <1>2

LEMMA SpanTyped ==
    ASSUME IInv, NEW i \in Ips
    PROVE  /\ span[i].since \in Nat /\ span[i].number \in Nat /\ now \in Nat
           /\ now - span[i].since \in Nat
           /\ Rate * (now - span[i].since) \in Nat
<1>1. span[i].since \in Nat /\ span[i].number \in Nat /\ now \in Nat
  BY DEF IInv, TypeOK, Span
<1>2. now - span[i].since \in Nat
  BY <1>1 DEF IInv, SpansTracked
<1> QED
  BY <1>1, <1>2, ProductNat, LimitAssumption

LEMMA GuessTyped ==
    ASSUME TypeOK, NEW e \in Emails
    PROVE  /\ guesses[e].since \in Nat /\ guesses[e].number \in Nat
           /\ count[e] \in Nat /\ expiry[e] \in Nat \cup {None} /\ now \in Nat
BY DEF TypeOK, Span

LEMMA FaultTyped ==
    ASSUME TypeOK, Fault \/ UNCHANGED faults
    PROVE  faults' \in 0..MaxFaults
BY LimitAssumption DEF Fault, TypeOK

--------------------------------------------------------------------------------
(* What the actions leave alone                                            *)

LEMMA SpanFrame ==
    ASSUME SpansTracked, UNCHANGED <<now, bucket, span>>
    PROVE  SpansTracked'
BY DEF SpansTracked, Available, Refilled

LEMMA GuessFrame ==
    ASSUME GuessesTracked, NoKeyNoExpiry, UNCHANGED <<now, count, expiry, guesses>>
    PROVE  GuessesTracked' /\ NoKeyNoExpiry'
BY DEF GuessesTracked, NoKeyNoExpiry

LEMMA ExpiryFrame ==
    ASSUME CountersExpire, UNCHANGED redisVars,
           \A r \in Logins : pc[r] = "first" => pc'[r] = "first"
    PROVE  CountersExpire'
BY DEF CountersExpire, redisVars

--------------------------------------------------------------------------------
(* The inductive invariant                                                 *)

LEMMA IInvInit == Init => IInv
<1> SUFFICES ASSUME Init PROVE IInv
  OBVIOUS
<1>1. TypeOK
  BY LimitAssumption DEF Init, TypeOK, Span
<1>2. SpansTracked
  <2> SUFFICES ASSUME NEW i \in Ips
               PROVE  /\ span[i].since <= now
                      /\ bucket[i] # None => bucket[i].last <= now
                      /\ span[i].number + Available(i) <= Burst + Rate * (now - span[i].since)
    BY DEF SpansTracked
  <2>1. span[i].since = 0 /\ span[i].number = 0 /\ now = 0 /\ bucket[i] = None
    BY DEF Init
  <2>2. Available(i) = Burst /\ Burst \in Nat /\ Rate \in Nat
    BY <2>1, LimitAssumption DEF Available
  <2>3. Rate * (0 - 0) = 0
    BY <2>2
  <2> QED
    BY <2>1, <2>2, <2>3
<1>3. GuessesTracked /\ NoKeyNoExpiry /\ CountersExpire
  BY LimitAssumption DEF Init, GuessesTracked, NoKeyNoExpiry, CountersExpire, Least
<1> QED
  BY <1>1, <1>2, <1>3 DEF IInv

\* allow, with either answer, and cleanup.
LEMMA BucketStep ==
    ASSUME IInv,
           (\E r \in Logins : Admit(r) \/ TurnAway(r)) \/ \E i \in Ips : Forget(i)
    PROVE  IInv'
<1>t. TypeOK /\ SpansTracked /\ GuessesTracked /\ NoKeyNoExpiry /\ CountersExpire
  BY DEF IInv
<1>u. UNCHANGED <<now, redisVars, faults, guesses>>
  BY DEF Admit, TurnAway, Forget
<1>1. ASSUME NEW r \in Logins, Admit(r) PROVE IInv'
  <2> DEFINE i == IpOf[r]
  <2> DEFINE new == [tokens |-> Available(i) - 1, last |-> now]
  <2>i. i \in Ips
    BY OfTyped
  <2>a. Available(i) \in Nat /\ Available(i) >= 1 /\ Available(i) <= Burst /\ now \in Nat
    BY <1>1, <2>i, <1>t, AvailableTyped DEF Admit, TypeOK
  <2>n. new \in [tokens : Nat, last : Nat] /\ new # None
    BY <2>a, LimitAssumption
  <2>b. bucket' = [bucket EXCEPT ![i] = new] /\ span' = [span EXCEPT ![i].number = @ + 1]
        /\ pc' = [pc EXCEPT ![r] = "admitted"] /\ pc[r] = "idle"
    BY <1>1 DEF Admit, Goto
  <2>1. TypeOK'
    <3>1. span' \in [Ips -> Span]
      BY <1>t, <2>b, <2>i DEF TypeOK, Span
    <3> QED
      BY <1>t, <1>u, <2>n, <2>b, <3>1 DEF TypeOK, redisVars
  <2>2. SpansTracked'
    <3> SUFFICES ASSUME NEW j \in Ips
                 PROVE  /\ span'[j].since <= now'
                        /\ bucket'[j] # None => bucket'[j].last <= now'
                        /\ span'[j].number + Available(j)' <= Burst + Rate * (now' - span'[j].since)
      BY DEF SpansTracked
    <3>1. CASE j # i
      BY <3>1, <1>t, <1>u, <2>b, <2>i DEF SpansTracked, Available, Refilled, TypeOK
    <3>2. CASE j = i
      <4>1. bucket'[j] = new /\ span'[j].since = span[j].since
            /\ span'[j].number = span[j].number + 1
        BY <3>2, <1>t, <2>b, <2>i DEF TypeOK, Span
      <4>2. Rate * (now - now) = 0 /\ Burst \in Nat
        BY <2>a, LimitAssumption
      <4>3. Available(j)' = Available(i) - 1
        BY <4>1, <4>2, <1>u, <2>a, <2>n DEF Available, Refilled, Least
      <4>4. span[j].number + Available(i) <= Burst + Rate * (now - span[j].since)
        BY <3>2, <1>t, <2>i DEF SpansTracked
      <4>5. span[j].since <= now
        BY <1>t DEF SpansTracked
      <4>6. span[j].number \in Nat /\ Rate * (now - span[j].since) \in Nat
        BY SpanTyped
      <4>7. span'[j].number + Available(j)' <= Burst + Rate * (now' - span'[j].since)
        BY <4>1, <4>3, <4>4, <4>6, <1>u, <2>a
      <4> QED
        BY <4>1, <4>5, <4>7, <1>u, <2>a
    <3> QED
      BY <3>1, <3>2
  <2>3. CountersExpire'
    BY <1>t, <1>u, <2>b, ExpiryFrame DEF TypeOK
  <2> QED
    BY <1>t, <1>u, <2>1, <2>2, <2>3, GuessFrame DEF IInv, redisVars
<1>2. ASSUME NEW r \in Logins, TurnAway(r) PROVE IInv'
  <2> DEFINE i == IpOf[r]
  <2> DEFINE new == [tokens |-> Available(i), last |-> now]
  <2>i. i \in Ips
    BY OfTyped
  <2>a. Available(i) \in Nat /\ Available(i) <= Burst /\ now \in Nat
    BY <2>i, <1>t, AvailableTyped DEF TypeOK
  <2>n. new \in [tokens : Nat, last : Nat] /\ new # None
    BY <2>a, LimitAssumption
  <2>b. bucket' = [bucket EXCEPT ![i] = new] /\ span' = span /\ pc' = pc
    BY <1>2 DEF TurnAway
  <2>1. TypeOK'
    BY <1>t, <1>u, <2>n, <2>b DEF TypeOK, redisVars
  <2>2. SpansTracked'
    <3> SUFFICES ASSUME NEW j \in Ips
                 PROVE  /\ span'[j].since <= now'
                        /\ bucket'[j] # None => bucket'[j].last <= now'
                        /\ span'[j].number + Available(j)' <= Burst + Rate * (now' - span'[j].since)
      BY DEF SpansTracked
    <3>1. CASE j # i
      BY <3>1, <1>t, <1>u, <2>b, <2>i DEF SpansTracked, Available, Refilled, TypeOK
    <3>2. CASE j = i
      <4>1. bucket'[j] = new
        BY <3>2, <1>t, <2>b, <2>i DEF TypeOK
      <4>2. Rate * (now - now) = 0 /\ Burst \in Nat
        BY <2>a, LimitAssumption
      <4>3. Available(j)' = Available(i)
        BY <4>1, <4>2, <1>u, <2>a, <2>n DEF Available, Refilled, Least
      <4> QED
        BY <3>2, <4>1, <4>3, <1>t, <1>u, <2>a, <2>b DEF SpansTracked
    <3> QED
      BY <3>1, <3>2
  <2>3. CountersExpire'
    BY <1>t, <1>u, <2>b, ExpiryFrame
  <2> QED
    BY <1>t, <1>u, <2>1, <2>2, <2>3, GuessFrame DEF IInv, redisVars
<1>3. ASSUME NEW i \in Ips, Forget(i) PROVE IInv'
  <2>b. bucket' = [bucket EXCEPT ![i] = None] /\ span' = span /\ pc' = pc
    BY <1>3 DEF Forget
  <2>1. TypeOK'
    BY <1>t, <1>u, <2>b DEF TypeOK, redisVars
  \* The entry was full, as the one that will replace it.
  <2>2. Available(i) = Burst
    <3>1. bucket[i] # None /\ bucket[i].tokens \in Nat /\ bucket[i].last \in Nat
          /\ now \in Nat /\ bucket[i].last < now - Stale
      BY <1>3, <1>t DEF Forget, TypeOK
    <3>2. Rate \in Nat /\ Burst \in Nat /\ Stale \in Nat
      BY LimitAssumption
    <3>3. PICK d \in Nat : now - bucket[i].last = Stale + d
      <4>1. (now - bucket[i].last) - Stale \in Nat
        BY <3>1, <3>2
      <4> QED
        BY <4>1, <3>1, <3>2
    <3>4. Rate * (Stale + d) = Rate * Stale + Rate * d
      BY <3>2
    <3>5. Rate * Stale \in Nat /\ Rate * d \in Nat
      BY <3>2, ProductNat
    <3>6. bucket[i].tokens + Rate * (now - bucket[i].last) >= Burst
      BY <3>1, <3>2, <3>3, <3>4, <3>5, StaleIsFull
    <3>7. bucket[i].tokens + Rate * (now - bucket[i].last) \in Int
      BY <3>1, <3>2, <3>3, <3>4, <3>5
    <3> QED
      BY <3>1, <3>2, <3>6, <3>7 DEF Available, Refilled, Least
  <2>3. SpansTracked'
    <3> SUFFICES ASSUME NEW j \in Ips
                 PROVE  /\ span'[j].since <= now'
                        /\ bucket'[j] # None => bucket'[j].last <= now'
                        /\ span'[j].number + Available(j)' <= Burst + Rate * (now' - span'[j].since)
      BY DEF SpansTracked
    <3>1. CASE j # i
      BY <3>1, <1>t, <1>u, <2>b DEF SpansTracked, Available, Refilled, TypeOK
    <3>2. CASE j = i
      <4>1. bucket'[j] = None /\ Available(j)' = Burst
        BY <3>2, <1>t, <2>b DEF TypeOK, Available
      <4> QED
        BY <3>2, <4>1, <1>t, <1>u, <2>b, <2>2 DEF SpansTracked
    <3> QED
      BY <3>1, <3>2
  <2>4. CountersExpire'
    BY <1>t, <1>u, <2>b, ExpiryFrame
  <2> QED
    BY <1>t, <1>u, <2>1, <2>3, <2>4, GuessFrame DEF IInv, redisVars
<1> QED
  BY <1>1, <1>2, <1>3

\* INCR, answered or not.
LEMMA IncrStep ==
    ASSUME IInv, NEW r \in Logins, Incr(r) \/ FailIncr(r)
    PROVE  IInv'
<1> DEFINE e == EmailOf[r]
<1>t. TypeOK /\ SpansTracked /\ GuessesTracked /\ NoKeyNoExpiry /\ CountersExpire
  BY DEF IInv
<1>u. UNCHANGED <<now, bucket, span, expiry>> /\ pc[r] = "admitted"
  BY DEF Incr, FailIncr
<1>e. e \in Emails /\ count[e] \in Nat /\ MaxAttempts \in Nat \ {0} /\ now \in Nat
  BY OfTyped, GuessTyped, <1>t, LimitAssumption
<1>s. SpansTracked'
  BY <1>t, <1>u, SpanFrame
<1>1. CASE Incr(r)
  <2> DEFINE n == count[e] + 1
  <2>1. PICK w \in {"first", "granted", "idle"} :
           pc' = [pc EXCEPT ![r] = w] /\ (n = 1 => w = "first")
    BY <1>1 DEF Incr, Goto
  <2>2. count' = [count EXCEPT ![e] = n] /\ stuck' = stuck /\ faults' = faults
    BY <1>1 DEF Incr
  <2>3. guesses' = IF n <= MaxAttempts THEN [guesses EXCEPT ![e].number = @ + 1] ELSE guesses
    BY <1>1 DEF Incr, Within, Grant
  <2>4. TypeOK'
    <3>1. guesses' \in [Emails -> Span]
      BY <1>t, <1>e, <2>3 DEF TypeOK, Span
    <3>2. count' \in [Emails -> Nat]
      BY <1>t, <1>e, <2>2 DEF TypeOK
    <3>3. pc' \in [Logins -> {"idle", "admitted", "first", "granted", "matched"}]
      BY <1>t, <2>1 DEF TypeOK
    <3> QED
      BY <1>t, <1>u, <2>2, <3>1, <3>2, <3>3 DEF TypeOK
  <2>5. GuessesTracked'
    <3> SUFFICES ASSUME NEW f \in Emails
                 PROVE  /\ guesses'[f].since <= now'
                        /\ \/ guesses'[f].number <= Least(count'[f], MaxAttempts)
                           \/ /\ guesses'[f].number <= MaxAttempts + Least(count'[f], MaxAttempts)
                              /\ guesses'[f].since < now'
                              /\ expiry'[f] # None => expiry'[f] > guesses'[f].since + Window
                           \/ guesses'[f].since + Window < now'
      BY DEF GuessesTracked
    <3>1. CASE f # e
      BY <3>1, <1>t, <1>u, <1>e, <2>2, <2>3 DEF GuessesTracked, TypeOK
    <3>2. CASE f = e
      <4>1. count'[f] = n /\ guesses'[f].since = guesses[f].since
        BY <3>2, <1>t, <1>e, <2>2, <2>3 DEF TypeOK, Span
      <4>2. guesses'[f].number = IF n <= MaxAttempts THEN guesses[f].number + 1
                                                     ELSE guesses[f].number
        BY <3>2, <1>t, <1>e, <2>3 DEF TypeOK, Span
      <4>3. guesses[f].number \in Nat
        BY <1>t, GuessTyped
      <4>4. Least(n, MaxAttempts) = IF n <= MaxAttempts THEN Least(count[f], MaxAttempts) + 1
                                                        ELSE Least(count[f], MaxAttempts)
        BY <3>2, <1>e DEF Least
      <4>5. Least(count[f], MaxAttempts) \in Int
        BY <3>2, <1>e DEF Least
      <4>6. /\ guesses[f].number <= Least(count[f], MaxAttempts)
               => guesses'[f].number <= Least(n, MaxAttempts)
            /\ guesses[f].number <= MaxAttempts + Least(count[f], MaxAttempts)
               => guesses'[f].number <= MaxAttempts + Least(n, MaxAttempts)
        BY <4>2, <4>3, <4>4, <4>5, <1>e
      <4> QED
        BY <4>1, <4>6, <1>t, <1>u DEF GuessesTracked
    <3> QED
      BY <3>1, <3>2
  <2>6. NoKeyNoExpiry'
    BY <1>t, <1>u, <1>e, <2>2 DEF NoKeyNoExpiry, TypeOK
  <2>7. CountersExpire'
    <3> SUFFICES ASSUME NEW f \in Emails, count'[f] > 0, expiry'[f] = None
                 PROVE  f \in stuck' \/ \E q \in Logins : pc'[q] = "first" /\ EmailOf[q] = f
      BY DEF CountersExpire
    <3>1. CASE f # e \/ count[f] > 0
      <4>1. f \in stuck \/ \E q \in Logins : pc[q] = "first" /\ EmailOf[q] = f
        BY <3>1, <1>t, <1>u, <1>e, <2>2 DEF CountersExpire, TypeOK
      <4> QED
        BY <4>1, <1>t, <1>u, <2>1, <2>2 DEF TypeOK
    <3>2. CASE f = e /\ ~(count[f] > 0)
      <4>1. n = 1
        BY <3>2, <1>e
      <4> QED
        BY <3>2, <4>1, <2>1, <1>t DEF TypeOK
    <3> QED
      BY <3>1, <3>2
  <2> QED
    BY <1>s, <2>4, <2>5, <2>6, <2>7 DEF IInv
<1>2. CASE FailIncr(r)
  <2>1. pc' = [pc EXCEPT ![r] = "granted"] /\ guesses' = guesses
    BY <1>2 DEF FailIncr, Goto
  <2>f. faults' \in 0..MaxFaults
    BY <1>2, <1>t, FaultTyped DEF FailIncr
  <2>2. CASE UNCHANGED <<count, stuck>>
    <3>1. TypeOK'
      BY <2>1, <2>2, <2>f, <1>t, <1>u DEF TypeOK
    <3>2. CountersExpire'
      BY <2>1, <2>2, <1>t, <1>u, ExpiryFrame DEF TypeOK, redisVars
    <3> QED
      BY <1>s, <1>t, <1>u, <2>1, <2>2, <3>1, <3>2, GuessFrame DEF IInv
  <2>3. CASE /\ count' = [count EXCEPT ![e] = @ + 1]
             /\ stuck' = IF count[e] = 0 THEN stuck \cup {e} ELSE stuck
    <3>1. TypeOK'
      BY <2>1, <2>3, <2>f, <1>t, <1>u, <1>e DEF TypeOK
    <3>2. GuessesTracked'
      <4> SUFFICES ASSUME NEW f \in Emails
                   PROVE  /\ guesses'[f].since <= now'
                          /\ \/ guesses'[f].number <= Least(count'[f], MaxAttempts)
                             \/ /\ guesses'[f].number <= MaxAttempts + Least(count'[f], MaxAttempts)
                                /\ guesses'[f].since < now'
                                /\ expiry'[f] # None => expiry'[f] > guesses'[f].since + Window
                             \/ guesses'[f].since + Window < now'
        BY DEF GuessesTracked
      <4>1. count[f] \in Nat /\ count'[f] \in Nat /\ count[f] <= count'[f]
            /\ guesses[f].number \in Nat
        BY <2>3, <1>t, <1>e, GuessTyped DEF TypeOK
      <4>2. Least(count[f], MaxAttempts) <= Least(count'[f], MaxAttempts)
            /\ Least(count[f], MaxAttempts) \in Int /\ Least(count'[f], MaxAttempts) \in Int
        BY <4>1, <1>e DEF Least
      <4>3. /\ guesses[f].number <= Least(count[f], MaxAttempts)
               => guesses[f].number <= Least(count'[f], MaxAttempts)
            /\ guesses[f].number <= MaxAttempts + Least(count[f], MaxAttempts)
               => guesses[f].number <= MaxAttempts + Least(count'[f], MaxAttempts)
        BY <4>1, <4>2, <1>e
      <4> QED
        BY <4>3, <2>1, <1>t, <1>u DEF GuessesTracked
    <3>3. NoKeyNoExpiry'
      BY <2>3, <1>t, <1>u, <1>e DEF NoKeyNoExpiry, TypeOK
    <3>4. CountersExpire'
      <4> SUFFICES ASSUME NEW f \in Emails, count'[f] > 0, expiry'[f] = None
                   PROVE  f \in stuck' \/ \E q \in Logins : pc'[q] = "first" /\ EmailOf[q] = f
        BY DEF CountersExpire
      <4>1. CASE f # e \/ count[f] > 0
        <5>1. f \in stuck \/ \E q \in Logins : pc[q] = "first" /\ EmailOf[q] = f
          BY <4>1, <2>3, <1>t, <1>u, <1>e DEF CountersExpire, TypeOK
        <5> QED
          BY <5>1, <1>t, <1>u, <2>1, <2>3 DEF TypeOK
      <4>2. CASE f = e /\ ~(count[f] > 0)
        BY <4>2, <2>3, <1>e
      <4> QED
        BY <4>1, <4>2
    <3> QED
      BY <1>s, <3>1, <3>2, <3>3, <3>4 DEF IInv
  <2> QED
    BY <1>2, <2>2, <2>3 DEF FailIncr
<1> QED
  BY <1>1, <1>2

\* EXPIRE, answered or not, and what follows it up to DEL.
LEMMA ExpireStep ==
    ASSUME IInv, NEW r \in Logins,
           Expire(r) \/ FailExpire(r) \/ Compare(r) \/ FailReset(r)
    PROVE  IInv'
<1> DEFINE e == EmailOf[r]
<1>t. TypeOK /\ SpansTracked /\ GuessesTracked /\ NoKeyNoExpiry /\ CountersExpire
  BY DEF IInv
<1>u. UNCHANGED <<now, bucket, span, count, guesses>>
  BY DEF Expire, FailExpire, Compare, FailReset, redisVars
<1>e. e \in Emails /\ count[e] \in Nat /\ now \in Nat /\ Window \in Nat
  BY OfTyped, GuessTyped, <1>t, LimitAssumption
<1>s. SpansTracked'
  BY <1>t, <1>u, SpanFrame
<1>f. faults' \in 0..MaxFaults
  BY <1>t, FaultTyped DEF Expire, FailExpire, Compare, FailReset
<1>p. PICK w \in {"granted", "matched", "idle"} : pc' = [pc EXCEPT ![r] = w]
  BY DEF Expire, FailExpire, Compare, FailReset, Goto
<1>1. CASE Expire(r) /\ count[e] # 0
  <2>1. expiry' = [expiry EXCEPT ![e] = now + Window] /\ stuck' = stuck \ {e}
    BY <1>1 DEF Expire
  <2>2. TypeOK'
    <3>1. now + Window \in Nat
      BY <1>e
    <3>2. expiry' \in [Emails -> Nat \cup {None}]
      BY <1>t, <1>e, <2>1, <3>1 DEF TypeOK
    <3> QED
      BY <1>t, <1>u, <1>f, <1>p, <2>1, <3>2 DEF TypeOK
  <2>3. \A f \in Emails : expiry'[f] = IF f = e THEN now + Window ELSE expiry[f]
    BY <1>t, <1>e, <2>1 DEF TypeOK
  <2>4. GuessesTracked'
    <3> SUFFICES ASSUME NEW f \in Emails, guesses[f].since < now
                 PROVE  (expiry[f] # None => expiry[f] > guesses[f].since + Window)
                           => (expiry'[f] # None => expiry'[f] > guesses[f].since + Window)
      BY <1>t, <1>u DEF GuessesTracked
    <3>1. guesses[f].since \in Nat
      BY <1>t, GuessTyped
    <3>2. now + Window > guesses[f].since + Window
      BY <1>e, <3>1
    <3> QED
      BY <2>3, <3>2
  <2>5. NoKeyNoExpiry'
    BY <1>1, <1>t, <1>u, <2>3 DEF NoKeyNoExpiry
  <2>6. CountersExpire'
    <3> SUFFICES ASSUME NEW f \in Emails, count'[f] > 0, expiry'[f] = None
                 PROVE  f \in stuck' \/ \E q \in Logins : pc'[q] = "first" /\ EmailOf[q] = f
      BY DEF CountersExpire
    <3>1. now + Window # None
      BY <1>e, LimitAssumption
    <3>2. f # e
      BY <2>3, <3>1
    <3>3. f \in stuck \/ \E q \in Logins : pc[q] = "first" /\ EmailOf[q] = f
      BY <3>2, <1>t, <1>u, <2>3 DEF CountersExpire
    <3> QED
      BY <3>2, <3>3, <1>t, <1>p, <2>1 DEF TypeOK
  <2> QED
    BY <1>s, <2>2, <2>4, <2>5, <2>6 DEF IInv
<1>2. ASSUME UNCHANGED <<expiry, stuck>>, pc[r] = "first" => count[e] = 0 PROVE IInv'
  <2>1. TypeOK'
    BY <1>2, <1>t, <1>u, <1>f, <1>p DEF TypeOK
  <2>2. CountersExpire'
    <3> SUFFICES ASSUME NEW f \in Emails, count'[f] > 0, expiry'[f] = None
                 PROVE  f \in stuck' \/ \E q \in Logins : pc'[q] = "first" /\ EmailOf[q] = f
      BY DEF CountersExpire
    <3>1. f \in stuck \/ \E q \in Logins : pc[q] = "first" /\ EmailOf[q] = f
      BY <1>2, <1>t, <1>u DEF CountersExpire
    <3>2. ASSUME NEW q \in Logins, pc[q] = "first", EmailOf[q] = f PROVE pc'[q] = "first"
      BY <3>2, <1>2, <1>t, <1>u, <1>e, <1>p DEF TypeOK
    <3> QED
      BY <1>2, <3>1, <3>2
  <2> QED
    BY <1>2, <1>s, <1>t, <1>u, <2>1, <2>2, GuessFrame DEF IInv
<1>3. CASE Expire(r) /\ count[e] = 0
  BY <1>2, <1>3 DEF Expire
<1>4. CASE Compare(r) \/ FailReset(r)
  BY <1>2, <1>4 DEF Compare, FailReset, redisVars
<1>5. CASE FailExpire(r)
  <2>1. stuck' = stuck \cup Endless({r}) /\ expiry' = expiry
    BY <1>5 DEF FailExpire
  <2>2. TypeOK'
    BY <1>t, <1>u, <1>f, <1>p, <2>1 DEF TypeOK, Endless
  <2>3. CountersExpire'
    <3> SUFFICES ASSUME NEW f \in Emails, count'[f] > 0, expiry'[f] = None
                 PROVE  f \in stuck' \/ \E q \in Logins : pc'[q] = "first" /\ EmailOf[q] = f
      BY DEF CountersExpire
    <3>1. f \in stuck \/ \E q \in Logins : pc[q] = "first" /\ EmailOf[q] = f
      BY <2>1, <1>t, <1>u DEF CountersExpire
    <3>2. ASSUME NEW q \in Logins, pc[q] = "first", EmailOf[q] = f, q # r
          PROVE  pc'[q] = "first"
      BY <3>2, <1>t, <1>p DEF TypeOK
    <3>3. ASSUME pc[r] = "first", EmailOf[r] = f PROVE f \in stuck'
      BY <3>3, <2>1, <1>u DEF Endless
    <3> QED
      BY <2>1, <3>1, <3>2, <3>3
  <2> QED
    BY <1>s, <1>t, <1>u, <2>1, <2>2, <2>3, GuessFrame DEF IInv
<1> QED
  BY <1>1, <1>3, <1>4, <1>5

\* DEL takes the key and everything that was said of it away.
LEMMA ResetStep ==
    ASSUME IInv, NEW r \in Logins, Reset(r)
    PROVE  IInv'
<1> DEFINE e == EmailOf[r]
<1> DEFINE fresh == [since |-> now, number |-> 0]
<1>t. TypeOK /\ SpansTracked /\ GuessesTracked /\ NoKeyNoExpiry /\ CountersExpire
  BY DEF IInv
<1>u. UNCHANGED <<now, bucket, span, faults>>
  BY DEF Reset
<1>e. e \in Emails /\ now \in Nat /\ fresh \in Span /\ MaxAttempts \in Nat
  BY OfTyped, <1>t, LimitAssumption DEF TypeOK, Span
<1>r. /\ count' = [count EXCEPT ![e] = 0] /\ expiry' = [expiry EXCEPT ![e] = None]
      /\ stuck' = stuck \ {e} /\ guesses' = [guesses EXCEPT ![e] = fresh]
      /\ pc' = [pc EXCEPT ![r] = "idle"] /\ pc[r] = "matched"
  BY DEF Reset, Goto
<1>1. TypeOK'
  BY <1>t, <1>u, <1>e, <1>r DEF TypeOK
<1>2. SpansTracked'
  BY <1>t, <1>u, SpanFrame
<1>a. \A f \in Emails : f # e => /\ count'[f] = count[f] /\ expiry'[f] = expiry[f]
                                 /\ guesses'[f] = guesses[f]
  BY <1>t, <1>r DEF TypeOK
<1>b. count'[e] = 0 /\ expiry'[e] = None /\ guesses'[e].since = now /\ guesses'[e].number = 0
  BY <1>t, <1>e, <1>r DEF TypeOK
<1>3. GuessesTracked'
  <2> SUFFICES ASSUME NEW f \in Emails
               PROVE  /\ guesses'[f].since <= now'
                      /\ \/ guesses'[f].number <= Least(count'[f], MaxAttempts)
                         \/ /\ guesses'[f].number <= MaxAttempts + Least(count'[f], MaxAttempts)
                            /\ guesses'[f].since < now'
                            /\ expiry'[f] # None => expiry'[f] > guesses'[f].since + Window
                         \/ guesses'[f].since + Window < now'
    BY DEF GuessesTracked
  <2>1. CASE f = e
    <3>1. Least(0, MaxAttempts) = 0
      BY <1>e DEF Least
    <3> QED
      BY <2>1, <3>1, <1>b, <1>u, <1>e
  <2>2. CASE f # e
    BY <2>2, <1>a, <1>t, <1>u DEF GuessesTracked
  <2> QED
    BY <2>1, <2>2
<1>4. NoKeyNoExpiry'
  BY <1>t, <1>a, <1>b DEF NoKeyNoExpiry
<1>5. CountersExpire'
  <2> SUFFICES ASSUME NEW f \in Emails, count'[f] > 0, expiry'[f] = None
               PROVE  f \in stuck' \/ \E q \in Logins : pc'[q] = "first" /\ EmailOf[q] = f
    BY DEF CountersExpire
  <2>1. f # e
    BY <1>b
  <2>2. f \in stuck \/ \E q \in Logins : pc[q] = "first" /\ EmailOf[q] = f
    BY <2>1, <1>a, <1>t DEF CountersExpire
  <2> QED
    BY <2>1, <2>2, <1>r, <1>t DEF TypeOK
<1> QED
  BY <1>1, <1>2, <1>3, <1>4, <1>5 DEF IInv

\* A restart of the auth service forgets every login.
LEMMA CrashStep == ASSUME IInv, Crash PROVE IInv'
<1>t. TypeOK /\ SpansTracked /\ GuessesTracked /\ NoKeyNoExpiry /\ CountersExpire
  BY DEF IInv
<1>u. UNCHANGED <<now, bucket, span, count, expiry, guesses>>
  BY DEF Crash
<1>r. stuck' = stuck \cup Endless(Logins) /\ pc' = [r \in Logins |-> "idle"]
  BY DEF Crash
<1>1. TypeOK'
  <2>1. faults' \in 0..MaxFaults
    BY <1>t, FaultTyped DEF Crash
  <2> QED
    BY <1>t, <1>u, <1>r, <2>1 DEF TypeOK, Endless
<1>2. CountersExpire'
  <2> SUFFICES ASSUME NEW f \in Emails, count'[f] > 0, expiry'[f] = None
               PROVE  f \in stuck'
    BY DEF CountersExpire
  <2>1. f \in stuck \/ \E q \in Logins : pc[q] = "first" /\ EmailOf[q] = f
    BY <1>t, <1>u DEF CountersExpire
  <2> QED
    BY <2>1, <1>r, <1>u DEF Endless
<1> QED
  BY <1>t, <1>u, <1>1, <1>2, SpanFrame, GuessFrame DEF IInv

\* Keys expire, and buckets gain Rate tokens at most.
LEMMA TickStep == ASSUME IInv, Tick PROVE IInv'
<1>t. TypeOK /\ SpansTracked /\ GuessesTracked /\ NoKeyNoExpiry /\ CountersExpire
  BY DEF IInv
<1>u. UNCHANGED <<bucket, stuck, pc, faults, span, guesses>> /\ now' = now + 1 /\ now \in Nat
  BY <1>t DEF Tick, TypeOK
<1>r. /\ count' = [e \in Emails |-> IF Gone(e) THEN 0 ELSE count[e]]
      /\ expiry' = [e \in Emails |-> IF Gone(e) THEN None ELSE expiry[e]]
  BY DEF Tick
<1>1. TypeOK'
  <2>1. count' \in [Emails -> Nat] /\ expiry' \in [Emails -> Nat \cup {None}]
    BY <1>t, <1>r DEF TypeOK
  <2> QED
    BY <1>t, <1>u, <2>1 DEF TypeOK
<1>2. SpansTracked'
  <2> SUFFICES ASSUME NEW i \in Ips
               PROVE  /\ span[i].since <= now + 1
                      /\ bucket[i] # None => bucket[i].last <= now + 1
                      /\ span[i].number + Available(i)' <= Burst + Rate * ((now + 1) - span[i].since)
    BY <1>u DEF SpansTracked
  <2>1. /\ span[i].since <= now /\ (bucket[i] # None => bucket[i].last <= now)
        /\ span[i].number + Available(i) <= Burst + Rate * (now - span[i].since)
    BY <1>t DEF SpansTracked
  <2>2. span[i].since \in Nat /\ span[i].number \in Nat /\ now - span[i].since \in Nat
        /\ Rate * (now - span[i].since) \in Nat
    BY SpanTyped
  <2>3. Rate \in Nat /\ Burst \in Nat
    BY LimitAssumption
  <2>4. Available(i)' \in Int /\ Available(i)' <= Available(i) + Rate
    <3>1. CASE bucket[i] = None
      BY <3>1, <1>u, <2>3 DEF Available
    <3>2. CASE bucket[i] # None
      <4> DEFINE d == now - bucket[i].last
      <4>1. bucket[i].tokens \in Nat /\ bucket[i].last \in Nat /\ d \in Nat
        BY <3>2, <1>t, <1>u, <2>1 DEF TypeOK
      <4>2. (now + 1) - bucket[i].last = d + 1
        BY <4>1, <1>u
      <4>3. Available(i) = Least(Burst, bucket[i].tokens + Rate * d)
        BY <3>2 DEF Available, Refilled
      <4>4. Available(i)' = Least(Burst, bucket[i].tokens + Rate * (d + 1))
        BY <3>2, <1>u, <4>2 DEF Available, Refilled
      <4>5. d + 1 \in Nat
        BY <4>1
      <4>6. Least(Burst, bucket[i].tokens + Rate * (d + 1)) \in Nat
        BY <4>1, <4>5, RefillTyped
      <4>7. Least(Burst, bucket[i].tokens + Rate * (d + 1))
              <= Least(Burst, bucket[i].tokens + Rate * d) + Rate
        BY <4>1, RefillTyped
      <4> QED
        BY <4>3, <4>4, <4>6, <4>7
    <3> QED
      BY <3>1, <3>2
  <2>5. (now + 1) - span[i].since = (now - span[i].since) + 1
    BY <1>u, <2>2
  <2>6. Rate * ((now - span[i].since) + 1) = Rate * (now - span[i].since) + Rate
    BY <2>2, <2>3
  <2>7. Available(i) \in Nat
    BY AvailableTyped
  <2>8. span[i].number + Available(i)' <= Burst + Rate * ((now + 1) - span[i].since)
    BY <2>1, <2>2, <2>3, <2>4, <2>5, <2>6, <2>7
  <2>9. bucket[i] # None => bucket[i].last <= now + 1
    BY <2>1, <1>t, <1>u DEF TypeOK
  <2> QED
    BY <2>1, <2>2, <2>8, <2>9, <1>u
<1>3. GuessesTracked'
  <2> SUFFICES ASSUME NEW e \in Emails
               PROVE  /\ guesses[e].since <= now + 1
                      /\ \/ guesses[e].number <= Least(count'[e], MaxAttempts)
                         \/ /\ guesses[e].number <= MaxAttempts + Least(count'[e], MaxAttempts)
                            /\ guesses[e].since < now + 1
                            /\ expiry'[e] # None => expiry'[e] > guesses[e].since + Window
                         \/ guesses[e].since + Window < now + 1
    BY <1>u DEF GuessesTracked
  <2>1. /\ guesses[e].since \in Nat /\ guesses[e].number \in Nat /\ count[e] \in Nat
        /\ expiry[e] \in Nat \cup {None} /\ guesses[e].since <= now
        /\ MaxAttempts \in Nat /\ Window \in Nat
    BY <1>t, GuessTyped, LimitAssumption DEF GuessesTracked
  <2>2. \/ guesses[e].number <= Least(count[e], MaxAttempts)
        \/ /\ guesses[e].number <= MaxAttempts + Least(count[e], MaxAttempts)
           /\ guesses[e].since < now
           /\ expiry[e] # None => expiry[e] > guesses[e].since + Window
        \/ guesses[e].since + Window < now
    BY <1>t DEF GuessesTracked
  <2>3. guesses[e].since < now + 1 /\ guesses[e].since <= now + 1
    BY <2>1, <1>u
  <2>l. Least(0, MaxAttempts) = 0 /\ Least(count[e], MaxAttempts) \in Int
        /\ Least(count[e], MaxAttempts) <= MaxAttempts
    BY <2>1 DEF Least
  <2>4. CASE ~Gone(e)
    <3>1. count'[e] = count[e] /\ expiry'[e] = expiry[e]
      BY <2>4, <1>r
    <3>2. guesses[e].since + Window < now => guesses[e].since + Window < now + 1
      BY <2>1, <1>u
    <3> QED
      BY <3>1, <3>2, <2>2, <2>3
  <2>5. CASE Gone(e)
    <3>1. count'[e] = 0 /\ expiry'[e] = None
      BY <2>5, <1>r
    <3>2. CASE guesses[e].number <= Least(count[e], MaxAttempts)
      <4>1. guesses[e].number <= MaxAttempts + 0
        BY <3>2, <2>1, <2>l
      <4> QED
        BY <4>1, <3>1, <2>3, <2>l
    <3>3. CASE guesses[e].since + Window < now
      <4>1. guesses[e].since + Window < now + 1
        BY <3>3, <2>1, <1>u
      <4> QED
        BY <4>1, <2>3
    <3>4. CASE expiry[e] # None => expiry[e] > guesses[e].since + Window
      <4>1. expiry[e] \in Nat /\ expiry[e] <= now + 1
        BY <2>5, <2>1 DEF Gone
      <4>2. expiry[e] > guesses[e].since + Window
        BY <2>5, <3>4 DEF Gone
      <4>3. guesses[e].since + Window < now + 1
        BY <4>1, <4>2, <2>1, <1>u
      <4> QED
        BY <4>3, <2>3
    <3> QED
      BY <3>2, <3>3, <3>4, <2>2
  <2> QED
    BY <2>4, <2>5
<1>4. NoKeyNoExpiry'
  BY <1>t, <1>r DEF NoKeyNoExpiry
<1>5. CountersExpire'
  BY <1>t, <1>u, <1>r DEF CountersExpire
<1> QED
  BY <1>1, <1>2, <1>3, <1>4, <1>5 DEF IInv

\* An observation begins: nothing has been counted in it.
LEMMA ObserveStep == ASSUME IInv, Observe PROVE IInv'
<1> DEFINE fresh == [since |-> now, number |-> 0]
<1>t. TypeOK /\ SpansTracked /\ GuessesTracked /\ NoKeyNoExpiry /\ CountersExpire
  BY DEF IInv
<1>u. UNCHANGED <<now, bucket, redisVars, pc, faults>>
  BY DEF Observe
<1>n. now \in Nat /\ fresh \in Span /\ Rate \in Nat /\ Burst \in Nat /\ MaxAttempts \in Nat
  BY <1>t, LimitAssumption DEF TypeOK, Span
<1>5. CountersExpire' /\ NoKeyNoExpiry'
  BY <1>t, <1>u DEF CountersExpire, NoKeyNoExpiry, redisVars
<1>1. ASSUME NEW i \in Ips, span' = [span EXCEPT ![i] = fresh], guesses' = guesses PROVE IInv'
  <2>1. TypeOK'
    BY <1>1, <1>t, <1>u, <1>n DEF TypeOK, redisVars
  <2>2. GuessesTracked'
    BY <1>1, <1>t, <1>u, GuessFrame DEF redisVars
  <2>3. SpansTracked'
    <3> SUFFICES ASSUME NEW j \in Ips
                 PROVE  /\ span'[j].since <= now
                        /\ bucket[j] # None => bucket[j].last <= now
                        /\ span'[j].number + Available(j) <= Burst + Rate * (now - span'[j].since)
      BY <1>u DEF SpansTracked, Available, Refilled
    <3>1. CASE j # i
      BY <3>1, <1>1, <1>t DEF SpansTracked, TypeOK
    <3>2. CASE j = i
      <4>1. span'[j].since = now /\ span'[j].number = 0
        BY <3>2, <1>1, <1>t DEF TypeOK
      <4>2. Available(j) \in Nat /\ Available(j) <= Burst /\ Rate * (now - now) = 0
        BY <1>n, AvailableTyped
      <4>3. bucket[j] # None => bucket[j].last <= now
        BY <1>t DEF SpansTracked
      <4>4. span'[j].number + Available(j) <= Burst + Rate * (now - span'[j].since)
        BY <4>1, <4>2, <1>n
      <4> QED
        BY <4>1, <4>3, <4>4, <1>n
    <3> QED
      BY <3>1, <3>2
  <2> QED
    BY <1>5, <2>1, <2>2, <2>3 DEF IInv
<1>2. ASSUME NEW e \in Emails, guesses' = [guesses EXCEPT ![e] = fresh], span' = span PROVE IInv'
  <2>1. TypeOK'
    BY <1>2, <1>t, <1>u, <1>n DEF TypeOK, redisVars
  <2>2. SpansTracked'
    BY <1>2, <1>t, <1>u, SpanFrame
  <2>3. GuessesTracked'
    <3> SUFFICES ASSUME NEW f \in Emails
                 PROVE  /\ guesses'[f].since <= now
                        /\ \/ guesses'[f].number <= Least(count[f], MaxAttempts)
                           \/ /\ guesses'[f].number <= MaxAttempts + Least(count[f], MaxAttempts)
                              /\ guesses'[f].since < now
                              /\ expiry[f] # None => expiry[f] > guesses'[f].since + Window
                           \/ guesses'[f].since + Window < now
      BY <1>u DEF GuessesTracked, redisVars
    <3>1. CASE f # e
      BY <3>1, <1>2, <1>t DEF GuessesTracked, TypeOK
    <3>2. CASE f = e
      <4>1. guesses'[f].since = now /\ guesses'[f].number = 0 /\ count[f] \in Nat
        BY <3>2, <1>2, <1>t DEF TypeOK
      <4>2. 0 <= Least(count[f], MaxAttempts)
        BY <4>1, <1>n DEF Least
      <4> QED
        BY <4>1, <4>2, <1>n
    <3> QED
      BY <3>1, <3>2
  <2> QED
    BY <1>5, <2>1, <2>2, <2>3 DEF IInv
<1> QED
  BY <1>1, <1>2 DEF Observe

LEMMA IInvStep == IInv /\ [Next]_vars => IInv'
<1> SUFFICES ASSUME IInv, [Next]_vars PROVE IInv'
  OBVIOUS
<1>1. ASSUME NEW r \in Logins,
             \/ Admit(r) \/ TurnAway(r) \/ Incr(r) \/ FailIncr(r) \/ Expire(r) \/ FailExpire(r)
             \/ Compare(r) \/ Reset(r) \/ FailReset(r)
      PROVE  IInv'
  BY <1>1, BucketStep, IncrStep, ExpireStep, ResetStep
<1>2. CASE \E i \in Ips : Forget(i)
  BY <1>2, BucketStep
<1>3. CASE Crash \/ Tick \/ Observe
  BY <1>3, CrashStep, TickStep, ObserveStep
<1>4. CASE UNCHANGED vars
  BY <1>4 DEF vars, redisVars, IInv, TypeOK, SpansTracked, Available, Refilled, GuessesTracked,
              NoKeyNoExpiry, CountersExpire
<1> QED
  BY <1>1, <1>2, <1>3, <1>4 DEF Next

\* The inductive invariant holds throughout.
THEOREM LimitInvariant == Spec => []IInv
BY IInvInit, IInvStep, PTL DEF Spec

\* Every variable keeps its type; no bucket goes below zero.
THEOREM LimitTypeCorrect == Spec => []TypeOK
<1>1. IInv => TypeOK
  BY DEF IInv
<1> QED
  BY <1>1, LimitInvariant, PTL

\* The gateway's bucket keeps its promise over every span of time, for any
\* burst and rate, if an entry is kept until it would be full.
THEOREM AdmissionsAlwaysBounded == Spec => []AdmissionsBounded
<1>1. IInv => AdmissionsBounded
  <2> SUFFICES ASSUME IInv, NEW i \in Ips
               PROVE  span[i].number <= Burst + Rate * (now - span[i].since)
    BY DEF AdmissionsBounded
  <2>1. span[i].number + Available(i) <= Burst + Rate * (now - span[i].since)
    BY DEF IInv, SpansTracked
  <2>2. Available(i) \in Nat /\ span[i].number \in Nat /\ Rate * (now - span[i].since) \in Nat
        /\ Burst \in Nat
    BY AvailableTyped, SpanTyped, LimitAssumption
  <2> QED
    BY <2>1, <2>2
<1> QED
  BY <1>1, LimitInvariant, PTL

\* Whatever logins, failures and expiries mix, no Window gives an address
\* more checks than two keys allow.
THEOREM GuessesAlwaysBounded == Spec => []GuessesBounded
<1>1. IInv => GuessesBounded
  <2> SUFFICES ASSUME IInv, NEW e \in Emails, now - guesses[e].since <= Window
               PROVE  guesses[e].number <= 2 * MaxAttempts
    BY DEF GuessesBounded
  <2>1. /\ guesses[e].since \in Nat /\ guesses[e].number \in Nat /\ count[e] \in Nat
        /\ now \in Nat /\ MaxAttempts \in Nat /\ Window \in Nat
    BY GuessTyped, LimitAssumption DEF IInv
  <2>2. Least(count[e], MaxAttempts) \in Int /\ Least(count[e], MaxAttempts) <= MaxAttempts
    BY <2>1 DEF Least
  <2>3. ~(guesses[e].since + Window < now)
    BY <2>1
  <2>4. \/ guesses[e].number <= Least(count[e], MaxAttempts)
        \/ guesses[e].number <= MaxAttempts + Least(count[e], MaxAttempts)
    BY <2>3 DEF IInv, GuessesTracked
  <2> QED
    BY <2>1, <2>2, <2>4
<1> QED
  BY <1>1, LimitInvariant, PTL

\* Without a failure no counter is left without an expiry.
THEOREM CountersAlwaysExpire == Spec => []CountersExpire
<1>1. IInv => CountersExpire
  BY DEF IInv
<1> QED
  BY <1>1, LimitInvariant, PTL

================================================================================
