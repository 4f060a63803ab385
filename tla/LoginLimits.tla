------------------------------ MODULE LoginLimits ------------------------------
(***************************************************************************)
(* What stands between a client and a password check: the gateway's token  *)
(* bucket per IP address, and the counter of attempts per email address    *)
(* that the auth service keeps in Redis.                                   *)
(*                                                                         *)
(* The bucket is behind a mutex: a decision is one action.  The counter is *)
(* not: INCR, EXPIRE and DEL are commands of their own, from any number of *)
(* logins at once, and each of them may fail or be applied unanswered.     *)
(* Time passes in ticks of both clocks together, with Rate tokens each.    *)
(***************************************************************************)
EXTENDS Integers

CONSTANTS Ips, Emails,
          Logins,              \* login requests, each sent again and again
          IpOf, EmailOf,
          Right,               \* those with the right password
          Burst, Rate,         \* of the bucket: 10, and 5 in a second
          Stale,               \* an idle entry's age when it is removed: 5 minutes
          MaxAttempts, Window, \* of the counter
          MaxTime,             \* bound on the clock
          MaxFaults,           \* bound on failed commands and crashes
          None

ASSUME LimitAssumption ==
    /\ IpOf \in [Logins -> Ips] /\ EmailOf \in [Logins -> Emails] /\ Right \subseteq Logins
    /\ Burst \in Nat \ {0} /\ Rate \in Nat /\ Stale \in Nat
    /\ MaxAttempts \in Nat \ {0} /\ Window \in Nat \ {0}
    /\ MaxTime \in Nat /\ MaxFaults \in Nat
    /\ None \notin [tokens : Nat, last : Nat] /\ None \notin Nat

\* An entry that is removed would have been full.
ASSUME StaleIsFull == Rate * Stale >= Burst

VARIABLES now,
          bucket,    \* an entry of the gateway per IP address, or None
          count,     \* the counter of an address, 0 if there is no key
          expiry,    \* when the key expires, None if it does not
          pc,        \* where each login stands
          faults,
          span,      \* auxiliary: admissions of an IP address since some instant
          guesses,   \* auxiliary: checks granted to an address since some instant
          stuck      \* auxiliary: addresses whose EXPIRE a failure took away

redisVars == <<count, expiry, stuck>>
vars      == <<now, bucket, redisVars, pc, faults, span, guesses>>

Span == [since : Nat, number : Nat]

TypeOK ==
    /\ now \in Nat
    /\ bucket \in [Ips -> [tokens : Nat, last : Nat] \cup {None}]
    /\ count \in [Emails -> Nat]
    /\ expiry \in [Emails -> Nat \cup {None}]
    /\ pc \in [Logins -> {"idle", "admitted", "first", "granted", "matched"}]
    /\ faults \in 0..MaxFaults
    /\ span \in [Ips -> Span]
    /\ guesses \in [Emails -> Span]
    /\ stuck \subseteq Emails

Init ==
    /\ now = 0
    /\ bucket = [i \in Ips |-> None]
    /\ count = [e \in Emails |-> 0]
    /\ expiry = [e \in Emails |-> None]
    /\ pc = [r \in Logins |-> "idle"]
    /\ faults = 0
    /\ span = [i \in Ips |-> [since |-> 0, number |-> 0]]
    /\ guesses = [e \in Emails |-> [since |-> 0, number |-> 0]]
    /\ stuck = {}

Fault == faults < MaxFaults /\ faults' = faults + 1

Goto(r, where) == pc' = [pc EXCEPT ![r] = where]

--------------------------------------------------------------------------------
(* The gateway's bucket                                                    *)

Least(a, b) == IF a < b THEN a ELSE b

\* Mutant: an idle client's tokens pile up.
RefilledUncapped(i) == bucket[i].tokens + Rate * (now - bucket[i].last)

Refilled(i) == Least(Burst, bucket[i].tokens + Rate * (now - bucket[i].last))

\* The tokens allow finds; a new entry starts full.
Available(i) == IF bucket[i] = None THEN Burst ELSE Refilled(i)

Admit(r) ==
    LET i == IpOf[r] IN
    /\ pc[r] = "idle"
    /\ Available(i) >= 1
    /\ bucket' = [bucket EXCEPT ![i] = [tokens |-> Available(i) - 1, last |-> now]]
    /\ Goto(r, "admitted")
    /\ span' = [span EXCEPT ![i].number = @ + 1]
    /\ UNCHANGED <<now, redisVars, faults, guesses>>

\* 429: the entry is refilled all the same.
TurnAway(r) ==
    LET i == IpOf[r] IN
    /\ pc[r] = "idle"
    /\ Available(i) < 1
    /\ bucket' = [bucket EXCEPT ![i] = [tokens |-> Available(i), last |-> now]]
    /\ UNCHANGED <<now, redisVars, pc, faults, span, guesses>>

\* cleanup, of one entry.
Forget(i) ==
    /\ bucket[i] # None
    /\ bucket[i].last < now - Stale
    /\ bucket' = [bucket EXCEPT ![i] = None]
    /\ UNCHANGED <<now, redisVars, pc, faults, span, guesses>>

--------------------------------------------------------------------------------
(* The counter in Redis                                                    *)

\* A check is granted on account of the count n.
Grant(e) == guesses' = [guesses EXCEPT ![e].number = @ + 1]

Within(n) == n <= MaxAttempts

\* Mutant: the expiry is set by the attempt that goes over the limit.
IncrExpireAtLimit(r) ==
    LET e == EmailOf[r]
        n == count[e] + 1
    IN
    /\ pc[r] = "admitted"
    /\ count' = [count EXCEPT ![e] = n]
    /\ Goto(r, IF n = MaxAttempts + 1 THEN "first" ELSE IF Within(n) THEN "granted" ELSE "idle")
    /\ IF Within(n) THEN Grant(e) ELSE UNCHANGED guesses
    /\ UNCHANGED <<now, bucket, expiry, stuck, faults, span>>

\* INCR and what Allow makes of its answer, up to EXPIRE.
Incr(r) ==
    LET e == EmailOf[r]
        n == count[e] + 1
    IN
    /\ pc[r] = "admitted"
    /\ count' = [count EXCEPT ![e] = n]
    /\ Goto(r, IF n = 1 THEN "first" ELSE IF Within(n) THEN "granted" ELSE "idle")
    /\ IF Within(n) THEN Grant(e) ELSE UNCHANGED guesses
    /\ UNCHANGED <<now, bucket, expiry, stuck, faults, span>>

\* INCR fails, applied or not: the login may go on.
FailIncr(r) ==
    LET e == EmailOf[r] IN
    /\ pc[r] = "admitted"
    /\ Fault
    /\ Goto(r, "granted")
    /\ \/ UNCHANGED <<count, stuck>>
       \/ /\ count' = [count EXCEPT ![e] = @ + 1]
          /\ stuck' = IF count[e] = 0 THEN stuck \cup {e} ELSE stuck
    /\ UNCHANGED <<now, bucket, expiry, span, guesses>>

\* EXPIRE, applied whether it is answered or not; it has no effect if the key
\* is gone.
Expire(r) ==
    LET e == EmailOf[r] IN
    /\ pc[r] = "first"
    /\ IF count[e] = 0
       THEN UNCHANGED <<expiry, stuck>>
       ELSE expiry' = [expiry EXCEPT ![e] = now + Window] /\ stuck' = stuck \ {e}
    /\ Goto(r, "granted")
    /\ UNCHANGED <<now, bucket, count, faults, span, guesses>>

\* The addresses whose key would have got its expiry from one of rs.
Endless(rs) ==
    {e \in Emails : count[e] > 0 /\ expiry[e] = None
                    /\ \E r \in rs : pc[r] = "first" /\ EmailOf[r] = e}

\* Its error is not looked at.
FailExpire(r) ==
    /\ pc[r] = "first"
    /\ Fault
    /\ stuck' = stuck \cup Endless({r})
    /\ Goto(r, "granted")
    /\ UNCHANGED <<now, bucket, count, expiry, span, guesses>>

\* The password is compared.
Compare(r) ==
    /\ pc[r] = "granted"
    /\ Goto(r, IF r \in Right THEN "matched" ELSE "idle")
    /\ UNCHANGED <<now, bucket, redisVars, faults, span, guesses>>

\* Reset: DEL, whose error is not looked at either.
Reset(r) ==
    LET e == EmailOf[r] IN
    /\ pc[r] = "matched"
    /\ count' = [count EXCEPT ![e] = 0]
    /\ expiry' = [expiry EXCEPT ![e] = None]
    /\ stuck' = stuck \ {e}
    /\ guesses' = [guesses EXCEPT ![e] = [since |-> now, number |-> 0]]
    /\ Goto(r, "idle")
    /\ UNCHANGED <<now, bucket, faults, span>>

FailReset(r) ==
    /\ pc[r] = "matched"
    /\ Fault
    /\ Goto(r, "idle")
    /\ UNCHANGED <<now, bucket, redisVars, span, guesses>>

\* The auth service restarts; Redis and the gateway do not.
Crash ==
    /\ Fault
    /\ stuck' = stuck \cup Endless(Logins)
    /\ pc' = [r \in Logins |-> "idle"]
    /\ UNCHANGED <<now, bucket, count, expiry, span, guesses>>

--------------------------------------------------------------------------------
(* Time                                                                    *)

\* Mutant: a key lives one tick less than EXPIRE said.
GoneEarly(e) == expiry[e] # None /\ expiry[e] <= now + 2

\* Redis has removed the key by the next tick.
Gone(e) == expiry[e] # None /\ expiry[e] <= now + 1

Tick ==
    /\ now < MaxTime
    /\ now' = now + 1
    /\ count' = [e \in Emails |-> IF Gone(e) THEN 0 ELSE count[e]]
    /\ expiry' = [e \in Emails |-> IF Gone(e) THEN None ELSE expiry[e]]
    /\ UNCHANGED <<bucket, stuck, pc, faults, span, guesses>>

\* Auxiliary: the count of admissions, or of granted checks, starts again.
Observe ==
    /\ \/ /\ \E i \in Ips : span' = [span EXCEPT ![i] = [since |-> now, number |-> 0]]
          /\ UNCHANGED guesses
       \/ /\ \E e \in Emails : guesses' = [guesses EXCEPT ![e] = [since |-> now, number |-> 0]]
          /\ UNCHANGED span
    /\ UNCHANGED <<now, bucket, redisVars, pc, faults>>

--------------------------------------------------------------------------------
Next ==
    \/ \E r \in Logins :
          \/ Admit(r) \/ TurnAway(r) \/ Incr(r) \/ FailIncr(r) \/ Expire(r) \/ FailExpire(r)
          \/ Compare(r) \/ Reset(r) \/ FailReset(r)
    \/ \E i \in Ips : Forget(i)
    \/ Crash \/ Tick \/ Observe

Spec == Init /\ [][Next]_vars

--------------------------------------------------------------------------------
(* Properties                                                              *)

\* From any instant on, an IP address is let through for a burst and Rate
\* times the time that has passed, although idle entries are thrown away.
AdmissionsBounded ==
    \A i \in Ips : span[i].number <= Burst + Rate * (now - span[i].since)

\* Within a Window without a successful login, an address gets the
\* checks of two keys at most, however the commands of logins mix: one key
\* may expire in that time, but not the next.  Checks that are granted because
\* INCR failed come on top.
GuessesBounded ==
    \A e \in Emails :
        now - guesses[e].since <= Window => guesses[e].number <= 2 * MaxAttempts

\* A counter without an expiry, which locks its address out for good once it
\* is over the limit, has a login about to set one, or lost it in a failure.
CountersExpire ==
    \A e \in Emails :
        count[e] > 0 /\ expiry[e] = None =>
            e \in stuck \/ \E r \in Logins : pc[r] = "first" /\ EmailOf[r] = e

\* What an IP address may still spend is within the bound, too.
SpansTracked ==
    \A i \in Ips :
        /\ span[i].since <= now
        /\ bucket[i] # None => bucket[i].last <= now
        /\ span[i].number + Available(i) <= Burst + Rate * (now - span[i].since)

\* The checks granted since some instant are those of the present key, or of
\* one more that has expired since; then the present key outlasts a Window
\* from that instant.
GuessesTracked ==
    \A e \in Emails :
        /\ guesses[e].since <= now
        /\ \/ guesses[e].number <= Least(count[e], MaxAttempts)
           \/ /\ guesses[e].number <= MaxAttempts + Least(count[e], MaxAttempts)
              /\ guesses[e].since < now
              /\ expiry[e] # None => expiry[e] > guesses[e].since + Window
           \/ guesses[e].since + Window < now

NoKeyNoExpiry == \A e \in Emails : count[e] = 0 => expiry[e] = None

\* The inductive invariant of LoginLimitsProofs.
IInv == TypeOK /\ SpansTracked /\ GuessesTracked /\ NoKeyNoExpiry /\ CountersExpire

================================================================================
