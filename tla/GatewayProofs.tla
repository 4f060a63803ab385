------------------------------ MODULE GatewayProofs ------------------------------
(***************************************************************************)
(* Theorems about two of the gateway's middlewares: the store of answers   *)
(* (Idempotency) and the circuit breaker on a gRPC connection              *)
(* (CircuitBreaker).                                                       *)
(*                                                                         *)
(* The two specifications are independent and share no name; a theorem     *)
(* speaks of one of them.                                                  *)
(***************************************************************************)
EXTENDS Idempotency, CircuitBreaker, FiniteSetTheorems, TLAPS

--------------------------------------------------------------------------------
(* The store of answers                                                    *)

\* An entry outlives its time to live at most until the next cleanup.
CleanedInTime ==
    /\ IsFiniteSet(Stored)
    /\ \A k \in Stored : entries[k].at <= now /\ cleanAt <= entries[k].at + Ttl + Period

Active(r) == pc[r] \in {"running", "ran"}

\* The request of k whose handler has begun is the only one; the others wait
\* for its answer to be stored, and then get it.
OneRun(k) ==
    LET Rs == {r \in Requests : KeyOf[r] = k} IN
    IF entries[k] = NoAnswer
    THEN \A r \in Rs :
            /\ pc[r] = "idle" \/ Active(r)
            /\ r \in ran => pc[r] = "ran"
            /\ \A s \in Rs : Active(r) /\ Active(s) => r = s
    ELSE \A r \in Rs :
            /\ pc[r] \in {"idle", "answered"}
            /\ pc[r] = "answered" => answer[r] = entries[k].answer
            /\ r \in ran => r = entries[k].answer

RunsAccounted == \A k \in Keys : causes[k] = {} => OneRun(k)

\* The inductive invariant of OnceOrForCause.
StoreInv == StoreTypeOK /\ CleanedInTime /\ RunsAccounted

LEMMA StoreInvInit == StoreInit => StoreInv
<1> SUFFICES ASSUME StoreInit PROVE StoreInv
  OBVIOUS
<1>1. Stored = {}
  BY DEF StoreInit, Stored
<1>2. IsFiniteSet(Stored) /\ Cardinality(Stored) = 0
  BY <1>1, FS_EmptySet
<1>3. StoreTypeOK
  BY <1>1, <1>2, IdempotencyAssumption DEF StoreInit, StoreTypeOK
<1>4. CleanedInTime
  BY <1>1, <1>2 DEF CleanedInTime
<1>5. RunsAccounted
  BY DEF StoreInit, RunsAccounted, OneRun, Active
<1> QED
  BY <1>3, <1>4, <1>5 DEF StoreInv

LEMMA PutStores ==
    ASSUME StoreInv, NEW k \in Keys, NEW r \in Requests, Room, entries' = Put(k, r), now' = now
    PROVE  /\ Stored' = Stored \cup {k}
           /\ entries' \in [Keys -> Entry \cup {NoAnswer}]
           /\ entries'[k].answer = r /\ entries'[k].at = now /\ entries'[k] # NoAnswer
           /\ \A j \in Keys : j # k => entries'[j] = entries[j]
           /\ IsFiniteSet(Stored') /\ Cardinality(Stored') <= MaxEntries
<1> DEFINE new == [answer |-> r, at |-> now]
<1>1. new \in Entry /\ new # NoAnswer
  BY IdempotencyAssumption DEF StoreInv, StoreTypeOK, Entry
<1>2. entries \in [Keys -> Entry \cup {NoAnswer}] /\ entries' = [entries EXCEPT ![k] = new]
  BY DEF StoreInv, StoreTypeOK, Put
<1>8. new.answer = r /\ new.at = now
  OBVIOUS
<1> HIDE DEF new
<1>3. /\ entries' \in [Keys -> Entry \cup {NoAnswer}] /\ entries'[k] = new
      /\ \A j \in Keys : j # k => entries'[j] = entries[j]
  BY <1>1, <1>2
<1>4. \A j : j \in Stored' <=> j \in Stored \cup {k}
  BY <1>1, <1>3 DEF Stored
<1>5. Stored' = Stored \cup {k}
  BY <1>4
<1>6. IsFiniteSet(Stored) /\ Cardinality(Stored) < MaxEntries /\ MaxEntries \in Nat
  BY IdempotencyAssumption DEF StoreInv, CleanedInTime, Room
<1>7. IsFiniteSet(Stored') /\ Cardinality(Stored') <= MaxEntries
  BY <1>5, <1>6, FS_AddElement, FS_CardinalityType
<1> QED
  BY <1>1, <1>3, <1>5, <1>7, <1>8

\* What a cleanup, or a restart, leaves in the store.
LEMMA StoreShrinks ==
    ASSUME StoreInv, NEW Old \in SUBSET Keys,
           entries' = [k \in Keys |-> IF k \in Old THEN NoAnswer ELSE entries[k]]
    PROVE  /\ entries' \in [Keys -> Entry \cup {NoAnswer}]
           /\ Stored' \subseteq Stored
           /\ \A k \in Stored' : k \notin Old /\ entries'[k] = entries[k]
           /\ IsFiniteSet(Stored') /\ Cardinality(Stored') <= MaxEntries
<1>1. entries \in [Keys -> Entry \cup {NoAnswer}]
  BY DEF StoreInv, StoreTypeOK
<1>2. Stored' \subseteq Stored /\ \A k \in Stored' : k \notin Old /\ entries'[k] = entries[k]
  BY DEF Stored
<1>3. IsFiniteSet(Stored) /\ Cardinality(Stored) <= MaxEntries /\ MaxEntries \in Nat
  BY IdempotencyAssumption DEF StoreInv, StoreTypeOK, CleanedInTime
<1>4. IsFiniteSet(Stored') /\ Cardinality(Stored') <= MaxEntries
  BY <1>2, <1>3, FS_Subset, FS_CardinalityType
<1> QED
  BY <1>1, <1>2, <1>4

LEMMA CleanShrinks ==
    ASSUME StoreInv, Clean
    PROVE  \E Old \in SUBSET Keys :
              /\ entries' = [k \in Keys |-> IF k \in Old THEN NoAnswer ELSE entries[k]]
              /\ \A k \in Stored : k \in Old <=> ~(now - entries[k].at <= Ttl)
<1> DEFINE Old == {k \in Stored : ~(now - entries[k].at <= Ttl)}
<1>1. entries' = [k \in Keys |-> IF k \in Old THEN NoAnswer ELSE entries[k]]
  BY DEF Clean, Stored
<1>2. Old \in SUBSET Keys
  BY DEF Stored
<1> QED
  BY <1>1, <1>2

LEMMA StoreTypeStep == StoreInv /\ [StoreNext]_storeVars => StoreTypeOK' /\ CleanedInTime'
<1> SUFFICES ASSUME StoreInv, [StoreNext]_storeVars PROVE StoreTypeOK' /\ CleanedInTime'
  OBVIOUS
<1>k. \A r \in Requests : KeyOf[r] \in Keys
  BY IdempotencyAssumption
<1>t. /\ now \in 0..MaxTime /\ cleanAt \in now..(now + Period) /\ now \in Nat /\ cleanAt \in Nat
      /\ Period \in Nat \ {0} /\ Ttl \in Nat /\ MaxTime \in Nat
      /\ entries \in [Keys -> Entry \cup {NoAnswer}]
      /\ pc \in [Requests -> {"idle", "running", "ran", "answered", "lost"}]
      /\ answer \in [Requests -> Requests \cup {NoAnswer}]
      /\ ran \subseteq Requests
      /\ causes \in [Keys -> SUBSET Cause]
  BY IdempotencyAssumption DEF StoreInv, StoreTypeOK
<1>e. \A k \in Stored : k \in Keys /\ entries[k] \in Entry /\ entries[k].at \in Nat
  BY <1>t DEF Stored, Entry
<1>c. CleanedInTime
  BY DEF StoreInv
<1>b. ASSUME NEW k \in Keys, NEW cause \in Cause, Because(k, cause)
      PROVE  causes' \in [Keys -> SUBSET Cause]
  BY <1>t, <1>b DEF Because
\* What the requests do to their own state.
<1>r. pc' \in [Requests -> {"idle", "running", "ran", "answered", "lost"}] /\ ran' \subseteq Requests
      /\ answer' \in [Requests -> Requests \cup {NoAnswer}] /\ causes' \in [Keys -> SUBSET Cause]
  <2>1. ASSUME NEW r \in Requests, Repeat(r) PROVE <1>r!:
    BY <1>t, <1>k, <2>1 DEF Repeat, Entry
  <2>2. ASSUME NEW r \in Requests, Begin(r) PROVE <1>r!:
    BY <1>t, <1>k, <1>b, <2>2 DEF Begin, Cause
  <2>3. ASSUME NEW r \in Requests, Handle(r) PROVE <1>r!:
    BY <1>t, <2>3 DEF Handle
  <2>4. ASSUME NEW r \in Requests, Panic(r) PROVE <1>r!:
    BY <1>t, <1>k, <1>b, <2>4 DEF Panic, Cause
  <2>5. ASSUME NEW r \in Requests, Remember(r) PROVE <1>r!:
    BY <1>t, <1>k, <1>b, <2>5 DEF Remember, Cause
  <2>6. CASE Clean
    BY <1>t, <2>6 DEF Clean, Cause
  <2>7. CASE Restart
    BY <1>t, <2>7 DEF Restart, Cause
  <2>8. CASE TimePasses \/ UNCHANGED storeVars
    BY <1>t, <2>8 DEF TimePasses, storeVars
  <2> QED
    BY <2>1, <2>2, <2>3, <2>4, <2>5, <2>6, <2>7, <2>8 DEF StoreNext
\* What happens to the store.
<1>s. /\ now' \in 0..MaxTime /\ cleanAt' \in now'..(now' + Period)
      /\ entries' \in [Keys -> Entry \cup {NoAnswer}]
      /\ IsFiniteSet(Stored') /\ Cardinality(Stored') <= MaxEntries
      /\ \A k \in Stored' : entries'[k].at <= now' /\ cleanAt' <= entries'[k].at + Ttl + Period
  <2>1. CASE UNCHANGED <<now, entries, cleanAt>>
    <3>1. Stored' = Stored
      BY <2>1 DEF Stored
    <3> QED
      BY <1>t, <1>c, <2>1, <3>1 DEF CleanedInTime, StoreInv, StoreTypeOK
  <2>2. ASSUME NEW r \in Requests, Room, entries' = Put(KeyOf[r], r), UNCHANGED <<now, cleanAt>>
        PROVE  <1>s!:
    <3>1. /\ Stored' = Stored \cup {KeyOf[r]} /\ entries'[KeyOf[r]].at = now
          /\ \A j \in Keys : j # KeyOf[r] => entries'[j] = entries[j]
          /\ entries' \in [Keys -> Entry \cup {NoAnswer}]
          /\ IsFiniteSet(Stored') /\ Cardinality(Stored') <= MaxEntries
      BY <1>k, <2>2, PutStores
    <3> QED
      BY <1>t, <1>e, <1>c, <2>2, <3>1 DEF CleanedInTime
  <2>3. CASE Clean
    <3>1. PICK Old \in SUBSET Keys :
              /\ entries' = [k \in Keys |-> IF k \in Old THEN NoAnswer ELSE entries[k]]
              /\ \A k \in Stored : k \in Old <=> ~(now - entries[k].at <= Ttl)
      BY <2>3, CleanShrinks
    <3>2. /\ entries' \in [Keys -> Entry \cup {NoAnswer}]
          /\ Stored' \subseteq Stored
          /\ \A k \in Stored' : k \notin Old /\ entries'[k] = entries[k]
          /\ IsFiniteSet(Stored') /\ Cardinality(Stored') <= MaxEntries
      BY <3>1, StoreShrinks
    <3>3. now' = now /\ cleanAt' = now + Period
      BY <2>3 DEF Clean
    <3>4. ASSUME NEW k \in Stored'
          PROVE  entries'[k].at <= now' /\ cleanAt' <= entries'[k].at + Ttl + Period
      <4>1. k \in Stored /\ entries'[k] = entries[k] /\ entries[k].at \in Nat
            /\ entries[k].at <= now /\ now - entries[k].at <= Ttl
        BY <1>e, <1>c, <3>1, <3>2 DEF CleanedInTime
      <4> QED
        BY <1>t, <3>3, <4>1
    <3> QED
      BY <1>t, <3>2, <3>3, <3>4
  <2>4. CASE TimePasses
    <3>1. Stored' = Stored
      BY <2>4 DEF TimePasses, Stored
    <3>2. now' = now + 1 /\ now < MaxTime /\ now < cleanAt /\ UNCHANGED <<entries, cleanAt>>
      BY <2>4 DEF TimePasses
    <3>3. IsFiniteSet(Stored) /\ Cardinality(Stored) <= MaxEntries
      BY DEF StoreInv, StoreTypeOK, CleanedInTime
    <3> QED
      BY <1>t, <1>e, <1>c, <3>1, <3>2, <3>3 DEF CleanedInTime
  <2>5. CASE Restart
    <3>1. entries' = [k \in Keys |-> IF k \in Keys THEN NoAnswer ELSE entries[k]]
      BY <2>5 DEF Restart
    <3>2. Stored' = {}
      BY <3>1 DEF Stored
    <3>3. entries' \in [Keys -> Entry \cup {NoAnswer}] /\ IsFiniteSet(Stored') /\ Cardinality(Stored') <= MaxEntries
      BY <3>1, StoreShrinks
    <3>4. now' = now /\ cleanAt' = now + Period
      BY <2>5 DEF Restart
    <3> QED
      BY <1>t, <3>2, <3>3, <3>4
  <2> QED
    BY <2>1, <2>2, <2>3, <2>4, <2>5
       DEF StoreNext, Repeat, Begin, Handle, Panic, Remember, storeVars
<1>a. \A k \in Stored' : now' - entries'[k].at <= Ttl + Period
  <2> SUFFICES ASSUME NEW k \in Stored' PROVE now' - entries'[k].at <= Ttl + Period
    OBVIOUS
  <2>1. entries'[k].at \in Nat
    BY <1>s, <1>t DEF Stored, Entry
  <2> QED
    BY <1>s, <1>t, <2>1
<1> QED
  BY <1>r, <1>s, <1>a DEF StoreTypeOK, CleanedInTime

LEMMA RunsAccountedStep == StoreInv /\ [StoreNext]_storeVars => RunsAccounted'
<1> SUFFICES ASSUME StoreInv, [StoreNext]_storeVars, NEW k \in Keys, causes'[k] = {}
             PROVE  OneRun(k)'
  BY DEF RunsAccounted
<1>k. \A r \in Requests : KeyOf[r] \in Keys
  BY IdempotencyAssumption
<1>t. /\ entries \in [Keys -> Entry \cup {NoAnswer}]
      /\ pc \in [Requests -> {"idle", "running", "ran", "answered", "lost"}]
      /\ answer \in [Requests -> Requests \cup {NoAnswer}]
      /\ causes \in [Keys -> SUBSET Cause]
  BY DEF StoreInv, StoreTypeOK
<1>b. ASSUME NEW j \in Keys, NEW cause, Because(j, cause)
      PROVE  j # k /\ causes'[k] = causes[k]
  BY <1>t, <1>b DEF Because
<1>c. causes[k] = {}
  BY <1>t, <1>k, <1>b
     DEF StoreNext, Repeat, Begin, Handle, Panic, Remember, Clean, TimePasses, Restart, storeVars
<1>o. OneRun(k)
  BY <1>c DEF StoreInv, RunsAccounted
\* A step of a request of another key.
<1>1. ASSUME NEW r \in Requests, KeyOf[r] # k,
             Repeat(r) \/ Begin(r) \/ Handle(r) \/ Panic(r) \/ Remember(r)
      PROVE  OneRun(k)'
  <2>1. entries'[k] = entries[k]
    BY <1>t, <1>k, <1>1 DEF Repeat, Begin, Handle, Panic, Remember, Put
  <2>2. \A s \in Requests : KeyOf[s] = k =>
           pc'[s] = pc[s] /\ answer'[s] = answer[s] /\ (s \in ran' <=> s \in ran)
    BY <1>t, <1>1 DEF Repeat, Begin, Handle, Panic, Remember
  <2> QED
    BY <1>o, <2>1, <2>2 DEF OneRun, Active
<1>2. ASSUME NEW r \in Requests, KeyOf[r] = k, Repeat(r) PROVE OneRun(k)'
  BY <1>t, <1>o, <1>2 DEF Repeat, OneRun, Active
<1>3. ASSUME NEW r \in Requests, KeyOf[r] = k, Begin(r) PROVE OneRun(k)'
  <2>1. ~ \E s \in Requests : KeyOf[s] = k /\ pc[s] \in {"running", "ran"}
    BY <1>b, <1>k, <1>3 DEF Begin
  <2> QED
    BY <1>t, <1>o, <1>3, <2>1 DEF Begin, OneRun, Active
<1>4. ASSUME NEW r \in Requests, KeyOf[r] = k, Handle(r) PROVE OneRun(k)'
  BY <1>t, <1>o, <1>4 DEF Handle, OneRun, Active
<1>5. ASSUME NEW r \in Requests, KeyOf[r] = k, Panic(r) PROVE FALSE
  BY <1>b, <1>5 DEF Panic
<1>6. ASSUME NEW r \in Requests, KeyOf[r] = k, Remember(r) PROVE OneRun(k)'
  <2>1. Room /\ entries' = Put(k, r) /\ now' = now /\ ran' = ran
    BY <1>b, <1>6 DEF Remember
  <2>2. entries'[k].answer = r /\ entries'[k] # NoAnswer
    BY <2>1, PutStores
  <2>3. pc[r] = "ran" /\ pc' = [pc EXCEPT ![r] = "answered"] /\ answer' = [answer EXCEPT ![r] = r]
    BY <1>6 DEF Remember
  <2>4. entries[k] = NoAnswer
    BY <1>o, <1>6, <2>3 DEF OneRun
  <2>5. \A s \in Requests : KeyOf[s] = k /\ s # r => pc[s] = "idle" /\ s \notin ran
    BY <1>o, <1>6, <2>3, <2>4 DEF OneRun, Active
  <2> QED
    BY <1>t, <1>6, <2>1, <2>2, <2>3, <2>5 DEF OneRun
<1>7. CASE Clean
  <2>1. entries'[k] = entries[k]
    BY <1>7 DEF Clean, Stored
  <2> QED
    BY <1>o, <1>7, <2>1 DEF Clean, OneRun, Active
<1>8. ~Restart
  BY <1>t DEF Restart
<1>9. CASE TimePasses \/ UNCHANGED storeVars
  BY <1>o, <1>9 DEF TimePasses, storeVars, OneRun, Active
<1> QED
  BY <1>1, <1>2, <1>3, <1>4, <1>5, <1>6, <1>7, <1>8, <1>9 DEF StoreNext

LEMMA StoreInvStep == StoreInv /\ [StoreNext]_storeVars => StoreInv'
BY StoreTypeStep, RunsAccountedStep DEF StoreInv

(* The store never holds more than MaxEntries answers, and none for longer *)
(* than its time to live and one period of the cleanup.                    *)
THEOREM StoreBounded == StoreSpec => []StoreTypeOK
<1>1. StoreInv => StoreTypeOK
  BY DEF StoreInv
<1> QED
  BY <1>1, StoreInvInit, StoreInvStep, PTL DEF StoreSpec

(* A key's operation runs once, and every request with the key is answered *)
(* by that run, unless one of the causes was met.                          *)
THEOREM OnceOrForCause == StoreSpec => []RunsOnceOrForCause
<1>1. StoreInv => RunsOnceOrForCause
  <2> SUFFICES ASSUME StoreInv, NEW r \in Requests, NEW s \in Requests, r # s, KeyOf[r] = KeyOf[s],
                      \/ {r, s} \subseteq ran
                      \/ pc[r] = "answered" /\ pc[s] = "answered" /\ answer[r] # answer[s],
                      causes[KeyOf[r]] = {}
               PROVE  FALSE
    BY DEF RunsOnceOrForCause
  <2>1. OneRun(KeyOf[r])
    BY IdempotencyAssumption DEF StoreInv, RunsAccounted
  <2> QED
    BY <2>1 DEF OneRun, Active
<1> QED
  BY <1>1, StoreInvInit, StoreInvStep, PTL DEF StoreSpec

--------------------------------------------------------------------------------
(* The circuit breaker                                                     *)

\* What each state of the breaker keeps: a half-open one only successes, an
\* open one nothing.
StateKept ==
    /\ IsFiniteSet(InFlight)
    /\ state # "half" => permits = 0 /\ hungUp = 0
    /\ state = "open" => outcomes = <<>>
    /\ state = "half" => hungUp <= Len(outcomes) /\ \A k \in DOMAIN outcomes : outcomes[k]

\* A call in flight while the breaker is open was admitted before it opened:
\* its deadline, which is shorter than the delay, ends it before the probes.
OpenOutlasts ==
    state = "open" => \A c \in InFlight : calls[c].age + delayLeft >= Delay

Evidence == {"OK", "NotFound", "Internal", "ResourceExhausted"}

\* As long as the service was not up since the breaker opened, no answer of
\* its own is under way, and every success that was recorded was a client's
\* leaving.
NoEvidence ==
    /\ state # "closed" /\ health = "up" => upSince
    /\ state = "half" /\ ~upSince =>
          /\ hungUp = Len(outcomes)
          /\ \A c \in InFlight : calls[c].code \notin Evidence

\* The inductive invariant of the breaker's theorems.
BreakerInv == TypeOK /\ ProbesAccounted /\ StateKept /\ OpenOutlasts /\ NoEvidence

LEMMA BreakerTyped ==
    ASSUME BreakerInv
    PROVE  /\ outcomes \in Seq(BOOLEAN) /\ Len(outcomes) \in Nat
           /\ permits \in Nat /\ delayLeft \in Nat /\ hungUp \in Nat
           /\ SuccessThreshold \in Nat \ {0} /\ WindowSize \in Nat /\ FailureThreshold \in Nat \ {0}
           /\ FailureThreshold <= WindowSize
           /\ Timeout \in Nat /\ Delay \in Nat /\ Timeout < Delay
           /\ MaxExecutions \in Nat \ {0} /\ Interval \in Nat \ {0}
           /\ calls \in [Calls -> CallRecord \cup {None}]
           /\ state \in {"closed", "open", "half"} /\ health \in {"up", "down", "stuck"}
           /\ upSince \in BOOLEAN
BY BreakerAssumption DEF BreakerInv, TypeOK

LEMMA InFlightTyped ==
    ASSUME BreakerInv, NEW c \in InFlight
    PROVE  /\ c \in Calls /\ calls[c] \in CallRecord
           /\ calls[c].age \in Nat /\ calls[c].age <= Timeout
BY BreakerTyped DEF InFlight, CallRecord

LEMMA NoneIsNoAnswer == None \notin Evidence
BY BreakerAssumption DEF Evidence, StatusCodes

LEMMA NoFailures ==
    /\ Failures(<<>>) = 0
    /\ \A s \in Seq(BOOLEAN) : (\A k \in DOMAIN s : s[k]) => Failures(s) = 0
<1>1. ASSUME NEW s \in Seq(BOOLEAN), \A k \in DOMAIN s : s[k] PROVE Failures(s) = 0
  <2>1. {k \in DOMAIN s : ~s[k]} = {}
    BY <1>1
  <2> QED
    BY <2>1, FS_EmptySet DEF Failures
<1>2. Failures(<<>>) = 0
  <2>1. <<>> \in Seq(BOOLEAN) /\ \A k \in DOMAIN <<>> : <<>>[k]
    OBVIOUS
  <2> QED
    BY <1>1, <2>1
<1> QED
  BY <1>1, <1>2

LEMMA FailuresTyped == ASSUME NEW s \in Seq(BOOLEAN) PROVE Failures(s) \in Nat
<1>1. IsFiniteSet(DOMAIN s)
  BY FS_Interval
<1>2. {k \in DOMAIN s : ~s[k]} \in SUBSET DOMAIN s
  OBVIOUS
<1>3. IsFiniteSet({k \in DOMAIN s : ~s[k]})
  BY <1>1, <1>2, FS_Subset
<1> QED
  BY <1>3, FS_CardinalityType DEF Failures

LEMMA LastOutcomesTyped ==
    ASSUME BreakerInv, state = "closed", NEW o \in BOOLEAN
    PROVE  LastOutcomes(o) \in Seq(BOOLEAN) /\ Len(LastOutcomes(o)) <= WindowSize
<1> DEFINE s == Append(outcomes, o)
<1>1. s \in Seq(BOOLEAN) /\ Len(s) = Len(outcomes) + 1 /\ Len(outcomes) <= WindowSize
  BY BreakerTyped DEF BreakerInv, TypeOK
<1>2. Tail(s) \in Seq(BOOLEAN) /\ Len(Tail(s)) = Len(outcomes)
  <2>1. s # <<>>
    BY <1>1
  <2> QED
    BY <1>1, <2>1, BreakerTyped
<1> HIDE DEF s
<1>3. LastOutcomes(o) = IF Len(s) > WindowSize THEN Tail(s) ELSE s
  BY DEF LastOutcomes, s
<1>4. Len(outcomes) \in Nat /\ WindowSize \in Nat
  BY BreakerTyped
<1>5. CASE Len(s) > WindowSize
  BY <1>1, <1>2, <1>3, <1>4, <1>5
<1>6. CASE ~(Len(s) > WindowSize)
  <2>1. Len(s) <= WindowSize
    BY <1>1, <1>4, <1>6
  <2> QED
    BY <1>1, <1>3, <1>6, <2>1
<1> QED
  BY <1>5, <1>6

\* When the breaker may half-open, no call is in flight.
LEMMA Drained ==
    ASSUME BreakerInv, state = "open", delayLeft = 0
    PROVE  InFlight = {}
<1> SUFFICES ASSUME NEW c \in InFlight PROVE FALSE
  OBVIOUS
<1>1. calls[c].age + delayLeft >= Delay
  BY DEF BreakerInv, OpenOutlasts
<1> QED
  BY <1>1, InFlightTyped, BreakerTyped

LEMMA BreakerInvInit == Init => BreakerInv
<1> SUFFICES ASSUME Init PROVE BreakerInv
  OBVIOUS
<1>1. InFlight = {}
  BY DEF Init, InFlight
<1>2. TypeOK
  <2>1. <<>> \in Seq(BOOLEAN) /\ Len(<<>>) = 0
    OBVIOUS
  <2>2. WindowSize >= 0 /\ SuccessThreshold >= 0 /\ 0 < FailureThreshold /\ Interval \in 1..Interval
        /\ 0 \in 0..SuccessThreshold /\ 0 \in 0..Delay /\ MaxExecutions \in 0..MaxExecutions
    BY BreakerAssumption
  <2>3. calls \in [Calls -> CallRecord \cup {None}]
    BY DEF Init
  <2> QED
    BY <2>1, <2>2, <2>3, NoFailures DEF Init, TypeOK
<1> QED
  BY <1>1, <1>2, FS_EmptySet
     DEF Init, BreakerInv, ProbesAccounted, StateKept, OpenOutlasts, NoEvidence

--------------------------------------------------------------------------------
LEMMA AdmitStep ==
    ASSUME BreakerInv, NEW c \in Calls, Admit(c)
    PROVE  BreakerInv'
<1> DEFINE new == [age |-> 0, code |-> None]
<1>1. new \in CallRecord /\ new # None /\ new.age = 0 /\ new.code = None
  BY BreakerAssumption DEF CallRecord
<1>2. calls[c] = None /\ calls' = [calls EXCEPT ![c] = new]
  BY DEF Admit
<1> HIDE DEF new
<1>3. calls' \in [Calls -> CallRecord \cup {None}] /\ calls'[c] = new
      /\ \A d \in Calls : d # c => calls'[d] = calls[d]
  BY <1>1, <1>2, BreakerTyped
<1>4. c \notin InFlight /\ InFlight' = InFlight \cup {c}
  <2>1. \A d : d \in InFlight' <=> d \in InFlight \cup {c}
    BY <1>1, <1>3 DEF InFlight
  <2> QED
    BY <1>2, <2>1 DEF InFlight
<1>5. IsFiniteSet(InFlight) /\ Cardinality(InFlight) \in Nat
  BY FS_CardinalityType DEF BreakerInv, StateKept
<1>6. IsFiniteSet(InFlight') /\ Cardinality(InFlight') = Cardinality(InFlight) + 1
  BY <1>4, <1>5, FS_AddElement
<1>7. UNCHANGED <<service, health, limiter, outcomes, delayLeft, upSince, hungUp>>
  BY DEF Admit, TryAcquirePermit, breaker
<1>8. Failures(outcomes)' = Failures(outcomes)
  BY <1>7 DEF Failures
<1>9. CASE state = "closed"
  <2>1. UNCHANGED <<state, permits>>
    BY <1>9 DEF Admit, TryAcquirePermit, breaker
  <2> QED
    BY <1>3, <1>6, <1>7, <1>8, <1>9, <2>1
       DEF BreakerInv, TypeOK, ProbesAccounted, StateKept, OpenOutlasts, NoEvidence, limiter
<1>10. CASE state = "open"
  <2>1. state' = "half" /\ permits' = SuccessThreshold - 1 /\ delayLeft = 0
    BY <1>10 DEF Admit, TryAcquirePermit
  <2>2. outcomes = <<>> /\ Len(outcomes) = 0 /\ hungUp = 0
    BY <1>10 DEF BreakerInv, StateKept
  <2>3. InFlight' = {c} /\ Cardinality(InFlight') = 1
    BY <1>4, <1>6, <1>10, <2>1, Drained, FS_EmptySet
  <2>4. calls'[c].code \notin Evidence
    BY <1>1, <1>3, NoneIsNoAnswer
  <2>5. TypeOK'
    BY <1>3, <1>7, <1>8, <2>1, <2>2, BreakerTyped DEF BreakerInv, TypeOK, limiter
  <2>6. ProbesAccounted' /\ OpenOutlasts'
    BY <1>7, <2>1, <2>2, <2>3, BreakerTyped DEF ProbesAccounted, OpenOutlasts
  <2>7. StateKept'
    BY <1>6, <1>7, <2>1, <2>2 DEF StateKept
  <2>8. NoEvidence'
    BY <1>7, <1>10, <2>1, <2>2, <2>3, <2>4 DEF BreakerInv, NoEvidence
  <2> QED
    BY <2>5, <2>6, <2>7, <2>8 DEF BreakerInv
<1>11. CASE state = "half"
  <2>1. state' = "half" /\ permits > 0 /\ permits' = permits - 1
    BY <1>11 DEF Admit, TryAcquirePermit
  <2>2. calls'[c].code \notin Evidence
    BY <1>1, <1>3, NoneIsNoAnswer
  <2>3. TypeOK'
    BY <1>3, <1>7, <1>8, <1>11, <2>1, BreakerTyped DEF BreakerInv, TypeOK, limiter
  <2>4. ProbesAccounted' /\ OpenOutlasts'
    BY <1>5, <1>6, <1>7, <1>11, <2>1, BreakerTyped DEF BreakerInv, ProbesAccounted, OpenOutlasts
  <2>5. StateKept'
    BY <1>6, <1>7, <1>11, <2>1 DEF BreakerInv, StateKept
  <2>6. NoEvidence'
    BY <1>3, <1>4, <1>7, <1>11, <2>1, <2>2 DEF BreakerInv, NoEvidence, InFlight
  <2> QED
    BY <2>3, <2>4, <2>5, <2>6 DEF BreakerInv
<1> QED
  BY <1>9, <1>10, <1>11, BreakerTyped

\* An answer does not change which calls are in flight, nor their ages.
LEMMA AnswerFacts ==
    ASSUME BreakerInv, NEW c \in Calls, calls[c] # None,
           NEW code \in {"OK", "NotFound", "Internal", "ResourceExhausted", "Unavailable",
                         "DeadlineExceeded", "Canceled"},
           Answered(c, code)
    PROVE  /\ calls' \in [Calls -> CallRecord \cup {None}]
           /\ InFlight' = InFlight
           /\ \A d \in InFlight : calls'[d].age = calls[d].age
           /\ calls'[c].code = code /\ \A d \in Calls : d # c => calls'[d] = calls[d]
<1>1. calls[c] \in CallRecord /\ calls \in [Calls -> CallRecord \cup {None}]
  BY BreakerTyped
<1> DEFINE new == [calls[c] EXCEPT !.code = code]
<1>2. new \in CallRecord /\ new.age = calls[c].age /\ new.code = code
  BY <1>1 DEF CallRecord, StatusCodes
<1>3. new # None
  BY <1>2, BreakerAssumption
<1>4. calls' = [calls EXCEPT ![c] = new]
  BY DEF Answered
<1> HIDE DEF new
<1>5. /\ calls' \in [Calls -> CallRecord \cup {None}] /\ calls'[c] = new
      /\ \A d \in Calls : d # c => calls'[d] = calls[d]
  BY <1>1, <1>2, <1>4
<1>6. \A d : d \in InFlight' <=> d \in InFlight
  BY <1>3, <1>5 DEF InFlight
<1> QED
  BY <1>2, <1>5, <1>6 DEF InFlight

LEMMA CodesTyped ==
    ASSUME BreakerInv
    PROVE  Codes \subseteq {"OK", "NotFound", "Internal"}
<1>1. service \in ServiceNames
  BY BreakerAssumption DEF BreakerInv, TypeOK
<1> QED
  BY <1>1 DEF Codes, ServiceNames, AuthCodes, UserCodes, ChatCodes, MessageCodes, MatchingCodes

LEMMA AnswerStep ==
    ASSUME BreakerInv, NEW c \in Calls, Serve(c) \/ Refuse(c) \/ Expire(c) \/ HangUp(c)
    PROVE  BreakerInv'
<1>1. UNCHANGED <<service, health, breaker, nextIn>> /\ calls[c] # None
  BY DEF Serve, Refuse, Expire, HangUp, limiter
<1>2. executions' \in 0..MaxExecutions
  <2>1. executions \in 0..MaxExecutions
    BY DEF BreakerInv, TypeOK
  <2>2. executions' = executions \/ (executions > 0 /\ executions' = executions - 1)
    BY DEF Serve, Refuse, Expire, HangUp, limiter
  <2> QED
    BY <2>1, <2>2, BreakerTyped
<1>3. \E code \in {"OK", "NotFound", "Internal", "ResourceExhausted", "Unavailable",
                   "DeadlineExceeded", "Canceled"} :
         Answered(c, code) /\ (code \in Evidence => health = "up")
  <2>1. CASE Serve(c)
    BY <2>1, CodesTyped DEF Serve
  <2>2. CASE Refuse(c) \/ Expire(c) \/ HangUp(c)
    BY <2>2 DEF Refuse, Expire, HangUp, Evidence
  <2> QED
    BY <2>1, <2>2
<1>4. PICK code \in {"OK", "NotFound", "Internal", "ResourceExhausted", "Unavailable",
                     "DeadlineExceeded", "Canceled"} :
         Answered(c, code) /\ (code \in Evidence => health = "up")
  BY <1>3
<1>5. /\ calls' \in [Calls -> CallRecord \cup {None}]
      /\ InFlight' = InFlight
      /\ \A d \in InFlight : calls'[d].age = calls[d].age
      /\ calls'[c].code = code /\ \A d \in Calls : d # c => calls'[d] = calls[d]
  BY <1>1, <1>4, AnswerFacts
<1>6. TypeOK'
  BY <1>1, <1>2, <1>5 DEF BreakerInv, TypeOK, breaker, Failures
<1>7. ProbesAccounted' /\ StateKept' /\ OpenOutlasts'
  BY <1>1, <1>5 DEF BreakerInv, ProbesAccounted, StateKept, OpenOutlasts, breaker
<1>8. NoEvidence'
  BY <1>1, <1>4, <1>5 DEF BreakerInv, NoEvidence, breaker, InFlight
<1> QED
  BY <1>6, <1>7, <1>8 DEF BreakerInv

\* A call that is over gives up its place, and its record changes the breaker.
LEMMA ReturnStep ==
    ASSUME BreakerInv, NEW c \in Calls, Return(c)
    PROVE  BreakerInv'
<1> DEFINE code == calls[c].code
<1>1. calls[c] # None /\ calls' = [calls EXCEPT ![c] = None] /\ Record(code)
      /\ UNCHANGED <<service, health, executions, nextIn>>
  BY DEF Return, limiter
<1>2. calls' \in [Calls -> CallRecord \cup {None}] /\ \A d \in InFlight' : calls'[d] = calls[d]
  BY <1>1, BreakerTyped DEF InFlight
<1>3. c \in InFlight /\ InFlight' = InFlight \ {c}
  <2>1. \A d : d \in InFlight' <=> d \in InFlight \ {c}
    BY <1>1, BreakerTyped DEF InFlight
  <2> QED
    BY <1>1, <2>1 DEF InFlight
<1>4. IsFiniteSet(InFlight) /\ Cardinality(InFlight) \in Nat
  BY FS_CardinalityType DEF BreakerInv, StateKept
<1>5. IsFiniteSet(InFlight') /\ Cardinality(InFlight') = Cardinality(InFlight) - 1
  BY <1>3, <1>4, FS_RemoveElement
<1>6. \A d \in InFlight' : calls'[d].age \in Nat /\ calls'[d].age = calls[d].age /\ d \in InFlight
  BY <1>2, <1>3, InFlightTyped
<1>7. CASE Open
  <2>1. /\ state' = "open" /\ delayLeft' = Delay /\ permits' = 0 /\ outcomes' = <<>>
        /\ upSince' = (health = "up") /\ hungUp' = 0
    BY <1>7 DEF Open
  <2>2. Failures(outcomes)' = 0
    BY <2>1, NoFailures
  <2>3. TypeOK'
    <3>1. outcomes' \in Seq(BOOLEAN) /\ Len(outcomes') = 0 /\ upSince' \in BOOLEAN
      BY <2>1
    <3>2. 0 \in 0..SuccessThreshold /\ Delay \in 0..Delay /\ 0 <= WindowSize /\ 0 < FailureThreshold
      BY BreakerTyped
    <3> QED
      BY <1>1, <1>2, <2>1, <2>2, <3>1, <3>2 DEF BreakerInv, TypeOK
  <2>4. OpenOutlasts'
    BY <1>6, <2>1, BreakerTyped DEF OpenOutlasts
  <2>5. ProbesAccounted' /\ NoEvidence'
    BY <1>1, <2>1 DEF ProbesAccounted, NoEvidence
  <2>6. StateKept'
    BY <1>5, <2>1 DEF StateKept
  <2> QED
    BY <2>3, <2>4, <2>5, <2>6 DEF BreakerInv
<1>8. CASE Close
  <2>1. /\ state' = "closed" /\ delayLeft' = delayLeft /\ permits' = 0 /\ outcomes' = <<>>
        /\ upSince' = FALSE /\ hungUp' = 0
    BY <1>8 DEF Close
  <2>2. Failures(outcomes)' = 0 /\ outcomes' \in Seq(BOOLEAN) /\ Len(outcomes)' = 0
    BY <2>1, NoFailures DEF Failures
  <2>3. TypeOK'
    <3>1. 0 \in 0..SuccessThreshold /\ 0 <= WindowSize /\ 0 < FailureThreshold
      BY BreakerTyped
    <3> QED
      BY <1>1, <1>2, <2>1, <2>2, <3>1 DEF BreakerInv, TypeOK
  <2> QED
    BY <1>5, <2>1, <2>3 DEF BreakerInv, ProbesAccounted, StateKept, OpenOutlasts, NoEvidence
<1>9. ASSUME state = "closed", NEW o \in BOOLEAN,
             ~(Failures(LastOutcomes(o)) >= FailureThreshold),
             outcomes' = LastOutcomes(o),
             UNCHANGED <<state, permits, delayLeft, upSince, hungUp>>
      PROVE  BreakerInv'
  <2>1. outcomes' \in Seq(BOOLEAN) /\ Len(outcomes') <= WindowSize
    BY <1>9, LastOutcomesTyped
  <2>2. Failures(outcomes)' < FailureThreshold
    <3>1. Failures(LastOutcomes(o)) \in Nat
      BY <1>9, LastOutcomesTyped, FailuresTyped
    <3>2. Failures(outcomes)' = Failures(LastOutcomes(o))
      BY <1>9 DEF Failures
    <3> QED
      BY <1>9, <3>1, <3>2, BreakerTyped
  <2>3. TypeOK'
    BY <1>1, <1>2, <1>9, <2>1, <2>2 DEF BreakerInv, TypeOK
  <2> QED
    BY <1>5, <1>9, <2>3 DEF BreakerInv, ProbesAccounted, StateKept, OpenOutlasts, NoEvidence
<1>10. ASSUME state = "half", ~IsGRPCFailure(code), Len(outcomes) + 1 < SuccessThreshold,
              outcomes' = Append(outcomes, TRUE), permits' = permits + 1,
              hungUp' = (IF code = "Canceled" THEN hungUp + 1 ELSE hungUp),
              UNCHANGED <<state, delayLeft, upSince>>
       PROVE  BreakerInv'
  <2>1. /\ outcomes' \in Seq(BOOLEAN) /\ Len(outcomes') = Len(outcomes) + 1
        /\ \A k \in DOMAIN outcomes' : outcomes'[k]
    <3>1. \A k \in DOMAIN outcomes : outcomes[k]
      BY <1>10 DEF BreakerInv, StateKept
    <3>2. outcomes \in Seq(BOOLEAN) /\ outcomes' = Append(outcomes, TRUE)
      BY <1>10, BreakerTyped
    <3>3. /\ outcomes' \in Seq(BOOLEAN) /\ Len(outcomes') = Len(outcomes) + 1
          /\ DOMAIN outcomes' = 1..(Len(outcomes) + 1) /\ DOMAIN outcomes = 1..Len(outcomes)
      BY <3>2
    <3>4. \A k \in 1..Len(outcomes) : outcomes'[k] = outcomes[k]
      BY <3>2
    <3>5. outcomes'[Len(outcomes) + 1] = TRUE
      BY <3>2
    <3>6. \A k \in 1..(Len(outcomes) + 1) : k \in 1..Len(outcomes) \/ k = Len(outcomes) + 1
      BY BreakerTyped
    <3> QED
      BY <3>1, <3>3, <3>4, <3>5, <3>6
  <2>2. Failures(outcomes)' = 0
    BY <2>1, NoFailures DEF Failures
  <2>3. permits + Cardinality(InFlight) = SuccessThreshold /\ hungUp <= Len(outcomes)
    BY <1>10 DEF BreakerInv, ProbesAccounted, StateKept
  <2>4. ProbesAccounted'
    BY <1>4, <1>5, <1>10, <2>1, <2>3, BreakerTyped DEF ProbesAccounted
  <2>5. permits' \in 0..SuccessThreshold /\ hungUp' \in 0..SuccessThreshold /\ hungUp' <= Len(outcomes')
    <3>1. Cardinality(InFlight) > 0
      BY <1>3, <1>4, FS_EmptySet
    <3>2. Cardinality(InFlight) \in Nat /\ SuccessThreshold \in Nat /\ permits \in Nat
          /\ hungUp \in Nat /\ Len(outcomes) \in Nat
      BY <1>4, BreakerTyped
    <3>3. permits + 1 <= SuccessThreshold
      BY <2>3, <3>1, <3>2
    <3>4. hungUp' = hungUp \/ hungUp' = hungUp + 1
      BY <1>10
    <3>5. hungUp' \in Nat /\ hungUp' <= Len(outcomes) + 1 /\ hungUp' <= SuccessThreshold
      BY <1>10, <2>3, <3>2, <3>4
    <3> QED
      BY <1>10, <2>1, <3>2, <3>3, <3>5
  <2>6. TypeOK'
    <3>1. Len(outcomes') <= SuccessThreshold - 1 /\ 0 < FailureThreshold
      BY <1>10, <2>1, BreakerTyped
    <3> QED
      BY <1>1, <1>2, <1>10, <2>1, <2>2, <2>5, <3>1 DEF BreakerInv, TypeOK
  <2>7. NoEvidence'
    <3>1. code \notin Evidence => code = "Canceled"
      <4>1. calls[c] \in CallRecord /\ code # None
        BY <1>1, BreakerTyped DEF Return
      <4> QED
        BY <1>10, <4>1 DEF CallRecord, StatusCodes, Evidence, IsGRPCFailure
    <3> QED
      BY <1>1, <1>2, <1>3, <1>6, <1>10, <2>1, <3>1, BreakerTyped DEF BreakerInv, NoEvidence
  <2> QED
    BY <1>5, <1>10, <2>1, <2>4, <2>5, <2>6, <2>7 DEF BreakerInv, StateKept, OpenOutlasts
<1>11. CASE state = "open" /\ UNCHANGED breaker
  <2>1. TypeOK'
    BY <1>1, <1>2, <1>11 DEF BreakerInv, TypeOK, breaker, Failures
  <2>2. OpenOutlasts'
    BY <1>6, <1>11 DEF BreakerInv, OpenOutlasts, breaker
  <2> QED
    BY <1>1, <1>5, <1>11, <2>1, <2>2 DEF BreakerInv, ProbesAccounted, StateKept, NoEvidence, breaker
<1> HIDE DEF code
<1>12. CASE state = "closed" /\ RecordClosed(~IsGRPCFailure(code))
  <2>1. (~IsGRPCFailure(code)) \in BOOLEAN
    BY DEF IsGRPCFailure
  <2> QED
    BY <1>7, <1>9, <1>12, <2>1 DEF RecordClosed
<1>13. CASE RecordHalf(code)
  <2>1. Len(outcomes) + 1 >= SuccessThreshold \/ Len(outcomes) + 1 < SuccessThreshold
    BY BreakerTyped
  <2> QED
    BY <1>7, <1>8, <1>10, <1>13, <2>1 DEF RecordHalf
<1> QED
  BY <1>1, <1>11, <1>12, <1>13 DEF Record

LEMMA HealthStep ==
    ASSUME BreakerInv, Health
    PROVE  BreakerInv'
<1>1. /\ health' \in {"up", "down", "stuck"}
      /\ upSince' = (upSince \/ (health' = "up" /\ state # "closed"))
      /\ UNCHANGED <<service, state, outcomes, permits, delayLeft, hungUp, calls, executions, nextIn>>
  BY DEF Health, limiter
<1>2. InFlight' = InFlight
  BY <1>1 DEF InFlight
<1>3. TypeOK'
  BY <1>1 DEF BreakerInv, TypeOK, Failures
<1>4. NoEvidence'
  BY <1>1, <1>2 DEF BreakerInv, NoEvidence
<1> QED
  BY <1>1, <1>2, <1>3, <1>4 DEF BreakerInv, ProbesAccounted, StateKept, OpenOutlasts

LEMMA TickStep ==
    ASSUME BreakerInv, Tick
    PROVE  BreakerInv'
<1>1. /\ \A c \in InFlight : calls[c].age < Timeout
      /\ calls' = [c \in Calls |-> IF calls[c] = None THEN None
                                   ELSE [calls[c] EXCEPT !.age = @ + 1]]
      /\ delayLeft' = IF delayLeft > 0 THEN delayLeft - 1 ELSE 0
      /\ UNCHANGED <<service, health, state, outcomes, permits, upSince, hungUp>>
  BY DEF Tick
<1>2. ASSUME NEW c \in InFlight
      PROVE  /\ calls'[c] \in CallRecord /\ calls'[c] # None
             /\ calls'[c].age = calls[c].age + 1 /\ calls'[c].code = calls[c].code
  <2>1. calls[c] \in CallRecord /\ calls[c].age \in Nat /\ calls[c].age < Timeout /\ Timeout \in Nat
    BY <1>1, <1>2, InFlightTyped, BreakerTyped
  <2> DEFINE new == [calls[c] EXCEPT !.age = @ + 1]
  <2>2. new \in CallRecord /\ new.age = calls[c].age + 1 /\ new.code = calls[c].code
    BY <2>1 DEF CallRecord
  <2>3. calls'[c] = new
    BY <1>1, <1>2 DEF InFlight
  <2> HIDE DEF new
  <2> QED
    BY <2>2, <2>3, BreakerAssumption
<1>3. \A c \in Calls : c \notin InFlight => calls'[c] = None
  BY <1>1 DEF InFlight
<1>4. calls' \in [Calls -> CallRecord \cup {None}]
  <2>1. \A c \in Calls : calls'[c] \in CallRecord \cup {None}
    BY <1>2, <1>3
  <2>2. calls' = [c \in Calls |-> calls'[c]]
    BY <1>1
  <2> QED
    BY <2>1, <2>2
<1>5. InFlight' = InFlight
  <2>1. \A c : c \in InFlight' <=> c \in InFlight
    BY <1>2, <1>3 DEF InFlight
  <2> QED
    BY <2>1
<1>6. executions' \in 0..MaxExecutions /\ nextIn' \in 1..Interval
  <2>1. executions \in 0..MaxExecutions /\ nextIn \in 1..Interval
    BY DEF BreakerInv, TypeOK
  <2> QED
    BY <2>1, BreakerTyped DEF Tick
<1>7. TypeOK'
  <2>1. delayLeft \in 0..Delay /\ Delay \in Nat
    BY BreakerTyped DEF BreakerInv, TypeOK
  <2>2. delayLeft' \in 0..Delay
    BY <1>1, <2>1
  <2>3. Failures(outcomes)' = Failures(outcomes)
    BY <1>1 DEF Failures
  <2> QED
    BY <1>1, <1>4, <1>6, <2>2, <2>3 DEF BreakerInv, TypeOK
<1>8. OpenOutlasts'
  <2> SUFFICES ASSUME state' = "open", NEW c \in InFlight'
               PROVE  calls'[c].age + delayLeft' >= Delay
    BY DEF OpenOutlasts
  <2>1. c \in InFlight /\ state = "open"
    BY <1>1, <1>5
  <2>2. calls[c].age + delayLeft >= Delay
    BY <2>1 DEF BreakerInv, OpenOutlasts
  <2>3. calls[c].age \in Nat /\ calls'[c].age = calls[c].age + 1
    BY <1>2, <2>1, InFlightTyped
  <2>4. delayLeft' \in Nat /\ delayLeft' + 1 >= delayLeft /\ delayLeft \in Nat /\ Delay \in Nat
    <3>1. delayLeft' = IF delayLeft > 0 THEN delayLeft - 1 ELSE 0
      BY <1>1
    <3>2. delayLeft \in Nat /\ Delay \in Nat
      BY BreakerTyped
    <3> QED
      BY <3>1, <3>2
  <2>5. \A a, l, m, n \in Nat : a + l >= n /\ m + 1 >= l => (a + 1) + m >= n
    OBVIOUS
  <2>6. (calls[c].age + 1) + delayLeft' >= Delay
    <3> DEFINE m == delayLeft'
    <3>1. calls[c].age \in Nat /\ delayLeft \in Nat /\ Delay \in Nat /\ m \in Nat
          /\ calls[c].age + delayLeft >= Delay /\ m + 1 >= delayLeft
      BY <2>2, <2>3, <2>4
    <3> HIDE DEF m
    <3>2. (calls[c].age + 1) + m >= Delay
      BY <2>5, <3>1
    <3> QED
      BY <3>2 DEF m
  <2> QED
    BY <2>3, <2>6
<1>9. NoEvidence'
  BY <1>1, <1>2, <1>5 DEF BreakerInv, NoEvidence
<1> QED
  BY <1>1, <1>5, <1>7, <1>8, <1>9 DEF BreakerInv, ProbesAccounted, StateKept

LEMMA BreakerInvStep == BreakerInv /\ [Next]_vars => BreakerInv'
<1>1. ASSUME BreakerInv, UNCHANGED vars PROVE BreakerInv'
  BY <1>1 DEF BreakerInv, TypeOK, ProbesAccounted, StateKept, OpenOutlasts, NoEvidence, Failures,
              InFlight, vars, breaker, limiter
<1> QED
  BY <1>1, AdmitStep, AnswerStep, ReturnStep, HealthStep, TickStep DEF Next

(* The breaker's window, permits and countdowns keep within their bounds,   *)
(* whatever the thresholds are set to.                                      *)
THEOREM BreakerTypeCorrect == Spec => []TypeOK
<1>1. BreakerInv => TypeOK
  BY DEF BreakerInv
<1> QED
  BY <1>1, BreakerInvInit, BreakerInvStep, PTL DEF Spec

(* Every permit of a half-open breaker is free, held by a call in flight or *)
(* spent on a success: a late record of an earlier call never counts.       *)
THEOREM ProbesAlwaysAccounted == Spec => []ProbesAccounted
<1>1. BreakerInv => ProbesAccounted
  BY DEF BreakerInv
<1> QED
  BY <1>1, BreakerInvInit, BreakerInvStep, PTL DEF Spec

(* A half-open breaker closes only on an answer the service gave since the  *)
(* breaker opened, or because its clients left during every probe.          *)
THEOREM ClosingNeedsEvidence == Spec => ClosesOnEvidence
<1>1. BreakerInv /\ [Next]_vars =>
        [state = "half" /\ state' = "closed" =>
           \/ upSince
           \/ hungUp = SuccessThreshold - 1 /\ \E c \in Gone : Return(c)]_vars
  <2> SUFFICES ASSUME BreakerInv, Next, state = "half", state' = "closed", ~upSince
               PROVE  hungUp = SuccessThreshold - 1 /\ \E c \in Gone : Return(c)
    OBVIOUS
  <2>1. PICK c \in Calls : Return(c)
    BY DEF Next, Admit, TryAcquirePermit, Serve, Refuse, Expire, HangUp, Health, Tick, breaker
  <2>2. calls[c] # None /\ calls[c].code # None /\ calls[c] \in CallRecord /\ c \in InFlight
    BY <2>1, BreakerTyped DEF Return, InFlight
  <2>3. ~IsGRPCFailure(calls[c].code) /\ Len(outcomes) + 1 >= SuccessThreshold
    BY <2>1 DEF Return, Record, RecordHalf, Open
  <2>4. hungUp = Len(outcomes) /\ calls[c].code \notin Evidence /\ Len(outcomes) < SuccessThreshold
    BY <2>2 DEF BreakerInv, NoEvidence, ProbesAccounted
  <2>5. calls[c].code = "Canceled"
    BY <2>2, <2>3, <2>4 DEF CallRecord, StatusCodes, Evidence, IsGRPCFailure
  <2>6. hungUp = SuccessThreshold - 1
    BY <2>3, <2>4, BreakerTyped
  <2> QED
    BY <2>1, <2>2, <2>5, <2>6 DEF Gone
<1> QED
  BY <1>1, BreakerInvInit, BreakerInvStep, PTL DEF Spec, ClosesOnEvidence

================================================================================
