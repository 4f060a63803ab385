----------------------------- MODULE Idempotency -----------------------------
(***************************************************************************)
(* The gateway's idempotency middleware: a store of answers, looked up     *)
(* before the handler of a request runs and written after.                 *)
(*                                                                         *)
(* Lookup and record are two critical sections, and the handler runs       *)
(* between them.  The handler is a call to a service: it takes effect or   *)
(* not, and its answer says so or does not.  A client sends requests with  *)
(* one key, of one operation, as often as it likes and also at once.       *)
(***************************************************************************)
EXTENDS Naturals, FiniteSets

CONSTANTS Keys,        \* of users and their operations
          Requests, KeyOf,
          MaxEntries,  \* of the store: 100000 in the code
          Ttl,         \* 24 hours
          Period,      \* of the cleanup: 5 minutes
          MaxTime,     \* bound on the clock
          NoAnswer

Entry == [answer : Requests, at : 0..MaxTime]

ASSUME IdempotencyAssumption ==
    /\ KeyOf \in [Requests -> Keys]
    /\ MaxEntries \in Nat /\ Ttl \in Nat /\ Period \in Nat \ {0} /\ MaxTime \in Nat
    /\ NoAnswer \notin Requests \cup Entry

VARIABLES now,
          entries,  \* the store: [answer, at] of a key, or NoAnswer
          cleanAt,  \* when the cleanup runs next
          pc,       \* where each request stands
          answer,   \* the answer it got, named by the request whose handler gave it
          ran,      \* auxiliary: requests whose handler took effect
          causes    \* auxiliary: why a key's operation may run again

storeVars == <<now, entries, cleanAt, pc, answer, ran, causes>>

Cause == {"overlap", "full", "expired", "restart", "panic"}

Stored == {k \in Keys : entries[k] # NoAnswer}

\* Nothing but the check under the lock keeps the store small, and nothing
\* but the cleanup ends the life of an entry.
StoreTypeOK ==
    /\ now \in 0..MaxTime /\ cleanAt \in now..(now + Period)
    /\ entries \in [Keys -> Entry \cup {NoAnswer}]
    /\ Cardinality(Stored) <= MaxEntries
    /\ \A k \in Stored : now - entries[k].at <= Ttl + Period
    /\ pc \in [Requests -> {"idle", "running", "ran", "answered", "lost"}]
    /\ answer \in [Requests -> Requests \cup {NoAnswer}]
    /\ ran \subseteq Requests
    /\ causes \in [Keys -> SUBSET Cause]

StoreInit ==
    /\ now = 0 /\ cleanAt = Period
    /\ entries = [k \in Keys |-> NoAnswer]
    /\ pc = [r \in Requests |-> "idle"]
    /\ answer = [r \in Requests |-> NoAnswer]
    /\ ran = {}
    /\ causes = [k \in Keys |-> {}]

Because(k, cause) == causes' = [causes EXCEPT ![k] = @ \cup {cause}]

\* The lookup finds an answer, whatever its age.
Repeat(r) ==
    LET e == entries[KeyOf[r]] IN
    /\ pc[r] = "idle"
    /\ e # NoAnswer
    /\ pc' = [pc EXCEPT ![r] = "answered"]
    /\ answer' = [answer EXCEPT ![r] = e.answer]
    /\ UNCHANGED <<now, entries, cleanAt, ran, causes>>

\* It finds none; the handler begins.
Begin(r) ==
    LET k == KeyOf[r] IN
    /\ pc[r] = "idle"
    /\ entries[k] = NoAnswer
    /\ pc' = [pc EXCEPT ![r] = "running"]
    /\ IF \E s \in Requests : KeyOf[s] = k /\ pc[s] \in {"running", "ran"}
       THEN Because(k, "overlap")
       ELSE UNCHANGED causes
    /\ UNCHANGED <<now, entries, cleanAt, answer, ran>>

\* The handler returns, with effect or without: a timeout can hide either.
Handle(r) ==
    /\ pc[r] = "running"
    /\ pc' = [pc EXCEPT ![r] = "ran"]
    /\ ran' = ran \cup {r} \/ UNCHANGED ran
    /\ UNCHANGED <<now, entries, cleanAt, answer, causes>>

\* It panics after its call, which gin.Recovery turns into an answer.
Panic(r) ==
    /\ pc[r] = "running"
    /\ pc' = [pc EXCEPT ![r] = "answered"]
    /\ answer' = [answer EXCEPT ![r] = r]
    /\ ran' = ran \cup {r}
    /\ Because(KeyOf[r], "panic")
    /\ UNCHANGED <<now, entries, cleanAt>>

Put(k, r) == [entries EXCEPT ![k] = [answer |-> r, at |-> now]]

\* Mutant: the limit allows for one entry more.
RoomForOneMore == Cardinality(Stored) <= MaxEntries

\* len(store.entries) < store.maxEntries, also for a key that has an entry.
Room == Cardinality(Stored) < MaxEntries

\* Mutant: only answers of calls that are known to have worked are kept.
RecordSuccess(r) ==
    LET k == KeyOf[r] IN
    /\ pc[r] = "ran"
    /\ pc' = [pc EXCEPT ![r] = "answered"]
    /\ answer' = [answer EXCEPT ![r] = r]
    /\ \/ /\ Room /\ r \in ran /\ entries' = Put(k, r)
          /\ UNCHANGED causes
       \/ /\ Room /\ UNCHANGED <<entries, causes>>
       \/ /\ ~Room /\ Because(k, "full")
          /\ UNCHANGED entries
    /\ UNCHANGED <<now, cleanAt, ran>>

\* The answer is recorded if there is room, and sent.
Remember(r) ==
    LET k == KeyOf[r] IN
    /\ pc[r] = "ran"
    /\ pc' = [pc EXCEPT ![r] = "answered"]
    /\ answer' = [answer EXCEPT ![r] = r]
    /\ IF Room THEN entries' = Put(k, r) /\ UNCHANGED causes
               ELSE Because(k, "full") /\ UNCHANGED entries
    /\ UNCHANGED <<now, cleanAt, ran>>

\* cleanup, at each tick of its timer.
Clean ==
    /\ now = cleanAt
    /\ cleanAt' = now + Period
    /\ entries' = [k \in Keys |-> IF k \in Stored /\ now - entries[k].at <= Ttl
                                  THEN entries[k] ELSE NoAnswer]
    /\ causes' = [k \in Keys |-> IF k \in Stored /\ entries'[k] = NoAnswer
                                 THEN causes[k] \cup {"expired"} ELSE causes[k]]
    /\ UNCHANGED <<now, pc, answer, ran>>

\* The timer's tick is handled before the next unit of time is over.
TimePasses ==
    /\ now < MaxTime /\ now < cleanAt
    /\ now' = now + 1
    /\ UNCHANGED <<entries, cleanAt, pc, answer, ran, causes>>

\* The gateway starts again with an empty store; calls in flight may go on.
Restart ==
    /\ cleanAt' = now + Period
    /\ entries' = [k \in Keys |-> NoAnswer]
    /\ pc' = [r \in Requests |-> IF pc[r] \in {"running", "ran"} THEN "lost" ELSE pc[r]]
    /\ \E late \in SUBSET {r \in Requests : pc[r] = "running"} : ran' = ran \cup late
    /\ causes' = [k \in Keys |-> causes[k] \cup {"restart"}]
    /\ UNCHANGED <<now, answer>>

StoreNext ==
    \/ \E r \in Requests : Repeat(r) \/ Begin(r) \/ Handle(r) \/ Panic(r) \/ Remember(r)
    \/ Clean \/ TimePasses \/ Restart

StoreSpec == StoreInit /\ [][StoreNext]_storeVars

--------------------------------------------------------------------------------
(* Properties                                                              *)

\* An operation that was sent more than once with its key runs once, and all
\* answers to it are that run's; unless requests overlapped, the store was
\* full, the entry expired, the handler panicked or the gateway restarted.
RunsOnceOrForCause ==
    \A r, s \in Requests :
        /\ r # s /\ KeyOf[r] = KeyOf[s]
        /\ \/ {r, s} \subseteq ran
           \/ pc[r] = "answered" /\ pc[s] = "answered" /\ answer[r] # answer[s]
        => causes[KeyOf[r]] # {}

================================================================================
