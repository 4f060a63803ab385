------------------------------ MODULE Registration ------------------------------
(***************************************************************************)
(* How a registration becomes a profile: Register requests in the auth     *)
(* service, the auth_outbox table and the relays that publish it, the      *)
(* broker's queue user-service.events, and the single goroutine of the     *)
(* user service that consumes it.                                          *)
(*                                                                         *)
(* A registration is named by its request, in place of the generated user  *)
(* ID, and so are its outbox row and its events.                           *)
(***************************************************************************)
EXTENDS Naturals, FiniteSets

CONSTANTS Requests,
          Emails,
          EmailOf,    \* the address of each request, normalised
          Refused,    \* requests auth accepts and the user domain does not
          Relays,     \* auth service instances, each with one relay
          BatchSize,  \* LIMIT of the outbox query (50 in the code)
          MaxCopies,  \* bound on the copies of one event in the broker
          MaxFaults   \* bound on the failures of a behaviour

ASSUME RegistrationAssumption ==
    /\ EmailOf \in [Requests -> Emails]
    /\ Refused \subseteq Requests
    /\ BatchSize \in Nat \ {0}
    /\ MaxCopies \in Nat \ {0}
    /\ MaxFaults \in Nat

VARIABLES regPc,       \* where each Register request stands
          rowId,       \* id of its auth_outbox row; 0 when not committed
          published,   \* rows whose published_at is committed
          batch,       \* rows each relay has locked
          relayed,     \* those of them it has published and marked
          link,        \* the relay's AMQP channel is open
          bound,       \* the queue has been declared and bound
          copies,      \* copies of each event in the queue
          consumer,    \* "down", "up", "stopping", or "deaf": running without its channel
          delivering,  \* the event the consumer has in hand, or None
          profiles,    \* users with a row in the user service
          lost,        \* why copies of each event were lost (auxiliary)
          faults       \* failures so far

authVars   == <<regPc, rowId>>
relayVars  == <<published, batch, relayed, link>>
userVars   == <<consumer, delivering, profiles>>
brokerVars == <<bound, copies>>
regVars == <<authVars, relayVars, brokerVars, userVars, lost, faults>>

None == "no event"

ASSUME NoneAssumption == None \notin Requests

Causes == {"unrouted", "unconfirmed", "rejected", "shutdown"}

Held(r) == IF delivering = r THEN 1 ELSE 0

RegTypeOK ==
    /\ regPc \in [Requests -> {"idle", "hashing", "registered", "failed"}]
    /\ rowId \in [Requests -> Nat]
    /\ published \subseteq Requests
    /\ batch \in [Relays -> SUBSET Requests]
    /\ relayed \in [Relays -> SUBSET Requests]
    /\ link \in [Relays -> BOOLEAN]
    /\ bound \in BOOLEAN
    /\ copies \in [Requests -> 0..MaxCopies]
    /\ consumer \in {"down", "up", "stopping", "deaf"}
    /\ delivering \in Requests \cup {None}
    /\ profiles \subseteq Requests
    /\ lost \in [Requests -> SUBSET Causes]
    /\ faults \in 0..MaxFaults

RegInit ==
    /\ regPc = [r \in Requests |-> "idle"]
    /\ rowId = [r \in Requests |-> 0]
    /\ published = {}
    /\ batch = [l \in Relays |-> {}]
    /\ relayed = [l \in Relays |-> {}]
    /\ link = [l \in Relays |-> TRUE]
    /\ bound = FALSE
    /\ copies = [r \in Requests |-> 0]
    /\ consumer = "down"
    /\ delivering = None
    /\ profiles = {}
    /\ lost = [r \in Requests |-> {}]
    /\ faults = 0

Committed == {r \in Requests : rowId[r] # 0}

\* One of the failures a behaviour may have.
Fault ==
    /\ faults < MaxFaults
    /\ faults' = faults + 1

--------------------------------------------------------------------------------
(* The auth service: Register                                              *)

EmailTaken(r) == \E s \in Committed : EmailOf[s] = EmailOf[r]

\* Validation (its refusals are FailRegister) and EmailExists; the password
\* is then hashed with the address not reserved.
CheckEmail(r) ==
    /\ regPc[r] = "idle"
    /\ regPc' = [regPc EXCEPT ![r] = IF EmailTaken(r) THEN "failed" ELSE "hashing"]
    /\ UNCHANGED <<rowId, relayVars, brokerVars, userVars, lost, faults>>

\* Mutant: the users table without UNIQUE on email.
CreateWithDuplicate(r) ==
    /\ regPc[r] = "hashing"
    /\ rowId' = [rowId EXCEPT ![r] = Cardinality(Committed) + 1]
    /\ regPc' = [regPc EXCEPT ![r] = "registered"]
    /\ UNCHANGED <<relayVars, brokerVars, userVars, lost, faults>>

\* One transaction inserts the credentials, unless the address is taken, and
\* the outbox row; the commit's reply, or the tokens, may still fail.
CreateWithEvent(r) ==
    /\ regPc[r] = "hashing"
    /\ ~EmailTaken(r)
    /\ rowId' = [rowId EXCEPT ![r] = Cardinality(Committed) + 1]
    /\ \E outcome \in {"registered", "failed"} : regPc' = [regPc EXCEPT ![r] = outcome]
    /\ UNCHANGED <<relayVars, brokerVars, userVars, lost, faults>>

\* Any error before the commit, the UNIQUE violation included, or a crash.
FailRegister(r) ==
    /\ regPc[r] = "hashing"
    /\ regPc' = [regPc EXCEPT ![r] = "failed"]
    /\ UNCHANGED <<rowId, relayVars, brokerVars, userVars, lost, faults>>

--------------------------------------------------------------------------------
(* The outbox relays                                                       *)

\* FOR UPDATE SKIP LOCKED: unpublished rows that no relay has locked.
FreeRows == (Committed \ published) \ UNION {batch[l] : l \in Relays}

\* ORDER BY id LIMIT BatchSize.
BeginBatch(l) ==
    /\ batch[l] = {}
    /\ \E rows \in (SUBSET FreeRows) \ {{}} :
         /\ \A r \in rows, s \in FreeRows \ rows : rowId[r] < rowId[s]
         /\ Cardinality(rows) <= BatchSize
         /\ rows = FreeRows \/ Cardinality(rows) = BatchSize
         /\ batch' = [batch EXCEPT ![l] = rows]
    /\ UNCHANGED <<authVars, published, relayed, link, brokerVars, userVars, lost, faults>>

\* The oldest row of the batch not yet dealt with.
IsNext(l, r) ==
    /\ r \in batch[l] \ relayed[l]
    /\ \A s \in batch[l] \ relayed[l] : rowId[r] <= rowId[s]

\* Mutant: an event whose delivery is in doubt is published again at once.
PublishTwice(l, r) ==
    /\ link[l]
    /\ IsNext(l, r)
    /\ bound
    /\ relayed' = [relayed EXCEPT ![l] = @ \cup {r}]
    /\ copies[r] + Held(r) < MaxCopies
    /\ copies' = [copies EXCEPT ![r] = @ + 2]
    /\ UNCHANGED <<authVars, published, batch, link, bound, userVars, lost, faults>>

\* PublishUserRegistered, with neither the mandatory flag nor confirms, and
\* the UPDATE that marks the row.  The exchange drops the event when nothing
\* is bound; a connection that breaks may take with it what was written.
Publish(l, r) ==
    /\ link[l]
    /\ IsNext(l, r)
    /\ relayed' = [relayed EXCEPT ![l] = @ \cup {r}]
    /\ \/ /\ bound
          /\ copies[r] + Held(r) < MaxCopies
          /\ copies' = [copies EXCEPT ![r] = @ + 1]
          /\ UNCHANGED <<lost, faults>>
       \/ /\ ~bound
          /\ lost' = [lost EXCEPT ![r] = @ \cup {"unrouted"}]
          /\ UNCHANGED <<copies, faults>>
       \/ /\ Fault
          /\ lost' = [lost EXCEPT ![r] = @ \cup {"unconfirmed"}]
          /\ UNCHANGED copies
    /\ UNCHANGED <<authVars, published, batch, link, bound, userVars>>

CommitBatch(l) ==
    /\ batch[l] # {}
    /\ relayed[l] = batch[l]
    /\ published' = published \cup batch[l]
    /\ batch' = [batch EXCEPT ![l] = {}]
    /\ relayed' = [relayed EXCEPT ![l] = {}]
    /\ UNCHANGED <<authVars, link, brokerVars, userVars, lost, faults>>

\* Mutant: the deferred function commits instead of rolling back.
AbortBatchCommits(l) ==
    /\ batch[l] # {}
    /\ Fault
    /\ published' = published \cup batch[l]
    /\ batch' = [batch EXCEPT ![l] = {}]
    /\ relayed' = [relayed EXCEPT ![l] = {}]
    /\ UNCHANGED <<authVars, link, brokerVars, userVars, lost>>

\* Any error, or a crash: the transaction is rolled back, the marks of the
\* rows already published with it.
AbortBatch(l) ==
    /\ batch[l] # {}
    /\ Fault
    /\ batch' = [batch EXCEPT ![l] = {}]
    /\ relayed' = [relayed EXCEPT ![l] = {}]
    /\ UNCHANGED <<authVars, published, link, brokerVars, userVars, lost>>

\* The AMQP channel closes: nothing reopens it, and every publish, hence
\* every batch, fails until the service is started again.
LoseLink(l) ==
    /\ link[l]
    /\ Fault
    /\ link' = [link EXCEPT ![l] = FALSE]
    /\ batch' = [batch EXCEPT ![l] = {}]
    /\ relayed' = [relayed EXCEPT ![l] = {}]
    /\ UNCHANGED <<authVars, published, brokerVars, userVars, lost>>

RestartAuth(l) ==
    /\ ~link[l]
    /\ link' = [link EXCEPT ![l] = TRUE]
    /\ batch' = [batch EXCEPT ![l] = {}]
    /\ relayed' = [relayed EXCEPT ![l] = {}]
    /\ UNCHANGED <<authVars, published, brokerVars, userVars, lost, faults>>

--------------------------------------------------------------------------------
(* The user service                                                        *)

\* The process starts, and with it the consumer, which declares and binds
\* the queue.
StartConsumer ==
    /\ consumer = "down"
    /\ consumer' = "up"
    /\ bound' = TRUE
    /\ UNCHANGED <<authVars, relayVars, copies, delivering, profiles, lost, faults>>

\* A delivery; up to the prefetch limit they still come while the process is
\* stopping.
Deliver(r) ==
    /\ consumer \in {"up", "stopping"}
    /\ delivering = None
    /\ copies[r] > 0
    /\ copies' = [copies EXCEPT ![r] = @ - 1]
    /\ delivering' = r
    /\ UNCHANGED <<authVars, relayVars, bound, consumer, profiles, lost, faults>>

\* NewEmail and NewUser accept the event, and no other profile has the email.
Acceptable(r) ==
    /\ r \notin Refused
    /\ \A s \in profiles \ {r} : EmailOf[s] # EmailOf[r]

\* INSERT ... ON CONFLICT (id) DO NOTHING, then Ack.
CreateProfile(r) ==
    /\ consumer = "up"
    /\ delivering = r
    /\ Acceptable(r)
    /\ profiles' = profiles \cup {r}
    /\ delivering' = None
    /\ UNCHANGED <<authVars, relayVars, brokerVars, consumer, lost, faults>>

\* A validation error or a unique violation is permanent: Nack without
\* requeue, and no dead-letter exchange is declared.
RejectProfile(r) ==
    /\ consumer \in {"up", "stopping"}
    /\ delivering = r
    /\ ~Acceptable(r)
    /\ delivering' = None
    /\ lost' = [lost EXCEPT ![r] = @ \cup {"rejected"}]
    /\ UNCHANGED <<authVars, relayVars, brokerVars, consumer, profiles, faults>>

\* Mutant: a transient error is acknowledged.
RequeueAcks(r) ==
    /\ consumer = "up"
    /\ delivering = r
    /\ Fault
    /\ delivering' = None
    /\ UNCHANGED <<authVars, relayVars, brokerVars, consumer, profiles, lost>>

\* A transient error, the insert committed or not: Nack with requeue.
RequeueProfile(r) ==
    /\ consumer = "up"
    /\ delivering = r
    /\ Fault
    /\ copies' = [copies EXCEPT ![r] = @ + 1]
    /\ delivering' = None
    /\ \/ UNCHANGED profiles
       \/ Acceptable(r) /\ profiles' = profiles \cup {r}
    /\ UNCHANGED <<authVars, relayVars, bound, consumer, lost>>

\* Shutdown is requested: the context of the consumer is cancelled while its
\* goroutine goes on.
StopConsumer ==
    /\ consumer = "up"
    /\ Fault
    /\ consumer' = "stopping"
    /\ UNCHANGED <<authVars, relayVars, brokerVars, delivering, profiles, lost>>

\* With the context cancelled the statement fails, and because of that the
\* Nack is without requeue.
DiscardProfile(r) ==
    /\ consumer = "stopping"
    /\ delivering = r
    /\ Acceptable(r)
    /\ delivering' = None
    /\ lost' = [lost EXCEPT ![r] = @ \cup {"shutdown"}]
    /\ UNCHANGED <<authVars, relayVars, brokerVars, consumer, profiles, faults>>

\* What is not acknowledged when the channel goes is put back in the queue.
Redeliver ==
    /\ delivering' = None
    /\ copies' = [r \in Requests |-> copies[r] + Held(r)]

\* The insert in hand is committed all the same, or not.
InsertInDoubt ==
    \/ UNCHANGED profiles
    \/ \E r \in Requests : delivering = r /\ Acceptable(r) /\ profiles' = profiles \cup {r}

\* The process ends and the channel is closed.
ExitConsumer ==
    /\ consumer = "stopping"
    /\ consumer' = "down"
    /\ Redeliver
    /\ UNCHANGED <<authVars, relayVars, bound, profiles, lost, faults>>

\* The broker connection fails, or the process crashes; monitorConnection
\* makes the process end.
LoseConsumer ==
    /\ consumer = "up"
    /\ Fault
    /\ consumer' = "down"
    /\ Redeliver
    /\ InsertInDoubt
    /\ UNCHANGED <<authVars, relayVars, bound, lost>>

\* The channel closes and the connection does not: the range over the
\* deliveries ends, monitorConnection hears nothing, and the process runs on
\* without a consumer.
LoseChannel ==
    /\ consumer = "up"
    /\ Fault
    /\ consumer' = "deaf"
    /\ Redeliver
    /\ InsertInDoubt
    /\ UNCHANGED <<authVars, relayVars, bound, lost>>

\* Such a process ends when somebody stops it, it crashes, or the connection
\* goes too, of which nothing need ever happen.
EndDeaf ==
    /\ consumer = "deaf"
    /\ consumer' = "down"
    /\ UNCHANGED <<authVars, relayVars, brokerVars, delivering, profiles, lost, faults>>

--------------------------------------------------------------------------------
Register(r) == CheckEmail(r) \/ CreateWithEvent(r) \/ FailRegister(r)

Relay(l) ==
    \/ BeginBatch(l)
    \/ \E r \in Requests : Publish(l, r)
    \/ CommitBatch(l)
    \/ AbortBatch(l)
    \/ LoseLink(l)
    \/ RestartAuth(l)

Consume(r) ==
    \/ Deliver(r)
    \/ CreateProfile(r)
    \/ RejectProfile(r)
    \/ RequeueProfile(r)
    \/ DiscardProfile(r)

Process ==
    \/ StartConsumer
    \/ StopConsumer
    \/ ExitConsumer
    \/ LoseConsumer
    \/ LoseChannel
    \/ EndDeaf

RegNext ==
    \/ \E r \in Requests : Register(r) \/ Consume(r)
    \/ \E l \in Relays : Relay(l)
    \/ Process

\* The relay's ticker, the range over the deliveries, and a process that is
\* restarted when it ends (restart: unless-stopped).  A delivery queue is FIFO,
\* so that every event gets its turn.  Nothing restarts the auth service, or
\* ends a deaf user service.
Fairness ==
    /\ \A l \in Relays :
         /\ WF_regVars(BeginBatch(l))
         /\ WF_regVars(\E r \in Requests : Publish(l, r))
         /\ WF_regVars(CommitBatch(l))
    /\ \A r \in Requests :
         /\ SF_regVars(Deliver(r))
         /\ WF_regVars(CreateProfile(r) \/ RejectProfile(r) \/ DiscardProfile(r))
    /\ WF_regVars(StartConsumer)
    /\ WF_regVars(ExitConsumer)

RegSpec == RegInit /\ [][RegNext]_regVars /\ Fairness

--------------------------------------------------------------------------------
(* Properties                                                              *)

\* Whatever fails, a committed registration has its profile, or an event on
\* its way (to be published, in the queue, in hand), or one of the four known
\* causes has lost a copy of it: nothing else forgets a registration.
NothingForgotten ==
    \A r \in Committed :
        \/ r \in profiles
        \/ r \notin published
        \/ copies[r] > 0
        \/ delivering = r
        \/ lost[r] # {}

\* Registration keeps the promise of Provisioning: one owner per address, a
\* profile only for a committed registration, and never withdrawn.
Stage(r) ==
    IF r \in profiles THEN "provisioned"
    ELSE IF r \in Committed THEN "registered"
    ELSE "none"

StageMap == [r \in Requests |-> Stage(r)]

Abstract == INSTANCE Provisioning WITH stage <- StageMap

ImplementsProvisioning == Abstract!Spec

\* As long as the relays keep their channels and the consumer does not stay
\* without its own, every committed registration gets its profile, or a copy
\* of its event is lost by a known cause: every other failure is recovered from
\* (services/user/adapters/messaging/rabbitmq/consumer.go:82).
ProfilesFollow ==
    (<>[](\A l \in Relays : link[l]) /\ []<>(consumer # "deaf")) =>
        \A r \in Requests :
            [](r \in Committed => <>(r \in profiles \/ lost[r] # {}))

================================================================================
