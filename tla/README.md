# XTalk: specifications and proofs

TLA+ specifications of the XTalk back end (`src/Server`), the TLC
configurations that check them on small instances, and TLAPS proofs of what
holds for every instance.

    tlc -workers 2 -config MCChatService.cfg MCChatService     # one run
    tlapm ChatServiceProofs.tla                                 # one proof module

Each `MC*.tla` gives constants their values for the `.cfg` files of the same
name; each `*Proofs.tla` holds the theorems about the modules it extends. Three
of them extend two: `MatchmakingProofs` (`Matchmaking`, `BestMatch`), `AuthProofs`
(`Sessions`, `Registration`) and `GatewayProofs` (`CircuitBreaker`, `Idempotency`)
state theorems about both, and so one of each pair has a prefix on the names that
both would use (`ScanSpec`, `RegSpec`, `StoreSpec`, and so on).
`PROJECT.json` lists runs, theorems, hazards, and for every definition the
source lines it stands for. Definitions marked `Mutant:` are wrong variants of
the definition after them; replacing it by one must make a run fail, which
shows that the properties depend on the code.

## 1. The system

XTalk pairs strangers for a chat. An HTTP gateway talks gRPC to five services;
each service has its own PostgreSQL database, the auth service also uses Redis,
and the services tell each other what happened over RabbitMQ topic exchanges.

| Component | State it keeps | Operations | Talks to |
|---|---|---|---|
| matching | `matching_queue` (one row per user), `match_history` | JoinQueue, JoinMatchingQueue, LeaveQueue, EndMatch, UpdateMatchingPreferences, two reads | chat (RPC CreateChat); publishes `match_found`, `match_completed`, joined, left |
| matching: scoring | none | FindBestMatch, CalculateMatchScore | - |
| chat | `chats` | CreateChat, EndChat, reads | consumes `message.sent` |
| auth: registration | `users` (credentials), `auth_outbox` | Register, outbox relay | publishes `auth.user_registered` |
| auth: tokens | Redis blacklist | Login, RefreshToken, Logout, ValidateToken | gateway |
| auth: limiters | Redis counters | Allow, Reset; a gRPC limiter | - |
| user | `users` (profiles, status, is_active) | CreateUser, UpdateUser, UpdateStatus, DeleteUser, reads | consumes `user_registered`, `match_found`, `match_completed` |
| message | `messages` | SendMessage, MarkAsRead, DeleteMessage, GetMessages | chat (RPC); publishes `message.sent` and others |
| gateway: WebSocket | connections per user, rooms | connect, join, leave, broadcast, push | user (RPC UpdateStatus) |
| gateway: consumers | the event in hand | matching and message events | WebSocket push |
| gateway: middleware | token cache, idempotency store, buckets per IP, circuit breakers | one request passes them in the order of `gateway/main.go` | auth (RPC ValidateToken) |
| gateway: REST handlers, `pkg`, `proto`, mains | - | translation, plumbing, start and stop | - |

What makes it hard:

* Handlers are sequences of autocommitted statements and RPCs. Nothing but the
  outbox uses a transaction, so every two steps of two handlers interleave.
* Updates read a row, change a copy, and write every column back (chat, user,
  message, matching candidate).
* Calls between services can fail after they took effect. A join creates a chat,
  saves a match and takes a queue entry in three places.
* Events are delivered at least once, in order only if nothing is requeued, and
  not at all if the broker had no queue for them.
* Connections are served by two goroutines each, under one RWMutex, while
  RabbitMQ consumers push to them without it.
* A consumer of the gateway whose connection to RabbitMQ is lost returns, and
  nothing starts it again. The user service ends when its connection is lost, and is
  restarted; when only the channel closes it runs on, deaf to all events.
* A circuit breaker is asked before a call and told after it; the service, its
  limiter, deadlines and clients that leave act in between.

What makes each part correct, in a sentence: a queue entry is claimed by one
match, and the match is the best there was; a chat ends once and for all but for
a known race; every registration gets one profile; a revoked token stops working
in bounded time; a message is written by a participant, and what was done to it
lasts; guesses of a password are bounded, and nobody is locked out for good; a
repeated request runs once; a connection that is gone leaves nothing behind; a
user's status follows the user's matches; refreshing neither multiplies sessions
nor ends the last one; a service that failed is let alone, and called again once it
is back.

## 2. Modules

| Module | Models | Extends / refines |
|---|---|---|
| `ChatTable` | rows of `chats`, the unique indexes, NewChat | - |
| `QueueTickets` | what the queue promises: a ticket is issued, claimed by one match or withdrawn, and never comes back | - |
| `Matchmaking` | matching handlers and repositories, with the chat RPCs they make | ChatTable; implements QueueTickets |
| `ChatService` | the chat service and its consumer | ChatTable |
| `Provisioning` | what registration promises: one account per address, one profile per account, in stages | - |
| `Registration` | Register, outbox relays, broker, and the insert of the profile | implements Provisioning |
| `UserService` | the users table under RPCs and the event consumer | - |
| `Sessions` | token pairs, blacklist, gateway token cache, a clock | - |
| `WebSocketHandler` | connections, rooms, pushes, presence, and the gateway's consumers of events | - |
| `MessageService` | messages under send, mark, delete and a client that pages | - |
| `LoginLimits` | the gateway's token bucket and the login counter in Redis | - |
| `BestMatch` | FindBestMatch: the loop, compatibility and the score | - |
| `Idempotency` | the gateway's store of answers around a handler | - |
| `CircuitBreaker` | the breaker on one gRPC connection of the gateway, the service behind it, the auth service's limiter | - |

How to read a module: a handler is a program counter per request (`pc`,
`regPc`, `cmdPc`, ...) and an action per statement, RPC or critical section, in
the order of the code. What the request has read is kept in a variable of its
own (`pool`, `copy`, `cmdCopy`), so that it can go stale. Errors and early
returns are actions named `Fail...`, `Refuse...`, or a disjunct. Identifiers,
profiles and contents are model values or left out.

### Matchmaking

`queue` is `matching_queue`: a row per user, or none. Rows are named by the
request that inserted them (the *ticket*), matches and chats by the request that
made them. A join goes `StartJoin`, `CheckQueue`, `Search`, `CheckRecent`,
`OpenChat`, `SaveMatch`, `Claim`, or ends in `Enqueue`. `OpenChat` is refused,
succeeds, or loses its answer; a repository call that loses its answer fails the
join with its effect kept. `LoadPreferences`/`StorePreferences` are
UpdateMatchingPreferences, whose UPDATE finds the row of whichever ticket the
user holds by then. `LoadMatch`/`CompleteMatch` are EndMatch. `AgeMatch` moves a
match out of the recency window of HasRecentMatch. `match_found` is the state
`"matched"` of a join, `match_completed` the state `"ended"` of an EndMatch;
joined-queue and left-queue events have no consumer and are left out.
FindBestMatch is a choice among the compatible candidates of the pool (`BestMatch`
says which one it is, and depends on nothing but the pool):
`Prefiltered` is what the SQL lets through, `Compatible` what IsCompatibleWith
does. `Patient` are the users whose client waits for a join before it starts another.

### ChatService

`handled`/`sent` count `message.sent` events per chat; `working` and `copy` are
the event in the consumer's hands and the row it read; `endPc`, `endChat` are
EndChat requests. `UniqueIndexes` says whether `003_unique_active_chat.sql` was
applied: `docker-compose.yml` applies only the migrations of each service, the
root migration is for a shared database, so both values are real. `SaveAllowed`
guards each role by itself, as the two indexes do.

### Registration and Provisioning

A request is `idle`, `hashing` (EmailExists said no), then `registered` or
`failed`; `rowId` is its outbox row. A relay holds a locked `batch` and publishes
its rows one by one (`relayed`). The broker holds `copies` of each event once a
queue is `bound`. The consumer is `down`, `up`, `stopping` or `deaf`: `LoseConsumer`
is the loss of its connection, or a crash, after which the process comes back;
`LoseChannel` that of the channel alone, which `monitorConnection` does not hear of,
and `EndDeaf` the end of such a process, which need never come. `lost` is
auxiliary: why a copy of an event was lost, namely *unrouted* (no queue was
bound), *unconfirmed* (written to a breaking connection), *rejected* (the user
service's username rule is stricter than auth's), *shutdown* (Nack without
requeue once the context is cancelled). The refinement maps these to the stages
of `Provisioning`.

### UserService

`published` is the order in which the queue received events, `ready` those it
can deliver, `unacked` those the consumer holds, at most `Prefetch`. A delivery
given back returns to its place, as RabbitMQ does. `Restart` and `LoseChannel` give
back all of them (`TakeBack`); after `LoseChannel` the consumer is `deaf`, and gets
none until the process is restarted. `at` and `copy` are the
position in the event's users and the row read for that user; `cmdPc`,
`cmdCopy` the RPCs. `causes` is auxiliary: *requeued*, *dropped* (a permanent
error or a shutdown) or *overlapped* (a Save over a row that changed since it
was read). Of a row the model keeps `is_active` and `status`.

`WebSocketHandler` has a `presence` of its own: the gateway's contribution to the
status, as if no matching event wrote to it. In the whole system both write
to the same column, so `LastOneOut` below speaks of the gateway's calls.

### Sessions

Tokens are records of kind, user and second of issue, which is all that two
tokens of this code differ in: two that are generated in one second are the same
token. `Tick` is the clock; lives are in ticks. RefreshToken is `CheckRefresh`,
`Generate`, and then `Rotate` (SET in Redis and the answer), `LoseRefresh` (SET, but
no answer) or `FailRefresh`; any number of `Refreshes` overlap. A call is a client
that has one request at a time in the gateway: the cache answers it (`PassCached`)
or `Validate` and `PassVouched` do, at most `RpcTimeout` apart. Its bearer token may
be of either kind: neither the validator, nor ValidateToken, nor the middleware asks
for an access token, so a refresh token that is signed, unexpired and not blacklisted
passes and is cached as well, with an empty user ID. `MaskedBriefly` is about both
kinds; Logout is modelled with access tokens only, since the gateway's handler refuses
an empty user ID. `Tick` also evicts the cache's expired entries and forgets requests
that passed in an earlier second.

`logins` and `causes` are auxiliary: what Login handed out, and why a user's refreshes
may have multiplied or lost tokens (*overlap*: one token in two requests at a time;
*lost*: an answer; *second*: a token generated twice).

### WebSocketHandler

A section under the write lock is one action. A broadcast holds the read lock
through `BeginBroadcast`, `NextMember`, `PushMember`, `EndBroadcast`; `trySend`
reads the closed flag and sends in separate steps. `target` is the client a
goroutine found open. `leaked` is set when a panic leaves the read lock taken.
`JoinRoom`, `LeaveRoom` and `BeginBroadcast` are taken while the socket is open; the code
may still handle a message that it read just before the socket closed, which in the
model is handled before it closes.

`Notifiers` are the RabbitMQ consumers, each with a queue, which push without the lock.
`Publish` puts an event into `queued`, `Take` into the hands of a consumer (`held`),
which goes from one recipient in `toTell` to the next: `Lookup`, `LoadClosed`,
`PushUser`, and `EvictUser` for a full channel; then `Ack`. `LoseBroker` ends the
connection: what was held is queued again, and nobody takes it. Events that the
client library has fetched ahead count as queued. Bodies are never malformed, so no
event is rejected; Close at shutdown is left out, since the process ends with it.

`strays`, `unsaid`, `acked` and `settled` are auxiliary: joins by unregistered
connections, status calls that failed, events acknowledged, and the recipients of
each event that were told or found unreachable.

### MessageService

`rows` has the two flags of each message that is stored. SendMessage is
`CheckMember` (both questions to the chat service and NewMessage, which gives
`created_at`), `Insert`, `PublishSent`; MarkAsRead and DeleteMessage are one kind of
request, an edit: `LoadEdit`, `StoreEdit`, `PublishEdit`. Save writes both flags as
they were read (`editCopy`). A call that fails may be made again, also one whose
Save was applied. The client that pages is `BeginReading` and `ReadPage`: what
LIMIT and OFFSET cut out of an ORDER BY with ties is a choice (`Firsts`, `Pages`).
`GetChat` answers without a chat where the chat service puts an error into a
successful response; ChatExists lets that pass, IsParticipant does not.
`overlapped`, `atStart`, `removed` and `deletions` are auxiliary; `LeaveList` counts a
message each time it leaves the list, since a deletion that a stale Save undid can
be made, and hide another message, again.

### LoginLimits

A login is `Admit` (or `TurnAway`) at the bucket of its IP address, then `Incr`,
`Expire` if it was the first, `Compare`, `Reset`. Each Redis command may fail,
applied or not, which the code takes for permission (INCR) or ignores (EXPIRE,
DEL); a `Crash` of the auth service ends all logins. Tokens and time are whole:
one tick brings `Rate` tokens. The bucket also admits registrations and refreshes,
which only use up tokens. `Observe` starts an auxiliary count at any instant
(`span`, `guesses`), so that the bounds hold from every instant on. `StaleIsFull`
says that an entry idle long enough to be removed would be full: 5 per second for 5
minutes against a burst of 10.

### BestMatch

The loop over the candidates is the state machine: `Skip`, `Take`, `Return`.
Scores are integers in thousandths; all weights and parts of the code are
multiples. The code adds floats, so that two equal sums of different parts may
differ by a rounding error either way: `Rounding` is any function of the parts.
Waiting times are those when the loop starts.

### Idempotency

`Repeat` or `Begin` is the lookup, `Handle` the handler with its gRPC call, `Record` the
second critical section, `Panic` a handler that unwinds past it. Between them
anything may happen. `Clean` is the timer's cleanup, `Restart` loses the store.
Keys stand for a user with an `Idempotency-Key`; requests without one, and DELETE,
pass by the middleware. `ran` and `causes` are auxiliary.

### CircuitBreaker

A call is `Admit` (TryAcquirePermit), then `Serve`, `Refuse` (no connection), `Expire` (the
deadline) or `HangUp` (its client leaves), then `Return` (RecordSuccess or
RecordFailure). So a record may meet a breaker that has changed its state since the
permit. `Codes` are the answers of each service: only the user service puts errors
into gRPC codes, the others into successful responses. Cancelled calls count as
successes, and `ResourceExhausted` of the auth service's limiter as a failure, so that
the limiter can open the breaker. `Health` is the service crashing, hanging and
coming back. The breaker is failsafe-go's as `grpc_breaker.go` configures it.
`Timeout < Delay` is assumed, which is true of the defaults (5 and 30 seconds) but can be
configured away: then a call admitted before
the breaker opened can return to a half-open one and count as a probe. `upSince` and
`hungUp` are auxiliary.

## 3. Runs

Every passing run is complete: TLC explores all states within its bounds.

| Run | Instance | Shows |
|---|---|---|
| `matchmaking` | 3 users, two who wait for their join and one who does not and edits preferences, 3 joins, 1 EndMatch, a candidate limit of 2, no unique indexes on `chats` | `SearcherNotQueued`: while a client waits for its join its user is nobody's candidate. `NoRematchInWindow`: no pair is matched twice within the window. `TicketClaimedOnce`, `ClaimIsRecorded`. `ImplementsTickets`: the queue refines `QueueTickets` |
| `chat` | 2 chats, 3 users, 2 EndChat, 2 events, with indexes | `RevivedOnlyByStaleActivity`: nothing but a stale Save of the activity consumer makes an ended chat active. `EventsHandled` (liveness) |
| `registration` | 3 requests for 2 addresses, one username refused later, 2 relays, batches of 2, 1 failure of any kind, the consumer's channel included | `RegTypeOK`, `NothingForgotten`, `ImplementsProvisioning`, and `ProfilesFollow` (liveness) |
| `users` | 3 users, 4 events in any order, 2 RPCs on one row, prefetch 2, 1 failure (a query, a shutdown, the connection or the channel) | `AwayHasReason`, `RevivedOnlyByStaleSave`, and `SettledUnlessPoisoned` (liveness) |
| `sessions` | 1 user, 2 refreshes, 1 client, lives of 1 and 3 ticks, cache life 1, logins in the first second, clock to 3 | `MaskedBriefly`: how long a revoked or expired token of either kind passes. `RotationKeepsCount`: no more live refresh tokens than logins. `NotLockedOut`: not fewer than one |
| `websocket` | 1 user, 2 connections, 1 room, 1 consumer with 1 event, which may lose its connection | `NoGhostRegistration`, `MembershipTracked`, `LastOneOut`, `AckedWhenSettled`, and `ClosedConnectionsEnd`, `EventsHandled` (liveness) |
| `websocket_push` (violation) | 2 users, 2 connections | a send on a closed channel |
| `messages` | 3 messages of 2 participants and a stranger, 2 marks and a deletion of one message, pages of 1, 2 instants | `WritersBelong`, `EditsLast`, `EditedOnce`, `PagesMissOnlyByDeletion` |
| `logins` | 3 logins to 1 address from 1 IP address, burst 2, limit 1, window 2, clock to 4, 1 fault | `AdmissionsBounded`, `GuessesBounded`, `CountersExpire` |
| `best_match` | 12 candidates of 3 users at the boundaries of every part of the score, pools of up to 3 | `ScanTypeOK`, `FirstBest` |
| `idempotency` | 3 requests with one key and 1 with another, room for 1 answer, clock to 4 | `StoreTypeOK`, `RunsOnceOrForCause` |
| `breaker` | the auth or the user service, 3 calls, opens at 2 failures of 3, closes after 2 probes, timeout 1, delay 2, a limiter of 2 per 2 ticks | `TypeOK`, `ProbesAccounted`: permits are neither lost nor made up. `ClosesOnEvidence`: what was answered before the failure closes nothing. `Recovers`, `Trips` (liveness) |

Why the bounds are enough. The races are between two actors on one row, and a
third actor matters only where a pair is involved (a searcher, a candidate, and
someone who takes the candidate): three joins over three users and an EndMatch, two
refreshes of a user, two EndChat, two relays, two RPCs. Queues hold two deliveries, so that
order and the prefetch limit show. Lives of tokens differ, which is
enough to tell which of them a computation used, and one refresh can follow
another within the longer; the theorems below cover all other values. The breaker
window holds one success beside the failures that open it, and three calls are one
more than the probes. Counters that would grow without end are capped by constants with
names: `MaxEvents`, `MaxFaults`, `MaxCopies`, `MaxTime`, `MaxStamp`, `MaxPool`, `LastLogin`,
`Joins`, `Ends`, `Commands`, `Edits`, `Requests`. `CircuitBreaker` needs none: it counts
ages and what is left. Most models stop where these are used up, and then deadlock
is not checked; it is in `matchmaking`, `chat` and `breaker`.

### The violation, and other disagreements with comments

`websocket_push` checks what a comment says, and TLC gives the steps to the
contrary. `NoSendOnClosed`: the closed flag "prevents send-on-closed-channel"
(`websocket_handler.go:43`), but `trySend` reads it before it sends. In a broadcast
the panic also leaves the read lock taken.

The following were met while modelling. They are behaviours of the modules, not
runs; each is what an exception in a property stands for.

* `rabbitmq_event_consumer.go:114` (chat): "updates the chat's last activity
  timestamp", but saves the status it read, so that an EndChat in between is undone:
  the exception of `RevivedOnlyByStaleActivity`.
* `migrations/003_unique_active_chat.sql:1`: "at most one active chat per participant",
  to prevent races of CreateChat. The migration makes one unique index for each of the two
  columns, so that a user who is first participant of one active chat can be second of
  another: two creates suffice, whether they race or not. `SaveAllowed` lets it happen; that
  nobody is twice in one role is the database's doing, and is not stated as a property.
* `outbox_relay.go:14`: "at-least-once delivery", but the publisher uses neither
  confirms nor the mandatory flag: the causes *unrouted* and *unconfirmed* of
  `NothingForgotten`.
* `refresh_token/handler.go:56-57`: tokens are generated first so that "the user is
  never locked out", but a refresh token has no identifier, and one issued in the
  second of its predecessor equals it and is revoked with it; nor does a client have
  the new one when the answer is lost: the causes *second* and *lost* of
  `NotLockedOut`. Two requests with one token both get a pair: *overlap* in
  `RotationKeepsCount`.
* `websocket_handler.go:144`: the existing connection is evicted "to prevent zombie
  goroutines", but the cleanup deletes by user, not by connection, so that a
  successor may be unregistered, and the next connection does not evict it.
* `redis_rate_limiter.go:35`: EXPIRE is "atomically paired with INCR", but is a
  command of its own, whose error is ignored: `stuck` of `CountersExpire`.
* `matching_candidate.go:75`: "empty string = no preference", but a candidate with
  none matches only others with none, since the other's preference is compared
  with the empty string: the last conjunct of compatibility in `FirstBest`.
* `rabbitmq_consumer.go:278-280`: "Notify all participants", but `message.read` goes
  to its reader alone. `message.sent` goes to `RecipientID`, which SendMessage never
  sets, so that nobody is told (`Push`).
* `grpc_chat_validator.go:41-47` looks for gRPC codes that GetChat never returns, so
  that ChatExists is always true when the chat service answers (`CheckMember`).

### Fairness

Only liveness properties use fairness, and only of steps that the code's
scheduling gives:

* goroutines in a loop (activity consumer, relays, event consumers, writePump) are
  weakly fair: a step that stays possible is taken;
* `Lock()` of an RWMutex is strongly fair: a waiting writer keeps new readers out, so
  the lock cannot be withheld for ever. A goroutine stands at one step at a time, so
  this is stated once for all steps of a readPump (`Serve`) and of a consumer of the
  gateway (`Notify`);
* calls through a breaker end (`Serve`, `Refuse`, `Expire`, `Return`), and time passes
  (`Tick`);
* `StoreActivity` is strongly fair, because between two attempts a refused Save is
  given back and read again;
* `Deliver` is strongly fair in `UserService`: the broker fills the prefetch
  window without waiting for acknowledgements, so that an event given back over
  and over does not keep out the one behind it while there is room for both;
* a user service that has ended is started again (`restart` in `docker-compose.yml`); one
  that lost its channel alone has not ended, and need never end.

No client or failure is fair; that clients keep calling (`KeepsCalling`) is an
antecedent of `Recovers` and `Trips`. `EventsHandled` of `ChatService` assumes that the
consumer's channel stays open from some time on, that of `WebSocketHandler` that no
push panics and the connection to RabbitMQ is not lost, `ProfilesFollow` that the relays keep their
channels (the publisher never reconnects) and the user service is not deaf for ever, `ClosedConnectionsEnd` that no push
panics, and `SettledUnlessPoisoned` that fewer than `Prefetch` events name users
without a row and, again, that the service is not deaf for ever. Each of these is a way in which the code really stops.

## 4. Proofs

The theorems hold for all values of the constants under the named assumptions of
each module (finite or infinite sets of users, any limits). Each rests on an
inductive invariant, which was checked by TLC before it was proved.

| Theorem | States | Inductive invariant |
|---|---|---|
| `TypeCorrect`, `ClaimedOnce`, `ClaimsAreRecorded`, `CompletedIsFinal` (`MatchmakingProofs`) | the type invariant and the three safety properties | `TypeOK`, `RequestsTyped` (what a join knows at each step), `TicketsTracked` (a queue row carries the ticket of a join that has enqueued and is not claimed), `TicketClaimedOnce`, `RecordsOrdered` (a claim comes after its match) |
| `QueueImplementsTickets` | the queue implements `QueueTickets`: initial states and steps map to theirs | the same |
| `SearchersNotQueued`, `NoRematches` (`MatchmakingProofs`) | `SearcherNotQueued` and `NoRematchInWindow`, for any users who wait and any who do not | `WindowInv`: `PatientAlone` (one join of a user who waits), `NoMutualChoice` (two of them do not choose each other), `NotRecentYet` (what HasRecentMatch said is true until the match is saved) |
| `BestTypeCorrect`, `FirstBestFound`, `WaitingHelps` (`MatchmakingProofs`) | the range of a score, the loop's answer, and that waiting never lowers a score | `BestSoFar` (the loop's invariant, by its own comparison), `ScanAnswered` |
| `ChatTypeCorrect`, `RevivalIsStale` (`ChatServiceProofs`) | the type invariant, and `RevivedOnlyByStaleActivity` | `TypeOK`, `CopiesTracked` (a copy belongs to the chat it is saved to) |
| `SessionsTypeCorrect`, `RevocationsLast`, `RevocationsBite` (`AuthProofs`) | a revocation lasts as long as its token (`RevocationOutlivesToken`); a revoked token of either kind passes for one cache life and one RPC at most, for all lives | `KeysLast` (a key in Redis lasts as long as its token), `VouchedInTime`, `EntriesBounded`, `PassedBefore` |
| `SessionsNotMultiplied`, `NobodyLockedOut` (`AuthProofs`) | `RotationKeepsCount` and `NotLockedOut`, for any number of refreshes, lives and clock | `RotationInv`: `HandsTracked` (what a refresh holds was issued), `RevokedIssued`, `Followed`, `SingleHanded`, `CountKept` |
| `RegistrationTypeCorrect`, `NoneForgotten`, `RegistrationProvisions` (`AuthProofs`) | the type invariant; every registration is in the outbox, in the broker, provisioned, or lost for a known cause; the registration implements `Provisioning` | `RInv`: `CopiesBounded`, `WrittenOnce` (an outbox row belongs to one request), `FromOutbox`, `PublishedAccounted` |
| `StoreBounded`, `OnceOrForCause` (`GatewayProofs`) | the store's type and size; a repeated request runs once, or more often for a known cause | `StoreInv`: `CleanedInTime`, `OneRun`, `RunsAccounted` |
| `BreakerTypeCorrect`, `ProbesAlwaysAccounted`, `ClosingNeedsEvidence` (`GatewayProofs`) | as named; the last is `ClosesOnEvidence` | `BreakerInv`: `StateKept`, `OpenOutlasts` (who is in flight while the breaker is open is over before its delay is), `NoEvidence` |
| `WebSocketTypeCorrect`, `NoGhosts`, `MembersTracked`, `LastOneOutAlways`, `EventsSettled` (`WebSocketHandlerProofs`) | as named; the last is `AckedWhenSettled` | `RegisteredServed` (a registered connection has not cleaned up), `TargetKnown`, `RoomKnown`, `HeldTracked` (whoever is neither settled nor being told is in `toTell` of the event in hand), and the properties themselves |
| `MessageTypeCorrect`, `WritersAlwaysBelong`, `EditsAlwaysLast`, `EditedAtMostOnce` (`MessageServiceProofs`) | as named | `CallsTracked` (a copy in hand is of a row, and may be edited), `EditsLast`, `EditedOnce` |
| `PagesAlwaysMissOnlyByDeletion` (`MessageServiceProofs`) | a client that pages misses at most one message per deletion, for any page size and number of messages | `PagesInv`: while it reads, at most `deletions` messages stand before its offset that it has not seen |
| `LimitTypeCorrect`, `AdmissionsAlwaysBounded`, `GuessesAlwaysBounded`, `CountersAlwaysExpire` (`LoginLimitsProofs`) | as named, for every rate, burst, limit and window | `SpansTracked` (what was spent and what is left are within the bound together), `GuessesTracked`, `NoKeyNoExpiry`, `CountersExpire` |
| `UserTypeCorrect`, `RevivalNeedsOldCopy` (`UserServiceProofs`) | as named | `TypeOK`, `PositionsTracked` (the consumer's position and copy belong to the delivery at the head) |
| `AwayExplained` (`UserServiceProofs`) | `AwayHasReason`, for any events, users, RPCs and prefetch limit | `AwayInv` (below) |

`RevivedOnlyByStaleActivity` needs `CopiesTracked`: a copy in hand is of a row that
exists and is saved to no other chat. `TicketClaimedOnce` needs to know that a row in
the queue was never claimed, and that no two rows carry one ticket, since a claim
deletes whatever row the user has. `RevocationsBite` needs a bound on how long an
answer of ValidateToken may be under way, and that cache entries are made only
from such answers.
`GuessesBounded` cannot be proved from the counter alone: within a window the key
may expire once, and the invariant keeps the case before (all guesses are of this
key), the case after (the key there is now outlasts the window), and the case
that the window is over. `AdmissionsBounded` needs the tokens left on its left-hand
side, with `StaleIsFull` for the step that removes an entry. `FirstBest` compares
sums, the loop floats: `BestSoFar` speaks of the latter and implies the former.
`AckedWhenSettled` needs `HeldTracked`, since Ack looks only at what is left to tell.

`AwayHasReason` is about the moment when all events of a user are handled, and its
invariant about all moments before: of two events of an undisturbed user the one
received first is handled first (`InOrder`; a prefetched event that is still held may
not overtake), who is away was matched after every end that is settled (`LastWord`),
and within an event the users that were updated show it (`Told`).
`RotationKeepsCount` counts live tokens, which is not inductive: a token that expires
in the hands of a request can still make another. `CountKept` counts it until the
request ends. `NotLockedOut` needs for every token given out one that followed it and
was not revoked (`Followed`), and that without an overlap a token is in one request's
hands alone (`SingleHanded`).
`ProbesAccounted` needs `OpenOutlasts`, in which `Timeout < Delay` is used: calls
from before the breaker opened would otherwise return among the probes.
`RunsOnceOrForCause` distinguishes whether there is an entry for the key: without one
at most one request has begun, with one nobody runs and all answers are the same.
`PagesMissOnlyByDeletion` compares the messages not yet seen with the deletions only
at the end; on the way only those count that stand before the client's offset
(`Skipped`). A deletion moves at most one message there, since no two messages have
one place on the list unless they have one `created_at` (`PlacesDiffer`).

Proving showed two statements of these modules to be wrong, both outside the small
instances: the bound on the breaker's recorded outcomes fails when
`SuccessThreshold` exceeds `WindowSize` + 1; and `PagesMissOnlyByDeletion` counted
deleted messages, but with four messages TLC finds a message that is deleted, revived by
a stale mark, and deleted again, which hides two others. It counts deletions now.

The type invariants are proved, and only those of `BestMatch`, `Registration`,
`Idempotency` and `CircuitBreaker` are also part of a run; `RevocationOutlivesToken`
and `CompletedStaysCompleted` are proved alone. Every invariant of a passing run is
proved, and so is every action property.

Only model-checked: all liveness (`EventsHandled` twice, `ProfilesFollow`,
`SettledUnlessPoisoned`, `ClosedConnectionsEnd`, `Recovers`, `Trips`), since it depends on
fairness and so on ENABLED, which the prover does not handle. What a recursive
definition computes for every input is out of its reach as well, but no module here
has one.

## 5. Not modelled

* CreateUser of the user service: the insert of `UserRegistered`, which no caller in
  this repository makes by RPC; with it as a third command the run takes too long.
* ConnectWithReconnect of `pkg`, which nothing calls: after the loss of a connection
  to RabbitMQ the code has only what the modules show.
* Close of the gateway's consumers, health endpoints and draining of gRPC at shutdown.
* Password checking and `last_seen` in Login.
* The reads of matching and chat (status, history, lists), and repository functions
  that nothing calls.
* REST handlers, `pkg`, generated code, health, metrics, tracing: no state that
  another part depends on.
* failsafe-go, PostgreSQL, Redis and RabbitMQ themselves: each statement or
  command is atomic, a durable queue survives, and a requeued delivery returns to
  its place.

## 6. Plan

Done, in this order: matching and its queue, chats, registration, sessions,
connections, users; then messages, login limits, the choice of a match, the
idempotency store; then the breaker with the auth service's limiter, the gateway's
consumers with the loss of their connection, and overlapping refreshes; and the
proofs of all their safety properties. Next:

1. A composition of `UserService` and `WebSocketHandler` over one status column:
   which of matching and connections has the last word on a user's status.
2. A composition of `MessageService` and `ChatService` over one chats table: messages
   that are stored in a chat that has ended, which SendMessage does not ask about and
   nothing in the repository forbids, and what its activity update does.
3. An abstract specification of sessions (a token is good until revoked or expired,
   plus a bounded delay) that `Sessions` implements.
