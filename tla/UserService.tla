------------------------------ MODULE UserService ------------------------------
(***************************************************************************)
(* The user service: the users table, the RPCs that change it, and the     *)
(* consumer of the queue user-service.events, which carries registrations  *)
(* and both kinds of matching event.                                       *)
(*                                                                         *)
(* UpdateStatus, UpdateUser and DeleteUser read a row, change a copy and   *)
(* write every column back; a read and a write are one action each.  The   *)
(* consumer handles the deliveries it holds, at most Prefetch, one by one. *)
(* A delivery it gives back returns to its old place in the queue.         *)
(***************************************************************************)
EXTENDS Naturals, Sequences, FiniteSets

CONSTANTS Users,
          Known,       \* users with a row at the start
          Refused,     \* users whose registration breaks a rule of NewUser,
                       \* or names an address that another user has
          Events,      \* [kind, of]: what the exchanges may carry, each once
          Commands,    \* [kind, user]: the RPCs, each called once
          Prefetch,    \* Qos of the consumer's channel, 10 in the code
          MaxFaults,   \* bound on failed queries, lost connections and shutdowns
          None

\* What the model keeps of a row of users.
Row == [active : BOOLEAN, status : {"online", "offline", "away"}]

ASSUME UsersAssumption ==
    /\ Known \subseteq Users /\ Refused \subseteq Users
    /\ Events \subseteq [kind : {"registered", "found", "completed"}, of : Seq(Users)]
    /\ \A e \in Events : e.of # <<>> /\ (e.kind = "registered" => Len(e.of) = 1)
    /\ Commands \subseteq [kind : {"online", "offline", "profile", "delete"}, user : Users]
    /\ Prefetch \in Nat \ {0} /\ MaxFaults \in Nat
    /\ None \notin Row

VARIABLES rows,        \* the table; None where a user has no row
          published,   \* the events in the order the queue received them
          ready,       \* those the broker can deliver
          unacked,     \* the deliveries the consumer holds, in their order
          at,          \* the position in UserIDs of the event being handled
          copy,        \* the row it has read for that user
          consumer,    \* "up", "stopping" once its context is cancelled, or "deaf":
                       \* its channel is gone and the process runs on
          cmdPc,       \* where each RPC stands
          cmdCopy,     \* the row it has read
          causes,      \* auxiliary: what may have disturbed a user's status
          faults

queueVars == <<published, ready>>
heldVars  == <<unacked, at, copy, consumer>>
cmdVars   == <<cmdPc, cmdCopy>>
vars      == <<rows, queueVars, heldVars, cmdVars, causes, faults>>

TypeOK ==
    /\ rows \in [Users -> Row \cup {None}]
    /\ published \in Seq(Events)
    /\ ready \subseteq Events
    /\ unacked \in Seq(Events)
    /\ Len(unacked) <= Prefetch
    /\ at \in Nat
    /\ copy \in Row \cup {None}
    /\ consumer \in {"up", "stopping", "deaf"}
    /\ cmdPc \in [Commands -> {"idle", "loaded", "done"}]
    /\ cmdCopy \in [Commands -> Row \cup {None}]
    /\ causes \in [Users -> SUBSET {"requeued", "dropped", "overlapped"}]
    /\ faults \in 0..MaxFaults

NewUser == [active |-> TRUE, status |-> "offline"]

Init ==
    /\ rows = [u \in Users |-> IF u \in Known THEN NewUser ELSE None]
    /\ published = <<>>
    /\ ready = {}
    /\ unacked = <<>>
    /\ at = 1
    /\ copy = None
    /\ consumer = "up"
    /\ cmdPc = [c \in Commands |-> "idle"]
    /\ cmdCopy = [c \in Commands |-> None]
    /\ causes = [u \in Users |-> {}]
    /\ faults = 0

Fault == faults < MaxFaults /\ faults' = faults + 1

Received == {published[i] : i \in DOMAIN published}
Held     == {unacked[i] : i \in DOMAIN unacked}
Settled  == Received \ (ready \cup Held)

UsersIn(e) == {e.of[i] : i \in DOMAIN e.of}

\* Adds cause to those of the users in us.
Blame(us, cause) ==
    causes' = [u \in Users |-> IF u \in us THEN causes[u] \cup {cause} ELSE causes[u]]

--------------------------------------------------------------------------------
(* RabbitMQ                                                                *)

\* An event arrives through one of the exchanges the queue is bound to.
Publish(e) ==
    /\ e \notin Received
    /\ published' = Append(published, e)
    /\ ready' = ready \cup {e}
    /\ UNCHANGED <<rows, heldVars, cmdVars, causes, faults>>

\* The place of e in the queue.
Place(e) == CHOOSE i \in DOMAIN published : published[i] = e

\* The broker sends the first ready event, unless the consumer holds as many
\* as Qos allows.
Deliver(e) ==
    /\ consumer = "up"
    /\ Len(unacked) < Prefetch
    /\ e \in ready
    /\ \A f \in ready : Place(e) <= Place(f)
    /\ ready' = ready \ {e}
    /\ unacked' = Append(unacked, e)
    /\ UNCHANGED <<rows, published, at, copy, consumer, cmdVars, causes, faults>>

--------------------------------------------------------------------------------
(* The consumer                                                            *)

Handling(kinds) == unacked # <<>> /\ Head(unacked).kind \in kinds

\* UserIDs[at - 1], with Go's indices from 0.
Current == Head(unacked).of[at]

Drop == /\ unacked' = Tail(unacked)
        /\ at' = 1
        /\ copy' = None
        /\ UNCHANGED consumer

\* delivery.Ack, or delivery.Nack without requeue: the broker forgets it.
Ack == Drop /\ UNCHANGED queueVars

\* delivery.Nack with requeue.
Requeue ==
    /\ Drop
    /\ ready' = ready \cup {Head(unacked)}
    /\ UNCHANGED published

\* Mutant: ON CONFLICT (id) DO UPDATE.
CreateUpsert(u) == rows' = [rows EXCEPT ![u] = NewUser]

\* Create: INSERT ... ON CONFLICT (id) DO NOTHING.
Create(u) == rows' = [rows EXCEPT ![u] = IF @ = None THEN NewUser ELSE @]

\* Mutant: no domain error is permanent.
HandleRegisteredTransient ==
    /\ consumer = "up"
    /\ Handling({"registered"})
    /\ IF Current \in Refused
       THEN Requeue /\ UNCHANGED rows
       ELSE Ack /\ Create(Current)
    /\ UNCHANGED <<cmdVars, causes, faults>>

\* UserRegistered: a domain error is permanent.
HandleRegistered ==
    /\ consumer = "up"
    /\ Handling({"registered"})
    /\ IF Current \in Refused THEN UNCHANGED rows ELSE Create(Current)
    /\ Ack
    /\ UNCHANGED <<cmdVars, causes, faults>>

\* UpdateStatus finds the row of the next user.
LoadStatus ==
    /\ consumer = "up"
    /\ Handling({"found", "completed"})
    /\ at <= Len(Head(unacked).of)
    /\ copy = None
    /\ rows[Current] # None
    /\ rows[Current].active
    /\ copy' = rows[Current]
    /\ UNCHANGED <<rows, queueVars, unacked, at, consumer, cmdVars, causes, faults>>

\* ErrUserInactive is permanent: the event is dropped, and the users after
\* this one keep their status.
RefuseInactive ==
    /\ consumer = "up"
    /\ Handling({"found", "completed"})
    /\ at <= Len(Head(unacked).of)
    /\ copy = None
    /\ rows[Current] # None
    /\ ~rows[Current].active
    /\ Ack
    /\ Blame({Head(unacked).of[i] : i \in at..Len(Head(unacked).of)}, "dropped")
    /\ UNCHANGED <<rows, cmdVars, faults>>

\* ErrUserNotFound is not permanent.
RequeueMissing ==
    /\ consumer = "up"
    /\ Handling({"found", "completed"})
    /\ at <= Len(Head(unacked).of)
    /\ rows[Current] = None
    /\ Requeue
    /\ Blame(UsersIn(Head(unacked)), "requeued")
    /\ UNCHANGED <<rows, cmdVars, faults>>

StatusAfter(e) == IF e.kind = "found" THEN "away" ELSE "online"

\* Save writes the copy with its new status over the row; a row that has
\* changed since it was read loses the change.
SaveStatus ==
    /\ rows' = [rows EXCEPT ![Current] = [copy EXCEPT !.status = StatusAfter(Head(unacked))]]
    /\ Blame(IF copy = rows[Current] THEN {} ELSE {Current}, "overlapped")

\* A Save that began before the shutdown may end after it.
StoreStatus ==
    /\ copy # None
    /\ SaveStatus
    /\ copy' = None
    /\ at' = at + 1
    /\ UNCHANGED <<queueVars, unacked, consumer, cmdVars, faults>>

AckStatus ==
    /\ Handling({"found", "completed"})
    /\ at > Len(Head(unacked).of)
    /\ Ack
    /\ UNCHANGED <<rows, cmdVars, causes, faults>>

\* A query fails, applied or not; a Save comes under this after its effect.
RequeueFailed ==
    /\ consumer = "up"
    /\ unacked # <<>>
    /\ at <= Len(Head(unacked).of)
    /\ Fault
    /\ Requeue
    /\ \/ UNCHANGED rows
       \/ Handling({"registered"}) /\ Current \notin Refused /\ Create(Current)
    /\ Blame(UsersIn(Head(unacked)), "requeued")
    /\ UNCHANGED cmdVars

\* SIGTERM cancels the context; the goroutine goes on.
Stop ==
    /\ consumer = "up"
    /\ Fault
    /\ consumer' = "stopping"
    /\ UNCHANGED <<rows, queueVars, unacked, at, copy, cmdVars, causes>>

\* Under a cancelled context every query fails, and Nack does not requeue.
Discard ==
    /\ consumer = "stopping"
    /\ unacked # <<>>
    /\ at <= Len(Head(unacked).of)
    /\ Ack
    /\ Blame(UsersIn(Head(unacked)), "dropped")
    /\ UNCHANGED <<rows, cmdVars, faults>>

\* Mutant: the broker does not wait for acknowledgements.
RestartAutoAck ==
    /\ IF consumer = "up" THEN Fault ELSE UNCHANGED faults
    /\ unacked' = <<>>
    /\ at' = 1
    /\ copy' = None
    /\ consumer' = "up"
    /\ UNCHANGED <<rows, queueVars, cmdVars, causes>>

\* The channel closes, and the broker takes back what was held.
TakeBack ==
    /\ ready' = ready \cup Held
    /\ unacked' = <<>>
    /\ at' = 1
    /\ copy' = None
    /\ UNCHANGED published

\* The connection is lost, which monitorConnection answers by ending the
\* process, or the process ends otherwise, and the service comes up again.  A
\* deaf process does not end by itself, but it may be ended.
Restart ==
    /\ IF consumer = "up" THEN Fault ELSE UNCHANGED faults
    /\ TakeBack
    /\ consumer' = "up"
    /\ UNCHANGED <<rows, cmdVars, causes>>

\* The channel closes and the connection does not: the range over the
\* deliveries ends, monitorConnection hears nothing, and the process serves its
\* RPCs without a consumer.  What the goroutine still does for the delivery in
\* hand comes before this step: nothing is delivered after it.
LoseChannel ==
    /\ consumer = "up"
    /\ Fault
    /\ TakeBack
    /\ consumer' = "deaf"
    /\ UNCHANGED <<rows, cmdVars, causes>>

--------------------------------------------------------------------------------
(* The RPCs                                                                *)

\* FindByID, and the domain method's refusal of inactive users, which
\* Deactivate has not.
LoadCommand(c) ==
    /\ cmdPc[c] = "idle"
    /\ rows[c.user] # None
    /\ c.kind # "delete" => rows[c.user].active
    /\ cmdPc' = [cmdPc EXCEPT ![c] = "loaded"]
    /\ cmdCopy' = [cmdCopy EXCEPT ![c] = rows[c.user]]
    /\ UNCHANGED <<rows, queueVars, heldVars, causes, faults>>

\* The copy after UpdateStatus, UpdateProfile or Deactivate.
Changed(c) ==
    CASE c.kind = "profile" -> cmdCopy[c]
      [] c.kind = "delete"  -> IF cmdCopy[c].active
                               THEN [active |-> FALSE, status |-> "offline"]
                               ELSE cmdCopy[c]
      [] OTHER -> [cmdCopy[c] EXCEPT !.status = c.kind]

StoreCommand(c) ==
    /\ cmdPc[c] = "loaded"
    /\ rows' = [rows EXCEPT ![c.user] = Changed(c)]
    /\ Blame(IF cmdCopy[c] = rows[c.user] THEN {} ELSE {c.user}, "overlapped")
    /\ cmdPc' = [cmdPc EXCEPT ![c] = "done"]
    /\ cmdCopy' = [cmdCopy EXCEPT ![c] = None]
    /\ UNCHANGED <<queueVars, heldVars, faults>>

\* The call ends before its Save: refused, failed or timed out.
FailCommand(c) ==
    /\ cmdPc[c] # "done"
    /\ cmdPc' = [cmdPc EXCEPT ![c] = "done"]
    /\ cmdCopy' = [cmdCopy EXCEPT ![c] = None]
    /\ UNCHANGED <<rows, queueVars, heldVars, causes, faults>>

--------------------------------------------------------------------------------
Consume ==
    \/ HandleRegistered \/ LoadStatus \/ RefuseInactive \/ RequeueMissing
    \/ StoreStatus \/ AckStatus \/ Discard

Next ==
    \/ \E e \in Events : Publish(e) \/ Deliver(e)
    \/ Consume \/ RequeueFailed \/ Stop \/ LoseChannel \/ Restart
    \/ \E c \in Commands : LoadCommand(c) \/ StoreCommand(c) \/ FailCommand(c)

\* The goroutine runs, and a stopped service is started again; a deaf one need
\* not be.  The broker sends what it can without waiting for the
\* acknowledgement of the delivery before, so that no event is passed over for
\* ever.
Fairness ==
    /\ WF_vars(Consume)
    /\ WF_vars(consumer = "stopping" /\ Restart)
    /\ \A e \in Events : SF_vars(Deliver(e))

Spec == Init /\ [][Next]_vars /\ Fairness

--------------------------------------------------------------------------------
(* Properties                                                              *)

Inactive(u) == rows[u] # None /\ ~rows[u].active

\* The consumer or an RPC has read u's row while u was active, and is going
\* to write it back.
ActiveCopy(u) ==
    \/ copy # None /\ copy.active /\ Current = u
    \/ \E c \in Commands : cmdPc[c] = "loaded" /\ c.user = u /\ cmdCopy[c].active

\* A deleted user becomes active again only by the Save of a copy that was
\* read before the deletion; a registration delivered once more does not do
\* it, and neither does an RPC or an event that begins later.
RevivedOnlyByStaleSave ==
    [][\A u \in Users : Inactive(u) /\ ~Inactive(u)' => ActiveCopy(u)]_vars

\* The consumer's position belongs to the delivery it handles; an RPC that
\* will save has read a row.
PositionsTracked ==
    /\ at >= 1
    /\ unacked = <<>> => at = 1
    /\ unacked # <<>> => at <= Len(Head(unacked).of) + 1
    /\ Handling({"registered"}) => at = 1
    /\ copy # None => Handling({"found", "completed"}) /\ at <= Len(Head(unacked).of)
    /\ \A c \in Commands : cmdPc[c] = "loaded" => cmdCopy[c] \in Row

\* The inductive invariant of UserServiceProofs.
IInv == TypeOK /\ PositionsTracked

\* All of u's events have been handled or dropped.
Quiet(u) == \A e \in Received : u \in UsersIn(e) => e \in Settled

\* u has been matched, and no later event says that a match is over.
Matched(u) ==
    \E f \in Received :
        /\ f.kind = "found" /\ u \in UsersIn(f)
        /\ ~\E c \in Received : c.kind = "completed" /\ u \in UsersIn(c) /\ Place(c) > Place(f)

\* Once a user's events are through, the user is away only during a match,
\* unless an event went back to the queue or was dropped half done, or two
\* updates of the row overlapped.
AwayHasReason ==
    \A u \in Users :
        rows[u] # None /\ rows[u].status = "away" /\ Quiet(u) => Matched(u) \/ causes[u] # {}

\* Matching events that name a user without a row: they return to the head of
\* the queue until the row exists.
Poison ==
    {e \in ready \cup Held : e.kind # "registered" /\ \E u \in UsersIn(e) : rows[u] = None}

\* As long as such events do not take up all the deliveries the consumer may
\* hold, and the consumer does not stay without its channel, every other event
\* is handled in the end, registrations included
\* (services/user/adapters/messaging/rabbitmq/consumer.go:66).
SettledUnlessPoisoned ==
    (<>[](Cardinality(Poison) < Prefetch) /\ []<>(consumer # "deaf")) =>
        \A e \in Events : []<>(e \in Received => e \in Settled \cup Poison)

================================================================================
