--------------------------- MODULE WebSocketHandler ---------------------------
(***************************************************************************)
(* The gateway's WebSocket registry.  A connection is served by two        *)
(* goroutines, readPump and writePump; clients holds the connection of     *)
(* each user, rooms the users of each room.  Both maps are under one       *)
(* RWMutex.  The goroutines that push to a connection's Send channel are   *)
(* the readPumps of others, which broadcast under the read lock, and the   *)
(* consumers of RabbitMQ events, which push under none.                    *)
(*                                                                         *)
(* A section under the write lock is one action.  A broadcast is several,  *)
(* and so is trySend, which reads the closed flag and then sends.  The 256 *)
(* slots of Send are left out: a push finds it full or not.                *)
(*                                                                         *)
(* A consumer takes an event, tells one user after the other, and then     *)
(* acknowledges.  When the connection to RabbitMQ closes, the events not   *)
(* yet acknowledged are in the queue again, and the consumers return, those *)
(* that wait at once and the others after the event in hand.               *)
(***************************************************************************)
EXTENDS FiniteSets

CONSTANTS Users, Conns, Rooms,
          UserOf,      \* the user whose token each connection carries
          Notifiers,   \* goroutines that consume RabbitMQ events
          Events, QueueOf, Recipients,   \* an event's consumer, and whom it tells
          None

ASSUME ConnsAssumption ==
    /\ UserOf \in [Conns -> Users]
    /\ None \notin Conns
    /\ Conns \cap Notifiers = {}
    /\ QueueOf \in [Events -> Notifiers]
    /\ Recipients \in [Events -> SUBSET Users]
    /\ None \notin Events

VARIABLES clients,     \* h.clients
          rooms,       \* h.rooms
          joined,      \* Client.Rooms
          pc,          \* where the serving goroutines of a connection stand
          tcp,         \* Client.Conn
          sendClosed,  \* connections whose Send channel is closed
          room,        \* the room a readPump broadcasts to
          todo,        \* the members it has not come to
          slow,        \* the members it is going to evict
          target,      \* the client whose closed flag a goroutine found unset
          leaked,      \* TRUE when a panic has left the read lock taken
          notifyPc,    \* where each consumer stands
          broker,      \* "up" or "lost": the consumers' connection to RabbitMQ
          queued,      \* events in the queues, the buffers of the client included
          held,        \* the event a consumer handles
          toTell,      \* the users it has not come to
          acked,       \* events that have left their queue
          settled,     \* auxiliary: <<e, u>> when u was told of e or was not connected
          presence,    \* the user service's status of each user
          strays,      \* auxiliary: who joined which room while unregistered
          unsaid       \* auxiliary: users of whom a status call failed

castVars   == <<room, todo, slow>>
brokerVars == <<broker, queued, acked>>
heldVars   == <<held, toTell, settled>>
notifyVars == <<notifyPc, brokerVars, heldVars>>
mapVars    == <<clients, rooms, joined, strays>>
userVars   == <<presence, unsaid>>
vars       == <<mapVars, pc, tcp, sendClosed, castVars, target, leaked, notifyVars, userVars>>

Threads == Conns \cup Notifiers

TypeOK ==
    /\ clients \in [Users -> Conns \cup {None}]
    /\ rooms \in [Rooms -> SUBSET Users]
    /\ joined \in [Conns -> SUBSET Rooms]
    /\ pc \in [Conns -> {"new", "registered", "reading", "casting", "evicting",
                         "leaving", "closing", "offline", "done"}]
    /\ tcp \in [Conns -> {"none", "open", "closed"}]
    /\ sendClosed \subseteq Conns
    /\ room \in [Conns -> Rooms \cup {None}]
    /\ todo \in [Conns -> SUBSET Users]
    /\ slow \in [Conns -> SUBSET Users]
    /\ target \in [Threads -> Conns \cup {None}]
    /\ leaked \in BOOLEAN
    /\ notifyPc \in [Notifiers -> {"idle", "telling", "looked", "loaded", "evicting", "dead", "gone"}]
    /\ broker \in {"up", "lost"}
    /\ {queued, acked} \subseteq SUBSET Events
    /\ held \in [Notifiers -> Events \cup {None}]
    /\ toTell \in [Notifiers -> SUBSET Users]
    /\ settled \subseteq Events \X Users
    /\ presence \in [Users -> {"online", "offline"}]
    /\ strays \subseteq Users \X Rooms
    /\ unsaid \subseteq Users

Init ==
    /\ clients = [u \in Users |-> None]
    /\ rooms = [r \in Rooms |-> {}]
    /\ joined = [c \in Conns |-> {}]
    /\ pc = [c \in Conns |-> "new"]
    /\ tcp = [c \in Conns |-> "none"]
    /\ sendClosed = {}
    /\ room = [c \in Conns |-> None]
    /\ todo = [c \in Conns |-> {}]
    /\ slow = [c \in Conns |-> {}]
    /\ target = [t \in Threads |-> None]
    /\ leaked = FALSE
    /\ notifyPc = [n \in Notifiers |-> "idle"]
    /\ broker = "up"
    /\ queued = {} /\ acked = {} /\ settled = {}
    /\ held = [n \in Notifiers |-> None]
    /\ toTell = [n \in Notifiers |-> {}]
    /\ presence = [u \in Users |-> "offline"]
    /\ strays = {}
    /\ unsaid = {}

\* h.mu.Lock() succeeds.
LockFree == ~leaked /\ \A c \in Conns : pc[c] # "casting"

Goto(c, where) == pc' = [pc EXCEPT ![c] = where]

\* UpdateStatus in the user service; errors and timeouts are ignored.
SetStatus(u, status) ==
    \/ /\ presence' = [presence EXCEPT ![u] = status]
       /\ UNCHANGED unsaid
    \/ /\ unsaid' = unsaid \cup {u}
       /\ UNCHANGED presence

--------------------------------------------------------------------------------
(* HandleWebSocket                                                         *)

\* The token is valid and the connection upgraded: the user's connection so
\* far is closed and replaced.
Accept(c) ==
    LET old == clients[UserOf[c]]
    IN  /\ pc[c] = "new"
        /\ LockFree
        /\ Goto(c, "registered")
        /\ clients' = [clients EXCEPT ![UserOf[c]] = c]
        /\ sendClosed' = sendClosed \cup ({old} \ {None})
        /\ tcp' = [d \in Conns |-> CASE d = c   -> "open"
                                     [] d = old -> "closed"
                                     [] OTHER   -> tcp[d]]
        /\ UNCHANGED <<rooms, joined, strays, castVars, target, leaked, notifyVars, userVars>>

\* Mutant: the status call in a goroutine of its own.
AnnounceAsync(c) ==
    /\ pc[c] # "new"
    /\ SetStatus(UserOf[c], "online")
    /\ pc' = [pc EXCEPT ![c] = IF @ = "registered" THEN "reading" ELSE @]
    /\ UNCHANGED <<mapVars, tcp, sendClosed, castVars, target, leaked, notifyVars>>

\* The user is announced, and the pumps start.
Announce(c) ==
    /\ pc[c] = "registered"
    /\ SetStatus(UserOf[c], "online")
    /\ Goto(c, "reading")
    /\ UNCHANGED <<mapVars, tcp, sendClosed, castVars, target, leaked, notifyVars>>

--------------------------------------------------------------------------------
(* readPump                                                                *)

\* A join_room message, which is about the user and not the connection.
JoinRoom(c, r) ==
    LET u == UserOf[c]
        d == clients[u]
    IN  /\ pc[c] = "reading"
        /\ tcp[c] = "open"
        /\ LockFree
        /\ rooms' = [rooms EXCEPT ![r] = @ \cup {u}]
        /\ IF d = None THEN UNCHANGED joined
                       ELSE joined' = [joined EXCEPT ![d] = @ \cup {r}]
        /\ strays' = IF d = None THEN strays \cup {<<u, r>>} ELSE strays
        /\ UNCHANGED <<clients, pc, tcp, sendClosed, castVars, target, leaked, notifyVars, userVars>>

LeaveRoom(c, r) ==
    LET u == UserOf[c]
        d == clients[u]
    IN  /\ pc[c] = "reading"
        /\ tcp[c] = "open"
        /\ LockFree
        /\ rooms' = [rooms EXCEPT ![r] = @ \ {u}]
        /\ IF d = None THEN UNCHANGED joined
                       ELSE joined' = [joined EXCEPT ![d] = @ \ {r}]
        /\ strays' = strays \ {<<u, r>>}
        /\ UNCHANGED <<clients, pc, tcp, sendClosed, castVars, target, leaked, notifyVars, userVars>>

\* broadcastToRoom: a chat message, which is sent to the message service
\* first, or a typing indicator, for which the sender need not be a member.
BeginBroadcast(c, r) ==
    /\ pc[c] = "reading"
    /\ tcp[c] = "open"
    /\ rooms[r] # {}
    /\ Goto(c, "casting")
    /\ room' = [room EXCEPT ![c] = r]
    /\ todo' = [todo EXCEPT ![c] = rooms[r]]
    /\ UNCHANGED <<mapVars, tcp, sendClosed, slow, target, leaked, notifyVars, userVars>>

\* The next member, in any order: skipped without a connection, to be evicted
\* when its channel is closed, and else the target of a send.
NextMember(c) ==
    /\ pc[c] = "casting"
    /\ target[c] = None
    /\ \E u \in todo[c] :
          LET d == clients[u]
          IN  /\ todo' = [todo EXCEPT ![c] = @ \ {u}]
              /\ slow' = [slow EXCEPT ![c] = IF d \in sendClosed THEN @ \cup {u} ELSE @]
              /\ target' = [target EXCEPT ![c] = IF d \in sendClosed THEN None ELSE d]
    /\ UNCHANGED <<mapVars, pc, tcp, sendClosed, room, leaked, notifyVars, userVars>>

\* The send.  On a closed channel it panics; readPump recovers, but the read
\* lock stays taken.  A full channel is closed.
PushMember(c) ==
    LET d == target[c]
    IN  /\ pc[c] = "casting"
        /\ d # None
        /\ target' = [target EXCEPT ![c] = None]
        /\ \/ /\ d \in sendClosed
              /\ leaked' = TRUE
              /\ Goto(c, "leaving")
              /\ room' = [room EXCEPT ![c] = None]
              /\ todo' = [todo EXCEPT ![c] = {}]
              /\ slow' = [slow EXCEPT ![c] = {}]
              /\ UNCHANGED sendClosed
           \/ /\ d \notin sendClosed
              /\ UNCHANGED <<leaked, pc, sendClosed, castVars>>
           \/ /\ d \notin sendClosed
              /\ sendClosed' = sendClosed \cup {d}
              /\ slow' = [slow EXCEPT ![c] = @ \cup {UserOf[d]}]
              /\ UNCHANGED <<leaked, pc, room, todo>>
        /\ UNCHANGED <<mapVars, tcp, notifyVars, userVars>>

\* RUnlock.
EndBroadcast(c) ==
    /\ pc[c] = "casting"
    /\ target[c] = None
    /\ todo[c] = {}
    /\ Goto(c, IF slow[c] = {} THEN "reading" ELSE "evicting")
    /\ room' = [room EXCEPT ![c] = IF slow[c] = {} THEN None ELSE @]
    /\ UNCHANGED <<mapVars, tcp, sendClosed, todo, slow, target, leaked, notifyVars, userVars>>

\* Whoever is registered now for the users that were slow is removed.
EvictSlow(c) ==
    /\ pc[c] = "evicting"
    /\ LockFree
    /\ clients' = [u \in Users |-> IF u \in slow[c] THEN None ELSE clients[u]]
    /\ rooms' = [rooms EXCEPT ![room[c]] = @ \ slow[c]]
    /\ slow' = [slow EXCEPT ![c] = {}]
    /\ room' = [room EXCEPT ![c] = None]
    /\ Goto(c, "reading")
    /\ UNCHANGED <<joined, strays, tcp, sendClosed, todo, target, leaked, notifyVars, userVars>>

\* ReadMessage fails.
ReadError(c) ==
    /\ pc[c] = "reading"
    /\ tcp[c] = "closed"
    /\ Goto(c, "leaving")
    /\ UNCHANGED <<mapVars, tcp, sendClosed, castVars, target, leaked, notifyVars, userVars>>

\* Mutant: nothing is cleaned up once the user has another connection.
CleanUpIfCurrent(c) ==
    LET u == UserOf[c]
    IN  /\ pc[c] = "leaving"
        /\ LockFree
        /\ IF clients[u] = c
           THEN /\ rooms' = [r \in Rooms |-> IF r \in joined[c] THEN rooms[r] \ {u} ELSE rooms[r]]
                /\ clients' = [clients EXCEPT ![u] = None]
           ELSE UNCHANGED <<rooms, clients>>
        /\ Goto(c, "closing")
        /\ UNCHANGED <<joined, strays, tcp, sendClosed, castVars, target, leaked, notifyVars, userVars>>

\* Mutant: an evicted connection, whose channel is closed, keeps its entry.
CleanUpIfOpen(c) ==
    LET u == UserOf[c]
    IN  /\ pc[c] = "leaving"
        /\ LockFree
        /\ rooms' = [r \in Rooms |-> IF r \in joined[c] THEN rooms[r] \ {u} ELSE rooms[r]]
        /\ clients' = IF c \in sendClosed THEN clients ELSE [clients EXCEPT ![u] = None]
        /\ Goto(c, "closing")
        /\ UNCHANGED <<joined, strays, tcp, sendClosed, castVars, target, leaked, notifyVars, userVars>>

\* The deferred function takes the user off its rooms and removes the user's
\* connection, be it this one or another.
CleanUp(c) ==
    LET u == UserOf[c]
    IN  /\ pc[c] = "leaving"
        /\ LockFree
        /\ rooms' = [r \in Rooms |-> IF r \in joined[c] THEN rooms[r] \ {u} ELSE rooms[r]]
        /\ clients' = [clients EXCEPT ![u] = None]
        /\ Goto(c, "closing")
        /\ UNCHANGED <<joined, strays, tcp, sendClosed, castVars, target, leaked, notifyVars, userVars>>

CloseConn(c) ==
    /\ pc[c] = "closing"
    /\ sendClosed' = sendClosed \cup {c}
    /\ tcp' = [tcp EXCEPT ![c] = "closed"]
    /\ Goto(c, "offline")
    /\ UNCHANGED <<mapVars, castVars, target, leaked, notifyVars, userVars>>

SignOff(c) ==
    /\ pc[c] = "offline"
    /\ SetStatus(UserOf[c], "offline")
    /\ Goto(c, "done")
    /\ UNCHANGED <<mapVars, tcp, sendClosed, castVars, target, leaked, notifyVars>>

--------------------------------------------------------------------------------
(* writePump and the network                                               *)

\* Mutant: writePump leaves it to readPump to close the connection.
WriterExitAfterReader(c) ==
    /\ pc[c] \in {"leaving", "closing"}
    /\ tcp[c] = "open"
    /\ c \in sendClosed
    /\ tcp' = [tcp EXCEPT ![c] = "closed"]
    /\ UNCHANGED <<mapVars, pc, sendClosed, castVars, target, leaked, notifyVars, userVars>>

\* Send is closed: after what is left in it writePump says goodbye and closes
\* the connection.
WriterExit(c) ==
    /\ pc[c] \notin {"new", "registered"}
    /\ tcp[c] = "open"
    /\ c \in sendClosed
    /\ tcp' = [tcp EXCEPT ![c] = "closed"]
    /\ UNCHANGED <<mapVars, pc, sendClosed, castVars, target, leaked, notifyVars, userVars>>

\* The peer goes, or a read or write deadline passes.
LoseConn(c) ==
    /\ tcp[c] = "open"
    /\ tcp' = [tcp EXCEPT ![c] = "closed"]
    /\ UNCHANGED <<mapVars, pc, sendClosed, castVars, target, leaked, notifyVars, userVars>>

--------------------------------------------------------------------------------
(* The consumers of RabbitMQ events, and SendToUser                        *)

MoveTo(n, where) == notifyPc' = [notifyPc EXCEPT ![n] = where]

\* A service publishes an event to a durable queue; no event is published
\* twice.  A queue outlives the gateway and its connections.
Publish(e) ==
    /\ e \notin queued \cup acked \cup {held[n] : n \in Notifiers}
    /\ queued' = queued \cup {e}
    /\ UNCHANGED <<mapVars, pc, tcp, sendClosed, castVars, target, leaked, notifyPc, broker, acked,
                   heldVars, userVars>>

\* Mutant: consume with autoAck.
TakeAutoAck(n, e) ==
    /\ notifyPc[n] = "idle"
    /\ e \in queued /\ QueueOf[e] = n
    /\ queued' = queued \ {e}
    /\ acked' = acked \cup {e}
    /\ held' = [held EXCEPT ![n] = e]
    /\ toTell' = [toTell EXCEPT ![n] = Recipients[e]]
    /\ MoveTo(n, "telling")
    /\ UNCHANGED <<mapVars, pc, tcp, sendClosed, castVars, target, leaked, broker, settled, userVars>>

\* A delivery, for those that its handler sends it to.  Its body is what the
\* services marshal, so that no handler fails and no event is rejected.
Take(n, e) ==
    /\ notifyPc[n] = "idle"
    /\ e \in queued /\ QueueOf[e] = n
    /\ queued' = queued \ {e}
    /\ held' = [held EXCEPT ![n] = e]
    /\ toTell' = [toTell EXCEPT ![n] = Recipients[e]]
    /\ MoveTo(n, "telling")
    /\ UNCHANGED <<mapVars, pc, tcp, sendClosed, castVars, target, leaked, broker, acked, settled, userVars>>

\* SendToUser: the lookup under the read lock, which is released again.
Lookup(n, u) ==
    /\ notifyPc[n] = "telling"
    /\ u \in toTell[n]
    /\ toTell' = [toTell EXCEPT ![n] = @ \ {u}]
    /\ \/ /\ clients[u] = None
          /\ settled' = settled \cup {<<held[n], u>>}
          /\ UNCHANGED <<target, notifyPc>>
       \/ /\ clients[u] # None
          /\ target' = [target EXCEPT ![n] = clients[u]]
          /\ MoveTo(n, "looked")
          /\ UNCHANGED settled
    /\ UNCHANGED <<mapVars, pc, tcp, sendClosed, castVars, leaked, brokerVars, held, userVars>>

\* trySend reads the flag.
LoadClosed(n) ==
    /\ notifyPc[n] = "looked"
    /\ MoveTo(n, IF target[n] \in sendClosed THEN "evicting" ELSE "loaded")
    /\ UNCHANGED <<mapVars, pc, tcp, sendClosed, castVars, target, leaked, brokerVars, heldVars, userVars>>

\* The push has ended, with a connection that was told or that was no good.
Settle(n) ==
    /\ settled' = settled \cup {<<held[n], UserOf[target[n]]>>}
    /\ target' = [target EXCEPT ![n] = None]
    /\ MoveTo(n, "telling")

\* trySend sends.  The panic ends the consumer, its delivery unacknowledged.
PushUser(n) ==
    /\ notifyPc[n] = "loaded"
    /\ \/ /\ target[n] \in sendClosed
          /\ MoveTo(n, "dead")
          /\ target' = [target EXCEPT ![n] = None]
          /\ UNCHANGED <<sendClosed, settled>>
       \/ /\ target[n] \notin sendClosed
          /\ Settle(n)
          /\ UNCHANGED sendClosed
       \/ /\ target[n] \notin sendClosed
          /\ sendClosed' = sendClosed \cup {target[n]}
          /\ MoveTo(n, "evicting")
          /\ UNCHANGED <<target, settled>>
    /\ UNCHANGED <<mapVars, pc, tcp, castVars, leaked, brokerVars, held, toTell, userVars>>

EvictUser(n) ==
    /\ notifyPc[n] = "evicting"
    /\ LockFree
    /\ clients' = [clients EXCEPT ![UserOf[target[n]]] = None]
    /\ Settle(n)
    /\ UNCHANGED <<rooms, joined, strays, pc, tcp, sendClosed, castVars, leaked, brokerVars, held, toTell, userVars>>

\* Mutant: an event is acknowledged only if all whom it is for are connected.
AckIfConnected(n) ==
    /\ notifyPc[n] = "telling"
    /\ toTell[n] = {}
    /\ \A u \in Recipients[held[n]] : clients[u] # None
    /\ acked' = IF broker = "lost" THEN acked ELSE acked \cup {held[n]}
    /\ held' = [held EXCEPT ![n] = None]
    /\ MoveTo(n, IF broker = "lost" THEN "gone" ELSE "idle")
    /\ UNCHANGED <<mapVars, pc, tcp, sendClosed, castVars, target, leaked, broker, queued, toTell, settled, userVars>>

\* The Ack.  Once the connection is lost it fails, which is ignored, and the
\* consumer returns; nothing starts another.
Ack(n) ==
    /\ notifyPc[n] = "telling"
    /\ toTell[n] = {}
    /\ acked' = IF broker = "lost" THEN acked ELSE acked \cup {held[n]}
    /\ held' = [held EXCEPT ![n] = None]
    /\ MoveTo(n, IF broker = "lost" THEN "gone" ELSE "idle")
    /\ UNCHANGED <<mapVars, pc, tcp, sendClosed, castVars, target, leaked, broker, queued, toTell, settled, userVars>>

\* The connection to RabbitMQ closes: what was not acknowledged is queued
\* again, that of a consumer that still handles it included.  A consumer that
\* waits finds its channel of deliveries closed.
LoseBroker ==
    /\ broker = "up"
    /\ broker' = "lost"
    /\ queued' = queued \cup ({held[n] : n \in Notifiers} \ {None})
    /\ notifyPc' = [n \in Notifiers |-> IF notifyPc[n] = "idle" THEN "gone" ELSE notifyPc[n]]
    /\ UNCHANGED <<mapVars, pc, tcp, sendClosed, castVars, target, leaked, acked, heldVars, userVars>>

--------------------------------------------------------------------------------
Serve(c) == \/ Announce(c)
            \/ NextMember(c)
            \/ PushMember(c)
            \/ EndBroadcast(c)
            \/ EvictSlow(c)
            \/ ReadError(c)
            \/ CleanUp(c)
            \/ CloseConn(c)
            \/ SignOff(c)

\* The steps of a consumer.
Notify(n) == \/ \E e \in Events : Take(n, e)
             \/ \E u \in Users : Lookup(n, u)
             \/ LoadClosed(n)
             \/ PushUser(n)
             \/ EvictUser(n)
             \/ Ack(n)

Next ==
    \/ \E c \in Conns : \/ Accept(c)
                        \/ Serve(c)
                        \/ WriterExit(c)
                        \/ LoseConn(c)
                        \/ \E r \in Rooms : \/ JoinRoom(c, r)
                                            \/ LeaveRoom(c, r)
                                            \/ BeginBroadcast(c, r)
    \/ \E n \in Notifiers : Notify(n)
    \/ \E e \in Events : Publish(e)
    \/ LoseBroker

\* The Go scheduler runs every goroutine; RWMutex lets no reader pass a
\* waiting writer, so that the write lock is had in the end.  A goroutine
\* stands at one step at a time: strong fairness of all is that of each.
Fairness ==
    /\ \A c \in Conns : SF_vars(Serve(c)) /\ WF_vars(WriterExit(c))
    /\ \A n \in Notifiers : SF_vars(Notify(n))

Spec == Init /\ [][Next]_vars /\ Fairness

--------------------------------------------------------------------------------
(* Properties                                                              *)

\* Every removal from the registry goes by user and may hit another
\* connection, but no entry is left of a connection that was cleaned up
\* (gateway/ports/http/handlers/websocket_handler.go:199-216).
NoGhostRegistration ==
    \A u \in Users : clients[u] # None =>
        pc[clients[u]] \notin {"new", "closing", "offline", "done"}

\* A member of a room has a connection that will take the user off it again,
\* whatever reconnects and evictions came between, unless the user joined
\* while no connection was registered
\* (gateway/ports/http/handlers/websocket_handler.go:168-180 and :206-214).
MembershipTracked ==
    \A r \in Rooms : \A u \in rooms[r] :
        \/ <<u, r>> \in strays
        \/ \E c \in Conns : /\ UserOf[c] = u
                            /\ r \in joined[c]
                            /\ pc[c] \notin {"closing", "offline", "done"}

\* When the last connection of a user is gone, however connections overlapped,
\* the user is offline, unless a status call failed
\* (gateway/ports/http/handlers/websocket_handler.go:152-164 and :221-228).
LastOneOut ==
    \A u \in Users :
        (\A c \in Conns : UserOf[c] = u => pc[c] \in {"new", "done"})
            => presence[u] = "offline" \/ u \in unsaid

\* "prevents send-on-closed-channel": no push panics
\* (gateway/ports/http/handlers/websocket_handler.go:43).
NoSendOnClosed == ~leaked /\ \A n \in Notifiers : notifyPc[n] # "dead"

\* The goroutines of a connection that was closed, by the peer, a newcomer or
\* an eviction, come to an end, unless a push panics: a connection is closed
\* once and ended once, so that to have all ended again and again is to end
\* each (gateway/ports/http/handlers/websocket_handler.go:144-147).
ClosedConnectionsEnd ==
    []<>(\/ \A c \in Conns :
                pc[c] # "new" /\ (c \in sendClosed \/ tcp[c] = "closed") => pc[c] = "done"
         \/ ~NoSendOnClosed)

\* An event leaves its queue only after everybody whom it is for was told of
\* it or was not reachable, although consumers panic in between and their
\* connection is lost (gateway/ports/rabbitmq/rabbitmq_consumer.go:154-166).
AckedWhenSettled ==
    \A e \in acked : \A u \in Recipients[e] : <<e, u>> \in settled

\* Every event that was published is handled to the end, whatever connections
\* come, go and stall, unless a push panics or the consumers lose their
\* connection: one that has returned is not replaced
\* (gateway/ports/rabbitmq/rabbitmq_consumer.go:149-169).
EventsHandled ==
    []<>(\/ queued = {} /\ \A n \in Notifiers : held[n] = None
         \/ ~NoSendOnClosed
         \/ broker = "lost")

================================================================================
