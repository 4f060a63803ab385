------------------------------ MODULE ChatService ------------------------------
(***************************************************************************)
(* The chat service: CreateChat (and CreateRoom), EndChat (and DeleteRoom) *)
(* requests, and the single goroutine that consumes message.sent events to *)
(* refresh the activity time of a chat.                                    *)
(*                                                                         *)
(* EndChat and the consumer each read a whole row (FindByID), change it in *)
(* memory and write its status back (Save), in two statements with         *)
(* anything between them.  updated_at itself is not modelled.              *)
(*                                                                         *)
(* The queue chat-service.messages is durable and its messages persistent: *)
(* an event is redelivered until it is acknowledged.  The consumer does    *)
(* not reconnect: once its channel closes it is idle until the service is  *)
(* started again.                                                          *)
(***************************************************************************)
EXTENDS ChatTable, Naturals

CONSTANTS Enders,     \* EndChat requests
          MaxEvents   \* bound on the message.sent events of one chat

ASSUME MaxEventsAssumption == MaxEvents \in Nat

VARIABLES chats,      \* the chats table
          sent,       \* message.sent events published for each chat
          handled,    \* and those the consumer has acknowledged
          listening,  \* the consumer's channel is open
          working,    \* the chat whose event the consumer has in hand, or None
          copy,       \* the row it loaded
          endPc,      \* where each EndChat request stands
          endChat     \* the chat it loaded

consumerVars == <<sent, handled, listening, working, copy>>
endVars      == <<endPc, endChat>>
vars         == <<chats, consumerVars, endVars>>

None == "no chat"

ASSUME NoneAssumption == None \notin ChatIds

TypeOK ==
    /\ chats \in [ChatIds -> Chat \cup {NoChat}]
    /\ sent \in [ChatIds -> 0..MaxEvents]
    /\ handled \in [ChatIds -> 0..MaxEvents]
    /\ listening \in BOOLEAN
    /\ working \in ChatIds \cup {None}
    /\ copy \in Chat \cup {NoChat}
    /\ endPc \in [Enders -> {"idle", "loaded", "ended", "failed"}]
    /\ endChat \in [Enders -> ChatIds \cup {None}]

Init ==
    /\ chats = [c \in ChatIds |-> NoChat]
    /\ sent = [c \in ChatIds |-> 0]
    /\ handled = [c \in ChatIds |-> 0]
    /\ listening \in BOOLEAN
    /\ working = None
    /\ copy = NoChat
    /\ endPc = [e \in Enders |-> "idle"]
    /\ endChat = [e \in Enders |-> None]

Exists(c) == chats[c] # NoChat

--------------------------------------------------------------------------------
(* Requests                                                                *)

\* The handler refuses a chat with oneself and leaves every other conflict
\* to the indexes: it looks nothing up before the insert.
CreateChat(c, u, v) ==
    /\ ~Exists(c)
    /\ u # v
    /\ SaveAllowed(chats, c, NewChat(u, v))
    /\ chats' = [chats EXCEPT ![c] = NewChat(u, v)]
    /\ UNCHANGED <<consumerVars, endVars>>

\* FindByID, IsParticipant, and End on the copy, which refuses a chat that
\* has already ended.
LoadEnd(e, c, u) ==
    /\ endPc[e] = "idle"
    /\ Exists(c)
    /\ u \in Participants(chats[c])
    /\ chats[c].status = "active"
    /\ endPc' = [endPc EXCEPT ![e] = "loaded"]
    /\ endChat' = [endChat EXCEPT ![e] = c]
    /\ UNCHANGED <<chats, consumerVars>>

\* Mutant: Save before End, so that the row keeps the status it was loaded
\* with.
StoreEndFirst(e) ==
    /\ endPc[e] = "loaded"
    /\ SaveAllowed(chats, endChat[e], [chats[endChat[e]] EXCEPT !.status = "active"])
    /\ chats' = [chats EXCEPT ![endChat[e]].status = "active"]
    /\ endPc' = [endPc EXCEPT ![e] = "ended"]
    /\ UNCHANGED <<consumerVars, endChat>>

\* Save of the ended copy: an upsert that writes the status; an ended row is
\* in neither partial index, so that nothing refuses it.
StoreEnd(e) ==
    /\ endPc[e] = "loaded"
    /\ chats' = [chats EXCEPT ![endChat[e]].status = "ended"]
    /\ endPc' = [endPc EXCEPT ![e] = "ended"]
    /\ UNCHANGED <<consumerVars, endChat>>

\* The database fails, or the service stops, after FindByID; the Save may
\* have been committed and its reply lost.
FailEnd(e) ==
    /\ endPc[e] = "loaded"
    /\ endPc' = [endPc EXCEPT ![e] = "failed"]
    /\ \/ UNCHANGED chats
       \/ chats' = [chats EXCEPT ![endChat[e]].status = "ended"]
    /\ UNCHANGED <<consumerVars, endChat>>

--------------------------------------------------------------------------------
(* The activity consumer                                                   *)

\* The message service has saved a message of a participant, in an active or
\* an ended chat, and published message.sent.
MessageSent(c) ==
    /\ Exists(c)
    /\ sent[c] < MaxEvents
    /\ sent' = [sent EXCEPT ![c] = @ + 1]
    /\ UNCHANGED <<chats, handled, listening, working, copy, endVars>>

\* A delivery, and FindByID.
LoadActivity(c) ==
    /\ listening
    /\ working = None
    /\ handled[c] < sent[c]
    /\ working' = c
    /\ copy' = chats[c]
    /\ UNCHANGED <<chats, sent, handled, listening, endVars>>

\* UpdateActivity, and the upsert of the whole copy.
SaveCopy ==
    /\ working # None
    /\ SaveAllowed(chats, working, copy)
    /\ chats' = [chats EXCEPT ![working].status = copy.status]

\* Save, then Ack.
StoreActivity ==
    /\ SaveCopy
    /\ handled' = [handled EXCEPT ![working] = @ + 1]
    /\ working' = None
    /\ copy' = NoChat
    /\ UNCHANGED <<sent, listening, endVars>>

\* Mutant: after an error the delivery is retried with the copy in hand.
RetryActivity ==
    /\ working # None
    /\ UNCHANGED vars

\* Any error, a refused Save and one whose reply was lost included: Nack with
\* requeue.
NackActivity ==
    /\ working # None
    /\ working' = None
    /\ copy' = NoChat
    /\ SaveCopy \/ UNCHANGED chats
    /\ UNCHANGED <<sent, handled, listening, endVars>>

\* The channel closes, at any point of a delivery: before Save, or between
\* Save and Ack.  The broker requeues what was not acknowledged.
LoseChannel ==
    /\ listening
    /\ listening' = FALSE
    /\ working' = None
    /\ copy' = NoChat
    /\ SaveCopy \/ UNCHANGED chats
    /\ UNCHANGED <<sent, handled, endVars>>

\* The service is started again.
Restart ==
    /\ ~listening
    /\ listening' = TRUE
    /\ UNCHANGED <<chats, sent, handled, working, copy, endVars>>

Consumer ==
    \/ \E c \in ChatIds : LoadActivity(c)
    \/ StoreActivity
    \/ NackActivity
    \/ LoseChannel
    \/ Restart

Next ==
    \/ \E c \in ChatIds : MessageSent(c) \/ \E u, v \in Users : CreateChat(c, u, v)
    \/ \E e \in Enders : (\E c \in ChatIds, u \in Users : LoadEnd(e, c, u))
                         \/ StoreEnd(e) \/ FailEnd(e)
    \/ Consumer

\* The goroutine keeps receiving, an error keeps being answered with a Nack,
\* and the database is not down whenever a Save is tried.
Fairness ==
    /\ WF_vars(\E c \in ChatIds : LoadActivity(c))
    /\ WF_vars(NackActivity)
    /\ SF_vars(StoreActivity)

Spec == Init /\ [][Next]_vars /\ Fairness

--------------------------------------------------------------------------------
(* Properties                                                              *)

\* An ended chat comes back only as a stale activity update: no interleaving
\* of EndChat and CreateChat requests makes it active again.
RevivedOnlyByStaleActivity ==
    [][\A c \in ChatIds :
         /\ chats[c].status = "ended"
         /\ chats'[c].status = "active"
         => working = c /\ copy.status = "active"]_vars

\* As long as the channel stays open every message.sent event is handled in
\* the end: an update the unique indexes refuse is not a poison message,
\* since its redelivery reads the row again.
EventsHandled ==
    <>[]listening => \A c \in ChatIds, n \in 1..MaxEvents :
        [](sent[c] >= n => <>(handled[c] >= n))

--------------------------------------------------------------------------------
(* The inductive invariant                                                 *)

\* What is held in memory belongs to an existing row: the consumer's copy has
\* the row's participants and its event is not yet acknowledged.
CopiesTracked ==
    /\ working = None => copy = NoChat
    /\ working # None =>
         /\ Exists(working)
         /\ copy \in Chat
         /\ copy.p1 = chats[working].p1
         /\ copy.p2 = chats[working].p2
         /\ handled[working] < sent[working]
    /\ \A e \in Enders : endPc[e] = "loaded" => endChat[e] \in ChatIds /\ Exists(endChat[e])
    /\ \A c \in ChatIds : sent[c] > 0 => Exists(c)

IInv == TypeOK /\ CopiesTracked

================================================================================
