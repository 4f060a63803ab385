---------------------------- MODULE MessageService ----------------------------
(***************************************************************************)
(* The message service: one table, and the RPCs that send, mark, delete    *)
(* and list messages.                                                      *)
(*                                                                         *)
(* SendMessage asks the chat service twice before it inserts.  MarkAsRead  *)
(* and DeleteMessage read a row, change a copy and write its flags back.   *)
(* GetMessages is called by a client that pages through a chat with LIMIT  *)
(* and OFFSET while all of this goes on.  What the events lead to is in    *)
(* the gateway's consumer, which pushes them to connected users.           *)
(***************************************************************************)
EXTENDS Naturals, FiniteSets

CONSTANTS Users, Chats,
          Members,    \* the participants of a chat, none if it does not exist
          Messages,   \* the calls of SendMessage, each with a fresh id
          ChatOf, SenderOf,
          Edits,      \* [nr, kind, of, by]: calls of MarkAsRead and DeleteMessage
          Limit,      \* page size
          ReaderChat, \* the chat the paging client reads
          MaxStamp,   \* bound on the clock
          None

Row == [read : BOOLEAN, deleted : BOOLEAN]

ASSUME MessageAssumption ==
    /\ Members \in [Chats -> SUBSET Users]
    /\ ChatOf \in [Messages -> Chats] /\ SenderOf \in [Messages -> Users]
    /\ Edits \subseteq [nr : Nat, kind : {"read", "delete"}, of : Messages, by : Users]
    /\ Limit \in Nat \ {0} /\ MaxStamp \in Nat /\ ReaderChat \in Chats
    /\ None \notin Row

VARIABLES rows,        \* the table; None where a message is not stored
          sendPc,      \* where each SendMessage stands
          stamp,       \* created_at, set before the message is stored
          clock,       \* the latest created_at given
          editPc, editCopy,   \* where each edit stands, and the row it read
          queue,       \* events that wait for the gateway's consumer
          reading,     \* "idle", "reading" or "done": the paging client
          offset,      \* what it asks for next
          seen,        \* the messages on the pages so far
          atStart,     \* auxiliary: those in the chat when it began
          removed,     \* auxiliary: those that have left the list since
          deletions,   \* auxiliary: how often one left it
          overlapped   \* auxiliary: messages of which a Save undid a change

tableVars == <<rows, overlapped>>
sendVars  == <<sendPc, stamp, clock>>
editVars  == <<editPc, editCopy>>
pageVars  == <<reading, offset, seen, atStart, removed, deletions>>
vars      == <<tableVars, sendVars, editVars, queue, pageVars>>

\* The event of an edit has the edit's name.
Sent(m) == [kind |-> "sent", of |-> m, by |-> SenderOf[m]]
Events  == Edits \cup {Sent(m) : m \in Messages}

TypeOK ==
    /\ rows \in [Messages -> Row \cup {None}]
    /\ sendPc \in [Messages -> {"idle", "made", "saved", "done", "failed"}]
    /\ stamp \in [Messages -> 0..MaxStamp]
    /\ clock \in 0..MaxStamp
    /\ editPc \in [Edits -> {"idle", "loaded", "saved", "done"}]
    /\ editCopy \in [Edits -> Row \cup {None}]
    /\ queue \subseteq Events
    /\ reading \in {"idle", "reading", "done"}
    /\ offset \in Nat /\ deletions \in Nat
    /\ {seen, atStart, removed, overlapped} \subseteq SUBSET Messages

Init ==
    /\ rows = [m \in Messages |-> None]
    /\ sendPc = [m \in Messages |-> "idle"]
    /\ stamp = [m \in Messages |-> 0]
    /\ clock = 0
    /\ editPc = [e \in Edits |-> "idle"]
    /\ editCopy = [e \in Edits |-> None]
    /\ queue = {}
    /\ reading = "idle" /\ offset = 0 /\ deletions = 0
    /\ seen = {} /\ atStart = {} /\ removed = {} /\ overlapped = {}

--------------------------------------------------------------------------------
(* SendMessage                                                             *)

\* What GetChat answers, as a chat's participants.  The chat service puts
\* every error into a response without a chat: no such chat, a stranger, a
\* failed query.
GetChat(c, u) == {IF u \in Members[c] THEN Members[c] ELSE {}, {}}

\* Mutant: an answer without a chat is taken for a failure and let through.
CheckMemberLenient(m) ==
    /\ sendPc[m] = "idle"
    /\ \E answer \in GetChat(ChatOf[m], SenderOf[m]) : answer = {} \/ SenderOf[m] \in answer
    /\ clock' \in clock..MaxStamp
    /\ stamp' = [stamp EXCEPT ![m] = clock']
    /\ sendPc' = [sendPc EXCEPT ![m] = "made"]
    /\ UNCHANGED <<tableVars, editVars, queue, pageVars>>

\* ChatExists, IsParticipant and NewMessage.  The first looks for the codes
\* NotFound and PermissionDenied, which GetChat does not use: with any answer
\* at all the chat is taken to exist.  created_at is the time of now, which
\* may be that of the message before.
CheckMember(m) ==
    /\ sendPc[m] = "idle"
    /\ \E answer \in GetChat(ChatOf[m], SenderOf[m]) : SenderOf[m] \in answer
    /\ clock' \in clock..MaxStamp
    /\ stamp' = [stamp EXCEPT ![m] = clock']
    /\ sendPc' = [sendPc EXCEPT ![m] = "made"]
    /\ UNCHANGED <<tableVars, editVars, queue, pageVars>>

\* Save of a new id: the INSERT.  If its answer is lost the RPC fails.
Insert(m) ==
    /\ sendPc[m] = "made"
    /\ rows' = [rows EXCEPT ![m] = [read |-> FALSE, deleted |-> FALSE]]
    /\ sendPc' = [sendPc EXCEPT ![m] = "saved"] \/ sendPc' = [sendPc EXCEPT ![m] = "failed"]
    /\ UNCHANGED <<overlapped, stamp, clock, editVars, queue, pageVars>>

\* A call that fails without effect may be made again.
FailSend(m) ==
    /\ sendPc[m] = "made"
    /\ sendPc' = [sendPc EXCEPT ![m] = "idle"]
    /\ stamp' = [stamp EXCEPT ![m] = 0]
    /\ UNCHANGED <<tableVars, clock, editVars, queue, pageVars>>

\* PublishMessageSent; an error is only logged.
PublishSent(m) ==
    /\ sendPc[m] = "saved"
    /\ sendPc' = [sendPc EXCEPT ![m] = "done"]
    /\ \/ queue' = queue \cup {Sent(m)}
       \/ UNCHANGED queue
    /\ UNCHANGED <<tableVars, stamp, clock, editVars, pageVars>>

--------------------------------------------------------------------------------
(* MarkAsRead and DeleteMessage                                            *)

\* Only the sender may delete, and only another user may mark as read.
Authorized(e) == (e.by = SenderOf[e.of]) <=> (e.kind = "delete")

\* Mutant: a message may be marked, or deleted, any number of times.
AllowedAlways(e, row) == TRUE

\* Message.MarkAsRead and Message.Delete without their effect.
Allowed(e, row) == ~row.deleted /\ (e.kind = "read" => ~row.read)

LoadEdit(e) ==
    /\ editPc[e] = "idle"
    /\ rows[e.of] # None
    /\ Authorized(e)
    /\ Allowed(e, rows[e.of])
    /\ editPc' = [editPc EXCEPT ![e] = "loaded"]
    /\ editCopy' = [editCopy EXCEPT ![e] = rows[e.of]]
    /\ UNCHANGED <<tableVars, sendVars, queue, pageVars>>

\* The copy after MarkAsRead or Delete.
Edited(e) == IF e.kind = "read" THEN [editCopy[e] EXCEPT !.read = TRUE]
                                ELSE [editCopy[e] EXCEPT !.deleted = TRUE]

\* Mutant: the UPDATE leaves is_read out.
SetFlagsOfDeletion(e) ==
    rows' = [rows EXCEPT ![e.of].deleted = Edited(e).deleted]

\* Save of a known id: ON CONFLICT (id) DO UPDATE SET both flags.
SetFlags(e) == rows' = [rows EXCEPT ![e.of] = Edited(e)]

\* FindByChatID without its LIMIT and OFFSET.
Listed == {m \in Messages : rows[m] # None /\ ~rows[m].deleted /\ ChatOf[m] = ReaderChat}

\* What a write takes off the list the client pages through.  A deletion
\* that an overlapping Save undid may be made again.
LeaveList ==
    LET gone == IF reading = "reading" THEN Listed \ Listed' ELSE {}
    IN  removed' = removed \cup gone /\ deletions' = deletions + Cardinality(gone)

\* If the answer is lost the RPC fails, and may be made again.
StoreEdit(e) ==
    /\ editPc[e] = "loaded"
    /\ SetFlags(e)
    /\ overlapped' = IF editCopy[e] = rows[e.of] THEN overlapped ELSE overlapped \cup {e.of}
    /\ editPc' = [editPc EXCEPT ![e] = "saved"] \/ editPc' = [editPc EXCEPT ![e] = "idle"]
    /\ editCopy' = [editCopy EXCEPT ![e] = None]
    /\ LeaveList
    /\ UNCHANGED <<sendVars, queue, reading, offset, seen, atStart>>

FailEdit(e) ==
    /\ editPc[e] = "loaded"
    /\ editPc' = [editPc EXCEPT ![e] = "idle"]
    /\ editCopy' = [editCopy EXCEPT ![e] = None]
    /\ UNCHANGED <<tableVars, sendVars, queue, pageVars>>

\* The handler has returned; a goroutine of its own publishes the event.
PublishEdit(e) ==
    /\ editPc[e] = "saved"
    /\ editPc' = [editPc EXCEPT ![e] = "done"]
    /\ queue' = queue \cup {e} \/ UNCHANGED queue
    /\ UNCHANGED <<tableVars, sendVars, editCopy, pageVars>>

--------------------------------------------------------------------------------
(* The gateway's consumer                                                  *)

\* handleMessageEvent hands a notification to SendToUser and acknowledges the
\* event whatever becomes of it: of message.sent for RecipientID, which
\* SendMessage leaves empty, of the others for the user who caused them.
Push(v) ==
    /\ v \in queue
    /\ queue' = queue \ {v}
    /\ UNCHANGED <<tableVars, sendVars, editVars, pageVars>>

--------------------------------------------------------------------------------
(* GetMessages                                                             *)

Least(a, b) == IF a < b THEN a ELSE b

\* The sets that the first n messages may be, ORDER BY created_at DESC.
\* Messages with one created_at come in any order, not always the same.
Firsts(n) ==
    {F \in SUBSET Listed :
        /\ Cardinality(F) = Least(n, Cardinality(Listed))
        /\ \A x \in F, y \in Listed \ F : stamp[x] >= stamp[y]}

\* Mutant: ORDER BY is_read, created_at DESC.
UnreadFirsts(n) ==
    {F \in SUBSET Listed :
        /\ Cardinality(F) = Least(n, Cardinality(Listed))
        /\ \A x \in F, y \in Listed \ F :
              \/ ~rows[x].read /\ rows[y].read
              \/ rows[x].read = rows[y].read /\ stamp[x] >= stamp[y]}

\* Mutant: the pages of a list with unread messages first.
PagesUnreadFirst ==
    {P \in SUBSET Listed : \E F \in UnreadFirsts(offset), G \in UnreadFirsts(offset + Limit) :
                              F \subseteq G /\ P = G \ F}

\* What LIMIT and OFFSET may cut out of it.
Pages ==
    {P \in SUBSET Listed : \E F \in Firsts(offset), G \in Firsts(offset + Limit) :
                              F \subseteq G /\ P = G \ F}

\* A participant, whom IsParticipant lets through, opens the chat.
BeginReading ==
    /\ reading = "idle"
    /\ reading' = "reading"
    /\ atStart' = Listed
    /\ UNCHANGED <<tableVars, sendVars, editVars, queue, offset, seen, removed, deletions>>

\* A page; a short one is the last.
ReadPage ==
    /\ reading = "reading"
    /\ \E page \in Pages :
          /\ seen' = seen \cup page
          /\ reading' = IF Cardinality(page) < Limit THEN "done" ELSE "reading"
    /\ offset' = offset + Limit
    /\ UNCHANGED <<tableVars, sendVars, editVars, queue, atStart, removed, deletions>>

--------------------------------------------------------------------------------
Next ==
    \/ \E m \in Messages : CheckMember(m) \/ Insert(m) \/ FailSend(m) \/ PublishSent(m)
    \/ \E e \in Edits : LoadEdit(e) \/ StoreEdit(e) \/ FailEdit(e) \/ PublishEdit(e)
    \/ \E v \in Events : Push(v)
    \/ BeginReading \/ ReadPage

Spec == Init /\ [][Next]_vars

--------------------------------------------------------------------------------
(* Properties                                                              *)

\* A stored message was written by a participant of its chat, although the
\* chat service answers errors with success.
WritersBelong ==
    \A m \in Messages : rows[m] # None => SenderOf[m] \in Members[ChatOf[m]]

Succeeded(e) == editPc[e] \in {"saved", "done"}

Shows(e) == IF e.kind = "read" THEN rows[e.of].read ELSE rows[e.of].deleted

\* What a successful MarkAsRead or DeleteMessage did lasts, unless two edits
\* of the message overlapped.
EditsLast ==
    \A e \in Edits : Succeeded(e) => rows[e.of] # None /\ (Shows(e) \/ e.of \in overlapped)

\* A message is marked as read once and deleted once, unless two edits of it
\* overlapped.
EditedOnce ==
    \A e, f \in Edits :
        /\ e # f /\ e.kind = f.kind /\ e.of = f.of
        /\ Succeeded(e) /\ Succeeded(f)
        => e.of \in overlapped

\* A message is stored by its Save, and only those that were let through get
\* that far; an edit has a row, and a copy that it may change.
CallsTracked ==
    /\ \A m \in Messages :
          /\ rows[m] # None <=> sendPc[m] \in {"saved", "done", "failed"}
          /\ sendPc[m] # "idle" => SenderOf[m] \in Members[ChatOf[m]]
    /\ \A e \in Edits :
          /\ editPc[e] # "idle" => rows[e.of] # None
          /\ editPc[e] = "loaded" => editCopy[e] \in Row /\ Allowed(e, editCopy[e])

\* The inductive invariant of MessageServiceProofs.
IInv == TypeOK /\ CallsTracked /\ EditsLast /\ EditedOnce

Stored == {m \in Messages : rows[m] # None}

\* Two stored messages have one created_at.
Tied == \E x, y \in Stored : x # y /\ stamp[x] = stamp[y]

\* What the client may still miss: messages that were there when it began
\* and have not left the list since.
Missed == (atStart \ seen) \ removed

\* A client that has paged through a chat has seen every message that was
\* there from the start: new ones push others to later pages only, marking
\* moves none, and each deletion can hide at most one.
PagesMissOnlyByDeletion ==
    reading = "done" /\ ~Tied => Cardinality(Missed) <= deletions

\* The messages that come before m on the list.
Before(m) == {x \in Listed : stamp[x] > stamp[m]}

\* Those that the client has not seen and, with its next offset, skips.
Skipped == {m \in Missed : Cardinality(Before(m)) < offset}

\* The inductive invariant that PagesMissOnlyByDeletion needs: while the
\* client reads, each deletion has made it skip at most one message.
PagesInv ==
    /\ IsFiniteSet(Stored) /\ atStart \subseteq Stored
    /\ reading = "idle" => offset = 0
    /\ reading = "reading" => Missed \subseteq Listed
    /\ reading = "reading" /\ ~Tied => Cardinality(Skipped) <= deletions
    /\ PagesMissOnlyByDeletion

================================================================================
