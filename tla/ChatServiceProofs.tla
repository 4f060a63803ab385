--------------------------- MODULE ChatServiceProofs ---------------------------
(***************************************************************************)
(* Theorems about ChatService, for any number of users, chats, EndChat     *)
(* requests and events.                                                    *)
(***************************************************************************)
EXTENDS ChatService, TLAPS

LEMMA InsertedChat ==
    ASSUME NEW u \in Users, NEW v \in Users
    PROVE  /\ NewChat(u, v) \in Chat
           /\ NewChat(u, v).p1 = u
           /\ NewChat(u, v).p2 = v
           /\ NewChat(u, v).status = "active"
BY DEF NewChat, Chat

LEMMA NoChatIsNoRow == NoChat \notin Chat /\ NoChat.status = "none"
BY DEF NoChat, Chat

\* Writing a status changes that row alone, and nothing else of it.
StatusChange(table, new, c, s) ==
    /\ new \in [ChatIds -> Chat \cup {NoChat}]
    /\ \A d \in ChatIds : new[d] # NoChat <=> table[d] # NoChat
    /\ \A d \in ChatIds : new[d].p1 = table[d].p1 /\ new[d].p2 = table[d].p2
    /\ \A d \in ChatIds \ {c} : new[d] = table[d]
    /\ new[c].status = s

LEMMA StatusWritten ==
    ASSUME NEW table \in [ChatIds -> Chat \cup {NoChat}], NEW new,
           NEW c \in ChatIds, table[c] # NoChat,
           NEW s \in {"active", "ended"},
           new = [table EXCEPT ![c].status = s]
    PROVE  StatusChange(table, new, c, s)
<1>1. table[c] \in Chat
  OBVIOUS
<1>2. [table[c] EXCEPT !.status = s] \in Chat
  BY <1>1 DEF Chat
<1> QED
  BY <1>1, <1>2, NoChatIsNoRow DEF Chat, StatusChange

--------------------------------------------------------------------------------
(* The inductive invariant                                                 *)

LEMMA EndedTyped ==
    ASSUME IInv, NEW e \in Enders, endPc[e] = "loaded",
           chats' = [chats EXCEPT ![endChat[e]].status = "ended"]
    PROVE  endChat[e] \in ChatIds /\ StatusChange(chats, chats', endChat[e], "ended")
<1>1. endChat[e] \in ChatIds /\ chats[endChat[e]] # NoChat
  BY DEF IInv, CopiesTracked, Exists
<1>2. chats \in [ChatIds -> Chat \cup {NoChat}]
  BY DEF IInv, TypeOK
<1> QED
  BY <1>1, <1>2, StatusWritten

LEMMA CopySaved ==
    ASSUME IInv, SaveCopy
    PROVE  /\ working \in ChatIds
           /\ StatusChange(chats, chats', working, copy.status)
           /\ SaveAllowed(chats, working, copy)
<1>1. working \in ChatIds /\ chats[working] # NoChat /\ copy.status \in {"active", "ended"}
  BY DEF IInv, TypeOK, CopiesTracked, Exists, SaveCopy, Chat
<1>2. chats \in [ChatIds -> Chat \cup {NoChat}]
  BY DEF IInv, TypeOK
<1>3. SaveAllowed(chats, working, copy)
  BY DEF SaveCopy
<1>4. CASE copy.status = "active"
  <2>1. chats' = [chats EXCEPT ![working].status = "active"]
    BY <1>4 DEF SaveCopy
  <2>2. StatusChange(chats, chats', working, "active")
    BY <1>1, <1>2, <2>1, StatusWritten
  <2> QED BY <1>1, <1>3, <1>4, <2>2
<1>5. CASE copy.status = "ended"
  <2>1. chats' = [chats EXCEPT ![working].status = "ended"]
    BY <1>5 DEF SaveCopy
  <2>2. StatusChange(chats, chats', working, "ended")
    BY <1>1, <1>2, <2>1, StatusWritten
  <2> QED BY <1>1, <1>3, <1>5, <2>2
<1> QED
  BY <1>1, <1>4, <1>5

LEMMA IInvStep == IInv /\ [Next]_vars => IInv'
<1> SUFFICES ASSUME IInv, [Next]_vars PROVE IInv'
  OBVIOUS
<1> USE MaxEventsAssumption DEF IInv, TypeOK, CopiesTracked, Exists, consumerVars, endVars,
                                StatusChange
<1>1. ASSUME NEW c \in ChatIds, NEW u \in Users, NEW v \in Users, CreateChat(c, u, v)
      PROVE  IInv'
  BY <1>1, InsertedChat, NoChatIsNoRow DEF CreateChat
<1>2. ASSUME NEW e \in Enders, NEW c \in ChatIds, NEW u \in Users, LoadEnd(e, c, u)
      PROVE  IInv'
  BY <1>2 DEF LoadEnd
<1>3. ASSUME NEW e \in Enders, StoreEnd(e) PROVE IInv'
  <2>1. endChat[e] \in ChatIds /\ StatusChange(chats, chats', endChat[e], "ended")
    BY <1>3, EndedTyped DEF StoreEnd
  <2> QED BY <1>3, <2>1 DEF StoreEnd
<1>4. ASSUME NEW e \in Enders, FailEnd(e) PROVE IInv'
  <2>1. CASE UNCHANGED chats
    BY <1>4, <2>1 DEF FailEnd
  <2>2. CASE chats' = [chats EXCEPT ![endChat[e]].status = "ended"]
    <3>1. endChat[e] \in ChatIds /\ StatusChange(chats, chats', endChat[e], "ended")
      BY <1>4, <2>2, EndedTyped DEF FailEnd
    <3> QED BY <1>4, <3>1 DEF FailEnd
  <2> QED BY <1>4, <2>1, <2>2 DEF FailEnd
<1>5. ASSUME NEW c \in ChatIds, MessageSent(c) PROVE IInv'
  BY <1>5 DEF MessageSent
<1>6. ASSUME NEW c \in ChatIds, LoadActivity(c) PROVE IInv'
  <2>1. chats[c] \in Chat /\ c # None
    BY <1>6, NoneAssumption DEF LoadActivity
  <2> QED BY <1>6, <2>1 DEF LoadActivity
<1>7. CASE StoreActivity
  <2>1. working \in ChatIds /\ handled[working] + 1 \in 0..MaxEvents
    BY <1>7, CopySaved DEF StoreActivity, SaveCopy
  <2>2. handled' \in [ChatIds -> 0..MaxEvents]
    BY <1>7, <2>1 DEF StoreActivity
  <2>3. StatusChange(chats, chats', working, copy.status)
    BY <1>7, CopySaved DEF StoreActivity
  <2> QED BY <1>7, <2>1, <2>2, <2>3 DEF StoreActivity
<1>u. ASSUME UNCHANGED <<sent, handled, endVars>>, working' = None, copy' = NoChat,
             listening' \in BOOLEAN, SaveCopy \/ UNCHANGED chats
      PROVE  IInv'
  <2>1. CASE UNCHANGED chats
    BY <1>u, <2>1
  <2>2. CASE SaveCopy
    <3>1. working \in ChatIds /\ StatusChange(chats, chats', working, copy.status)
      BY <2>2, CopySaved
    <3> QED  BY <1>u, <3>1
  <2> QED  BY <1>u, <2>1, <2>2
<1>8. CASE NackActivity
  BY <1>8, <1>u DEF NackActivity
<1>9. CASE LoseChannel
  BY <1>9, <1>u DEF LoseChannel
<1>10. CASE Restart
  BY <1>10 DEF Restart
<1>11. CASE UNCHANGED vars
  BY <1>11 DEF vars
<1> QED
  BY <1>1, <1>2, <1>3, <1>4, <1>5, <1>6, <1>7, <1>8, <1>9, <1>10, <1>11
     DEF Next, Consumer

LEMMA IInvInit == Init => IInv
BY MaxEventsAssumption DEF Init, IInv, TypeOK, CopiesTracked

(* Every variable of the chat service keeps its type: no stale write-back   *)
(* leaves a row with a status or participants it could not have.            *)
THEOREM ChatTypeCorrect == Spec => []TypeOK
<1>1. IInv => TypeOK
  BY DEF IInv
<1> QED
  BY <1>1, IInvInit, IInvStep, PTL DEF Spec

--------------------------------------------------------------------------------
(* Only the consumer, holding a row it loaded while the chat was active,   *)
(* makes an ended chat active again.                                       *)
THEOREM RevivalIsStale == Spec => RevivedOnlyByStaleActivity
<1>1. IInv /\ [Next]_vars =>
        [\A c \in ChatIds :
           /\ chats[c].status = "ended"
           /\ chats'[c].status = "active"
           => working = c /\ copy.status = "active"]_vars
  <2> SUFFICES ASSUME IInv, Next, NEW c \in ChatIds,
                      chats[c].status = "ended", chats'[c].status = "active"
               PROVE  working = c /\ copy.status = "active"
    OBVIOUS
  <2>1. ASSUME NEW k \in ChatIds, NEW u \in Users, NEW v \in Users, CreateChat(k, u, v)
        PROVE  FALSE
    BY <2>1, NoChatIsNoRow DEF CreateChat, Exists, IInv, TypeOK
  <2>2. ASSUME NEW e \in Enders, StoreEnd(e) \/ FailEnd(e) PROVE FALSE
    BY <2>2, EndedTyped DEF StoreEnd, FailEnd, StatusChange
  <2>3. CASE SaveCopy
    BY <2>3, CopySaved DEF StatusChange
  <2>4. ASSUME chats' = chats PROVE FALSE
    BY <2>4
  <2> QED
    BY <2>1, <2>2, <2>3, <2>4 DEF Next, Consumer, LoadEnd, MessageSent, LoadActivity,
       StoreActivity, NackActivity, LoseChannel, Restart
<1> QED
  BY <1>1, IInvInit, IInvStep, PTL DEF Spec, RevivedOnlyByStaleActivity

================================================================================
