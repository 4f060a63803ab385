------------------------ MODULE WebSocketHandlerProofs ------------------------
(***************************************************************************)
(* Theorems about WebSocketHandler: what the registry keeps although every *)
(* removal goes by user name and may hit another connection of the user.   *)
(***************************************************************************)
EXTENDS WebSocketHandler, TLAPS

\* The registry maps a user to a connection of that user, which is served.
RegisteredServed ==
    \A u \in Users : clients[u] # None =>
        /\ UserOf[clients[u]] = u
        /\ pc[clients[u]] \notin {"new", "closing", "offline", "done"}

\* A goroutine that broadcasts or evicts knows its room.
RoomKnown == \A c \in Conns : pc[c] \in {"casting", "evicting"} => room[c] \in Rooms

\* A consumer with a client in its hands has one, and an event.
TargetKnown ==
    \A n \in Notifiers :
        /\ notifyPc[n] \in {"looked", "loaded", "evicting"} => target[n] \in Conns
        /\ notifyPc[n] \in {"telling", "looked", "loaded", "evicting"} => held[n] \in Events

\* Of those whom the event in hand is for, a consumer has settled all but
\* whom it has still to come to and whom it is pushing to.
HeldTracked ==
    \A n \in Notifiers : \A u \in Users :
        /\ notifyPc[n] \in {"telling", "looked", "loaded", "evicting"}
        /\ u \in Recipients[held[n]]
        => \/ u \in toTell[n]
           \/ <<held[n], u>> \in settled
           \/ notifyPc[n] # "telling" /\ UserOf[target[n]] = u

IInv == /\ TypeOK
        /\ RoomKnown
        /\ TargetKnown
        /\ RegisteredServed
        /\ MembershipTracked
        /\ LastOneOut
        /\ HeldTracked
        /\ AckedWhenSettled

Typed == TypeOK /\ RoomKnown /\ TargetKnown

LEMMA TypedInit == Init => Typed
<1> SUFFICES ASSUME Init PROVE Typed
  OBVIOUS
<1>1. TypeOK
  BY DEF Init, TypeOK
<1>2. RoomKnown /\ TargetKnown
  BY DEF Init, RoomKnown, TargetKnown
<1> QED  BY <1>1, <1>2 DEF Typed

\* What a status call may do to a user's status.
LEMMA StatusTyped ==
    ASSUME NEW u \in Users, NEW s \in {"online", "offline"}, TypeOK, SetStatus(u, s)
    PROVE  presence' \in [Users -> {"online", "offline"}] /\ unsaid' \subseteq Users
  BY DEF SetStatus, TypeOK

LEMMA TypedStep == Typed /\ [Next]_vars => Typed'
<1> SUFFICES ASSUME Typed, [Next]_vars PROVE Typed'
  OBVIOUS
<1> USE ConnsAssumption DEF Typed, RoomKnown, TargetKnown, Goto
<1>1. ASSUME NEW c \in Conns, Accept(c) PROVE Typed'
  <2>1. UserOf[c] \in Users /\ clients[UserOf[c]] \in Conns \cup {None}
    BY DEF TypeOK
  <2>2. tcp' \in [Conns -> {"none", "open", "closed"}]
    BY <1>1 DEF Accept, TypeOK
  <2>3. clients' \in [Users -> Conns \cup {None}] /\ sendClosed' \subseteq Conns
    BY <1>1, <2>1 DEF Accept, TypeOK
  <2> QED  BY <1>1, <2>2, <2>3 DEF Accept, TypeOK, castVars, notifyVars, brokerVars, heldVars, userVars
<1>2. ASSUME NEW c \in Conns, Announce(c) PROVE Typed'
  BY <1>2, StatusTyped DEF Announce, TypeOK, mapVars, castVars, notifyVars, brokerVars, heldVars
<1>3. ASSUME NEW c \in Conns, NextMember(c) PROVE Typed'
  <2>1. PICK u \in todo[c] :
          /\ todo' = [todo EXCEPT ![c] = @ \ {u}]
          /\ slow' = [slow EXCEPT ![c] = IF clients[u] \in sendClosed THEN @ \cup {u} ELSE @]
          /\ target' = [target EXCEPT ![c] = IF clients[u] \in sendClosed THEN None ELSE clients[u]]
    BY <1>3 DEF NextMember
  <2>2. u \in Users /\ clients[u] \in Conns \cup {None}
    BY DEF TypeOK
  <2>3. todo' \in [Conns -> SUBSET Users] /\ slow' \in [Conns -> SUBSET Users]
    BY <2>1, <2>2 DEF TypeOK
  <2>4. /\ target' \in [Threads -> Conns \cup {None}]
        /\ \A n \in Notifiers : target'[n] = target[n]
    BY <2>1, <2>2 DEF TypeOK, Threads
  <2> QED  BY <1>3, <2>3, <2>4 DEF NextMember, TypeOK, mapVars, notifyVars, brokerVars, heldVars, userVars
<1>4. ASSUME NEW c \in Conns, PushMember(c) PROVE Typed'
  <2>1. target[c] \in Conns /\ UserOf[target[c]] \in Users
    BY <1>4 DEF PushMember, TypeOK, Threads
  <2>2. /\ target' \in [Threads -> Conns \cup {None}]
        /\ \A n \in Notifiers : target'[n] = target[n]
    BY <1>4 DEF PushMember, TypeOK, Threads
  <2>3. CASE target[c] \in sendClosed
    <3>1. /\ leaked' = TRUE
          /\ pc' = [pc EXCEPT ![c] = "leaving"]
          /\ room' = [room EXCEPT ![c] = None]
          /\ todo' = [todo EXCEPT ![c] = {}]
          /\ slow' = [slow EXCEPT ![c] = {}]
          /\ UNCHANGED <<mapVars, tcp, sendClosed, notifyVars, userVars>>
      BY <1>4, <2>3 DEF PushMember
    <3>2. /\ pc' \in [Conns -> {"new", "registered", "reading", "casting", "evicting",
                                "leaving", "closing", "offline", "done"}]
          /\ room' \in [Conns -> Rooms \cup {None}]
          /\ todo' \in [Conns -> SUBSET Users]
          /\ slow' \in [Conns -> SUBSET Users]
      BY <3>1 DEF TypeOK
    <3>3. TypeOK'
      BY <2>2, <3>1, <3>2 DEF TypeOK, mapVars, notifyVars, brokerVars, heldVars, userVars
    <3>4. RoomKnown' /\ TargetKnown'
      BY <2>2, <3>1 DEF TypeOK, notifyVars, brokerVars, heldVars
    <3> QED  BY <3>3, <3>4
  <2>4. CASE target[c] \notin sendClosed
    <3>1. /\ slow' \in [Conns -> SUBSET Users]
          /\ sendClosed' \subseteq Conns
      BY <1>4, <2>1, <2>4 DEF PushMember, TypeOK, castVars
    <3>2. UNCHANGED <<mapVars, pc, tcp, room, todo, leaked, notifyVars, userVars>>
      BY <1>4, <2>4 DEF PushMember, castVars
    <3> QED  BY <2>2, <3>1, <3>2 DEF TypeOK, mapVars, notifyVars, brokerVars, heldVars, userVars
  <2> QED  BY <2>3, <2>4
<1>5. ASSUME NEW c \in Conns, EndBroadcast(c) PROVE Typed'
  BY <1>5 DEF EndBroadcast, TypeOK, mapVars, notifyVars, brokerVars, heldVars, userVars
<1>6. ASSUME NEW c \in Conns, EvictSlow(c) PROVE Typed'
  BY <1>6 DEF EvictSlow, TypeOK, notifyVars, brokerVars, heldVars, userVars
<1>7. ASSUME NEW c \in Conns, CleanUp(c) PROVE Typed'
  BY <1>7 DEF CleanUp, TypeOK, castVars, notifyVars, brokerVars, heldVars, userVars
<1>8. ASSUME NEW c \in Conns, ReadError(c) \/ CloseConn(c) \/ WriterExit(c) \/ LoseConn(c)
      PROVE  Typed'
  BY <1>8 DEF ReadError, CloseConn, WriterExit, LoseConn, TypeOK, mapVars, castVars, notifyVars, brokerVars, heldVars, userVars
<1>9. ASSUME NEW c \in Conns, SignOff(c) PROVE Typed'
  BY <1>9, StatusTyped DEF SignOff, TypeOK, mapVars, castVars, notifyVars, brokerVars, heldVars
<1>10. ASSUME NEW c \in Conns, NEW r \in Rooms, JoinRoom(c, r) PROVE Typed'
  <2>1. UserOf[c] \in Users
    OBVIOUS
  <2> QED  BY <1>10, <2>1 DEF JoinRoom, TypeOK, castVars, notifyVars, brokerVars, heldVars, userVars
<1>11. ASSUME NEW c \in Conns, NEW r \in Rooms, LeaveRoom(c, r) PROVE Typed'
  <2>1. UserOf[c] \in Users
    OBVIOUS
  <2> QED  BY <1>11, <2>1 DEF LeaveRoom, TypeOK, castVars, notifyVars, brokerVars, heldVars, userVars
<1>12. ASSUME NEW c \in Conns, NEW r \in Rooms, BeginBroadcast(c, r) PROVE Typed'
  BY <1>12 DEF BeginBroadcast, TypeOK, mapVars, notifyVars, brokerVars, heldVars, userVars
<1>13. ASSUME NEW n \in Notifiers, Notify(n) PROVE Typed'
  <2> USE DEF TypeOK, Threads, mapVars, castVars, userVars, brokerVars, heldVars, MoveTo
  <2>1. ASSUME NEW e \in Events, Take(n, e) PROVE Typed'
    BY <2>1 DEF Take
  <2>2. ASSUME NEW u \in Users, Lookup(n, u) PROVE Typed'
    BY <2>2 DEF Lookup
  <2>3. CASE LoadClosed(n)
    BY <2>3 DEF LoadClosed
  <2>4. ASSUME Settle(n), target[n] \in Conns, held[n] \in Events
        PROVE  /\ settled' \subseteq Events \X Users
               /\ target' \in [Threads -> Conns \cup {None}]
               /\ notifyPc' = [notifyPc EXCEPT ![n] = "telling"]
               /\ \A m \in Notifiers \ {n} : target'[m] = target[m]
    BY <2>4 DEF Settle
  <2>5. CASE PushUser(n)
    <3>1. UNCHANGED <<mapVars, pc, tcp, castVars, leaked, brokerVars, held, toTell, userVars>>
      BY <2>5 DEF PushUser
    <3>2. target[n] \in Conns /\ held[n] \in Events
      BY <2>5 DEF PushUser
    <3>3. CASE Settle(n) /\ UNCHANGED sendClosed
      <4>1. TypeOK'
        BY <2>4, <3>1, <3>2, <3>3
      <4>2. RoomKnown' /\ TargetKnown'
        BY <2>4, <3>1, <3>2, <3>3
      <4> QED  BY <4>1, <4>2
    <3>4. CASE MoveTo(n, "dead") /\ target' = [target EXCEPT ![n] = None] /\ UNCHANGED <<sendClosed, settled>>
      BY <3>1, <3>4
    <3>5. CASE sendClosed' = sendClosed \cup {target[n]} /\ MoveTo(n, "evicting") /\ UNCHANGED <<target, settled>>
      BY <3>1, <3>2, <3>5
    <3> QED  BY <2>5, <3>3, <3>4, <3>5 DEF PushUser
  <2>6. CASE EvictUser(n)
    <3>1. /\ clients' = [clients EXCEPT ![UserOf[target[n]]] = None] /\ Settle(n)
          /\ UNCHANGED <<rooms, joined, strays, pc, tcp, sendClosed, castVars, leaked, brokerVars,
                         held, toTell, userVars>>
      BY <2>6 DEF EvictUser
    <3>2. target[n] \in Conns /\ held[n] \in Events
      BY <2>6 DEF EvictUser
    <3>3. clients' \in [Users -> Conns \cup {None}]
      BY <3>1, <3>2
    <3>4. TypeOK'
      BY <2>4, <3>1, <3>2, <3>3
    <3>5. RoomKnown' /\ TargetKnown'
      BY <2>4, <3>1, <3>2
    <3> QED  BY <3>4, <3>5
  <2>7. CASE Ack(n)
    BY <2>7 DEF Ack
  <2> QED  BY <1>13, <2>1, <2>2, <2>3, <2>5, <2>6, <2>7 DEF Notify
<1>14. ASSUME (\E e \in Events : Publish(e)) \/ LoseBroker PROVE Typed'
  BY <1>14 DEF Publish, LoseBroker, TypeOK, mapVars, castVars, userVars, heldVars
<1>15. CASE UNCHANGED vars
  BY <1>15 DEF vars, mapVars, castVars, notifyVars, brokerVars, heldVars, userVars, TypeOK
<1> QED
  BY <1>1, <1>2, <1>3, <1>4, <1>5, <1>6, <1>7, <1>8, <1>9, <1>10, <1>11, <1>12, <1>13, <1>14, <1>15
     DEF Next, Serve

--------------------------------------------------------------------------------
\* RegisteredServed is disturbed by what registers or ends a connection: a
\* newcomer registers itself, and a connection ends by leaving the registry.
LEMMA RegisteredStep == Typed /\ RegisteredServed /\ [Next]_vars => RegisteredServed'
<1> SUFFICES ASSUME Typed, RegisteredServed, [Next]_vars PROVE RegisteredServed'
  OBVIOUS
<1> USE ConnsAssumption DEF Typed, TypeOK, RegisteredServed, Goto
<1>1. ASSUME NEW c \in Conns, Accept(c) PROVE RegisteredServed'
  BY <1>1 DEF Accept
<1>2. ASSUME NEW c \in Conns, EvictSlow(c) \/ CleanUp(c) PROVE RegisteredServed'
  BY <1>2 DEF EvictSlow, CleanUp
<1>3. ASSUME NEW n \in Notifiers, EvictUser(n) PROVE RegisteredServed'
  BY <1>3 DEF EvictUser
<1>4. ASSUME NEW c \in Conns, Serve(c), ~EvictSlow(c), ~CleanUp(c) PROVE RegisteredServed'
  <2>1. clients' = clients
    BY <1>4 DEF Serve, Announce, NextMember, PushMember, EndBroadcast, ReadError, CloseConn, SignOff, mapVars
  <2>2. \A d \in Conns : pc[d] \notin {"new", "closing", "offline", "done"} =>
            pc'[d] \notin {"new", "closing", "offline", "done"}
    BY <1>4 DEF Serve, Announce, NextMember, PushMember, EndBroadcast, ReadError, CloseConn, SignOff
  <2> QED  BY <2>1, <2>2
<1>5. ASSUME NEW c \in Conns,
             WriterExit(c) \/ LoseConn(c) \/
             \E r \in Rooms : JoinRoom(c, r) \/ LeaveRoom(c, r) \/ BeginBroadcast(c, r)
      PROVE  RegisteredServed'
  BY <1>5 DEF WriterExit, LoseConn, JoinRoom, LeaveRoom, BeginBroadcast, mapVars
<1>6. ASSUME NEW n \in Notifiers, Notify(n), ~EvictUser(n) PROVE RegisteredServed'
  BY <1>6 DEF Lookup, Notify, Take, LoadClosed, PushUser, Ack, mapVars
<1>7. CASE (\E e \in Events : Publish(e)) \/ LoseBroker \/ UNCHANGED vars
  BY <1>7 DEF Publish, LoseBroker, vars, mapVars
<1> QED  BY <1>1, <1>2, <1>3, <1>4, <1>5, <1>6, <1>7 DEF Next

\* A connection of u that still has to take u off room r.
Keeper(c, u, r) ==
    /\ UserOf[c] = u
    /\ r \in joined[c]
    /\ pc[c] \notin {"closing", "offline", "done"}

LEMMA MembershipStep ==
    Typed /\ RegisteredServed /\ MembershipTracked /\ [Next]_vars => MembershipTracked'
<1> SUFFICES ASSUME Typed, RegisteredServed, MembershipTracked, [Next]_vars PROVE MembershipTracked'
  OBVIOUS
<1>k. \A r \in Rooms : \A u \in rooms[r] : <<u, r>> \in strays \/ \E c \in Conns : Keeper(c, u, r)
  BY DEF MembershipTracked, Keeper
<1>g. ASSUME \A r \in Rooms : \A u \in rooms'[r] :
                <<u, r>> \in strays' \/ \E c \in Conns : Keeper(c, u, r)'
      PROVE  MembershipTracked'
  BY <1>g DEF MembershipTracked, Keeper
<1> USE DEF Typed, TypeOK, Goto
<1>1. ASSUME NEW c \in Conns, Accept(c) PROVE MembershipTracked'
  BY <1>1, <1>k, <1>g DEF Accept, Keeper
<1>2. ASSUME NEW c \in Conns, NEW r \in Rooms, JoinRoom(c, r) PROVE MembershipTracked'
  <2>1. UserOf[c] \in Users
    BY ConnsAssumption
  <2>2. ASSUME NEW q \in Rooms, NEW u \in rooms'[q]
        PROVE  <<u, q>> \in strays' \/ \E d \in Conns : Keeper(d, u, q)'
    <3>1. CASE u \in rooms[q]
      <4>1. \A d \in Conns : Keeper(d, u, q) => Keeper(d, u, q)'
        BY <1>2 DEF JoinRoom, Keeper
      <4>2. strays \subseteq strays'
        BY <1>2 DEF JoinRoom
      <4> QED  BY <3>1, <4>1, <4>2, <1>k
    <3>2. CASE u \notin rooms[q]
      <4>1. q = r /\ u = UserOf[c]
        BY <1>2, <3>2 DEF JoinRoom
      <4>2. CASE clients[u] = None
        BY <1>2, <4>1, <4>2 DEF JoinRoom
      <4>3. CASE clients[u] # None
        <5>1. /\ clients[u] \in Conns
              /\ UserOf[clients[u]] = u
              /\ pc[clients[u]] \notin {"closing", "offline", "done"}
          BY <2>1, <4>1, <4>3 DEF RegisteredServed
        <5>2. joined' = [joined EXCEPT ![clients[u]] = @ \cup {r}] /\ pc' = pc
          BY <1>2, <4>1, <4>3 DEF JoinRoom
        <5>3. Keeper(clients[u], u, q)'
          <6>1. clients'[u] = clients[u]
            BY <1>2 DEF JoinRoom
          <6>2. q \in joined'[clients[u]]
            BY <5>1, <5>2, <4>1
          <6> QED  BY <5>1, <5>2, <6>1, <6>2 DEF Keeper
        <5>4. clients'[u] = clients[u]
          BY <1>2 DEF JoinRoom
        <5> QED  BY <5>1, <5>3, <5>4
      <4> QED  BY <4>2, <4>3
    <3> QED  BY <3>1, <3>2
  <2> QED  BY <2>2, <1>g
<1>3. ASSUME NEW c \in Conns, NEW r \in Rooms, LeaveRoom(c, r) PROVE MembershipTracked'
  <2>1. ASSUME NEW q \in Rooms, NEW u \in rooms'[q]
        PROVE  <<u, q>> \in strays' \/ \E d \in Conns : Keeper(d, u, q)'
    <3>1. u \in rooms[q] /\ (q # r \/ u # UserOf[c])
      BY <1>3, <2>1 DEF LeaveRoom
    <3>2. CASE <<u, q>> \in strays
      BY <1>3, <3>1, <3>2 DEF LeaveRoom
    <3>3. ASSUME NEW d \in Conns, Keeper(d, u, q) PROVE Keeper(d, u, q)'
      <4>1. clients[UserOf[c]] # None => UserOf[clients[UserOf[c]]] = UserOf[c]
        BY ConnsAssumption DEF RegisteredServed
      <4>2. q \in joined'[d]
        BY <1>3, <3>1, <3>3, <4>1 DEF LeaveRoom, Keeper
      <4>3. pc' = pc
        BY <1>3 DEF LeaveRoom
      <4> QED  BY <3>3, <4>2, <4>3 DEF Keeper
    <3> QED  BY <3>1, <3>2, <3>3, <1>k
  <2> QED  BY <2>1, <1>g
<1>4. ASSUME NEW c \in Conns, CleanUp(c) PROVE MembershipTracked'
  <2>1. ASSUME NEW q \in Rooms, NEW u \in rooms'[q]
        PROVE  <<u, q>> \in strays' \/ \E d \in Conns : Keeper(d, u, q)'
    <3>1. u \in rooms[q] /\ (q \notin joined[c] \/ u # UserOf[c])
      BY <1>4, <2>1 DEF CleanUp
    <3>2. strays' = strays
      BY <1>4 DEF CleanUp
    <3>3. ASSUME NEW d \in Conns, Keeper(d, u, q) PROVE Keeper(d, u, q)'
      <4>1. d # c
        BY <3>1, <3>3 DEF Keeper
      <4> QED  BY <1>4, <3>3, <4>1 DEF CleanUp, Keeper
    <3> QED  BY <3>1, <3>2, <3>3, <1>k
  <2> QED  BY <2>1, <1>g
<1>5. ASSUME NEW c \in Conns, EvictSlow(c) PROVE MembershipTracked'
  <2>1. ASSUME NEW q \in Rooms, NEW u \in rooms'[q]
        PROVE  u \in rooms[q]
    BY <1>5, <2>1 DEF EvictSlow
  <2>2. strays' = strays /\ \A u, q : \A d \in Conns : Keeper(d, u, q) => Keeper(d, u, q)'
    BY <1>5 DEF EvictSlow, Keeper
  <2> QED  BY <2>1, <2>2, <1>g, <1>k
<1>6. ASSUME UNCHANGED <<rooms, joined, strays>>,
             \A d \in Conns : pc[d] \notin {"closing", "offline", "done"} =>
                 pc'[d] \notin {"closing", "offline", "done"}
      PROVE  MembershipTracked'
  BY <1>6, <1>k, <1>g DEF Keeper
<1>7. ASSUME NEW c \in Conns, Serve(c), ~EvictSlow(c), ~CleanUp(c) PROVE MembershipTracked'
  <2>1. UNCHANGED <<rooms, joined, strays>>
    BY <1>7 DEF Serve, Announce, NextMember, PushMember, EndBroadcast, ReadError, CloseConn, SignOff, mapVars
  <2>2. \A d \in Conns : pc[d] \notin {"closing", "offline", "done"} =>
            pc'[d] \notin {"closing", "offline", "done"}
    BY <1>7 DEF Serve, Announce, NextMember, PushMember, EndBroadcast, ReadError, CloseConn, SignOff
  <2> QED  BY <2>1, <2>2, <1>6
<1>8. ASSUME NEW c \in Conns, WriterExit(c) \/ LoseConn(c) \/ \E r \in Rooms : BeginBroadcast(c, r)
      PROVE  MembershipTracked'
  BY <1>8, <1>6 DEF WriterExit, LoseConn, BeginBroadcast, mapVars
<1>9. ASSUME NEW n \in Notifiers, Notify(n) PROVE MembershipTracked'
  BY <1>9, <1>6 DEF Notify, Take, Lookup, LoadClosed, PushUser, EvictUser, Ack, mapVars
<1>10. CASE (\E e \in Events : Publish(e)) \/ LoseBroker \/ UNCHANGED vars
  BY <1>10, <1>6 DEF Publish, LoseBroker, vars, mapVars
<1> QED
  BY <1>1, <1>2, <1>3, <1>4, <1>5, <1>7, <1>8, <1>9, <1>10 DEF Next

\* LastOneOut is inductive: a call "online" leaves its connection served, and
\* a connection is done only after its call "offline".
LEMMA LastOneOutStep == Typed /\ LastOneOut /\ [Next]_vars => LastOneOut'
<1> SUFFICES ASSUME Typed, LastOneOut, [Next]_vars PROVE LastOneOut'
  OBVIOUS
<1>t. /\ pc \in [Conns -> {"new", "registered", "reading", "casting", "evicting",
                           "leaving", "closing", "offline", "done"}]
      /\ presence \in [Users -> {"online", "offline"}]
      /\ \A c \in Conns : UserOf[c] \in Users
  BY ConnsAssumption DEF Typed, TypeOK
<1>s. ASSUME NEW c \in Conns, NEW status \in {"online", "offline"}, SetStatus(UserOf[c], status)
      PROVE  /\ presence'[UserOf[c]] = status \/ UserOf[c] \in unsaid'
             /\ \A u \in Users \ {UserOf[c]} :
                    presence'[u] = presence[u] /\ (u \in unsaid => u \in unsaid')
  BY <1>t, <1>s DEF SetStatus
<1>g. ASSUME NEW c \in Conns, NEW where, Goto(c, where)
      PROVE  pc'[c] = where /\ \A d \in Conns \ {c} : pc'[d] = pc[d]
  BY <1>t, <1>g DEF Goto
<1>1. ASSUME NEW c \in Conns, Announce(c) PROVE LastOneOut'
  <2>1. pc'[c] = "reading" /\ \A d \in Conns \ {c} : pc'[d] = pc[d]
    BY <1>1, <1>g DEF Announce
  <2>2. \A u \in Users \ {UserOf[c]} : presence'[u] = presence[u] /\ (u \in unsaid => u \in unsaid')
    BY <1>1, <1>s DEF Announce
  <2>3. ASSUME NEW u \in Users, u # UserOf[c],
               \A d \in Conns : UserOf[d] = u => pc'[d] \in {"new", "done"}
        PROVE  presence'[u] = "offline" \/ u \in unsaid'
    <3>1. \A d \in Conns : UserOf[d] = u => pc[d] \in {"new", "done"}
      BY <2>1, <2>3
    <3> QED  BY <2>2, <2>3, <3>1 DEF LastOneOut
  <2> QED  BY <2>1, <2>3 DEF LastOneOut
<1>2. ASSUME NEW c \in Conns, SignOff(c) PROVE LastOneOut'
  <2>1. \A d \in Conns \ {c} : pc'[d] = pc[d]
    BY <1>2, <1>g DEF SignOff
  <2>2. /\ presence'[UserOf[c]] = "offline" \/ UserOf[c] \in unsaid'
        /\ \A u \in Users \ {UserOf[c]} :
               presence'[u] = presence[u] /\ (u \in unsaid => u \in unsaid')
    BY <1>2, <1>s DEF SignOff
  <2>3. ASSUME NEW u \in Users, u # UserOf[c],
               \A d \in Conns : UserOf[d] = u => pc'[d] \in {"new", "done"}
        PROVE  presence'[u] = "offline" \/ u \in unsaid'
    <3>1. \A d \in Conns : UserOf[d] = u => pc[d] \in {"new", "done"}
      BY <2>1, <2>3
    <3> QED  BY <2>2, <2>3, <3>1 DEF LastOneOut
  <2> QED  BY <2>2, <2>3 DEF LastOneOut
<1>3. ASSUME UNCHANGED userVars,
             \A d \in Conns : pc'[d] \in {"new", "done"} => pc[d] \in {"new", "done"}
      PROVE  LastOneOut'
  BY <1>3 DEF LastOneOut, userVars
<1>4. ASSUME NEW c \in Conns, Accept(c) \/ EvictSlow(c) \/ CleanUp(c) \/ WriterExit(c) \/ LoseConn(c)
      PROVE  LastOneOut'
  BY <1>4, <1>3, <1>t DEF Accept, EvictSlow, CleanUp, WriterExit, LoseConn, Goto
<1>5. ASSUME NEW c \in Conns,
             NextMember(c) \/ PushMember(c) \/ EndBroadcast(c) \/ ReadError(c) \/ CloseConn(c)
      PROVE  LastOneOut'
  BY <1>5, <1>3, <1>t DEF NextMember, PushMember, EndBroadcast, ReadError, CloseConn, Goto
<1>6. ASSUME NEW c \in Conns,
             \E r \in Rooms : JoinRoom(c, r) \/ LeaveRoom(c, r) \/ BeginBroadcast(c, r)
      PROVE  LastOneOut'
  BY <1>6, <1>3, <1>t DEF JoinRoom, LeaveRoom, BeginBroadcast, Goto
<1>7. ASSUME NEW n \in Notifiers, Notify(n) PROVE LastOneOut'
  BY <1>7, <1>3 DEF Notify, Take, Lookup, LoadClosed, PushUser, EvictUser, Ack
<1>8. CASE (\E e \in Events : Publish(e)) \/ LoseBroker \/ UNCHANGED vars
  BY <1>8, <1>3 DEF Publish, LoseBroker, vars
<1> QED
  BY <1>1, <1>2, <1>4, <1>5, <1>6, <1>7, <1>8 DEF Next, Serve

\* Nobody is forgotten: Take begins with all, Lookup moves one on, and a push
\* settles the one whose connection it was.
LEMMA HeldStep ==
    Typed /\ RegisteredServed /\ HeldTracked /\ AckedWhenSettled /\ [Next]_vars
        => HeldTracked' /\ AckedWhenSettled'
<1> SUFFICES ASSUME Typed, RegisteredServed, HeldTracked, AckedWhenSettled, [Next]_vars
             PROVE  HeldTracked' /\ AckedWhenSettled'
  OBVIOUS
<1>t. TypeOK /\ TargetKnown
  BY DEF Typed
<1>k. \A n \in Notifiers : target'[n] = target[n] => UserOf[target'[n]] = UserOf[target[n]]
  OBVIOUS
<1>1. ASSUME UNCHANGED <<notifyPc, heldVars, acked>>, \A n \in Notifiers : target'[n] = target[n]
      PROVE  HeldTracked' /\ AckedWhenSettled'
  BY <1>1 DEF HeldTracked, AckedWhenSettled, heldVars
<1>2. ASSUME NEW n \in Notifiers, NEW e \in Events, Take(n, e)
      PROVE  HeldTracked' /\ AckedWhenSettled'
  BY <1>2, <1>t DEF Take, MoveTo, TypeOK, HeldTracked, AckedWhenSettled
<1>3. ASSUME NEW n \in Notifiers, NEW u \in Users, Lookup(n, u)
      PROVE  HeldTracked' /\ AckedWhenSettled'
  <2>1. clients[u] # None => UserOf[clients[u]] = u
    BY DEF RegisteredServed
  <2>2. AckedWhenSettled'
    BY <1>3 DEF Lookup, AckedWhenSettled, brokerVars
  <2>3. HeldTracked'
    <3>1. CASE clients[u] = None
      BY <1>3, <1>t, <3>1 DEF Lookup, TypeOK, HeldTracked
    <3>2. CASE clients[u] # None
      BY <1>3, <1>t, <2>1, <3>2 DEF Lookup, MoveTo, TypeOK, Threads, HeldTracked
    <3> QED  BY <3>1, <3>2
  <2> QED  BY <2>2, <2>3
<1>4. ASSUME NEW n \in Notifiers, LoadClosed(n)
      PROVE  HeldTracked' /\ AckedWhenSettled'
  BY <1>4, <1>t DEF LoadClosed, MoveTo, TypeOK, HeldTracked, AckedWhenSettled, brokerVars, heldVars
<1>5. ASSUME NEW n \in Notifiers, Settle(n), notifyPc[n] \in {"loaded", "evicting"},
             UNCHANGED <<held, toTell, acked>>
      PROVE  HeldTracked' /\ AckedWhenSettled'
  BY <1>5, <1>t DEF Settle, MoveTo, TypeOK, Threads, HeldTracked, AckedWhenSettled
<1>6. ASSUME NEW n \in Notifiers, PushUser(n)
      PROVE  HeldTracked' /\ AckedWhenSettled'
  <2>1. CASE Settle(n)
    BY <1>5, <1>6, <2>1 DEF PushUser, brokerVars
  <2>2. CASE ~Settle(n)
    BY <1>6, <1>t, <2>2
       DEF PushUser, MoveTo, TypeOK, Threads, HeldTracked, AckedWhenSettled, brokerVars
  <2> QED  BY <2>1, <2>2
<1>7. ASSUME NEW n \in Notifiers, EvictUser(n)
      PROVE  HeldTracked' /\ AckedWhenSettled'
  BY <1>5, <1>7 DEF EvictUser, brokerVars
<1>8. ASSUME NEW n \in Notifiers, Ack(n)
      PROVE  HeldTracked' /\ AckedWhenSettled'
  <2>1. \A u \in Recipients[held[n]] : <<held[n], u>> \in settled
    BY <1>8, <1>t, ConnsAssumption DEF Ack, HeldTracked, TargetKnown
  <2>2. AckedWhenSettled'
    BY <1>8, <2>1 DEF Ack, AckedWhenSettled
  <2>3. HeldTracked'
    BY <1>8, <1>t DEF Ack, MoveTo, TypeOK, HeldTracked
  <2> QED  BY <2>2, <2>3
<1>9. CASE LoseBroker
  BY <1>9, <1>t DEF LoseBroker, heldVars, TypeOK, HeldTracked, AckedWhenSettled
<1>10. ASSUME NEW c \in Conns, Serve(c)
       PROVE  HeldTracked' /\ AckedWhenSettled'
  <2>1. UNCHANGED <<notifyPc, heldVars, acked>>
    BY <1>10 DEF Serve, Announce, NextMember, PushMember, EndBroadcast, EvictSlow, ReadError,
                 CleanUp, CloseConn, SignOff, notifyVars, brokerVars
  <2>2. \A n \in Notifiers : target'[n] = target[n]
    BY <1>10, <1>t, ConnsAssumption
       DEF Serve, Announce, NextMember, PushMember, EndBroadcast, EvictSlow, ReadError,
           CleanUp, CloseConn, SignOff, TypeOK, Threads
  <2> QED  BY <1>1, <2>1, <2>2
<1>11. ASSUME NEW c \in Conns,
              \/ Accept(c) \/ WriterExit(c) \/ LoseConn(c)
              \/ \E r \in Rooms : JoinRoom(c, r) \/ LeaveRoom(c, r) \/ BeginBroadcast(c, r)
       PROVE  HeldTracked' /\ AckedWhenSettled'
  BY <1>1, <1>11
     DEF Accept, WriterExit, LoseConn, JoinRoom, LeaveRoom, BeginBroadcast, notifyVars, brokerVars
<1>12. CASE (\E e \in Events : Publish(e)) \/ UNCHANGED vars
  BY <1>1, <1>12 DEF Publish, vars, notifyVars, brokerVars
<1> QED
  BY <1>2, <1>3, <1>4, <1>6, <1>7, <1>8, <1>9, <1>10, <1>11, <1>12 DEF Next, Notify

--------------------------------------------------------------------------------
LEMMA IInvInit == Init => IInv
<1> SUFFICES ASSUME Init PROVE IInv
  OBVIOUS
<1>1. Typed
  BY TypedInit
<1>2. RegisteredServed /\ MembershipTracked /\ LastOneOut
  BY DEF Init, RegisteredServed, MembershipTracked, LastOneOut
<1>3. HeldTracked /\ AckedWhenSettled
  BY DEF Init, HeldTracked, AckedWhenSettled
<1> QED  BY <1>1, <1>2, <1>3 DEF IInv, Typed

LEMMA IInvStep == IInv /\ [Next]_vars => IInv'
  BY TypedStep, RegisteredStep, MembershipStep, LastOneOutStep, HeldStep DEF IInv, Typed

LEMMA IInvAlways == Spec => []IInv
  BY IInvInit, IInvStep, PTL DEF Spec

\* Every variable keeps its type, for any users, connections and rooms
\* (gateway/ports/http/handlers/websocket_handler.go:23-44).
THEOREM WebSocketTypeCorrect == Spec => []TypeOK
<1>1. IInv => TypeOK
  BY DEF IInv
<1> QED  BY <1>1, IInvAlways, PTL

\* No entry of the registry outlives the cleanup of its connection, for any
\* number of connections per user
\* (gateway/ports/http/handlers/websocket_handler.go:199-216).
THEOREM NoGhosts == Spec => []NoGhostRegistration
<1>1. IInv => NoGhostRegistration
  BY DEF IInv, RegisteredServed, NoGhostRegistration
<1> QED  BY <1>1, IInvAlways, PTL

\* Every membership of a room has a connection that will end it, unless the
\* user joined unregistered
\* (gateway/ports/http/handlers/websocket_handler.go:168-180 and :206-214).
THEOREM MembersTracked == Spec => []MembershipTracked
<1>1. IInv => MembershipTracked
  BY DEF IInv
<1> QED  BY <1>1, IInvAlways, PTL

\* The last connection of a user to go leaves the user offline, for any
\* overlap of connections
\* (gateway/ports/http/handlers/websocket_handler.go:152-164 and :221-228).
THEOREM LastOneOutAlways == Spec => []LastOneOut
<1>1. IInv => LastOneOut
  BY DEF IInv
<1> QED  BY <1>1, IInvAlways, PTL

\* No event leaves its queue before everybody whom it is for was told or was
\* not reachable, for any number of events, users and consumers
\* (gateway/ports/rabbitmq/rabbitmq_consumer.go:154-166).
THEOREM EventsSettled == Spec => []AckedWhenSettled
<1>1. IInv => AckedWhenSettled
  BY DEF IInv
<1> QED  BY <1>1, IInvAlways, PTL

================================================================================
