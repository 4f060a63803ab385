---------------------------- MODULE UserServiceProofs ----------------------------
(***************************************************************************)
(* Theorems about UserService, for any users, events, RPCs and prefetch.   *)
(***************************************************************************)
EXTENDS UserService, TLAPS

LEMMA EventTyped ==
    ASSUME NEW e \in Events
    PROVE  /\ e.kind \in {"registered", "found", "completed"}
           /\ e.of \in Seq(Users)
           /\ e.of # <<>>
           /\ Len(e.of) \in Nat \ {0}
           /\ e.kind = "registered" => Len(e.of) = 1
<1>1. e.kind \in {"registered", "found", "completed"} /\ e.of \in Seq(Users)
  BY UsersAssumption
<1>2. e.of # <<>> /\ (e.kind = "registered" => Len(e.of) = 1)
  BY UsersAssumption
<1> QED
  BY <1>1, <1>2

LEMMA HeadTyped ==
    ASSUME IInv, unacked # <<>>
    PROVE  /\ Head(unacked) \in Events
           /\ Tail(unacked) \in Seq(Events)
           /\ Len(Tail(unacked)) <= Prefetch
BY UsersAssumption DEF IInv, TypeOK

\* While the position is inside the event, it points at a user.
LEMMA CurrentTyped ==
    ASSUME IInv, unacked # <<>>, at <= Len(Head(unacked).of)
    PROVE  Current \in Users
<1>1. Head(unacked) \in Events
  BY HeadTyped
<1>2. Head(unacked).of \in Seq(Users)
  BY <1>1, EventTyped
<1>3. at \in 1..Len(Head(unacked).of)
  BY <1>2 DEF IInv, TypeOK, PositionsTracked
<1> QED
  BY <1>2, <1>3 DEF Current

LEMMA RegisteredTyped ==
    ASSUME IInv, Handling({"registered"})
    PROVE  Current \in Users
<1>1. unacked # <<>> /\ at = 1 /\ Head(unacked).kind = "registered"
  BY DEF IInv, PositionsTracked, Handling
<1>2. at <= Len(Head(unacked).of)
  BY <1>1, HeadTyped, EventTyped
<1> QED
  BY <1>1, <1>2, CurrentTyped

LEMMA NewUserTyped == NewUser \in Row
BY DEF NewUser, Row

LEMMA HeldTyped == ASSUME IInv PROVE Held \subseteq Events
BY DEF Held, IInv, TypeOK

LEMMA BlameTyped ==
    ASSUME IInv, NEW us, NEW cause \in {"requeued", "dropped", "overlapped"}, Blame(us, cause)
    PROVE  causes' \in [Users -> SUBSET {"requeued", "dropped", "overlapped"}]
BY DEF Blame, IInv, TypeOK

LEMMA FaultTyped ==
    ASSUME IInv, Fault \/ UNCHANGED faults
    PROVE  faults' \in 0..MaxFaults
BY UsersAssumption DEF Fault, IInv, TypeOK

\* The delivery in hand is given up: what is left is in order.
LEMMA DropKeeps ==
    ASSUME IInv, unacked # <<>>, Drop
    PROVE  /\ unacked' \in Seq(Events) /\ Len(unacked') <= Prefetch
           /\ at' \in Nat /\ copy' \in Row \cup {None} /\ consumer' = consumer
           /\ at' >= 1
           /\ unacked' = <<>> => at' = 1
           /\ unacked' # <<>> => at' <= Len(Head(unacked').of) + 1
           /\ at' = 1
           /\ copy' = None
<1>1. unacked' \in Seq(Events) /\ Len(unacked') <= Prefetch
  BY HeadTyped DEF Drop
<1>2. ASSUME unacked' # <<>> PROVE 1 <= Len(Head(unacked').of) + 1
  <2>1. Head(unacked') \in Events
    BY <1>1, <1>2
  <2> QED
    BY <2>1, EventTyped
<1> QED
  BY <1>1, <1>2 DEF Drop

LEMMA CreateTyped ==
    ASSUME IInv, NEW u \in Users, Create(u)
    PROVE  rows' \in [Users -> Row \cup {None}]
BY NewUserTyped DEF Create, IInv, TypeOK

\* What a Save of the consumer writes.
LEMMA SaveStatusTyped ==
    ASSUME IInv, copy # None, SaveStatus
    PROVE  rows' \in [Users -> Row \cup {None}]
<1>1. copy \in Row
  BY DEF IInv, TypeOK
<1>2. [copy EXCEPT !.status = StatusAfter(Head(unacked))] \in Row
  BY <1>1 DEF Row, StatusAfter
<1>3. Current \in Users
  BY CurrentTyped DEF IInv, PositionsTracked, Handling
<1> QED
  BY <1>2, <1>3 DEF SaveStatus, IInv, TypeOK

\* What the Save of an RPC writes.
LEMMA ChangedTyped ==
    ASSUME IInv, NEW c \in Commands, cmdPc[c] = "loaded"
    PROVE  Changed(c) \in Row
<1>1. cmdCopy[c] \in Row
  BY DEF IInv, PositionsTracked
<1>2. c.kind \in {"online", "offline", "profile", "delete"}
  BY UsersAssumption
<1> QED
  BY <1>1, <1>2 DEF Changed, Row

--------------------------------------------------------------------------------
(* The inductive invariant                                                 *)

LEMMA IInvInit == Init => IInv
<1> SUFFICES ASSUME Init PROVE IInv
  OBVIOUS
<1>1. rows \in [Users -> Row \cup {None}]
  BY NewUserTyped DEF Init
<1> QED
  BY <1>1, UsersAssumption DEF Init, IInv, TypeOK, PositionsTracked, Handling

LEMMA ConsumerStep ==
    ASSUME IInv,
           \/ HandleRegistered \/ LoadStatus \/ RefuseInactive \/ RequeueMissing
           \/ StoreStatus \/ AckStatus \/ RequeueFailed \/ Discard
    PROVE  IInv'
<1>h. unacked # <<>>
  BY DEF HandleRegistered, LoadStatus, RefuseInactive, RequeueMissing, StoreStatus,
         AckStatus, RequeueFailed, Discard, Handling, IInv, PositionsTracked
<1>c. cmdVars' = cmdVars
  BY DEF HandleRegistered, LoadStatus, RefuseInactive, RequeueMissing, StoreStatus,
         AckStatus, RequeueFailed, Discard
<1>1. CASE HandleRegistered
  <2>1. Current \in Users
    BY <1>1, RegisteredTyped DEF HandleRegistered
  <2> QED
    BY <1>1, <1>h, <1>c, DropKeeps, CreateTyped, <2>1
       DEF HandleRegistered, Ack, IInv, TypeOK, PositionsTracked, queueVars, cmdVars
<1>2. CASE LoadStatus
  <2>1. rows[Current] \in Row
    BY <1>h, <1>2, CurrentTyped DEF LoadStatus, IInv, TypeOK
  <2> QED
    BY <1>2, <1>h, <1>c, <2>1
       DEF LoadStatus, Handling, IInv, TypeOK, PositionsTracked, queueVars, cmdVars
<1>3. CASE RefuseInactive \/ Discard \/ AckStatus
  <2>1. causes' \in [Users -> SUBSET {"requeued", "dropped", "overlapped"}]
    BY <1>3, BlameTyped DEF RefuseInactive, Discard, AckStatus, IInv, TypeOK
  <2> QED
    BY <1>3, <1>h, <1>c, <2>1, DropKeeps
       DEF RefuseInactive, Discard, AckStatus, Ack, IInv, TypeOK, PositionsTracked, queueVars, cmdVars
<1>4. CASE RequeueMissing \/ RequeueFailed
  <2>1. causes' \in [Users -> SUBSET {"requeued", "dropped", "overlapped"}]
    BY <1>4, BlameTyped DEF RequeueMissing, RequeueFailed
  <2>2. rows' \in [Users -> Row \cup {None}]
    BY <1>4, <1>h, CurrentTyped, CreateTyped DEF RequeueMissing, RequeueFailed, IInv, TypeOK
  <2>3. ready' \subseteq Events /\ published' = published
    BY <1>4, <1>h, HeadTyped DEF RequeueMissing, RequeueFailed, Requeue, IInv, TypeOK
  <2>4. faults' \in 0..MaxFaults
    BY <1>4, FaultTyped DEF RequeueMissing, RequeueFailed
  <2>5. Drop
    BY <1>4 DEF RequeueMissing, RequeueFailed, Requeue
  <2> QED
    BY <1>h, <1>c, <2>1, <2>2, <2>3, <2>4, <2>5, DropKeeps
       DEF IInv, TypeOK, PositionsTracked, cmdVars
<1>5. CASE StoreStatus
  <2>1. causes' \in [Users -> SUBSET {"requeued", "dropped", "overlapped"}]
    BY <1>5, BlameTyped DEF StoreStatus, SaveStatus
  <2>2. rows' \in [Users -> Row \cup {None}]
    BY <1>5, SaveStatusTyped DEF StoreStatus
  <2>3. at' \in Nat /\ at' >= 1 /\ at' <= Len(Head(unacked).of) + 1
    <3>1. Len(Head(unacked).of) \in Nat
      BY <1>h, HeadTyped, EventTyped
    <3> QED
      BY <1>5, <3>1 DEF StoreStatus, IInv, TypeOK, PositionsTracked
  <2>4. ~Handling({"registered"})'
    BY <1>5 DEF StoreStatus, IInv, PositionsTracked, Handling
  <2> QED
    BY <1>5, <1>h, <1>c, <2>1, <2>2, <2>3, <2>4
       DEF StoreStatus, IInv, TypeOK, PositionsTracked, queueVars, cmdVars
<1> QED
  BY <1>1, <1>2, <1>3, <1>4, <1>5

LEMMA BrokerStep ==
    ASSUME IInv, (\E e \in Events : Publish(e) \/ Deliver(e)) \/ Stop \/ LoseChannel \/ Restart
    PROVE  IInv'
<1>c. cmdVars' = cmdVars /\ rows' = rows /\ causes' = causes
  BY DEF Publish, Deliver, Stop, LoseChannel, Restart
<1>1. ASSUME NEW e \in Events, Publish(e) PROVE IInv'
  BY <1>1, <1>c DEF Publish, IInv, TypeOK, PositionsTracked, Handling, heldVars, cmdVars
<1>2. ASSUME NEW e \in Events, Deliver(e) PROVE IInv'
  <2>1. unacked' \in Seq(Events) /\ Len(unacked') <= Prefetch
    BY <1>2, UsersAssumption DEF Deliver, IInv, TypeOK
  <2>2. unacked' # <<>>
    BY <1>2 DEF Deliver, IInv, TypeOK
  <2>3. CASE unacked = <<>>
    <3>1. Head(unacked') = e /\ at = 1 /\ copy = None
      BY <1>2, <2>3 DEF Deliver, IInv, PositionsTracked, Handling
    <3>2. at <= Len(Head(unacked').of) + 1
      BY <3>1, EventTyped
    <3> QED
      BY <1>2, <1>c, <2>1, <2>2, <3>1, <3>2
         DEF Deliver, IInv, TypeOK, PositionsTracked, cmdVars
  <2>4. CASE unacked # <<>>
    <3>1. Head(unacked') = Head(unacked)
      BY <1>2, <2>4 DEF Deliver, IInv, TypeOK
    <3> QED
      BY <1>2, <1>c, <2>1, <2>2, <2>4, <3>1
         DEF Deliver, IInv, TypeOK, PositionsTracked, Handling, cmdVars
  <2> QED
    BY <2>3, <2>4
<1>3. CASE Stop
  BY <1>3, <1>c, FaultTyped
     DEF Stop, IInv, TypeOK, PositionsTracked, Handling, queueVars, cmdVars
<1>4. CASE LoseChannel \/ Restart
  <2>1. faults' \in 0..MaxFaults
    BY <1>4, FaultTyped DEF LoseChannel, Restart
  <2>2. consumer' \in {"up", "stopping", "deaf"} /\ TakeBack
    BY <1>4 DEF LoseChannel, Restart
  <2>3. ready' \subseteq Events
    BY <2>2, HeldTyped DEF TakeBack, IInv, TypeOK
  <2> QED
    BY <1>c, <2>1, <2>2, <2>3, UsersAssumption
       DEF TakeBack, IInv, TypeOK, PositionsTracked, Handling, cmdVars
<1> QED
  BY <1>1, <1>2, <1>3, <1>4

LEMMA CommandStep ==
    ASSUME IInv, NEW c \in Commands, LoadCommand(c) \/ StoreCommand(c) \/ FailCommand(c)
    PROVE  IInv'
<1>u. c.user \in Users
  BY UsersAssumption
<1>h. heldVars' = heldVars /\ queueVars' = queueVars /\ faults' = faults
  BY DEF LoadCommand, StoreCommand, FailCommand
<1>1. rows' \in [Users -> Row \cup {None}]
  <2>1. CASE StoreCommand(c)
    BY <2>1, <1>u, ChangedTyped DEF StoreCommand, IInv, TypeOK
  <2> QED
    BY <2>1 DEF LoadCommand, FailCommand, IInv, TypeOK
<1>2. causes' \in [Users -> SUBSET {"requeued", "dropped", "overlapped"}]
  BY BlameTyped DEF LoadCommand, StoreCommand, FailCommand, IInv, TypeOK
<1>3. CASE LoadCommand(c)
  <2>1. rows[c.user] \in Row
    BY <1>3, <1>u DEF LoadCommand, IInv, TypeOK
  <2> QED
    BY <1>3, <1>h, <1>1, <1>2, <2>1
       DEF LoadCommand, IInv, TypeOK, PositionsTracked, Handling, heldVars, queueVars
<1>4. CASE StoreCommand(c) \/ FailCommand(c)
  BY <1>4, <1>h, <1>1, <1>2
     DEF StoreCommand, FailCommand, IInv, TypeOK, PositionsTracked, Handling, heldVars, queueVars
<1> QED
  BY <1>3, <1>4

LEMMA IInvStep == IInv /\ [Next]_vars => IInv'
<1> SUFFICES ASSUME IInv, [Next]_vars PROVE IInv'
  OBVIOUS
<1>1. CASE UNCHANGED vars
  BY <1>1 DEF vars, queueVars, heldVars, cmdVars, IInv, TypeOK, PositionsTracked, Handling
<1> QED
  BY <1>1, ConsumerStep, BrokerStep, CommandStep DEF Next, Consume

(* The rows, the deliveries held, the consumer's position and the copies   *)
(* keep their types; the consumer never holds more than Prefetch.          *)
THEOREM UserTypeCorrect == Spec => []TypeOK
<1>1. IInv => TypeOK
  BY DEF IInv
<1> QED
  BY <1>1, IInvInit, IInvStep, PTL DEF Spec

--------------------------------------------------------------------------------
(* Deletions                                                               *)

(* An inactive user becomes active only by the Save of a copy read while   *)
(* the user was active: no insert, redelivery or later call does it.       *)
THEOREM RevivalNeedsOldCopy == Spec => RevivedOnlyByStaleSave
<1>1. IInv /\ [Next]_vars =>
        [\A u \in Users : Inactive(u) /\ ~Inactive(u)' => ActiveCopy(u)]_vars
  <2> SUFFICES ASSUME IInv, Next, NEW u \in Users, Inactive(u), ~Inactive(u)'
               PROVE  ActiveCopy(u)
    OBVIOUS
  <2>t. rows \in [Users -> Row \cup {None}]
    BY DEF IInv, TypeOK
  <2>1. ASSUME NEW v \in Users, Create(v) PROVE FALSE
    BY <2>1, <2>t DEF Create, Inactive
  <2>2. CASE HandleRegistered
    <3>1. Current \in Users
      BY <2>2, RegisteredTyped DEF HandleRegistered
    <3> QED
      BY <2>1, <2>2, <3>1 DEF HandleRegistered, Inactive
  <2>3. CASE RequeueFailed
    BY <2>1, <2>3, CurrentTyped DEF RequeueFailed, Inactive
  <2>4. CASE StoreStatus
    <3>1. copy # None /\ Current \in Users
      BY <2>4, CurrentTyped DEF StoreStatus, IInv, PositionsTracked, Handling
    <3>2. copy \in Row
      BY <3>1 DEF IInv, TypeOK
    <3>3. rows' = [rows EXCEPT ![Current] = [copy EXCEPT !.status = StatusAfter(Head(unacked))]]
      BY <2>4 DEF StoreStatus, SaveStatus
    <3>4. [copy EXCEPT !.status = StatusAfter(Head(unacked))].active = copy.active
      BY <3>2 DEF Row
    <3> QED
      <4>1. [copy EXCEPT !.status = StatusAfter(Head(unacked))] # None
        BY <3>2, UsersAssumption DEF Row, StatusAfter
      <4>2. Current = u /\ copy.active
        BY <2>t, <3>1, <3>3, <3>4, <4>1 DEF Inactive
      <4> QED
        BY <3>1, <4>2 DEF ActiveCopy
  <2>5. ASSUME NEW c \in Commands, StoreCommand(c) PROVE ActiveCopy(u)
    <3>1. cmdPc[c] = "loaded" /\ rows' = [rows EXCEPT ![c.user] = Changed(c)]
      BY <2>5 DEF StoreCommand
    <3>2. cmdCopy[c] \in Row /\ Changed(c) \in Row
      BY <3>1, ChangedTyped DEF IInv, PositionsTracked
    <3>3. Changed(c).active => cmdCopy[c].active
      BY <3>2 DEF Changed, Row
    <3>4. c.user = u /\ Changed(c).active
      BY <2>t, <3>1, <3>2, UsersAssumption DEF Inactive, Row
    <3> QED
      BY <3>1, <3>3, <3>4 DEF ActiveCopy
  <2>6. ASSUME rows' = rows PROVE FALSE
    BY <2>6 DEF Inactive
  <2> QED
    BY <2>2, <2>3, <2>4, <2>5, <2>6
       DEF Next, Consume, Publish, Deliver, LoadStatus, RefuseInactive, RequeueMissing,
           AckStatus, Discard, Stop, LoseChannel, Restart, LoadCommand, FailCommand
<1> QED
  BY <1>1, IInvInit, IInvStep, PTL DEF Spec, RevivedOnlyByStaleSave

--------------------------------------------------------------------------------
(* A user is away only during a match                                      *)

\* Every event received is at one place of the queue, and no event is held
\* twice or both held and ready.
QueueKept ==
    /\ \A i, j \in DOMAIN published : published[i] = published[j] => i = j
    /\ \A i, j \in DOMAIN unacked : unacked[i] = unacked[j] => i = j
    /\ ready \subseteq Received /\ Held \subseteq Received
    /\ ready \cap Held = {}

\* The consumer is done with e before it is done with f, as things stand.
Ahead(e, f) ==
    \/ e \in Settled /\ f \notin Settled
    \/ e \in Held /\ f \in ready
    \/ \E i, j \in DOMAIN unacked : i < j /\ unacked[i] = e /\ unacked[j] = f

\* The events of a user nothing has disturbed are handled in the order in
\* which the queue received them.
InOrder ==
    \A u \in Users : causes[u] = {} =>
        \A e, f \in Received :
            u \in UsersIn(e) \cap UsersIn(f) /\ Ahead(e, f) => Place(e) < Place(f)

Away(u) == rows[u] # None /\ rows[u].status = "away"

\* Who is away was matched by an event that came after every end of a match
\* that is settled.
LastWord ==
    \A u \in Users : Away(u) /\ causes[u] = {} =>
        \E f \in Received :
            /\ f.kind = "found" /\ u \in UsersIn(f)
            /\ \A c \in Settled : c.kind = "completed" /\ u \in UsersIn(c) => Place(c) < Place(f)

\* The users of a finished match that have been updated are not away.
Told ==
    Handling({"completed"}) =>
        \A i \in 1..(at - 1) :
            causes[Head(unacked).of[i]] = {} => ~Away(Head(unacked).of[i])

\* The inductive invariant of AwayExplained.
AwayInv == IInv /\ QueueKept /\ InOrder /\ LastWord /\ Told

\* The place of an event that was received.
LEMMA PlaceFacts ==
    ASSUME IInv, NEW e \in Received
    PROVE  /\ Place(e) \in DOMAIN published /\ published[Place(e)] = e
           /\ Place(e) \in 1..Len(published)
           /\ e \in Events
<1>1. \E i \in DOMAIN published : published[i] = e
  BY DEF Received
<1>2. Place(e) \in DOMAIN published /\ published[Place(e)] = e
  BY <1>1 DEF Place
<1> QED
  BY <1>2 DEF IInv, TypeOK

LEMMA PlacesDiffer ==
    ASSUME IInv, NEW e \in Received, NEW f \in Received, e # f
    PROVE  Place(e) # Place(f)
BY PlaceFacts

LEMMA PlaceKept ==
    ASSUME UNCHANGED published
    PROVE  Received' = Received /\ \A e : Place(e)' = Place(e)
BY DEF Received, Place

\* What an arrival does to the places.
LEMMA PlaceAdded ==
    ASSUME AwayInv, NEW n \in Events, Publish(n)
    PROVE  /\ Received' = Received \cup {n} /\ n \notin Received
           /\ \A e \in Received : Place(e)' = Place(e) /\ Place(e) < Place(n)'
           /\ \A i, j \in DOMAIN published' : published'[i] = published'[j] => i = j
<1> DEFINE L == Len(published)
<1>1. published \in Seq(Events) /\ published' = Append(published, n) /\ n \notin Received
  BY DEF Publish, AwayInv, IInv, TypeOK
<1>2. /\ L \in Nat /\ DOMAIN published = 1..L /\ DOMAIN published' = 1..(L + 1)
      /\ \A i \in 1..L : published'[i] = published[i]
      /\ published'[L + 1] = n
  BY <1>1
<1>3. \A i, j \in DOMAIN published : published[i] = published[j] => i = j
  BY DEF AwayInv, QueueKept
<1>4. \A i \in DOMAIN published : published[i] # n
  BY <1>1 DEF Received
<1>5. \A i, j \in DOMAIN published' : published'[i] = published'[j] => i = j
  BY <1>2, <1>3, <1>4
<1>6. Received' = Received \cup {n}
  <2>1. Received' = {published'[i] : i \in 1..(L + 1)}
    BY <1>2 DEF Received
  <2>2. Received = {published[i] : i \in 1..L}
    BY <1>2 DEF Received
  <2>3. \A x : (x \in Received' <=> x \in Received \cup {n})
    BY <1>2, <2>1, <2>2
  <2> QED
    BY <2>3
<1>7. Place(n)' = L + 1
  <2>1. Place(n)' \in DOMAIN published' /\ published'[Place(n)'] = n
    <3>1. L + 1 \in DOMAIN published' /\ published'[L + 1] = n
      BY <1>2
    <3> QED
      BY <3>1 DEF Place
  <2> QED
    BY <1>2, <1>5, <2>1
<1>8. ASSUME NEW e \in Received PROVE Place(e)' = Place(e) /\ Place(e) < Place(n)'
  <2>1. Place(e) \in 1..L /\ published[Place(e)] = e
    BY PlaceFacts DEF AwayInv
  <2>2. Place(e)' \in DOMAIN published' /\ published'[Place(e)'] = e
    <3>1. Place(e) \in DOMAIN published' /\ published'[Place(e)] = e
      BY <1>2, <2>1
    <3> QED
      BY <3>1 DEF Place
  <2>3. Place(e)' = Place(e)
    BY <1>2, <1>5, <2>1, <2>2
  <2> QED
    BY <1>2, <1>7, <2>1, <2>3
<1> QED
  BY <1>1, <1>5, <1>6, <1>8

\* The delivery in hand leaves, and the others move up.
LEMMA DropFacts ==
    ASSUME AwayInv, unacked # <<>>, Drop
    PROVE  /\ Head(unacked) \in Held /\ Held' = Held \ {Head(unacked)}
           /\ \A i \in DOMAIN unacked' : i + 1 \in DOMAIN unacked /\ unacked'[i] = unacked[i + 1]
           /\ \A i, j \in DOMAIN unacked' : unacked'[i] = unacked'[j] => i = j
           /\ \A f \in Held \ {Head(unacked)} :
                \E j \in DOMAIN unacked : 1 < j /\ unacked[j] = f
           /\ 1 \in DOMAIN unacked /\ Head(unacked) = unacked[1]
<1>1. unacked \in Seq(Events) /\ unacked' = Tail(unacked)
  BY DEF Drop, AwayInv, IInv, TypeOK
<1>2. /\ 1 \in DOMAIN unacked /\ Head(unacked) = unacked[1]
      /\ DOMAIN unacked \subseteq Nat \ {0}
      /\ \A i \in DOMAIN unacked' : i \in Nat \ {0} /\ i + 1 \in DOMAIN unacked /\ unacked'[i] = unacked[i + 1]
      /\ \A j \in DOMAIN unacked : j # 1 => j - 1 \in DOMAIN unacked' /\ unacked'[j - 1] = unacked[j]
  BY <1>1
<1>3. \A i, j \in DOMAIN unacked : unacked[i] = unacked[j] => i = j
  BY DEF AwayInv, QueueKept
<1>4. \A i, j \in DOMAIN unacked' : unacked'[i] = unacked'[j] => i = j
  BY <1>2, <1>3
<1>5. \A x : x \in Held' <=> x \in Held \ {Head(unacked)}
  BY <1>2, <1>3 DEF Held
<1> QED
  BY <1>2, <1>4, <1>5 DEF Held

\* The deliveries that are left keep their order.
LEMMA HeldShift ==
    ASSUME AwayInv, unacked # <<>>, Drop,
           NEW i \in DOMAIN unacked', NEW j \in DOMAIN unacked', i < j
    PROVE  \E k, l \in DOMAIN unacked : k < l /\ unacked[k] = unacked'[i] /\ unacked[l] = unacked'[j]
<1>1. i + 1 \in DOMAIN unacked /\ j + 1 \in DOMAIN unacked
  BY DropFacts
<1>2. unacked[i + 1] = unacked'[i] /\ unacked[j + 1] = unacked'[j]
  BY DropFacts
<1>3. unacked' \in Seq(Events)
  BY HeadTyped DEF Drop, AwayInv
<1>4. i + 1 < j + 1
  BY <1>3
<1> QED
  BY <1>1, <1>2, <1>4

\* What is blamed stays blamed.
LEMMA CausesGrow ==
    ASSUME AwayInv, [Next]_vars, NEW u \in Users, causes'[u] = {}
    PROVE  causes[u] = {}
<1>t. causes \in [Users -> SUBSET {"requeued", "dropped", "overlapped"}]
  BY DEF AwayInv, IInv, TypeOK
<1>1. ASSUME NEW us, NEW cause, Blame(us, cause) PROVE causes[u] = {} /\ u \notin us
  BY <1>1, <1>t DEF Blame
<1>2. CASE causes' = causes
  BY <1>2
<1> QED
  BY <1>1, <1>2
     DEF Next, Consume, vars, Publish, Deliver, HandleRegistered, LoadStatus, RefuseInactive,
         RequeueMissing, StoreStatus, SaveStatus, AckStatus, RequeueFailed, Stop, Discard,
         LoseChannel, Restart, LoadCommand, StoreCommand, FailCommand

\* The steps as the queue sees them.
LEMMA QueueSteps ==
    ASSUME AwayInv, [Next]_vars
    PROVE  \/ \E e \in Events : Publish(e) \/ Deliver(e)
           \/ unacked # <<>> /\ Ack
           \/ unacked # <<>> /\ Requeue /\ \A u \in UsersIn(Head(unacked)) \cap Users : causes'[u] # {}
           \/ TakeBack
           \/ UNCHANGED <<published, ready, unacked>>
<1>1. ASSUME Blame(UsersIn(Head(unacked)), "requeued"), NEW u \in UsersIn(Head(unacked)) \cap Users
      PROVE  causes'[u] # {}
  BY <1>1 DEF Blame
<1>2. CASE RequeueMissing \/ RequeueFailed
  BY <1>1, <1>2 DEF RequeueMissing, RequeueFailed, Handling
<1>3. CASE HandleRegistered \/ RefuseInactive \/ AckStatus \/ Discard
  BY <1>3 DEF HandleRegistered, RefuseInactive, AckStatus, Discard, Handling
<1> QED
  BY <1>2, <1>3
     DEF Next, Consume, vars, queueVars, heldVars, LoadStatus, StoreStatus, Stop,
         LoseChannel, Restart, LoadCommand, StoreCommand, FailCommand

LEMMA DeliverFacts ==
    ASSUME AwayInv, NEW n \in Events, Deliver(n)
    PROVE  /\ n \in ready /\ n \in Received /\ n \notin Held /\ ready' = ready \ {n}
           /\ Held' = Held \cup {n}
           /\ \A i \in DOMAIN unacked' :
                 \/ i \in DOMAIN unacked /\ unacked'[i] = unacked[i]
                 \/ i = Len(unacked) + 1 /\ unacked'[i] = n
           /\ \A i \in DOMAIN unacked : i \in DOMAIN unacked' /\ unacked'[i] = unacked[i] /\ i < Len(unacked) + 1
           /\ \A f \in ready : f # n => Place(n) < Place(f)
<1>1. unacked \in Seq(Events) /\ unacked' = Append(unacked, n) /\ n \in ready /\ ready' = ready \ {n}
  BY DEF Deliver, AwayInv, IInv, TypeOK
<1>2. n \in Received /\ n \notin Held
  BY <1>1 DEF AwayInv, QueueKept
<1>3. /\ \A i \in DOMAIN unacked' :
            \/ i \in DOMAIN unacked /\ unacked'[i] = unacked[i]
            \/ i = Len(unacked) + 1 /\ unacked'[i] = n
      /\ \A i \in DOMAIN unacked : i \in DOMAIN unacked' /\ unacked'[i] = unacked[i] /\ i < Len(unacked) + 1
      /\ Len(unacked) + 1 \in DOMAIN unacked' /\ unacked'[Len(unacked) + 1] = n
  BY <1>1
<1>4. \A x : x \in Held' <=> x \in Held \cup {n}
  BY <1>3 DEF Held
<1>5. ASSUME NEW f \in ready, f # n PROVE Place(n) < Place(f)
  <2>1. f \in Received /\ Place(n) <= Place(f)
    BY <1>5 DEF Deliver, AwayInv, QueueKept
  <2>2. Place(n) # Place(f) /\ Place(n) \in Nat /\ Place(f) \in Nat
    BY <1>2, <1>5, <2>1, PlacesDiffer, PlaceFacts DEF AwayInv
  <2> QED
    BY <2>1, <2>2
<1> QED
  BY <1>1, <1>2, <1>3, <1>4, <1>5

LEMMA QueueKeptStep == AwayInv /\ [Next]_vars => QueueKept'
<1> SUFFICES ASSUME AwayInv, [Next]_vars PROVE QueueKept'
  OBVIOUS
<1>q. QueueKept
  BY DEF AwayInv
<1>1. ASSUME NEW n \in Events, Publish(n) PROVE QueueKept'
  <2>1. Held' = Held /\ UNCHANGED unacked /\ ready' = ready \cup {n}
    BY <1>1 DEF Publish, heldVars, Held
  <2>2. Received' = Received \cup {n} /\ n \notin Received
    BY <1>1, PlaceAdded
  <2>3. \A i, j \in DOMAIN published' : published'[i] = published'[j] => i = j
    BY <1>1, PlaceAdded
  <2> QED
    BY <1>q, <2>1, <2>2, <2>3 DEF QueueKept
<1>2. ASSUME NEW n \in Events, Deliver(n) PROVE QueueKept'
  <2>1. UNCHANGED published /\ Received' = Received
    BY <1>2, PlaceKept DEF Deliver
  <2>2. \A i, j \in DOMAIN unacked' : unacked'[i] = unacked'[j] => i = j
    <3>1. \A i \in DOMAIN unacked : unacked[i] # n
      BY <1>2, DeliverFacts DEF Held
    <3>2. \A i, j \in DOMAIN unacked : unacked[i] = unacked[j] => i = j
      BY <1>q DEF QueueKept
    <3> QED
      BY <1>2, <3>1, <3>2, DeliverFacts
  <2>3. ready' \subseteq Received /\ Held' \subseteq Received /\ ready' \cap Held' = {}
    BY <1>q, <1>2, DeliverFacts DEF QueueKept
  <2> QED
    BY <1>q, <2>1, <2>2, <2>3 DEF QueueKept
<1>3. CASE unacked # <<>> /\ (Ack \/ Requeue)
  <2>1. Drop /\ UNCHANGED published /\ (ready' = ready \/ ready' = ready \cup {Head(unacked)})
    BY <1>3 DEF Ack, Requeue, queueVars
  <2>2. Received' = Received
    BY <2>1, PlaceKept
  <2>3. \A i, j \in DOMAIN unacked' : unacked'[i] = unacked'[j] => i = j
    BY <1>3, <2>1, DropFacts
  <2>4. Held' = Held \ {Head(unacked)} /\ Head(unacked) \in Held
    BY <1>3, <2>1, DropFacts
  <2> QED
    BY <1>q, <2>1, <2>2, <2>3, <2>4 DEF QueueKept
<1>4. CASE TakeBack
  <2>1. UNCHANGED published /\ ready' = ready \cup Held /\ unacked' = <<>>
    BY <1>4 DEF TakeBack
  <2>2. Received' = Received /\ Held' = {}
    BY <2>1, PlaceKept DEF Held
  <2> QED
    BY <1>q, <2>1, <2>2 DEF QueueKept
<1>5. CASE UNCHANGED <<published, ready, unacked>>
  BY <1>q, <1>5 DEF QueueKept, Received, Held
<1> QED
  BY <1>1, <1>2, <1>3, <1>4, <1>5, QueueSteps

\* The order in which a user's events are done with changes only with an
\* arrival, a delivery or an acknowledgement, and then to the queue's order.
LEMMA AheadStep ==
    ASSUME AwayInv, [Next]_vars, NEW u \in Users, causes'[u] = {},
           NEW e \in Received', NEW f \in Received',
           u \in UsersIn(e) \cap UsersIn(f), Ahead(e, f)'
    PROVE  Place(e)' < Place(f)'
<1>q. QueueKept
  BY DEF AwayInv
<1>o. \A x, y \in Received : u \in UsersIn(x) \cap UsersIn(y) /\ Ahead(x, y) => Place(x) < Place(y)
  BY CausesGrow DEF AwayInv, InOrder
<1>1. ASSUME NEW n \in Events, Publish(n) PROVE Place(e)' < Place(f)'
  <2>1. Held' = Held /\ UNCHANGED unacked /\ ready' = ready \cup {n}
    BY <1>1 DEF Publish, heldVars, Held
  <2>2. Received' = Received \cup {n} /\ n \notin Received
    BY <1>1, PlaceAdded
  <2>3. Settled' = Settled
    <3>1. \A x : x \in Settled' <=> x \in Settled
      BY <2>1, <2>2 DEF Settled
    <3> QED
      BY <3>1
  <2>4. n \notin Settled /\ n \notin Held
    BY <1>q, <2>2 DEF Settled, QueueKept
  <2>5. e # n
    <3>1. e \in Settled \/ e \in Held
      BY <2>1, <2>3 DEF Ahead, Held
    <3> QED
      BY <2>4, <3>1
  <2>6. CASE f = n
    BY <1>1, <2>2, <2>5, <2>6, PlaceAdded
  <2>7. CASE f # n
    <3>1. Ahead(e, f)
      BY <2>1, <2>3, <2>7 DEF Ahead
    <3>2. e \in Received /\ f \in Received
      BY <2>2, <2>5, <2>7
    <3> QED
      BY <1>1, <1>o, <3>1, <3>2, PlaceAdded
  <2> QED
    BY <2>6, <2>7
<1>k. ASSUME UNCHANGED published, Ahead(e, f) PROVE Place(e)' < Place(f)'
  BY <1>k, <1>o, PlaceKept
<1>2. ASSUME NEW n \in Events, Deliver(n) PROVE Place(e)' < Place(f)'
  <2>1. UNCHANGED published /\ Received' = Received /\ Place(e)' = Place(e) /\ Place(f)' = Place(f)
    BY <1>2, PlaceKept DEF Deliver
  <2>2. Settled' = Settled
    BY <1>2, <2>1, DeliverFacts DEF Settled
  <2>3. CASE e \in Settled' /\ f \notin Settled'
    BY <1>k, <2>1, <2>2, <2>3 DEF Ahead
  <2>4. CASE e \in Held' /\ f \in ready'
    <3>1. CASE e = n
      BY <1>2, <2>1, <2>4, <3>1, DeliverFacts
    <3>2. CASE e # n
      BY <1>2, <1>k, <2>1, <2>4, <3>2, DeliverFacts DEF Ahead
    <3> QED
      BY <3>1, <3>2
  <2>5. ASSUME NEW i \in DOMAIN unacked', NEW j \in DOMAIN unacked',
               i < j, unacked'[i] = e, unacked'[j] = f
        PROVE  Place(e)' < Place(f)'
    <3>0. unacked \in Seq(Events) /\ Len(unacked) \in Nat /\ DOMAIN unacked = 1..Len(unacked)
      BY DEF AwayInv, IInv, TypeOK
    <3>1. i \in DOMAIN unacked /\ unacked[i] = e
      BY <1>2, <2>5, <3>0, DeliverFacts
    <3>2. CASE j \in DOMAIN unacked /\ unacked'[j] = unacked[j]
      BY <1>k, <2>1, <2>5, <3>1, <3>2 DEF Ahead
    <3>3. CASE unacked'[j] = n
      <4>1. e \in Held /\ f \in ready
        BY <1>2, <2>5, <3>1, <3>3, DeliverFacts DEF Held
      <4> QED
        BY <1>k, <2>1, <4>1 DEF Ahead
    <3> QED
      BY <1>2, <2>5, <3>2, <3>3, DeliverFacts
  <2> QED
    BY <2>3, <2>4, <2>5 DEF Ahead
<1>3. CASE unacked # <<>> /\ Ack
  <2> DEFINE h == Head(unacked)
  <2>1. Drop /\ UNCHANGED published /\ ready' = ready
    BY <1>3 DEF Ack, queueVars
  <2>2. Received' = Received
    BY <2>1, PlaceKept
  <2>3. Held' = Held \ {h} /\ h \in Held /\ 1 \in DOMAIN unacked /\ h = unacked[1]
    BY <1>3, <2>1, DropFacts
  <2>4. Settled' = Settled \cup {h}
    BY <1>q, <2>1, <2>2, <2>3 DEF Settled, QueueKept
  <2>5. Ahead(e, f)
    <3>1. CASE e \in Settled' /\ f \notin Settled'
      <4>1. CASE e \in Settled
        BY <2>4, <3>1, <4>1 DEF Ahead
      <4>2. CASE e = h /\ f \in ready
        BY <2>3, <4>2 DEF Ahead
      <4>3. CASE e = h /\ f \in Held \ {h}
        <5>1. PICK j \in DOMAIN unacked : 1 < j /\ unacked[j] = f
          BY <1>3, <2>1, <4>3, DropFacts
        <5> QED
          BY <2>3, <4>3, <5>1 DEF Ahead
      <4>4. f \in ready \/ f \in Held \ {h}
        BY <2>2, <2>3, <2>4, <3>1 DEF Settled
      <4> QED
        BY <2>4, <3>1, <4>1, <4>2, <4>3, <4>4
    <3>2. CASE e \in Held' /\ f \in ready'
      BY <2>1, <2>3, <3>2 DEF Ahead
    <3>3. ASSUME NEW i \in DOMAIN unacked', NEW j \in DOMAIN unacked',
                 i < j, unacked'[i] = e, unacked'[j] = f
          PROVE  Ahead(e, f)
      BY <1>3, <2>1, <3>3, HeldShift DEF Ahead
    <3> QED
      BY <3>1, <3>2, <3>3 DEF Ahead
  <2> QED
    BY <1>k, <2>1, <2>5
<1>4. CASE unacked # <<>> /\ Requeue /\ \A v \in UsersIn(Head(unacked)) \cap Users : causes'[v] # {}
  <2> DEFINE h == Head(unacked)
  <2>1. Drop /\ UNCHANGED published /\ ready' = ready \cup {h}
    BY <1>4 DEF Requeue
  <2>2. Received' = Received
    BY <2>1, PlaceKept
  <2>3. Held' = Held \ {h} /\ h \in Held
    BY <1>4, <2>1, DropFacts
  <2>4. Settled' = Settled
    BY <1>q, <2>1, <2>2, <2>3 DEF Settled, QueueKept
  <2>5. e # h /\ f # h
    BY <1>4
  <2>6. Ahead(e, f)
    <3>1. CASE e \in Settled' /\ f \notin Settled'
      BY <2>4, <3>1 DEF Ahead
    <3>2. CASE e \in Held' /\ f \in ready'
      BY <2>1, <2>3, <2>5, <3>2 DEF Ahead
    <3>3. ASSUME NEW i \in DOMAIN unacked', NEW j \in DOMAIN unacked',
                 i < j, unacked'[i] = e, unacked'[j] = f
          PROVE  Ahead(e, f)
      BY <1>4, <2>1, <3>3, HeldShift DEF Ahead
    <3> QED
      BY <3>1, <3>2, <3>3 DEF Ahead
  <2> QED
    BY <1>k, <2>1, <2>6
<1>5. CASE TakeBack
  <2>1. UNCHANGED published /\ ready' = ready \cup Held /\ unacked' = <<>>
    BY <1>5 DEF TakeBack
  <2>2. Received' = Received /\ Held' = {} /\ DOMAIN unacked' = {}
    BY <2>1, PlaceKept DEF Held
  <2>3. Settled' = Settled
    BY <2>1, <2>2 DEF Settled
  <2>4. Ahead(e, f)
    BY <2>2, <2>3 DEF Ahead
  <2> QED
    BY <1>k, <2>1, <2>4
<1>6. CASE UNCHANGED <<published, ready, unacked>>
  <2>1. Ahead(e, f)
    BY <1>6 DEF Ahead, Settled, Received, Held
  <2> QED
    BY <1>6, <1>k, <2>1
<1> QED
  BY <1>1, <1>2, <1>3, <1>4, <1>5, <1>6, QueueSteps

LEMMA InOrderStep == AwayInv /\ [Next]_vars => InOrder'
<1> SUFFICES ASSUME AwayInv, [Next]_vars, NEW u \in Users, causes'[u] = {},
                    NEW e \in Received', NEW f \in Received',
                    u \in UsersIn(e) \cap UsersIn(f), Ahead(e, f)'
             PROVE  Place(e)' < Place(f)'
  BY DEF InOrder, UsersIn
<1> QED
  BY AheadStep

\* Whom a step makes away, without disturbing him, the consumer has just
\* matched.
LEMMA NewlyAway ==
    ASSUME AwayInv, [Next]_vars, NEW u \in Users, Away(u)', ~Away(u), causes'[u] = {}
    PROVE  StoreStatus /\ Current = u /\ Handling({"found"})
<1>t. rows \in [Users -> Row \cup {None}] /\ causes \in [Users -> SUBSET {"requeued", "dropped", "overlapped"}]
  BY DEF AwayInv, IInv, TypeOK
<1>0. ASSUME rows' = rows PROVE FALSE
  BY <1>0 DEF Away
<1>1. ASSUME NEW v \in Users, Create(v) PROVE FALSE
  BY <1>1, <1>t DEF Create, Away, NewUser
<1>2. CASE HandleRegistered
  <2>1. Current \in Users
    BY <1>2, RegisteredTyped DEF HandleRegistered, AwayInv
  <2> QED
    BY <1>0, <1>1, <1>2, <2>1 DEF HandleRegistered
<1>3. CASE RequeueFailed
  BY <1>0, <1>1, <1>3, CurrentTyped DEF RequeueFailed, AwayInv
<1>4. CASE StoreStatus
  <2>1. copy # None /\ Current \in Users /\ Handling({"found", "completed"})
    BY <1>4, CurrentTyped DEF StoreStatus, AwayInv, IInv, PositionsTracked, Handling
  <2>2. copy \in Row
    BY <2>1 DEF AwayInv, IInv, TypeOK
  <2> DEFINE new == [copy EXCEPT !.status = StatusAfter(Head(unacked))]
  <2>3. rows' = [rows EXCEPT ![Current] = new]
    BY <1>4 DEF StoreStatus, SaveStatus
  <2>4. Current = u /\ new.status = "away"
    <3> HIDE DEF new
    <3> QED
      BY <1>t, <2>1, <2>3 DEF Away
  <2>5. StatusAfter(Head(unacked)) = "away"
    BY <2>2, <2>4 DEF Row
  <2> QED
    BY <1>4, <2>1, <2>4, <2>5 DEF StatusAfter, Handling
<1>5. ASSUME NEW c \in Commands, StoreCommand(c) PROVE FALSE
  <2>1. cmdPc[c] = "loaded" /\ rows' = [rows EXCEPT ![c.user] = Changed(c)]
        /\ Blame(IF cmdCopy[c] = rows[c.user] THEN {} ELSE {c.user}, "overlapped")
    BY <1>5 DEF StoreCommand
  <2>2. cmdCopy[c] \in Row /\ c.user \in Users /\ c.kind \in {"online", "offline", "profile", "delete"}
    BY <2>1, UsersAssumption DEF AwayInv, IInv, PositionsTracked
  <2>3. c.user = u /\ Changed(c).status = "away"
    BY <1>t, <2>1, <2>2 DEF Away
  <2>4. cmdCopy[c].status = "away"
    BY <2>2, <2>3 DEF Changed, Row
  <2>5. cmdCopy[c] = rows[u]
    BY <1>t, <2>1, <2>3 DEF Blame
  <2> QED
    BY <2>2, <2>4, <2>5, UsersAssumption DEF Away
<1> QED
  BY <1>0, <1>2, <1>3, <1>4, <1>5
     DEF Next, Consume, vars, Publish, Deliver, LoadStatus, RefuseInactive, RequeueMissing,
         AckStatus, Discard, Stop, LoseChannel, Restart, LoadCommand, FailCommand

\* No event that ends a match is settled while one of its users, undisturbed,
\* is away.
LEMMA EndsTold ==
    ASSUME AwayInv, [Next]_vars, unacked # <<>>, Ack, Head(unacked).kind = "completed",
           NEW u \in Users, u \in UsersIn(Head(unacked)), causes'[u] = {}
    PROVE  ~Away(u)'
<1> DEFINE h == Head(unacked)
<1>0. h \in Events /\ h.of \in Seq(Users) /\ Len(h.of) \in Nat /\ at \in Nat
  BY HeadTyped, EventTyped DEF AwayInv, IInv, TypeOK
<1>1. PICK i \in 1..Len(h.of) : h.of[i] = u
  BY <1>0 DEF UsersIn
<1>t. causes \in [Users -> SUBSET {"requeued", "dropped", "overlapped"}]
  BY DEF AwayInv, IInv, TypeOK
<1>2. ASSUME i < at PROVE ~Away(u)
  <2>1. Handling({"completed"}) /\ i \in 1..(at - 1) /\ causes[u] = {}
    BY <1>0, <1>1, <1>2, CausesGrow DEF Handling
  <2> QED
    BY <1>1, <2>1 DEF AwayInv, Told
<1>3. ~StoreStatus
  BY <1>0 DEF StoreStatus, Ack, Drop, AwayInv, IInv, PositionsTracked
<1>4. unacked' # unacked
  <2>1. Len(unacked') # Len(unacked)
    BY DEF Ack, Drop, AwayInv, IInv, TypeOK
  <2> QED
    BY <2>1
<1>5. i < at
  <2>1. CASE RefuseInactive
    <3>1. u \notin {h.of[j] : j \in at..Len(h.of)}
      BY <1>t, <2>1 DEF RefuseInactive, Blame
    <3> QED
      BY <1>0, <1>1, <3>1
  <2>2. CASE AckStatus
    BY <1>0, <1>1, <2>2 DEF AckStatus
  <2>3. ASSUME NEW cause, Blame(UsersIn(h), cause) PROVE FALSE
    BY <1>t, <2>3 DEF Blame
  <2>4. CASE Discard \/ RequeueMissing \/ RequeueFailed
    BY <2>3, <2>4 DEF Discard, RequeueMissing, RequeueFailed
  <2>5. ~HandleRegistered
    BY DEF HandleRegistered, Handling
  <2>6. ~Restart /\ ~LoseChannel /\ \A e \in Events : ~Deliver(e) /\ ~Publish(e)
    <3>1. ~Restart /\ ~LoseChannel
      <4>1. h \in Held /\ h \notin ready /\ ready' = ready
        BY DropFacts DEF Ack, queueVars, AwayInv, QueueKept
      <4> QED
        BY <4>1 DEF Restart, LoseChannel, TakeBack
    <3> QED
      BY <1>4, <3>1 DEF Deliver, Publish, Ack, queueVars, heldVars
  <2> QED
    BY <1>3, <1>4, <2>1, <2>2, <2>4, <2>5, <2>6
       DEF Next, Consume, vars, heldVars, LoadStatus, Stop, LoadCommand, StoreCommand, FailCommand
<1>6. ~Away(u)
  BY <1>2, <1>5
<1> QED
  BY <1>3, <1>6, NewlyAway

LEMMA SettledGrows ==
    ASSUME AwayInv, [Next]_vars, NEW c \in Settled'
    PROVE  c \in Settled \/ (unacked # <<>> /\ Ack /\ c = Head(unacked))
<1>q. QueueKept
  BY DEF AwayInv
<1>1. ASSUME NEW n \in Events, Publish(n) PROVE c \in Settled
  <2>1. Held' = Held /\ ready' = ready \cup {n} /\ Received' = Received \cup {n}
    BY <1>1, PlaceAdded DEF Publish, heldVars, Held
  <2> QED
    BY <2>1 DEF Settled
<1>2. ASSUME NEW n \in Events, Deliver(n) PROVE c \in Settled
  <2>1. Received' = Received
    BY <1>2, PlaceKept DEF Deliver
  <2> QED
    BY <1>2, <2>1, DeliverFacts DEF Settled
<1>3. CASE unacked # <<>> /\ Ack
  <2>1. Received' = Received /\ ready' = ready /\ Held' = Held \ {Head(unacked)}
    BY <1>3, PlaceKept, DropFacts DEF Ack, queueVars
  <2> QED
    BY <1>3, <2>1 DEF Settled
<1>4. CASE unacked # <<>> /\ Requeue
  <2>1. /\ Received' = Received /\ ready' = ready \cup {Head(unacked)}
        /\ Held' = Held \ {Head(unacked)}
    BY <1>4, PlaceKept, DropFacts DEF Requeue
  <2> QED
    BY <2>1 DEF Settled
<1>5. CASE TakeBack
  <2>1. Received' = Received /\ ready' = ready \cup Held
    BY <1>5, PlaceKept DEF TakeBack
  <2> QED
    BY <2>1 DEF Settled
<1>6. CASE UNCHANGED <<published, ready, unacked>>
  BY <1>6 DEF Settled, Received, Held
<1> QED
  BY <1>1, <1>2, <1>3, <1>4, <1>5, <1>6, QueueSteps

LEMMA LastWordStep == AwayInv /\ [Next]_vars => LastWord'
<1> SUFFICES ASSUME AwayInv, [Next]_vars, NEW u \in Users, Away(u)', causes'[u] = {}
             PROVE  \E f \in Received' :
                      /\ f.kind = "found" /\ u \in UsersIn(f)
                      /\ \A c \in Settled' :
                            c.kind = "completed" /\ u \in UsersIn(c) => Place(c)' < Place(f)'
  BY DEF LastWord, UsersIn
<1>0. causes[u] = {}
  BY CausesGrow
<1>p. \A e \in Received : e \in Received' /\ Place(e)' = Place(e)
  <2>1. CASE published' = published
    BY <2>1, PlaceKept
  <2>2. ASSUME NEW n \in Events, Publish(n) PROVE <1>p!:
    BY <2>2, PlaceAdded
  <2>3. published' = published \/ \E n \in Events : Publish(n)
    BY QueueSteps DEF Deliver, Ack, Requeue, TakeBack, queueVars
  <2> QED
    BY <2>1, <2>2, <2>3
<1>s. \A c \in Settled' : c \in Settled \/ (unacked # <<>> /\ Ack /\ c = Head(unacked))
  BY SettledGrows
<1>r. Settled \subseteq Received
  BY DEF Settled
<1>1. CASE Away(u)
  <2>1. PICK f \in Received :
               /\ f.kind = "found" /\ u \in UsersIn(f)
               /\ \A c \in Settled : c.kind = "completed" /\ u \in UsersIn(c) => Place(c) < Place(f)
    BY <1>0, <1>1 DEF AwayInv, LastWord
  <2>2. ASSUME NEW c \in Settled', c.kind = "completed", u \in UsersIn(c)
        PROVE  Place(c)' < Place(f)'
    <3>1. c \in Settled
      BY <1>s, <2>2, EndsTold
    <3> QED
      BY <1>p, <1>r, <2>1, <2>2, <3>1
  <2> QED
    BY <1>p, <2>1, <2>2
<1>2. CASE ~Away(u)
  <2>0. PICK f : f = Head(unacked)
    OBVIOUS
  <2>1. StoreStatus /\ Current = u /\ Handling({"found"})
    BY <1>2, NewlyAway
  <2>2. f \in Held /\ f \in Received /\ f \notin Settled /\ f.kind = "found"
    <3>1. f \in Held
      BY <2>0, <2>1 DEF Handling, Held, AwayInv, IInv, TypeOK
    <3> QED
      BY <2>0, <2>1, <3>1 DEF Handling, Settled, AwayInv, QueueKept
  <2>3. u \in UsersIn(f)
    <3>1. at \in DOMAIN f.of
      <4>1. f \in Events /\ f.of \in Seq(Users)
        BY <2>0, <2>1, HeadTyped, EventTyped DEF Handling, AwayInv
      <4>2. at \in Nat /\ at >= 1 /\ at <= Len(f.of)
        BY <2>0, <2>1 DEF StoreStatus, AwayInv, IInv, TypeOK, PositionsTracked
      <4> QED
        BY <4>1, <4>2
    <3> QED
      BY <2>0, <2>1, <3>1 DEF Current, UsersIn
  <2>4. ASSUME NEW c \in Settled', c.kind = "completed", u \in UsersIn(c)
        PROVE  Place(c)' < Place(f)'
    <3>1. c \in Settled
      BY <1>s, <2>0, <2>2, <2>4
    <3>2. Place(c) < Place(f)
      BY <1>0, <1>r, <2>2, <2>3, <2>4, <3>1 DEF AwayInv, InOrder, Ahead
    <3> QED
      BY <1>p, <1>r, <2>2, <3>1, <3>2
  <2> QED
    BY <1>p, <2>2, <2>3, <2>4
<1> QED
  BY <1>1, <1>2

LEMMA ToldStep == AwayInv /\ [Next]_vars => Told'
<1> SUFFICES ASSUME AwayInv, [Next]_vars, Handling({"completed"})',
                    NEW i \in 1..(at - 1)', NEW u, u = Head(unacked').of[i],
                    causes'[u] = {}
             PROVE  ~Away(u)'
  BY DEF Told, Away
<1>h. PICK h : h = Head(unacked)
  OBVIOUS
<1>t. unacked \in Seq(Events) /\ at \in Nat
  BY DEF AwayInv, IInv, TypeOK
<1>1. ASSUME at' = 1 PROVE FALSE
  BY <1>1
<1>2. /\ unacked # <<>> /\ Head(unacked') = h /\ h.kind = "completed"
      /\ at' = at \/ (StoreStatus /\ at' = at + 1)
  <2>1. ASSUME NEW n \in Events, Deliver(n) PROVE <1>2!:
    <3>1. unacked # <<>>
      BY <1>1, <2>1 DEF Deliver, AwayInv, IInv, PositionsTracked
    <3> QED
      BY <1>h, <1>t, <2>1, <3>1 DEF Deliver, Handling
  <2>2. ASSUME UNCHANGED unacked PROVE unacked # <<>> /\ Head(unacked') = h /\ h.kind = "completed"
    BY <1>h, <2>2 DEF Handling
  <2> QED
    BY <1>1, <2>1, <2>2
       DEF Next, Consume, vars, heldVars, Publish, HandleRegistered, LoadStatus, RefuseInactive,
           RequeueMissing, StoreStatus, AckStatus, RequeueFailed, Stop, Discard, LoseChannel, Restart,
           LoadCommand, StoreCommand, FailCommand, Ack, Requeue, Drop, TakeBack
<1>3. u \in Users /\ u = h.of[i] /\ i \in DOMAIN h.of /\ i \in Nat /\ i >= 1
  <2>1. h \in Events /\ h.of \in Seq(Users) /\ Len(h.of) \in Nat
    BY <1>h, <1>2, HeadTyped, EventTyped DEF AwayInv
  <2>2. i \in Nat /\ i >= 1 /\ i <= Len(h.of)
    BY <1>h, <1>t, <1>2, <2>1 DEF StoreStatus, AwayInv, IInv, PositionsTracked
  <2>3. u = h.of[i]
    BY <1>2
  <2> QED
    BY <2>1, <2>2, <2>3
<1>4. ASSUME Away(u)' PROVE FALSE
  <2>0. causes'[u] = {} /\ causes[u] = {} /\ ~Handling({"found"})
    BY <1>h, <1>2, <1>3, CausesGrow DEF Handling
  <2>1. Away(u)
    <3>1. \A v \in Users : Away(v)' /\ ~Away(v) /\ causes'[v] = {} => Handling({"found"})
      BY NewlyAway
    <3> QED
      BY <1>3, <1>4, <2>0, <3>1
  <2>2. ~(i < at)
    <3>1. i < at => Handling({"completed"}) /\ i \in 1..(at - 1)
      BY <1>h, <1>t, <1>2, <1>3 DEF Handling
    <3> QED
      BY <1>h, <1>3, <2>0, <2>1, <3>1 DEF AwayInv, Told
  <2>3. StoreStatus /\ i = at /\ u = Current
    BY <1>h, <1>t, <1>2, <1>3, <2>2 DEF Current
  <2>4. rows'[u].status = "online"
    <3>1. rows' = [rows EXCEPT ![u] = [copy EXCEPT !.status = StatusAfter(h)]]
      BY <1>h, <2>3 DEF StoreStatus, SaveStatus
    <3>2. copy \in Row /\ rows \in [Users -> Row \cup {None}]
      BY <2>3 DEF StoreStatus, AwayInv, IInv, TypeOK
    <3>3. StatusAfter(h) = "online"
      BY <1>2 DEF StatusAfter
    <3> QED
      BY <1>3, <3>1, <3>2, <3>3 DEF Row
  <2> QED
    BY <1>4, <2>4 DEF Away
<1> QED
  BY <1>4

LEMMA AwayInvInit == Init => AwayInv
<1> SUFFICES ASSUME Init PROVE AwayInv
  OBVIOUS
<1>1. rows \in [Users -> Row \cup {None}] /\ published = <<>> /\ unacked = <<>> /\ ready = {}
  BY NewUserTyped DEF Init
<1>2. Received = {} /\ Held = {} /\ Settled = {}
  BY <1>1 DEF Received, Held, Settled
<1>3. \A u \in Users : ~Away(u)
  BY DEF Init, Away, NewUser
<1>4. ~Handling({"completed"})
  BY <1>1 DEF Handling
<1> QED
  BY <1>1, <1>2, <1>3, <1>4, IInvInit DEF AwayInv, QueueKept, InOrder, LastWord, Told

(* A user whose events are all through is away only if his last match has   *)
(* not been ended, or if something named in causes disturbed his status.    *)
THEOREM AwayExplained == Spec => []AwayHasReason
<1>1. AwayInv /\ [Next]_vars => AwayInv'
  BY IInvStep, QueueKeptStep, InOrderStep, LastWordStep, ToldStep DEF AwayInv
<1>2. AwayInv => AwayHasReason
  <2> SUFFICES ASSUME AwayInv, NEW u \in Users, Away(u), Quiet(u), causes[u] = {}
               PROVE  Matched(u)
    BY DEF AwayHasReason, Away
  <2>1. PICK f \in Received :
               /\ f.kind = "found" /\ u \in UsersIn(f)
               /\ \A c \in Settled : c.kind = "completed" /\ u \in UsersIn(c) => Place(c) < Place(f)
    BY DEF AwayInv, LastWord
  <2>2. ASSUME NEW c \in Received, c.kind = "completed", u \in UsersIn(c), Place(c) > Place(f)
        PROVE  FALSE
    <3>1. Place(c) < Place(f)
      BY <2>1, <2>2 DEF Quiet
    <3>2. Place(c) \in Nat /\ Place(f) \in Nat
      BY PlaceFacts DEF AwayInv
    <3> QED
      BY <2>2, <3>1, <3>2
  <2> QED
    BY <2>1, <2>2 DEF Matched
<1> QED
  BY <1>1, <1>2, AwayInvInit, PTL DEF Spec

================================================================================
