--------------------------- MODULE MatchmakingProofs ---------------------------
(***************************************************************************)
(* Theorems about Matchmaking, for any number of users, joins and          *)
(* EndMatch requests, and about BestMatch, for any candidates and any      *)
(* rounding.  The two specifications share no name; a theorem speaks of    *)
(* one of them.                                                            *)
(***************************************************************************)
EXTENDS Matchmaking, BestMatch, FiniteSetTheorems, TLAPS

LEMMA CandidatesAreOthers ==
    ASSUME NEW r \in Joins, NEW rows \in SUBSET Candidates(r)
    PROVE  BestMatches(r, rows) \subseteq Users \ {user[r]}
BY DEF BestMatches, Candidates

LEMMA InsertedChat ==
    ASSUME NEW u \in Users, NEW v \in Users
    PROVE  NewChat(u, v) \in Chat /\ Participants(NewChat(u, v)) = {u, v}
BY DEF NewChat, Chat, Participants

--------------------------------------------------------------------------------
(* The type invariant, with what a request knows of its users              *)

TypeInv == TypeOK /\ RequestsTyped

LEMMA TypeInvStep == TypeInv /\ [Next]_vars => TypeInv'
<1> SUFFICES ASSUME TypeInv, [Next]_vars PROVE TypeInv'
  OBVIOUS
<1> USE DEF TypeInv, TypeOK, RequestsTyped, joinVars, endVars, Goto, InFlight, Answered
<1>1. ASSUME NEW r \in Joins, NEW u \in Users, NEW p \in Prefs, StartJoin(r, u, p)
      PROVE  TypeInv'
  BY <1>1 DEF StartJoin
<1>2. ASSUME NEW r \in Joins, FailJoin(r) PROVE TypeInv'
  <2>1. pool' \in [Joins -> SUBSET Users]
    BY <1>2 DEF FailJoin
  <2>2. TypeOK'
    BY <1>2, <2>1 DEF FailJoin
  <2>3. ASSUME NEW s \in Joins PROVE pool'[s] \subseteq Users \ {user'[s]}
    BY <1>2 DEF FailJoin
  <2> QED BY <1>2, <2>2, <2>3 DEF FailJoin
<1>3. ASSUME NEW r \in Joins, CheckQueue(r) PROVE TypeInv'
  BY <1>3 DEF CheckQueue
<1>4. ASSUME NEW r \in Joins, Search(r) PROVE TypeInv'
  <2>1. PICK rows \in SUBSET Candidates(r) :
          \/ /\ Goto(r, "enqueueing")
             /\ UNCHANGED <<pool, target>>
          \/ \E v \in BestMatches(r, rows) :
               /\ target' = [target EXCEPT ![r] = v]
               /\ pool' = [pool EXCEPT ![r] = BestMatches(r, rows) \ {v}]
               /\ Goto(r, "recency")
    BY <1>4 DEF Search
  <2>2. BestMatches(r, rows) \subseteq Users \ {user[r]}
    BY CandidatesAreOthers
  <2>3. CASE Goto(r, "enqueueing") /\ UNCHANGED <<pool, target>>
    BY <1>4, <2>3 DEF Search
  <2>4. ASSUME NEW v \in BestMatches(r, rows),
               target' = [target EXCEPT ![r] = v],
               pool' = [pool EXCEPT ![r] = BestMatches(r, rows) \ {v}],
               Goto(r, "recency")
        PROVE  TypeInv'
    BY <1>4, <2>2, <2>4 DEF Search
  <2> QED BY <2>1, <2>3, <2>4
<1>5. ASSUME NEW r \in Joins, CheckRecent(r) PROVE TypeInv'
  BY <1>5 DEF CheckRecent
<1>6. ASSUME NEW r \in Joins, OpenChat(r) PROVE TypeInv'
  <2>1. NewChat(user[r], target[r]) \in Chat
    BY <1>6, InsertedChat DEF OpenChat
  <2> QED BY <1>6, <2>1 DEF OpenChat
<1>7. ASSUME NEW r \in Joins, SaveMatch(r) PROVE TypeInv'
  BY <1>7 DEF SaveMatch
<1>8. ASSUME NEW r \in Joins, Claim(r) PROVE TypeInv'
  <2>1. CASE Queued(target[r])
    <3>1. queue[target[r]].ticket \in Joins
      BY <1>8, <2>1 DEF Claim, Queued, Row
    <3>2. /\ claim' = [claim EXCEPT ![r] = queue[target[r]].ticket]
          /\ queue' = [queue EXCEPT ![target[r]] = NoRow]
          /\ pc' = [pc EXCEPT ![r] = "matched"] \/ pc' = [pc EXCEPT ![r] = "failed"]
          /\ UNCHANGED <<history, aged, chats, user, wish, pool, target, issued, endVars, editing>>
      BY <1>8, <2>1 DEF Claim
    <3>3. claim' \in [Joins -> Joins \cup {NoTicket}] /\ queue' \in [Users -> Row \cup {NoRow}]
      BY <3>1, <3>2
    <3>4. pc[r] = "claiming"
      BY <1>8 DEF Claim
    <3> QED BY <3>2, <3>3, <3>4
  <2>2. CASE ~Queued(target[r])
    BY <1>8, <2>2 DEF Claim
  <2> QED BY <2>1, <2>2
<1>9. ASSUME NEW r \in Joins, Enqueue(r) PROVE TypeInv'
  <2>1. [ticket |-> r, prefs |-> wish[r]] \in Row
    BY <1>9 DEF Enqueue, Row
  <2> QED BY <1>9, <2>1 DEF Enqueue
<1>10. ASSUME NEW u \in Users, LeaveQueue(u) PROVE TypeInv'
  BY <1>10 DEF LeaveQueue
<1>11. ASSUME NEW e \in Ends, EndStep(e) PROVE TypeInv'
  BY <1>11 DEF EndStep, LoadMatch, CompleteMatch, FailEnd
<1>12. ASSUME NEW u \in Users, LoadPreferences(u) PROVE TypeInv'
  BY <1>12 DEF LoadPreferences
<1>13. ASSUME NEW u \in Users, StorePreferences(u) PROVE TypeInv'
  BY <1>13 DEF StorePreferences, Queued, Row
<1>14. ASSUME NEW m \in Joins, EndChat(m) PROVE TypeInv'
  BY <1>14 DEF EndChat, Chat
<1>15. ASSUME NEW m \in Joins, AgeMatch(m) PROVE TypeInv'
  BY <1>15 DEF AgeMatch
<1>16. CASE UNCHANGED vars
  BY <1>16 DEF vars
<1> QED
  BY <1>1, <1>2, <1>3, <1>4, <1>5, <1>6, <1>7, <1>8, <1>9, <1>10, <1>11, <1>12,
     <1>13, <1>14, <1>15, <1>16 DEF Next, JoinStep, UserStep

(* Every variable keeps its type: no handler of the matching service writes *)
(* a row or a status outside the declared ones.                             *)
THEOREM TypeCorrect == Spec => []TypeOK
<1>1. Init => TypeInv
  BY DEF Init, TypeInv, TypeOK, RequestsTyped
<1>2. TypeInv => TypeOK
  BY DEF TypeInv
<1> QED
  BY <1>1, <1>2, TypeInvStep, PTL DEF Spec

--------------------------------------------------------------------------------
(* Tickets are claimed once                                                *)

TicketInv == TypeInv /\ TicketsTracked /\ TicketClaimedOnce

LEMMA TicketInvStep == TicketInv /\ [Next]_vars => TicketInv'
<1> SUFFICES ASSUME TicketInv, [Next]_vars PROVE TicketsTracked' /\ TicketClaimedOnce'
  BY TypeInvStep DEF TicketInv
<1> TypeInv'
  BY TypeInvStep DEF TicketInv
<1> USE DEF TicketInv, TicketsTracked, TicketClaimedOnce, TypeInv, TypeOK,
            RequestsTyped, Queued, joinVars, endVars, Goto, InFlight, Answered
<1>1. ASSUME NEW r \in Joins, NEW u \in Users, NEW p \in Prefs, StartJoin(r, u, p)
      PROVE  TicketsTracked' /\ TicketClaimedOnce'
  BY <1>1, NullAssumption DEF StartJoin, Row, NoRow
<1>2. ASSUME NEW r \in Joins, FailJoin(r) PROVE TicketsTracked' /\ TicketClaimedOnce'
  BY <1>2 DEF FailJoin
<1>3. ASSUME NEW r \in Joins, CheckQueue(r) PROVE TicketsTracked' /\ TicketClaimedOnce'
  BY <1>3 DEF CheckQueue
<1>4. ASSUME NEW r \in Joins, Search(r) PROVE TicketsTracked' /\ TicketClaimedOnce'
  <2>1. /\ pc[r] = "searching"
        /\ pc' = [pc EXCEPT ![r] = "enqueueing"] \/ pc' = [pc EXCEPT ![r] = "recency"]
        /\ \A s \in Joins \ {r} : target'[s] = target[s]
        /\ UNCHANGED <<queue, user, claim, issued>>
    BY <1>4 DEF Search
  <2>2. r \notin issued /\ claim[r] = NoTicket
    BY <2>1
  <2>3. \A s \in Joins \ {r} : pc'[s] = pc[s]
    BY <2>1
  <2>4. UNCHANGED <<queue, user, claim, issued>>
    BY <2>1
  <2>5. \A s \in Joins : claim[s] # NoTicket => s # r /\ target'[s] = target[s]
    BY <2>1, <2>2
  <2> QED BY <2>2, <2>3, <2>4, <2>5
<1>5. ASSUME NEW r \in Joins, CheckRecent(r) PROVE TicketsTracked' /\ TicketClaimedOnce'
  BY <1>5 DEF CheckRecent
<1>6. ASSUME NEW r \in Joins, OpenChat(r) PROVE TicketsTracked' /\ TicketClaimedOnce'
  BY <1>6 DEF OpenChat
<1>7. ASSUME NEW r \in Joins, SaveMatch(r) PROVE TicketsTracked' /\ TicketClaimedOnce'
  BY <1>7 DEF SaveMatch
<1>8. ASSUME NEW r \in Joins, Claim(r) PROVE TicketsTracked' /\ TicketClaimedOnce'
  <2> DEFINE v == target[r]
             t == queue[v].ticket
  <2>1. CASE Queued(v)
    <3>1. /\ v \in Users
          /\ v # user[r]
          /\ t \in Joins
          /\ t \in issued
          /\ user[t] = v
          /\ \A s \in Joins : claim[s] # t
          /\ claim[r] = NoTicket
      BY <1>8, <2>1 DEF Claim
    <3>2. /\ claim' = [claim EXCEPT ![r] = t]
          /\ queue' = [queue EXCEPT ![v] = NoRow]
          /\ pc'[r] \in {"matched", "failed"}
          /\ \A s \in Joins \ {r} : pc'[s] = pc[s]
          /\ UNCHANGED <<user, target, issued>>
      BY <1>8, <2>1 DEF Claim
    <3>3. r \notin issued
      BY <1>8 DEF Claim
    <3>4. TicketClaimedOnce'
      BY <3>1, <3>2
    <3>5. ASSUME NEW u \in Users, queue'[u] # NoRow
          PROVE  /\ queue'[u].ticket \in issued
                 /\ user[queue'[u].ticket] = u
                 /\ \A s \in Joins : claim'[s] # queue'[u].ticket
      BY <3>1, <3>2, <3>5
    <3>6. ASSUME NEW s \in Joins, claim'[s] # NoTicket
          PROVE  /\ claim'[s] \in issued
                 /\ user[claim'[s]] = target[s]
                 /\ target[s] # user[s]
                 /\ pc'[s] \in {"matched", "failed"}
      BY <3>1, <3>2, <3>6
    <3> QED BY <3>2, <3>3, <3>4, <3>5, <3>6
  <2>2. CASE ~Queued(v)
    BY <1>8, <2>2 DEF Claim
  <2> QED BY <2>1, <2>2
<1>9. ASSUME NEW r \in Joins, Enqueue(r) PROVE TicketsTracked' /\ TicketClaimedOnce'
  <2>1. /\ r \notin issued
        /\ claim[r] = NoTicket
        /\ \A s \in Joins : claim[s] # r
        /\ user[r] \in Users
    BY <1>9, NullAssumption DEF Enqueue
  <2>2. CASE Queued(user[r])
    BY <1>9, <2>1, <2>2 DEF Enqueue
  <2>3. CASE ~Queued(user[r])
    BY <1>9, <2>1, <2>3 DEF Enqueue
  <2> QED BY <2>2, <2>3
<1>10. ASSUME NEW u \in Users, LeaveQueue(u) PROVE TicketsTracked' /\ TicketClaimedOnce'
  BY <1>10 DEF LeaveQueue
<1>11. ASSUME NEW e \in Ends, EndStep(e) PROVE TicketsTracked' /\ TicketClaimedOnce'
  BY <1>11 DEF EndStep, LoadMatch, CompleteMatch, FailEnd
<1>12. ASSUME NEW u \in Users, LoadPreferences(u)
       PROVE  TicketsTracked' /\ TicketClaimedOnce'
  BY <1>12 DEF LoadPreferences
<1>13. ASSUME NEW u \in Users, StorePreferences(u)
       PROVE  TicketsTracked' /\ TicketClaimedOnce'
  <2>1. ASSUME NEW v \in Users
        PROVE  /\ Queued(v)' <=> Queued(v)
               /\ Queued(v) => queue'[v].ticket = queue[v].ticket
    BY <1>13, NullAssumption DEF StorePreferences, Row, NoRow
  <2> QED BY <1>13, <2>1 DEF StorePreferences
<1>14. ASSUME NEW m \in Joins, EndChat(m) \/ AgeMatch(m)
       PROVE  TicketsTracked' /\ TicketClaimedOnce'
  BY <1>14 DEF EndChat, AgeMatch
<1>15. CASE UNCHANGED vars
  BY <1>15 DEF vars
<1> QED
  BY <1>1, <1>2, <1>3, <1>4, <1>5, <1>6, <1>7, <1>8, <1>9, <1>10, <1>11, <1>12,
     <1>13, <1>14, <1>15 DEF Next, JoinStep, UserStep

(* No queue entry is ever handed to two joining requests: of all the       *)
(* requests that chose one candidate, RemoveFromQueue lets one through.    *)
THEOREM ClaimedOnce == Spec => []TicketClaimedOnce
<1>1. Init => TicketInv
  BY DEF Init, TicketInv, TypeInv, TypeOK, RequestsTyped, TicketsTracked,
         TicketClaimedOnce, Queued
<1>2. TicketInv => TicketClaimedOnce
  BY DEF TicketInv
<1> QED
  BY <1>1, <1>2, TicketInvStep, PTL DEF Spec

--------------------------------------------------------------------------------
(* What is written before a claim                                          *)

LEMMA IInvStep == IInv /\ [Next]_vars => IInv'
<1> SUFFICES ASSUME IInv, [Next]_vars PROVE RecordsOrdered'
  BY TicketInvStep DEF IInv, TicketInv, TypeInv
<1> USE DEF IInv, RecordsOrdered, TypeOK, RequestsTyped, joinVars, endVars,
            Goto, InFlight, Answered
<1>1. ASSUME NEW r \in Joins, NEW u \in Users, NEW p \in Prefs, StartJoin(r, u, p)
      PROVE  RecordsOrdered'
  BY <1>1 DEF StartJoin, TicketsTracked
<1>2. ASSUME NEW r \in Joins, FailJoin(r) PROVE RecordsOrdered'
  BY <1>2 DEF FailJoin
<1>3. ASSUME NEW r \in Joins, CheckQueue(r) PROVE RecordsOrdered'
  BY <1>3 DEF CheckQueue
<1>4. ASSUME NEW r \in Joins, Search(r) PROVE RecordsOrdered'
  BY <1>4 DEF Search, TicketsTracked
<1>5. ASSUME NEW r \in Joins, CheckRecent(r) PROVE RecordsOrdered'
  BY <1>5 DEF CheckRecent, TicketsTracked
<1>6. ASSUME NEW r \in Joins, OpenChat(r) PROVE RecordsOrdered'
  <2>1. Participants(NewChat(user[r], target[r])) = {user[r], target[r]}
    BY <1>6, InsertedChat DEF OpenChat
  <2>2. claim[r] = NoTicket
    BY <1>6 DEF OpenChat, TicketsTracked
  <2> QED BY <1>6, <2>1, <2>2 DEF OpenChat
<1>7. ASSUME NEW r \in Joins, SaveMatch(r) PROVE RecordsOrdered'
  BY <1>7 DEF SaveMatch
<1>8. ASSUME NEW r \in Joins, Claim(r) PROVE RecordsOrdered'
  BY <1>8 DEF Claim
<1>9. ASSUME NEW r \in Joins, Enqueue(r) PROVE RecordsOrdered'
  BY <1>9 DEF Enqueue
<1>10. ASSUME NEW u \in Users, UserStep(u) PROVE RecordsOrdered'
  BY <1>10 DEF UserStep, LeaveQueue, LoadPreferences, StorePreferences
<1>11. ASSUME NEW e \in Ends, EndStep(e) PROVE RecordsOrdered'
  BY <1>11 DEF EndStep, LoadMatch, CompleteMatch, FailEnd
<1>12. ASSUME NEW m \in Joins, EndChat(m) PROVE RecordsOrdered'
  <2>1. chats[m] \in Chat
    BY <1>12 DEF EndChat
  <2>2. \A n \in Joins : Participants(chats'[n]) = Participants(chats[n])
    BY <1>12, <2>1 DEF EndChat, Participants, Chat
  <2> QED BY <1>12, <2>2 DEF EndChat
<1>13. ASSUME NEW m \in Joins, AgeMatch(m) PROVE RecordsOrdered'
  BY <1>13 DEF AgeMatch
<1>14. CASE UNCHANGED vars
  BY <1>14 DEF vars
<1> QED
  BY <1>1, <1>2, <1>3, <1>4, <1>5, <1>6, <1>7, <1>8, <1>9, <1>10, <1>11, <1>12,
     <1>13, <1>14 DEF Next, JoinStep

LEMMA Invariance == Spec => []IInv
<1>1. Init => IInv
  BY DEF Init, IInv, TypeOK, RequestsTyped, TicketsTracked, TicketClaimedOnce,
         RecordsOrdered, Queued
<1> QED
  BY <1>1, IInvStep, PTL DEF Spec

(* A candidate is taken out of the queue only by a request that has already *)
(* stored the match and opened the chat of the two users, so an error or a  *)
(* crash after the DELETE never loses the candidate without a trace.        *)
THEOREM ClaimsAreRecorded == Spec => []ClaimIsRecorded
<1>1. IInv => ClaimIsRecorded
  BY DEF IInv, TicketsTracked, RecordsOrdered, ClaimIsRecorded
<1> QED
  BY <1>1, Invariance, PTL

(* No EndMatch request, however old the copy it loaded, takes a match out of *)
(* the completed status, and no join writes a match that exists.             *)
THEOREM CompletedIsFinal == Spec => CompletedStaysCompleted
<1>1. ASSUME IInv, [Next]_vars, NEW m \in Joins, history[m] = "completed"
      PROVE  history'[m] = "completed"
  <2> USE DEF IInv, TypeOK, RecordsOrdered, joinVars, endVars
  <2>1. ASSUME NEW r \in Joins, JoinStep(r) PROVE history'[m] = "completed"
    BY <1>1, <2>1 DEF JoinStep, StartJoin, FailJoin, CheckQueue, Search, CheckRecent,
       OpenChat, SaveMatch, Claim, Enqueue
  <2>2. ASSUME NEW e \in Ends, EndStep(e) PROVE history'[m] = "completed"
    BY <1>1, <2>2 DEF EndStep, LoadMatch, CompleteMatch, FailEnd
  <2>3. ASSUME NEW u \in Users, UserStep(u) PROVE history'[m] = "completed"
    BY <1>1, <2>3 DEF UserStep, LeaveQueue, LoadPreferences, StorePreferences
  <2>4. ASSUME NEW n \in Joins, EndChat(n) \/ AgeMatch(n)
        PROVE  history'[m] = "completed"
    BY <1>1, <2>4 DEF EndChat, AgeMatch
  <2> QED
    BY <1>1, <2>1, <2>2, <2>3, <2>4 DEF Next, vars
<1>2. IInv /\ [Next]_vars =>
        [\A m \in Joins : history[m] = "completed" => history'[m] = "completed"]_vars
  BY <1>1
<1> QED
  BY <1>2, Invariance, PTL DEF Spec, CompletedStaysCompleted

--------------------------------------------------------------------------------
(* The queue implements QueueTickets                                       *)

\* Where a ticket is, given the invariant.
LEMMA TicketStateCases ==
    ASSUME IInv, NEW t \in Joins
    PROVE  /\ TicketState(t) = "none" <=> t \notin issued
           /\ TicketState(t) = "waiting" <=> queue[user[t]].ticket = t /\ t \in issued
           /\ TicketState(t) \in {"none", "waiting", "taken", "left"}
<1>1. t \in issued => user[t] \in Users
  BY DEF IInv, RequestsTyped, TicketsTracked
<1>2. ASSUME NEW u \in Users, queue[u].ticket = t PROVE user[t] = u
  BY <1>2, NullAssumption DEF IInv, TicketsTracked, Queued, NoRow
<1> QED
  BY <1>1, <1>2 DEF TicketState

\* Steps that leave the queue, the claims and the issued tickets alone, up
\* to the preferences in a row, are invisible.
LEMMA InvisibleStep ==
    ASSUME IInv, UNCHANGED <<claim, issued>>,
           \A u \in Users : queue'[u].ticket = queue[u].ticket,
           \A t \in issued : user'[t] = user[t]
    PROVE  UNCHANGED <<TicketStates, TicketUsers, claim>>
<1>1. ASSUME NEW t \in Joins PROVE TicketState(t)' = TicketState(t)
  BY DEF TicketState
<1>2. UNCHANGED TicketStates
  BY <1>1 DEF TicketStates
<1>3. UNCHANGED TicketUsers
  BY DEF TicketUsers
<1> QED BY <1>2, <1>3

LEMMA EnqueueWaits ==
    ASSUME IInv, IInv', NEW r \in Joins, Enqueue(r), ~Queued(user[r])
    PROVE  Tickets!Wait(r, user[r])
<1> DEFINE u == user[r]
<1>1. /\ r \notin issued
      /\ claim[r] = NoTicket
      /\ u \in Users
      /\ queue' = [queue EXCEPT ![u] = [ticket |-> r, prefs |-> wish[r]]]
      /\ issued' = issued \cup {r}
      /\ UNCHANGED <<user, claim>>
      /\ queue[u] = NoRow
      /\ \A s \in Joins : claim[s] # r
  BY NullAssumption DEF Enqueue, IInv, RequestsTyped, TicketsTracked, Queued, InFlight
<1>2. queue \in [Users -> Row \cup {NoRow}]
  BY DEF IInv, TypeOK
<1>3. TicketState(r)' = "waiting"
  BY <1>1, <1>2 DEF TicketState
<1>4. ASSUME NEW t \in Joins \ {r} PROVE TicketState(t)' = TicketState(t)
  BY <1>1, <1>2, NullAssumption DEF TicketState, NoRow
<1>5. TicketStates' = [TicketStates EXCEPT ![r] = "waiting"]
  BY <1>3, <1>4 DEF TicketStates
<1>6. TicketUsers' = [TicketUsers EXCEPT ![r] = u]
  BY <1>1 DEF TicketUsers
<1>7. TicketState(r) = "none"
  BY <1>1 DEF TicketState
<1>8. ASSUME NEW t \in Joins, TicketState(t) = "waiting", TicketUsers[t] = u PROVE FALSE
  <2>1. queue[user[t]].ticket = t /\ t \in issued
    BY <1>8, TicketStateCases
  <2>2. user[t] = u
    BY <1>8, <2>1 DEF TicketUsers
  <2> QED BY <1>1, <2>1, <2>2, NullAssumption DEF NoRow
<1> QED
  BY <1>1, <1>5, <1>6, <1>7, <1>8 DEF Tickets!Wait, Tickets!Waiting, TicketStates

LEMMA ClaimTakes ==
    ASSUME IInv, IInv', NEW r \in Joins, Claim(r), Queued(target[r])
    PROVE  \E t \in Joins : Tickets!Take(r, t)
<1> PICK v \in Users : v = target[r]
  BY DEF Claim, IInv, RequestsTyped, InFlight
<1> PICK t \in Joins : t = queue[v].ticket
  BY DEF IInv, TypeOK, TicketsTracked, Queued
<1>1. /\ v \in Users
      /\ v # user[r]
      /\ t \in Joins
      /\ t \in issued
      /\ user[t] = v
      /\ r \notin issued
      /\ claim[r] = NoTicket
      /\ claim' = [claim EXCEPT ![r] = t]
      /\ queue' = [queue EXCEPT ![v] = NoRow]
      /\ UNCHANGED <<user, issued>>
  BY DEF Claim, IInv, TypeOK, RequestsTyped, TicketsTracked, Queued, InFlight
<1>2. queue \in [Users -> Row \cup {NoRow}] /\ claim \in [Joins -> Joins \cup {NoTicket}]
  BY DEF IInv, TypeOK
<1>3. TicketState(t) = "waiting" /\ TicketState(r) = "none" /\ r # t
  BY <1>1, TicketStateCases
<1>4. TicketState(t)' = "taken"
  <2>1. ASSUME NEW u \in Users PROVE queue'[u].ticket # t
    BY <1>1, <1>2, NullAssumption DEF IInv, TicketsTracked, Queued, NoRow
  <2>2. claim'[r] = t
    BY <1>1, <1>2
  <2> QED BY <1>1, <2>1, <2>2 DEF TicketState
<1>5. ASSUME NEW s \in Joins \ {t} PROVE TicketState(s)' = TicketState(s)
  <2>1. \A u \in Users : queue'[u].ticket = s <=> queue[u].ticket = s
    BY <1>1, <1>2, NullAssumption DEF NoRow
  <2>2. \A q \in Joins : claim'[q] = s <=> claim[q] = s
    BY <1>1, <1>2, NullAssumption
  <2> QED BY <1>1, <2>1, <2>2 DEF TicketState
<1>6. TicketStates' = [TicketStates EXCEPT ![t] = "taken"]
  BY <1>1, <1>4, <1>5 DEF TicketStates
<1>7. UNCHANGED TicketUsers
  BY <1>1 DEF TicketUsers
<1> QED
  BY <1>1, <1>3, <1>6, <1>7 DEF Tickets!Take, TicketStates

LEMMA LeaveLeaves ==
    ASSUME IInv, IInv', NEW u \in Users, LeaveQueue(u), Queued(u)
    PROVE  \E t \in Joins : Tickets!Leave(t)
<1> PICK t \in Joins : t = queue[u].ticket
  BY DEF IInv, TypeOK, TicketsTracked, Queued
<1>1. /\ t \in Joins
      /\ t \in issued
      /\ user[t] = u
      /\ \A s \in Joins : claim[s] # t
      /\ queue' = [queue EXCEPT ![u] = NoRow]
      /\ UNCHANGED <<user, issued, claim>>
  BY DEF LeaveQueue, IInv, TypeOK, TicketsTracked, Queued, joinVars
<1>2. queue \in [Users -> Row \cup {NoRow}]
  BY DEF IInv, TypeOK
<1>3. TicketState(t) = "waiting"
  BY <1>1, TicketStateCases
<1>4. TicketState(t)' = "left"
  <2>1. ASSUME NEW v \in Users PROVE queue'[v].ticket # t
    BY <1>1, <1>2, NullAssumption DEF IInv, TicketsTracked, Queued, NoRow
  <2> QED BY <1>1, <2>1 DEF TicketState
<1>5. ASSUME NEW s \in Joins \ {t} PROVE TicketState(s)' = TicketState(s)
  <2>1. \A v \in Users : queue'[v].ticket = s <=> queue[v].ticket = s
    BY <1>1, <1>2, NullAssumption DEF NoRow
  <2> QED BY <1>1, <2>1 DEF TicketState
<1>6. TicketStates' = [TicketStates EXCEPT ![t] = "left"]
  BY <1>1, <1>4, <1>5 DEF TicketStates
<1>7. UNCHANGED TicketUsers
  BY <1>1 DEF TicketUsers
<1> QED
  BY <1>1, <1>3, <1>6, <1>7 DEF Tickets!Leave, TicketStates

LEMMA NextImplements == IInv /\ IInv' /\ [Next]_vars => [Tickets!Next]_(Tickets!vars)
<1> SUFFICES ASSUME IInv, IInv', [Next]_vars PROVE [Tickets!Next]_(Tickets!vars)
  OBVIOUS
<1> USE DEF Tickets!vars
<1>1. ASSUME NEW r \in Joins, NEW u \in Users, NEW p \in Prefs, StartJoin(r, u, p)
      PROVE  UNCHANGED Tickets!vars
  <2>1. r \notin issued
    BY <1>1 DEF StartJoin, IInv, TicketsTracked
  <2> QED BY <1>1, <2>1, InvisibleStep DEF StartJoin, IInv, TypeOK
<1>2. ASSUME NEW r \in Joins,
             \/ FailJoin(r) \/ CheckQueue(r) \/ Search(r) \/ CheckRecent(r)
             \/ OpenChat(r) \/ SaveMatch(r)
      PROVE  UNCHANGED Tickets!vars
  BY <1>2, InvisibleStep
     DEF FailJoin, CheckQueue, Search, CheckRecent, OpenChat, SaveMatch
<1>3. ASSUME NEW r \in Joins, Claim(r) PROVE [Tickets!Next]_(Tickets!vars)
  <2>1. CASE Queued(target[r])
    BY <1>3, <2>1, ClaimTakes DEF Tickets!Next
  <2>2. CASE ~Queued(target[r])
    BY <1>3, <2>2, InvisibleStep DEF Claim
  <2> QED BY <2>1, <2>2
<1>4. ASSUME NEW r \in Joins, Enqueue(r) PROVE [Tickets!Next]_(Tickets!vars)
  <2>1. CASE ~Queued(user[r])
    <3>1. user[r] \in Users
      BY <1>4 DEF Enqueue, IInv, RequestsTyped
    <3> QED BY <1>4, <2>1, <3>1, EnqueueWaits DEF Tickets!Next
  <2>2. CASE Queued(user[r])
    BY <1>4, <2>2, InvisibleStep DEF Enqueue
  <2> QED BY <2>1, <2>2
<1>5. ASSUME NEW u \in Users, LeaveQueue(u) PROVE [Tickets!Next]_(Tickets!vars)
  <2>1. CASE Queued(u)
    BY <1>5, <2>1, LeaveLeaves DEF Tickets!Next
  <2>2. CASE ~Queued(u)
    BY <1>5, <2>2, InvisibleStep DEF LeaveQueue, joinVars, Queued, IInv, TypeOK
  <2> QED BY <2>1, <2>2
<1>6. ASSUME NEW u \in Users, LoadPreferences(u) \/ StorePreferences(u)
      PROVE  UNCHANGED Tickets!vars
  <2>1. \A v \in Users : queue'[v].ticket = queue[v].ticket
    BY <1>6 DEF LoadPreferences, StorePreferences, IInv, TypeOK, Queued, Row
  <2> QED BY <1>6, <2>1, InvisibleStep DEF LoadPreferences, StorePreferences, joinVars
<1>7. ASSUME NEW e \in Ends, EndStep(e) PROVE UNCHANGED Tickets!vars
  BY <1>7, InvisibleStep DEF EndStep, LoadMatch, CompleteMatch, FailEnd, joinVars
<1>8. ASSUME NEW m \in Joins, EndChat(m) \/ AgeMatch(m) PROVE UNCHANGED Tickets!vars
  BY <1>8, InvisibleStep DEF EndChat, AgeMatch, joinVars
<1>9. CASE UNCHANGED vars
  BY <1>9, InvisibleStep DEF vars, joinVars
<1> QED
  BY <1>1, <1>2, <1>3, <1>4, <1>5, <1>6, <1>7, <1>8, <1>9 DEF Next, JoinStep, UserStep

(* The matching queue implements QueueTickets: a user waits with one ticket, *)
(* which ends once, and no request both waits and takes a ticket, for all    *)
(* interleavings of joins, departures and preference edits.                  *)
THEOREM QueueImplementsTickets == Spec => ImplementsTickets
<1>1. Init => Tickets!Init
  <2>1. ASSUME Init, NEW t \in Joins PROVE TicketState(t) = "none"
    BY <2>1 DEF Init, TicketState
  <2>2. Init => TicketStates = [t \in Joins |-> "none"]
    BY <2>1 DEF TicketStates
  <2>3. Init => TicketUsers = [t \in Joins |-> NoUser]
    BY DEF Init, TicketUsers
  <2>4. Init => claim = [t \in Joins |-> NoTicket]
    BY DEF Init
  <2> QED BY <2>2, <2>3, <2>4 DEF Tickets!Init
<1> QED
  BY <1>1, NextImplements, Invariance, PTL DEF Spec, ImplementsTickets, Tickets!Spec

--------------------------------------------------------------------------------
(* No pair is matched twice within the window                              *)

\* A patient user has one join in flight.
PatientAlone ==
    \A r, s \in Joins :
        /\ pc[r] \in InFlight /\ pc[s] \in InFlight
        /\ user[r] = user[s] /\ user[r] \in Patient
        => r = s

\* Whom a join may still be matched with.
Chosen(r) ==
    IF pc[r] = "recency" THEN pool[r] \cup {target[r]}
    ELSE IF pc[r] \in {"chatting", "saving"} THEN {target[r]}
    ELSE {}

\* Two patient users do not choose each other: whoever searches second is out
\* of the queue, and was when the first searched.
NoMutualChoice ==
    \A r, s \in Joins :
        user[r] \in Patient /\ user[s] \in Patient
            => ~(user[s] \in Chosen(r) /\ user[r] \in Chosen(s))

\* What HasRecentMatch said stays true until the match is saved.
NotRecentYet ==
    \A r \in Joins :
        pc[r] \in {"chatting", "saving"} /\ user[r] \in Patient /\ target[r] \in Patient
            => ~Recent(user[r], target[r])

WindowParts ==
    /\ PatientAlone /\ SearcherNotQueued
    /\ NoMutualChoice /\ NotRecentYet /\ NoRematchInWindow

WindowInv == IInv /\ WindowParts

\* HasRecentMatch sees no more than before if no match was added.
LEMMA NoMatchAdded ==
    ASSUME \A m \in Joins : history'[m] # "none" =>
               history[m] # "none" /\ user'[m] = user[m] /\ target'[m] = target[m],
           aged \subseteq aged'
    PROVE  /\ \A u, v : Recent(u, v)' => Recent(u, v)
           /\ NoRematchInWindow => NoRematchInWindow'
BY DEF Recent, NoRematchInWindow

\* Steps that leave the joins alone, insert no row and add no match.
LEMMA WindowKept ==
    ASSUME WindowInv, UNCHANGED <<pc, user, pool, target>>, aged \subseteq aged',
           \A m \in Joins : history'[m] # "none" => history[m] # "none",
           \A u \in Users : Queued(u)' => Queued(u)
    PROVE  WindowParts'
<1> USE DEF WindowParts
<1>1. \A u, v : Recent(u, v)' => Recent(u, v)
  BY NoMatchAdded
<1>2. NoRematchInWindow'
  BY NoMatchAdded DEF WindowInv
<1>3. \A r \in Joins : Chosen(r)' = Chosen(r)
  BY DEF Chosen
<1>4. NoMutualChoice'
  BY <1>3 DEF WindowInv, NoMutualChoice
<1>5. NotRecentYet'
  BY <1>1 DEF WindowInv, NotRecentYet
<1>6. PatientAlone' /\ SearcherNotQueued'
  BY PatientAssumption DEF WindowInv, PatientAlone, SearcherNotQueued
<1> QED  BY <1>2, <1>4, <1>5, <1>6

\* Steps of a join that neither insert a row nor add a match: whom it chooses
\* has not chosen its user, and was not matched with it.
LEMMA JoinKept ==
    ASSUME WindowInv, NEW r \in Joins, pc[r] \in InFlight,
           \A s \in Joins \ {r} : pc'[s] = pc[s] /\ target'[s] = target[s] /\ pool'[s] = pool[s],
           UNCHANGED <<user, aged>>,
           \A m \in Joins : history'[m] # "none" => history[m] # "none" /\ target'[m] = target[m],
           user[r] \in Patient /\ pc'[r] \in InFlight \ {"checking"} => ~Queued(user[r]),
           \A u \in Users : Queued(u)' => Queued(u),
           \A s \in Joins \ {r} : user[r] \in Patient /\ user[s] \in Patient
               => ~(user[s] \in Chosen(r)' /\ user[r] \in Chosen(s)),
           user[r] \notin Chosen(r)',
           /\ pc'[r] \in {"chatting", "saving"}
           /\ user[r] \in Patient /\ target'[r] \in Patient
           => ~Recent(user[r], target'[r])
    PROVE  WindowParts'
<1> USE DEF WindowParts
<1>1. \A u, v : Recent(u, v)' => Recent(u, v)
  BY NoMatchAdded
<1>2. NoRematchInWindow'
  BY NoMatchAdded DEF WindowInv
<1>3. \A s \in Joins \ {r} : Chosen(s)' = Chosen(s)
  BY DEF Chosen
<1>4. NoMutualChoice'
  <2> SUFFICES ASSUME NEW p \in Joins, NEW q \in Joins,
                      user[p] \in Patient, user[q] \in Patient,
                      user[q] \in Chosen(p)', user[p] \in Chosen(q)'
               PROVE  FALSE
    BY DEF NoMutualChoice
  <2>1. CASE p = r /\ q = r
    BY <2>1
  <2>2. CASE p = r /\ q # r
    BY <2>2, <1>3
  <2>3. CASE p # r /\ q = r
    BY <2>3, <1>3
  <2>4. CASE p # r /\ q # r
    BY <2>4, <1>3 DEF WindowInv, NoMutualChoice
  <2> QED  BY <2>1, <2>2, <2>3, <2>4
<1>5. NotRecentYet'
  <2> SUFFICES ASSUME NEW p \in Joins, pc'[p] \in {"chatting", "saving"},
                      user[p] \in Patient, target'[p] \in Patient
               PROVE  ~Recent(user[p], target[p])'
    BY DEF NotRecentYet
  <2>1. CASE p = r
    BY <2>1, <1>1
  <2>2. CASE p # r
    BY <2>2, <1>1 DEF WindowInv, NotRecentYet
  <2> QED  BY <2>1, <2>2
<1>6. PatientAlone'
  BY DEF WindowInv, PatientAlone
<1>7. SearcherNotQueued'
  BY PatientAssumption DEF WindowInv, SearcherNotQueued
<1> QED  BY <1>2, <1>4, <1>5, <1>6, <1>7

LEMMA WindowStep == WindowInv /\ [Next]_vars => WindowInv'
<1> SUFFICES ASSUME WindowInv, [Next]_vars
             PROVE  WindowParts'
  BY IInvStep DEF WindowInv
<1> USE DEF WindowParts, Goto, InFlight, joinVars, endVars
<1>t. TypeOK /\ RequestsTyped /\ RecordsOrdered
  BY DEF WindowInv, IInv
<1>n. \A r \in Joins : pc[r] = "idle" => history[r] = "none"
  BY <1>t DEF RecordsOrdered
<1>1. ASSUME NEW r \in Joins, NEW u \in Users, NEW p \in Prefs, StartJoin(r, u, p)
      PROVE  WindowParts'
  <2>1. /\ pc[r] = "idle"
        /\ pc' = [pc EXCEPT ![r] = "checking"]
        /\ user' = [user EXCEPT ![r] = u]
        /\ u \in Patient => \A s \in Joins : user[s] = u => pc[s] \notin InFlight
        /\ UNCHANGED <<queue, history, aged, pool, target>>
    BY <1>1 DEF StartJoin
  <2>2. /\ pc'[r] = "checking" /\ user'[r] = u
        /\ \A s \in Joins \ {r} : pc'[s] = pc[s] /\ user'[s] = user[s]
    BY <1>t, <2>1 DEF TypeOK
  <2>3. \A m \in Joins : history'[m] # "none" =>
            history[m] # "none" /\ user'[m] = user[m] /\ target'[m] = target[m]
    BY <1>n, <2>1, <2>2
  <2>4. /\ \A v, w : Recent(v, w)' => Recent(v, w)
        /\ NoRematchInWindow'
    BY <2>1, <2>3, NoMatchAdded DEF WindowInv
  <2>5. PatientAlone'
    BY <2>1, <2>2 DEF WindowInv, PatientAlone
  <2>6. SearcherNotQueued'
    BY <2>1, <2>2 DEF WindowInv, SearcherNotQueued, Queued
  <2>7. Chosen(r)' = {} /\ \A s \in Joins \ {r} : Chosen(s)' = Chosen(s)
    BY <2>1, <2>2 DEF Chosen
  <2>8. NoMutualChoice'
    BY <2>2, <2>7 DEF WindowInv, NoMutualChoice
  <2>9. NotRecentYet'
    BY <2>1, <2>2, <2>4 DEF WindowInv, NotRecentYet
  <2> QED  BY <2>4, <2>5, <2>6, <2>8, <2>9
<1>2. ASSUME NEW r \in Joins, FailJoin(r) PROVE WindowParts'
  <2>1. /\ pc[r] \in InFlight /\ pc'[r] = "failed"
        /\ \A s \in Joins \ {r} : pc'[s] = pc[s] /\ pool'[s] = pool[s]
        /\ UNCHANGED <<queue, history, aged, user, target>>
    BY <1>2, <1>t DEF FailJoin, TypeOK
  <2>2. Chosen(r)' = {}
    BY <2>1 DEF Chosen
  <2> QED  BY <2>1, <2>2, JoinKept DEF Queued
<1>3. ASSUME NEW r \in Joins, CheckQueue(r) PROVE WindowParts'
  <2>1. /\ pc[r] = "checking" /\ pc'[r] \in {"failed", "searching"}
        /\ Queued(user[r]) => pc'[r] = "failed"
        /\ \A s \in Joins \ {r} : pc'[s] = pc[s]
        /\ UNCHANGED <<queue, history, aged, user, target, pool>>
    BY <1>3, <1>t DEF CheckQueue, TypeOK
  <2>2. Chosen(r)' = {}
    BY <2>1 DEF Chosen
  <2> QED  BY <2>1, <2>2, JoinKept DEF Queued
<1>4. ASSUME NEW r \in Joins, Search(r) PROVE WindowParts'
  <2>1. /\ pc[r] = "searching" /\ pc'[r] \in {"enqueueing", "recency"}
        /\ \A s \in Joins \ {r} : pc'[s] = pc[s] /\ pool'[s] = pool[s] /\ target'[s] = target[s]
        /\ UNCHANGED <<queue, history, aged, user>>
    BY <1>4, <1>t DEF Search, TypeOK
  <2>2. \A v \in Chosen(r)' : v # user[r] /\ Queued(v)
    <3>1. PICK rows \in SUBSET Candidates(r) :
            \/ pc' = [pc EXCEPT ![r] = "enqueueing"]
            \/ \E v \in BestMatches(r, rows) :
                 /\ target' = [target EXCEPT ![r] = v]
                 /\ pool' = [pool EXCEPT ![r] = BestMatches(r, rows) \ {v}]
                 /\ pc' = [pc EXCEPT ![r] = "recency"]
      BY <1>4 DEF Search
    <3>2. \A v \in BestMatches(r, rows) : v # user[r] /\ Queued(v)
      BY DEF BestMatches, Candidates
    <3>3. CASE pc' = [pc EXCEPT ![r] = "enqueueing"]
      BY <3>3, <1>t DEF Chosen, TypeOK
    <3>4. ASSUME NEW v \in BestMatches(r, rows),
                 target' = [target EXCEPT ![r] = v],
                 pool' = [pool EXCEPT ![r] = BestMatches(r, rows) \ {v}],
                 pc' = [pc EXCEPT ![r] = "recency"]
          PROVE  Chosen(r)' = BestMatches(r, rows)
      <4>1. pc'[r] = "recency" /\ pool'[r] = BestMatches(r, rows) \ {v} /\ target'[r] = v
        BY <3>4, <1>t DEF TypeOK
      <4> QED  BY <4>1 DEF Chosen
    <3> QED  BY <3>1, <3>2, <3>3, <3>4
  <2>3. history[r] = "none"
    BY <2>1, <1>t DEF RecordsOrdered
  <2>4. ASSUME NEW s \in Joins \ {r}, user[r] \in Patient, user[s] \in Patient,
               user[s] \in Chosen(r)', user[r] \in Chosen(s)
        PROVE  FALSE
    <3>1. pc[s] \in {"recency", "chatting", "saving"}
      BY <2>4 DEF Chosen
    <3> QED  BY <2>2, <2>4, <3>1 DEF WindowInv, SearcherNotQueued
  <2>5. user[r] \in Patient => ~Queued(user[r])
    BY <2>1 DEF WindowInv, SearcherNotQueued
  <2> QED  BY <2>1, <2>2, <2>3, <2>4, <2>5, JoinKept DEF Queued
<1>5. ASSUME NEW r \in Joins, CheckRecent(r) PROVE WindowParts'
  <2>1. /\ pc[r] = "recency" /\ pc'[r] \in {"enqueueing", "chatting"}
        /\ \A s \in Joins \ {r} : pc'[s] = pc[s] /\ pool'[s] = pool[s] /\ target'[s] = target[s]
        /\ UNCHANGED <<queue, history, aged, user>>
    BY <1>5, <1>t DEF CheckRecent, TypeOK
  <2>2. pc'[r] = "chatting" =>
            target'[r] \in pool[r] \cup {target[r]} /\ ~Recent(user[r], target'[r])
    <3>1. \/ /\ ~Recent(user[r], target[r]) /\ target'[r] = target[r]
          \/ pc' = [pc EXCEPT ![r] = "enqueueing"]
          \/ \E v \in pool[r] : ~Recent(user[r], v) /\ target' = [target EXCEPT ![r] = v]
      BY <1>5 DEF CheckRecent
    <3> QED  BY <3>1, <1>t DEF TypeOK
  <2>3. Chosen(r)' \subseteq Chosen(r)
    BY <2>1, <2>2 DEF Chosen
  <2>4. history[r] = "none" /\ user[r] \notin Chosen(r)
    BY <2>1, <1>t DEF RecordsOrdered, RequestsTyped, Chosen
  <2>5. ASSUME NEW s \in Joins \ {r}, user[r] \in Patient, user[s] \in Patient,
               user[s] \in Chosen(r)', user[r] \in Chosen(s)
        PROVE  FALSE
    BY <2>3, <2>5 DEF WindowInv, NoMutualChoice
  <2>6. user[r] \in Patient => ~Queued(user[r])
    BY <2>1 DEF WindowInv, SearcherNotQueued
  <2> QED  BY <2>1, <2>2, <2>3, <2>4, <2>5, <2>6, JoinKept DEF Queued
<1>6. ASSUME NEW r \in Joins, OpenChat(r) PROVE WindowParts'
  <2>1. /\ pc[r] = "chatting" /\ pc'[r] \in {"enqueueing", "saving"}
        /\ \A s \in Joins \ {r} : pc'[s] = pc[s]
        /\ UNCHANGED <<queue, history, aged, user, pool, target>>
    BY <1>6, <1>t DEF OpenChat, TypeOK
  <2>2. Chosen(r)' \subseteq Chosen(r)
    BY <2>1 DEF Chosen
  <2>3. user[r] \notin Chosen(r)
    BY <2>1, <1>t DEF RequestsTyped, Chosen
  <2>4. ASSUME NEW s \in Joins \ {r}, user[r] \in Patient, user[s] \in Patient,
               user[s] \in Chosen(r)', user[r] \in Chosen(s)
        PROVE  FALSE
    BY <2>2, <2>4 DEF WindowInv, NoMutualChoice
  <2>5. /\ user[r] \in Patient => ~Queued(user[r])
        /\ user[r] \in Patient /\ target[r] \in Patient => ~Recent(user[r], target[r])
    BY <2>1 DEF WindowInv, SearcherNotQueued, NotRecentYet
  <2> QED  BY <2>1, <2>2, <2>3, <2>4, <2>5, JoinKept DEF Queued
<1>7. ASSUME NEW r \in Joins, SaveMatch(r) PROVE WindowParts'
  <2>1. /\ pc[r] = "saving" /\ pc'[r] = "claiming" /\ history'[r] = "active"
        /\ \A s \in Joins \ {r} : pc'[s] = pc[s] /\ history'[s] = history[s]
        /\ UNCHANGED <<queue, aged, user, pool, target>>
    BY <1>7, <1>t DEF SaveMatch, TypeOK
  <2>2. Chosen(r)' = {} /\ \A s \in Joins \ {r} : Chosen(s)' = Chosen(s)
    BY <2>1 DEF Chosen
  <2>3. PatientAlone' /\ SearcherNotQueued'
    BY <2>1 DEF WindowInv, PatientAlone, SearcherNotQueued, Queued
  <2>4. NoMutualChoice'
    BY <2>1, <2>2 DEF WindowInv, NoMutualChoice
  <2>5. ASSUME NEW s \in Joins \ {r}, pc[s] \in {"chatting", "saving"},
               user[s] \in Patient, target[s] \in Patient,
               {user[r], target[r]} = {user[s], target[s]}
        PROVE  FALSE
    <3>1. CASE user[r] = user[s]
      BY <2>1, <2>5, <3>1 DEF WindowInv, PatientAlone
    <3>2. CASE user[r] = target[s] /\ target[r] = user[s]
      BY <2>1, <2>5, <3>2 DEF WindowInv, NoMutualChoice, Chosen
    <3> QED  BY <2>5, <3>1, <3>2
  <2>6. NotRecentYet'
    BY <2>1, <2>5 DEF WindowInv, NotRecentYet, Recent
  <2>7. ASSUME NEW s \in Joins \ {r}, user[r] \in Patient, target[r] \in Patient,
               history[s] # "none", {user[r], target[r]} = {user[s], target[s]}
        PROVE  s \in aged
    BY <2>1, <2>7 DEF WindowInv, NotRecentYet, Recent
  <2>8. NoRematchInWindow'
    <3> SUFFICES ASSUME NEW p \in Joins, NEW q \in Joins, p # q,
                        user[p] \in Patient, target[p] \in Patient,
                        history'[p] # "none", history'[q] # "none",
                        {user[p], target[p]} = {user[q], target[q]}
                 PROVE  p \in aged \/ q \in aged
      BY <2>1 DEF NoRematchInWindow
    <3>1. CASE p = r
      BY <2>1, <2>7, <3>1
    <3>2. CASE q = r
      <4>1. user[r] \in Patient /\ target[r] \in Patient
        BY <3>2
      <4> QED  BY <2>1, <2>7, <3>2, <4>1
    <3>3. CASE p # r /\ q # r
      BY <2>1, <3>3 DEF WindowInv, NoRematchInWindow
    <3> QED  BY <3>1, <3>2, <3>3
  <2> QED  BY <2>3, <2>4, <2>6, <2>8
<1>8. ASSUME NEW r \in Joins, Claim(r) PROVE WindowParts'
  <2>1. /\ pc[r] = "claiming" /\ pc'[r] \in {"matched", "failed", "enqueueing"}
        /\ \A s \in Joins \ {r} : pc'[s] = pc[s]
        /\ UNCHANGED <<history, aged, user, pool, target>>
        /\ \A u \in Users : queue'[u] \in {queue[u], NoRow}
    BY <1>8, <1>t DEF Claim, TypeOK
  <2>2. Chosen(r)' = {}
    BY <2>1 DEF Chosen
  <2>3. user[r] \in Patient => ~Queued(user[r])
    BY <2>1 DEF WindowInv, SearcherNotQueued
  <2>4. \A u \in Users : Queued(u)' => Queued(u)
    BY <2>1 DEF Queued
  <2> QED  BY <2>1, <2>2, <2>3, <2>4, JoinKept
<1>9. ASSUME NEW r \in Joins, Enqueue(r) PROVE WindowParts'
  <2>1. /\ pc[r] = "enqueueing" /\ pc'[r] \in {"queued", "failed"}
        /\ \A s \in Joins \ {r} : pc'[s] = pc[s]
        /\ UNCHANGED <<history, aged, user, pool, target>>
        /\ \A u \in Users \ {user[r]} : queue'[u] = queue[u]
    BY <1>9, <1>t DEF Enqueue, TypeOK, RequestsTyped
  <2>2. /\ \A v, w : Recent(v, w)' => Recent(v, w)
        /\ NoRematchInWindow'
    BY <2>1, NoMatchAdded DEF WindowInv
  <2>3. Chosen(r)' = {} /\ \A s \in Joins \ {r} : Chosen(s)' = Chosen(s)
    BY <2>1 DEF Chosen
  <2>4. NoMutualChoice' /\ NotRecentYet' /\ PatientAlone'
    BY <2>1, <2>2, <2>3 DEF WindowInv, NoMutualChoice, NotRecentYet, PatientAlone
  <2>5. SearcherNotQueued'
    <3> SUFFICES ASSUME NEW s \in Joins, user[s] \in Patient, pc'[s] \in InFlight \ {"checking"}
                 PROVE  ~Queued(user[s])'
      BY <2>1 DEF SearcherNotQueued
    <3>1. s # r /\ pc[s] = pc'[s] /\ user[s] # user[r]
      BY <2>1 DEF WindowInv, PatientAlone
    <3> QED  BY <2>1, <3>1, PatientAssumption DEF WindowInv, SearcherNotQueued, Queued
  <2> QED  BY <2>2, <2>4, <2>5
<1>10. ASSUME NEW u \in Users, UserStep(u) PROVE WindowParts'
  <2>1. /\ UNCHANGED <<pc, user, pool, target, history, aged>>
        /\ \A v \in Users : Queued(v)' => Queued(v)
    BY <1>10, <1>t DEF UserStep, LeaveQueue, LoadPreferences, StorePreferences, TypeOK, Queued
  <2> QED  BY <2>1, WindowKept
<1>11. ASSUME NEW e \in Ends, EndStep(e) PROVE WindowParts'
  <2>1. \A m \in Joins : history'[m] # "none" => history[m] # "none"
    BY <1>11, <1>t DEF EndStep, LoadMatch, CompleteMatch, FailEnd, TypeOK, RecordsOrdered
  <2> QED  BY <1>11, <2>1, WindowKept DEF EndStep, LoadMatch, CompleteMatch, FailEnd, Queued
<1>12. ASSUME NEW m \in Joins, EndChat(m) \/ AgeMatch(m) PROVE WindowParts'
  BY <1>12, WindowKept DEF EndChat, AgeMatch, Queued
<1>13. CASE UNCHANGED vars
  BY <1>13, WindowKept DEF vars, Queued
<1> QED
  BY <1>1, <1>2, <1>3, <1>4, <1>5, <1>6, <1>7, <1>8, <1>9, <1>10, <1>11, <1>12, <1>13
     DEF Next, JoinStep

LEMMA WindowInvariance == Spec => []WindowInv
<1>1. Init => WindowInv
  <2>1. Init => IInv
    BY DEF Init, IInv, TypeOK, RequestsTyped, TicketsTracked, TicketClaimedOnce,
           RecordsOrdered, Queued
  <2> QED
    BY <2>1 DEF Init, WindowInv, WindowParts, PatientAlone, SearcherNotQueued, NoMutualChoice, Chosen,
                NotRecentYet, NoRematchInWindow, InFlight
<1> QED
  BY <1>1, WindowStep, PTL DEF Spec

(* A user who waits for an answer before the next join is nobody's candidate *)
(* while a join is past its IsInQueue check.                                 *)
THEOREM SearchersNotQueued == Spec => []SearcherNotQueued
<1>1. WindowInv => SearcherNotQueued
  BY DEF WindowInv, WindowParts
<1> QED
  BY <1>1, WindowInvariance, PTL

(* Two such users are not matched again within the window, although          *)
(* HasRecentMatch is read two statements before the match is written.        *)
THEOREM NoRematches == Spec => []NoRematchInWindow
<1>1. WindowInv => NoRematchInWindow
  BY DEF WindowInv, WindowParts
<1> QED
  BY <1>1, WindowInvariance, PTL

--------------------------------------------------------------------------------
(* BestMatch: the operators of the score, and the loop                     *)

LEMMA CandidateTyped ==
    ASSUME NEW a \in MatchingCandidates
    PROVE  a.age \in Int /\ a.low \in Int /\ a.high \in Int /\ a.wait \in Nat
<1>1. a \in Candidate
  BY CandidatesAssumption
<1>2. a.age \in 13..120 /\ a.low \in 13..120 /\ a.high \in 13..120 /\ a.wait \in Nat
  BY <1>1 DEF Candidate
<1> QED
  BY <1>2

LEMMA InterestsTyped == ASSUME NEW a \in MatchingCandidates PROVE a.interests \in Seq(Interests)
<1>1. a \in Candidate
  BY CandidatesAssumption
<1> QED
  BY <1>1 DEF Candidate

LEMMA CommonTyped ==
    ASSUME NEW a \in MatchingCandidates, NEW b \in MatchingCandidates
    PROVE  CommonInterests(a, b) \in Nat
<1> DEFINE C == {k \in DOMAIN b.interests :
                    \E j \in DOMAIN a.interests : a.interests[j] = b.interests[k]}
<1>1. Len(b.interests) \in Nat /\ DOMAIN b.interests = 1..Len(b.interests)
  BY InterestsTyped
<1>2. IsFiniteSet(1..Len(b.interests))
  BY <1>1, FS_Interval, 1 \in Int
<1>3. IsFiniteSet(C)
  BY <1>1, <1>2, FS_Subset
<1> QED
  BY <1>3, FS_CardinalityType DEF CommonInterests

\* Each part of a score stays within its weight.
LEMMA AgeTyped ==
    ASSUME NEW a \in MatchingCandidates, NEW b \in MatchingCandidates
    PROVE  AgeScore(a, b) \in 0..300
<1>1. a.age \in Int /\ b.age \in Int
  BY CandidateTyped
<1>2. PICK d \in Int : d = Distance(a.age, b.age) /\ d >= 0
  BY <1>1 DEF Distance
<1> QED
  BY <1>2 DEF AgeScore

LEMMA AgeFloor ==
    ASSUME NEW a \in MatchingCandidates, NEW b \in MatchingCandidates, IsCompatibleWith(a, b)
    PROVE  AgeScore(a, b) >= 150
<1>1. a.age \in Int /\ b.age \in Int
  BY CandidateTyped
<1>2. PICK d \in Int : d = Distance(a.age, b.age) /\ d >= 0
  BY <1>1 DEF Distance
<1>3. InRange(a, b.age) /\ InRange(b, a.age)
  BY DEF IsCompatibleWith
<1> QED
  BY <1>2, <1>3 DEF AgeScore

LEMMA InterestTyped ==
    ASSUME NEW a \in MatchingCandidates, NEW b \in MatchingCandidates
    PROVE  InterestScore(a, b) \in 80..400
BY CommonTyped DEF InterestScore

LEMMA WaitTyped ==
    ASSUME NEW a \in MatchingCandidates, NEW b \in MatchingCandidates
    PROVE  WaitScore(a, b) \in 45..150
BY CandidateTyped DEF WaitScore

LEMMA LocationTyped ==
    ASSUME NEW a \in MatchingCandidates, NEW b \in MatchingCandidates
    PROVE  LocationScore(a, b) \in 75..150
BY DEF LocationScore

\* So does their sum.
LEMMA TotalIs ==
    ASSUME NEW a \in MatchingCandidates, NEW b \in MatchingCandidates
    PROVE  Total(CalculateMatchScore(a, b))
             = AgeScore(a, b) + InterestScore(a, b) + WaitScore(a, b) + LocationScore(a, b)
BY DEF Total, CalculateMatchScore

LEMMA ScoreTyped ==
    ASSUME NEW a \in MatchingCandidates, NEW b \in MatchingCandidates
    PROVE  Total(CalculateMatchScore(a, b)) \in 0..1000
<1>1. PICK d \in 0..300 : d = AgeScore(a, b)
  BY AgeTyped
<1>2. PICK n \in 80..400 : n = InterestScore(a, b)
  BY InterestTyped
<1>3. PICK w \in 45..150 : w = WaitScore(a, b)
  BY WaitTyped
<1>4. PICK l \in 75..150 : l = LocationScore(a, b)
  BY LocationTyped
<1>5. Total(CalculateMatchScore(a, b)) = d + n + w + l
  BY <1>1, <1>2, <1>3, <1>4, TotalIs
<1>6. d + n + w + l \in 0..1000
  OBVIOUS
<1> QED
  BY <1>5, <1>6

LEMMA ScoreFloor ==
    ASSUME NEW a \in MatchingCandidates, NEW b \in MatchingCandidates, IsCompatibleWith(a, b)
    PROVE  Total(CalculateMatchScore(a, b)) \in 350..1000
<1>1. PICK d \in 0..300 : d = AgeScore(a, b)
  BY AgeTyped
<1>2. PICK n \in 80..400 : n = InterestScore(a, b)
  BY InterestTyped
<1>3. PICK w \in 45..150 : w = WaitScore(a, b)
  BY WaitTyped
<1>4. PICK l \in 75..150 : l = LocationScore(a, b)
  BY LocationTyped
<1>5. Total(CalculateMatchScore(a, b)) = d + n + w + l
  BY <1>1, <1>2, <1>3, <1>4, TotalIs
<1>6. d >= 150
  BY <1>1, AgeFloor
<1>7. d + n + w + l \in 350..1000
  BY <1>6
<1> QED
  BY <1>5, <1>7

LEMMA ScoreInt ==
    ASSUME NEW a \in MatchingCandidates, NEW b \in MatchingCandidates
    PROVE  /\ Total(CalculateMatchScore(a, b)) \in Int
           /\ Rounding[CalculateMatchScore(a, b)] \in Int
<1>1. Total(CalculateMatchScore(a, b)) \in 0..1000
  BY ScoreTyped
<1>2. CalculateMatchScore(a, b) \in Scores
  BY DEF Scores
<1> QED
  BY <1>1, <1>2, RoundingAssumption

\* The comparison of floats is an order.
LEMMA AboveTransitive ==
    ASSUME NEW r, NEW s, NEW t,
           Total(r) \in Int, Total(s) \in Int, Total(t) \in Int,
           Rounding[r] \in Int, Rounding[s] \in Int, Rounding[t] \in Int
    PROVE  /\ Above(r, s) => ~Above(s, r)
           /\ Above(r, s) /\ ~Above(t, s) => Above(r, t)
           /\ ~Above(r, s) => Total(r) <= Total(s)
           /\ Above(r, s) => r # s
BY DEF Above

\* The loop invariant holds at the start.
LEMMA ScanInvInit == ScanInit => ScanInv
<1> SUFFICES ASSUME ScanInit PROVE ScanInv
  OBVIOUS
<1>1. PICK n \in 0..MaxPool : listed \in [1..n -> MatchingCandidates]
  BY DEF ScanInit
<1>2. n \in Nat
  BY <1>1, CandidatesAssumption
<1>3. listed \in Seq(MatchingCandidates) /\ Len(listed) \in Nat
  BY <1>1, <1>2
<1>4. i = 1 /\ best = 0 /\ score = NoScore /\ outcome = "scanning" /\ me \in MatchingCandidates
  BY DEF ScanInit
<1> QED
  BY <1>3, <1>4 DEF ScanInv, ScanTypeOK, BestSoFar, ScanAnswered

\* The score is that of the best so far.
LEMMA ScoreKept ==
    ASSUME ScanInv, best # 0
    PROVE  score = CalculateMatchScore(me, listed[best]) /\ Total(score) \in 350..1000
<1>1. ScanTypeOK
  BY DEF ScanInv
<1> QED
  BY <1>1, Zenon DEF ScanTypeOK

\* What a turn of the loop finds.
LEMMA LoopFacts ==
    ASSUME ScanInv, outcome = "scanning", i <= Len(listed)
    PROVE  /\ i \in 1..Len(listed) /\ Len(listed) \in Nat
           /\ i + 1 \in 1..(Len(listed) + 1) /\ (i + 1) - 1 = i
           /\ me \in MatchingCandidates /\ listed[i] \in MatchingCandidates
           /\ best # 0 => best \in 1..(i - 1) /\ listed[best] \in MatchingCandidates
           /\ \A k \in 1..(i - 1) : listed[k] \in MatchingCandidates
<1>1. listed \in Seq(MatchingCandidates) /\ i \in 1..(Len(listed) + 1) /\ best \in 0..(i - 1) /\ me \in MatchingCandidates
  BY DEF ScanInv, ScanTypeOK
<1>2. Len(listed) \in Nat
  BY <1>1
<1>3. i \in 1..Len(listed)
  BY <1>1, <1>2
<1>4. \A k \in 1..Len(listed) : listed[k] \in MatchingCandidates
  BY <1>1
<1> QED
  BY <1>1, <1>2, <1>3, <1>4

LEMMA SkipStep == ASSUME ScanInv, Skip PROVE ScanInv'
<1>1. i' = i + 1 /\ me' = me /\ listed' = listed /\ best' = best /\ score' = score /\ outcome' = "scanning"
  BY DEF Skip
<1>2. outcome = "scanning" /\ i <= Len(listed) /\ (IsCompatibleWith(me, listed[i]) => ~Higher)
  BY DEF Skip
<1>3. best \in 0..i /\ i' - 1 = i
  BY <1>1, <1>2, LoopFacts DEF ScanInv, ScanTypeOK
<1>4. ScanTypeOK'
  BY <1>1, <1>2, <1>3, LoopFacts DEF ScanInv, ScanTypeOK
<1>5. IsCompatibleWith(me, listed[i]) => best # 0
  <2> SUFFICES ASSUME IsCompatibleWith(me, listed[i]), best = 0 PROVE FALSE
    OBVIOUS
  <2>1. me \in MatchingCandidates /\ listed[i] \in MatchingCandidates
    BY <1>2, LoopFacts, Zenon
  <2>2. Total(Current) \in 350..1000
    BY <2>1, ScoreFloor DEF Current
  <2>3. Total(score) = -1
    BY DEF ScanInv, ScanTypeOK, Total, NoScore
  <2>4. ~(Total(Current) > Total(score))
    BY <1>2, Zenon DEF Higher, Above
  <2> QED
    BY <2>2, <2>3, <2>4
<1>6. ASSUME NEW k \in 1..i, IsCompatibleWith(me, listed[k])
      PROVE  best # 0 /\ ~Above(Score(k), score) /\ (k < best => Above(score, Score(k)))
  <2>1. CASE k = i
    <3>1. ~Above(Score(k), score)
      BY <1>2, <1>6, <2>1 DEF Higher, Current, Score
    <3>2. ~(k < best)
      BY <2>1, <1>2, LoopFacts, <1>3 DEF ScanInv, ScanTypeOK
    <3> QED
      BY <1>5, <1>6, <2>1, <3>1, <3>2
  <2>2. CASE k # i
    <3>1. k \in 1..(i - 1)
      BY <1>2, <2>2, LoopFacts
    <3> QED
      BY <1>6, <3>1 DEF ScanInv, BestSoFar
  <2> QED
    BY <2>1, <2>2
<1>7. BestSoFar'
  BY <1>1, <1>3, <1>6 DEF ScanInv, BestSoFar, Score
<1>8. ScanAnswered'
  BY <1>1 DEF ScanAnswered
<1> QED
  BY <1>4, <1>7, <1>8 DEF ScanInv

LEMMA TakeStep == ASSUME ScanInv, Take PROVE ScanInv'
<1>1. /\ i' = i + 1 /\ me' = me /\ listed' = listed /\ best' = i /\ score' = Current
      /\ outcome' = "scanning"
  BY DEF Take
<1>2. outcome = "scanning" /\ i <= Len(listed) /\ IsCompatibleWith(me, listed[i]) /\ Above(Current, score)
  BY DEF Take, Higher
<1>3. i \in 0..i /\ i # 0 /\ i' - 1 = i
  BY <1>1, <1>2, LoopFacts
<1>t. me \in MatchingCandidates /\ listed[i] \in MatchingCandidates
  BY <1>2, LoopFacts, Zenon
<1>4. Total(Current) \in 350..1000 /\ Rounding[Current] \in Int
  <2>0. IsCompatibleWith(me, listed[i])
    BY <1>2
  <2>1. Total(Current) \in 350..1000
    BY <2>0, <1>t, ScoreFloor DEF Current
  <2>2. Rounding[Current] \in Int
    BY <1>t, ScoreInt DEF Current
  <2> QED
    BY <2>1, <2>2
<1>5. ScanTypeOK'
  <2>1. /\ me' \in MatchingCandidates /\ listed' \in Seq(MatchingCandidates)
        /\ outcome' \in {"scanning", "none", "found"}
    BY <1>1 DEF ScanInv, ScanTypeOK
  <2>2. i' \in 1..(Len(listed') + 1) /\ best' \in 0..(i' - 1) /\ best' # 0
    BY <1>1, <1>2, <1>3, LoopFacts
  <2>3. score' = CalculateMatchScore(me', listed'[best']) /\ Total(score') \in 350..1000
    <3>1. score' = CalculateMatchScore(me', listed'[best'])
      BY <1>1, Zenon DEF Current
    <3>2. Total(score') = Total(Current)
      BY <1>1, Zenon
    <3> QED
      BY <1>4, <3>1, <3>2
  <2> QED
    BY <2>1, <2>2, <2>3 DEF ScanTypeOK
<1>6. ASSUME NEW k \in 1..i, IsCompatibleWith(me, listed[k])
      PROVE  ~Above(Score(k), Current) /\ (k < i => Above(Current, Score(k)))
  <2>1. CASE k = i
    <3>1. Score(k) = Current
      BY <2>1 DEF Score, Current
    <3>2. ~Above(Current, Current)
      BY <1>4 DEF Above
    <3> QED
      BY <1>2, <2>1, <3>1, <3>2, LoopFacts
  <2>2. CASE k # i
    <3>1. k \in 1..(i - 1)
      BY <1>2, <2>2, LoopFacts
    <3>2. best # 0 /\ ~Above(Score(k), score)
      BY <1>6, <3>1 DEF ScanInv, BestSoFar
    <3>3. listed[k] \in MatchingCandidates /\ listed[best] \in MatchingCandidates
      BY <1>2, <3>1, <3>2, LoopFacts, Zenon
    <3>4. Total(Score(k)) \in Int /\ Rounding[Score(k)] \in Int
      BY <1>t, <3>3, ScoreInt, Zenon DEF Score
    <3>5. score = CalculateMatchScore(me, listed[best])
      BY <3>2, ScoreKept
    <3>6. Total(score) \in Int /\ Rounding[score] \in Int
      BY <1>t, <3>3, <3>5, ScoreInt, Zenon
    <3>7. Total(Current) \in Int
      BY <1>4
    <3>8. Above(Current, score)
      BY <1>2
    <3>9. Above(Current, Score(k))
      BY <1>4, <3>2, <3>4, <3>6, <3>7, <3>8, AboveTransitive
    <3> QED
      BY <1>4, <3>4, <3>7, <3>9, AboveTransitive
  <2> QED
    BY <2>1, <2>2
<1>7. BestSoFar'
  BY <1>1, <1>2, <1>3, <1>6 DEF BestSoFar, Score
<1>8. ScanAnswered'
  BY <1>1 DEF ScanAnswered
<1> QED
  BY <1>5, <1>7, <1>8 DEF ScanInv

LEMMA ReturnStep == ASSUME ScanInv, Return PROVE ScanInv'
<1>1. i' = i /\ me' = me /\ listed' = listed /\ best' = best /\ score' = score
  BY DEF Return
<1>2. i = Len(listed) + 1
  BY DEF Return, ScanInv, ScanTypeOK
<1>3. ASSUME best # 0 PROVE Total(score) \in 0..1000
  <2>1. Total(score) \in 350..1000
    BY <1>3, ScoreKept, SMT
  <2>2. PICK n \in 350..1000 : n = Total(score)
    BY <2>1, SMT
  <2> QED
    BY <2>2, SMT
<1>4. outcome' = IF best = 0 THEN "none" ELSE "found"
  BY <1>3 DEF Return
<1>5. ScanTypeOK'
  BY <1>1, <1>4 DEF ScanInv, ScanTypeOK
<1>6. BestSoFar'
  BY <1>1 DEF ScanInv, BestSoFar, Score
<1>7. ScanAnswered'
  BY <1>1, <1>2, <1>4 DEF ScanAnswered
<1> QED
  BY <1>5, <1>6, <1>7 DEF ScanInv

LEMMA ScanInvStep == ScanInv /\ [ScanNext]_scanVars => ScanInv'
<1> SUFFICES ASSUME ScanInv, [ScanNext]_scanVars PROVE ScanInv'
  OBVIOUS
<1>1. CASE UNCHANGED scanVars
  BY <1>1 DEF scanVars, ScanInv, ScanTypeOK, BestSoFar, ScanAnswered, Score
<1> QED
  BY <1>1, SkipStep, TakeStep, ReturnStep DEF ScanNext

\* The loop of FindBestMatch keeps its invariant.
THEOREM BestInvariant == ScanSpec => []ScanInv
BY ScanInvInit, ScanInvStep, PTL DEF ScanSpec

\* A score is one that NewMatchScore accepts: FindBestMatch never fails for
\* it, and whom it returns scores 0.35 at least.
THEOREM BestTypeCorrect == ScanSpec => []ScanTypeOK
<1>1. ScanInv => ScanTypeOK
  BY DEF ScanInv
<1> QED
  BY <1>1, BestInvariant, PTL

LEMMA InvImpliesFirst == ScanInv => FirstBest
<1> SUFFICES ASSUME ScanInv PROVE FirstBest
  OBVIOUS
<1>1. /\ listed \in Seq(MatchingCandidates) /\ Len(listed) \in Nat /\ i \in 1..(Len(listed) + 1)
      /\ best \in 0..(i - 1) /\ me \in MatchingCandidates
  BY DEF ScanInv, ScanTypeOK
<1>2. best # 0 => /\ InRange(me, listed[best].age) /\ InRange(listed[best], me.age)
                  /\ me.gender = listed[best].gender
  BY DEF ScanInv, BestSoFar, IsCompatibleWith
<1>3. ASSUME NEW k \in 1..(i - 1), IsCompatibleWith(me, listed[k])
      PROVE  best # 0 /\ Total(Score(k)) <= Total(score) /\ (k < best => Score(k) # score)
  <2>1. best # 0 /\ ~Above(Score(k), score) /\ (k < best => Above(score, Score(k)))
    BY <1>3 DEF ScanInv, BestSoFar
  <2>2. listed[k] \in MatchingCandidates /\ listed[best] \in MatchingCandidates
    BY <1>1, <2>1
  <2>3. Total(Score(k)) \in Int /\ Rounding[Score(k)] \in Int
    BY <1>1, <2>2, ScoreInt, Zenon DEF Score
  <2>4. score = CalculateMatchScore(me, listed[best])
    BY <2>1, ScoreKept
  <2>5. Total(score) \in Int /\ Rounding[score] \in Int
    BY <1>1, <2>2, <2>4, ScoreInt, Zenon
  <2>6. Total(Score(k)) <= Total(score)
    BY <2>1, <2>3, <2>5, AboveTransitive
  <2>7. k < best => Score(k) # score
    BY <2>1, <2>3, <2>5, AboveTransitive
  <2> QED
    BY <2>1, <2>6, <2>7
<1> QED
  BY <1>2, <1>3 DEF FirstBest, ScanInv

\* FindBestMatch returns the first candidate with the highest score, for any
\* candidates, in any order.
THEOREM FirstBestFound == ScanSpec => []FirstBest
BY BestInvariant, InvImpliesFirst, PTL

\* Of two candidates who differ in their waiting time alone, the one who has
\* waited longer scores no less: calculateWaitTimeScore prioritizes users who
\* waited longer.
THEOREM WaitingHelps ==
    ASSUME NEW a \in MatchingCandidates, NEW b \in MatchingCandidates, NEW c \in MatchingCandidates,
           AgeScore(a, b) = AgeScore(a, c), InterestScore(a, b) = InterestScore(a, c),
           LocationScore(a, b) = LocationScore(a, c), b.wait <= c.wait
    PROVE  Total(CalculateMatchScore(a, b)) <= Total(CalculateMatchScore(a, c))
<1>1. PICK d \in 0..300 : d = AgeScore(a, b)
  BY AgeTyped
<1>2. PICK n \in 80..400 : n = InterestScore(a, b)
  BY InterestTyped
<1>3. PICK w \in 45..150 : w = WaitScore(a, b)
  BY WaitTyped
<1>4. PICK l \in 75..150 : l = LocationScore(a, b)
  BY LocationTyped
<1>5. Total(CalculateMatchScore(a, b)) = d + n + w + l
  BY <1>1, <1>2, <1>3, <1>4, TotalIs
<1>6. PICK x \in 45..150 : x = WaitScore(a, c)
  BY WaitTyped
<1>7. w <= x
  BY <1>3, <1>6, CandidateTyped DEF WaitScore
<1>8. Total(CalculateMatchScore(a, c)) = d + n + x + l
  BY <1>1, <1>2, <1>4, <1>6, TotalIs
<1>9. d + n + w + l <= d + n + x + l
  BY <1>7
<1> QED
  BY <1>5, <1>8, <1>9

================================================================================
