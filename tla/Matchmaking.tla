------------------------------ MODULE Matchmaking ------------------------------
(***************************************************************************)
(* The matching service: concurrent JoinQueue, LeaveQueue, EndMatch and    *)
(* UpdateMatchingPreferences requests over the matching_queue and          *)
(* match_history tables and the chat service's CreateChat RPC.             *)
(*                                                                         *)
(* A handler is a sequence of database statements and RPCs, each atomic,   *)
(* with every other request free to run between two of them; a step of     *)
(* this module is one such statement with the code up to the next one.     *)
(* The match and the chat a JoinQueue request creates are named by the     *)
(* request, and a queue row by the request that inserted it (its ticket),  *)
(* in place of generated UUIDs and of joined_at.                           *)
(*                                                                         *)
(* Events: match_found is handed to its publisher goroutine exactly when a *)
(* request answers "matched", match_completed exactly when an EndMatch     *)
(* request ends; user_joined_queue and user_left_queue have no consumer.   *)
(***************************************************************************)
EXTENDS FiniteSets

CONSTANTS Users,
          Prefs,          \* preference values, age included
          Prefiltered,    \* pairs of Prefs the SQL filter lets through
          Compatible,     \* pairs of Prefs IsCompatibleWith accepts
          Joins,          \* JoinQueue requests
          Ends,           \* EndMatch requests
          Limit,          \* LIMIT of the candidate query (100 in the code)
          Patient,        \* users who never have two joins in flight
          Editors,        \* users who edit their preferences while queued
          UniqueIndexes   \* see ChatTable

ASSUME PrefsAssumption ==
    /\ Prefiltered \subseteq Prefs \X Prefs
    /\ Compatible \subseteq Prefs \X Prefs

ASSUME PatientAssumption == Patient \subseteq Users

VARIABLES queue,      \* matching_queue: the row of each user, or NoRow
          history,    \* match_history: status of the match of each join
          aged,       \* matches older than the 24 h recency window
          chats,      \* the chat service's table
          pc,         \* where each JoinQueue request stands
          user,       \* the joining user of each request
          wish,       \* its preferences
          pool,       \* the candidates it was given by the query
          target,     \* the candidate it settled on
          claim,      \* the ticket it deleted from the queue, or NoTicket
          issued,     \* requests whose row was inserted (auxiliary)
          endPc,      \* where each EndMatch request stands
          endMatch,   \* the match it loaded
          editing     \* users with UpdateMatchingPreferences past its read

INSTANCE ChatTable WITH ChatIds <- Joins

joinVars == <<pc, user, wish, pool, target, claim, issued>>
endVars  == <<endPc, endMatch>>
vars     == <<queue, history, aged, chats, joinVars, endVars, editing>>

NoUser   == "nobody"
NoPrefs  == "unset"
NoTicket == "no ticket"
NoRow    == [ticket |-> NoTicket, prefs |-> NoPrefs]
Row      == [ticket: Joins, prefs: Prefs]

\* The null values are not among the values they stand in for.
ASSUME NullAssumption ==
    /\ NoUser \notin Users
    /\ NoPrefs \notin Prefs
    /\ NoTicket \notin Joins

Queued(u) == queue[u] # NoRow

Answered == {"matched", "queued", "failed"}
InFlight == {"checking", "searching", "recency", "chatting", "saving",
             "claiming", "enqueueing"}

TypeOK ==
    /\ queue \in [Users -> Row \cup {NoRow}]
    /\ history \in [Joins -> {"none", "active", "completed"}]
    /\ aged \subseteq Joins
    /\ chats \in [Joins -> Chat \cup {NoChat}]
    /\ pc \in [Joins -> {"idle"} \cup InFlight \cup Answered]
    /\ user \in [Joins -> Users \cup {NoUser}]
    /\ wish \in [Joins -> Prefs \cup {NoPrefs}]
    /\ pool \in [Joins -> SUBSET Users]
    /\ target \in [Joins -> Users \cup {NoUser}]
    /\ claim \in [Joins -> Joins \cup {NoTicket}]
    /\ issued \subseteq Joins
    /\ endPc \in [Ends -> {"idle", "loaded", "ended", "failed"}]
    /\ endMatch \in [Ends -> Joins \cup {NoTicket}]
    /\ editing \subseteq Users

Init ==
    /\ queue = [u \in Users |-> NoRow]
    /\ history = [r \in Joins |-> "none"]
    /\ aged = {}
    /\ chats = [r \in Joins |-> NoChat]
    /\ pc = [r \in Joins |-> "idle"]
    /\ user = [r \in Joins |-> NoUser]
    /\ wish = [r \in Joins |-> NoPrefs]
    /\ pool = [r \in Joins |-> {}]
    /\ target = [r \in Joins |-> NoUser]
    /\ claim = [r \in Joins |-> NoTicket]
    /\ issued = {}
    /\ endPc = [e \in Ends |-> "idle"]
    /\ endMatch = [e \in Ends |-> NoTicket]
    /\ editing = {}

--------------------------------------------------------------------------------
(* JoinQueue                                                               *)

Goto(r, label) == pc' = [pc EXCEPT ![r] = label]

\* A request of u arrives.  Validate and UserExists come first and read
\* nothing that is modelled here; their refusals are FailJoin.
StartJoin(r, u, p) ==
    /\ pc[r] = "idle"
    /\ u \in Patient => \A s \in Joins : user[s] = u => pc[s] \notin InFlight
    /\ user' = [user EXCEPT ![r] = u]
    /\ wish' = [wish EXCEPT ![r] = p]
    /\ Goto(r, "checking")
    /\ UNCHANGED <<queue, history, aged, chats,
                   pool, target, claim, issued, endVars, editing>>

\* Any error return, and a crash of the service, between two statements:
\* what was committed stays.
FailJoin(r) ==
    /\ pc[r] \in InFlight
    /\ Goto(r, "failed")
    /\ pool' = [pool EXCEPT ![r] = {}]
    /\ UNCHANGED <<queue, history, aged, chats,
                   user, wish, target, claim, issued, endVars, editing>>

\* Mutant: the IsInQueue check is dropped.
CheckQueueDropped(r) ==
    /\ pc[r] = "checking"
    /\ Goto(r, "searching")
    /\ UNCHANGED <<queue, history, aged, chats,
                   user, wish, pool, target, claim, issued, endVars, editing>>

\* IsInQueue: ErrAlreadyInQueue when the user has a row.
CheckQueue(r) ==
    /\ pc[r] = "checking"
    /\ Goto(r, IF Queued(user[r]) THEN "failed" ELSE "searching")
    /\ UNCHANGED <<queue, history, aged, chats,
                   user, wish, pool, target, claim, issued, endVars, editing>>

\* The rows the WHERE clause of FindCompatibleCandidates keeps.
Candidates(r) ==
    {v \in Users \ {user[r]} : Queued(v) /\ <<wish[r], queue[v].prefs>> \in Prefiltered}

\* What FindBestMatch may return from the users C: any of the compatible
\* ones, since scores are not modelled here.
BestMatches(r, C) ==
    {v \in C \ {user[r]} : <<wish[r], queue[v].prefs>> \in Compatible}

\* FindCompatibleCandidates (at most Limit rows) and FindBestMatch.
Search(r) ==
    /\ pc[r] = "searching"
    /\ \E rows \in SUBSET Candidates(r) :
         /\ rows = Candidates(r) \/ Cardinality(rows) = Limit
         /\ LET best == BestMatches(r, rows)
            IN  \/ /\ best = {}
                   /\ Goto(r, "enqueueing")
                   /\ UNCHANGED <<pool, target>>
                \/ \E v \in best :
                     /\ target' = [target EXCEPT ![r] = v]
                     /\ pool' = [pool EXCEPT ![r] = best \ {v}]
                     /\ Goto(r, "recency")
    /\ UNCHANGED <<queue, history, aged, chats,
                   user, wish, claim, issued, endVars, editing>>

\* Mutant: the second half of the OR in the WHERE clause is missing.
RecentOneWay(u, v) ==
    \E m \in Joins : /\ history[m] # "none"
                     /\ m \notin aged
                     /\ user[m] = u
                     /\ target[m] = v

\* HasRecentMatch: a match row of the pair, whatever its status, created
\* within the window.
Recent(u, v) ==
    \E m \in Joins : /\ history[m] # "none"
                     /\ m \notin aged
                     /\ {user[m], target[m]} = {u, v}

\* HasRecentMatch on the chosen candidate; when it is recent, or cannot be
\* told, FindBestMatch again over the others that are known not to be.
CheckRecent(r) ==
    /\ pc[r] = "recency"
    /\ \/ /\ ~Recent(user[r], target[r])
          /\ Goto(r, "chatting")
          /\ UNCHANGED target
       \/ \E known \in SUBSET {v \in pool[r] : ~Recent(user[r], v)} :
            \/ /\ known = {}
               /\ Goto(r, "enqueueing")
               /\ UNCHANGED target
            \/ \E v \in known :
                 /\ target' = [target EXCEPT ![r] = v]
                 /\ Goto(r, "chatting")
    /\ pool' = [pool EXCEPT ![r] = {}]
    /\ UNCHANGED <<queue, history, aged, chats,
                   user, wish, claim, issued, endVars, editing>>

\* The CreateChat RPC.  It may be refused (unavailable, or the insert
\* violates an index), succeed, or commit the row and lose the reply; every
\* error sends the user to the queue.
OpenChat(r) ==
    LET chat == NewChat(user[r], target[r])
    IN  /\ pc[r] = "chatting"
        /\ \/ /\ Goto(r, "enqueueing")
              /\ UNCHANGED chats
           \/ /\ SaveAllowed(chats, r, chat)
              /\ chats' = [chats EXCEPT ![r] = chat]
              /\ \/ Goto(r, "saving")
                 \/ Goto(r, "enqueueing")
        /\ UNCHANGED <<queue, history, aged,
                       user, wish, pool, target, claim, issued, endVars, editing>>

\* Mutant: an error of Save is logged and ignored.
SaveMatchUnchecked(r) ==
    /\ pc[r] = "saving"
    /\ \/ history' = [history EXCEPT ![r] = "active"]
       \/ UNCHANGED history
    /\ Goto(r, "claiming")
    /\ UNCHANGED <<queue, aged, chats,
                   user, wish, pool, target, claim, issued, endVars, editing>>

\* AssignChatRoom makes the match active; matchHistoryRepo.Save inserts it.
SaveMatch(r) ==
    /\ pc[r] = "saving"
    /\ history' = [history EXCEPT ![r] = "active"]
    /\ Goto(r, "claiming")
    /\ UNCHANGED <<queue, aged, chats,
                   user, wish, pool, target, claim, issued, endVars, editing>>

\* Mutant: the row is looked up (FindInQueue) and not deleted.
ClaimWithoutDelete(r) ==
    /\ pc[r] = "claiming"
    /\ \/ /\ Queued(target[r])
          /\ claim' = [claim EXCEPT ![r] = queue[target[r]].ticket]
          /\ Goto(r, "matched")
       \/ /\ ~Queued(target[r])
          /\ Goto(r, "enqueueing")
          /\ UNCHANGED claim
    /\ UNCHANGED <<queue, history, aged, chats,
                   user, wish, pool, target, issued, endVars, editing>>

\* DELETE ... RETURNING on the candidate's row: the request that deletes it
\* has the match, starts the goroutine that publishes match_found and
\* answers "matched", unless the reply of the statement is lost; one that
\* finds no row queues its own user instead.
Claim(r) ==
    /\ pc[r] = "claiming"
    /\ \/ /\ Queued(target[r])
          /\ claim' = [claim EXCEPT ![r] = queue[target[r]].ticket]
          /\ queue' = [queue EXCEPT ![target[r]] = NoRow]
          /\ \/ Goto(r, "matched")
             \/ Goto(r, "failed")
       \/ /\ ~Queued(target[r])
          /\ Goto(r, "enqueueing")
          /\ UNCHANGED <<claim, queue>>
    /\ UNCHANGED <<history, aged, chats,
                   user, wish, pool, target, issued, endVars, editing>>

\* AddToQueue: a plain INSERT, refused by the primary key on user_id; the
\* answer is "queued" unless the reply of the statement is lost.
Enqueue(r) ==
    /\ pc[r] = "enqueueing"
    /\ \/ /\ ~Queued(user[r])
          /\ queue' = [queue EXCEPT ![user[r]] = [ticket |-> r, prefs |-> wish[r]]]
          /\ issued' = issued \cup {r}
          /\ \/ Goto(r, "queued")
             \/ Goto(r, "failed")
       \/ /\ Queued(user[r])
          /\ Goto(r, "failed")
          /\ UNCHANGED <<queue, issued>>
    /\ UNCHANGED <<history, aged, chats,
                   user, wish, pool, target, claim, endVars, editing>>

--------------------------------------------------------------------------------
(* The other requests                                                      *)

\* LeaveQueue: the result of the DELETE is ignored, so a user who was not
\* queued, or has just been claimed, is told the same.
LeaveQueue(u) ==
    /\ queue' = [queue EXCEPT ![u] = NoRow]
    /\ UNCHANGED <<history, aged, chats, joinVars, endVars, editing>>

\* EndMatch: FindByID by a participant; a completed match is refused.
LoadMatch(e, m) ==
    /\ endPc[e] = "idle"
    /\ history[m] = "active"
    /\ endMatch' = [endMatch EXCEPT ![e] = m]
    /\ endPc' = [endPc EXCEPT ![e] = "loaded"]
    /\ UNCHANGED <<queue, history, aged, chats, joinVars, editing>>

\* Complete on the loaded copy, Save (an upsert of its status), and the
\* goroutine that publishes match_completed.
CompleteMatch(e) ==
    /\ endPc[e] = "loaded"
    /\ history' = [history EXCEPT ![endMatch[e]] = "completed"]
    /\ endPc' = [endPc EXCEPT ![e] = "ended"]
    /\ UNCHANGED <<queue, aged, chats, joinVars, endMatch, editing>>

FailEnd(e) ==
    /\ endPc[e] = "loaded"
    /\ endPc' = [endPc EXCEPT ![e] = "failed"]
    /\ UNCHANGED <<queue, history, aged, chats, joinVars, endMatch, editing>>

\* UpdateMatchingPreferences: FindInQueue, refused without a row.
LoadPreferences(u) ==
    /\ u \in Editors \ editing
    /\ Queued(u)
    /\ editing' = editing \cup {u}
    /\ UNCHANGED <<queue, history, aged, chats, joinVars, endVars>>

\* Mutant: the UPDATE is an upsert, which queues again a user who has left
\* or has been claimed since the read.
StorePreferencesUpsert(u) ==
    /\ u \in editing
    /\ editing' = editing \ {u}
    /\ \E p \in Prefs, t \in {r \in issued : user[r] = u} :
         queue' = [queue EXCEPT ![u] = [ticket |-> t, prefs |-> p]]
    /\ UNCHANGED <<history, aged, chats, joinVars, endVars>>

\* UpdateCandidate: an UPDATE of the user's present row, whichever ticket it
\* is, and ErrCandidateNotFound when there is none left.
StorePreferences(u) ==
    /\ u \in editing
    /\ editing' = editing \ {u}
    /\ \/ \E p \in Prefs :
            /\ Queued(u)
            /\ queue' = [queue EXCEPT ![u].prefs = p]
       \/ UNCHANGED queue
    /\ UNCHANGED <<history, aged, chats, joinVars, endVars>>

--------------------------------------------------------------------------------
(* The rest of the system                                                  *)

\* EndChat, by a participant, in the chat service.
EndChat(c) ==
    /\ chats[c] # NoChat
    /\ chats[c].status = "active"
    /\ chats' = [chats EXCEPT ![c].status = "ended"]
    /\ UNCHANGED <<queue, history, aged, joinVars, endVars, editing>>

\* Twenty-four hours pass after match m was created.
AgeMatch(m) ==
    /\ history[m] # "none"
    /\ m \notin aged
    /\ aged' = aged \cup {m}
    /\ UNCHANGED <<queue, history, chats, joinVars, endVars, editing>>

JoinStep(r) ==
    \/ \E u \in Users, p \in Prefs : StartJoin(r, u, p)
    \/ FailJoin(r)
    \/ CheckQueue(r)
    \/ Search(r)
    \/ CheckRecent(r)
    \/ OpenChat(r)
    \/ SaveMatch(r)
    \/ Claim(r)
    \/ Enqueue(r)

EndStep(e) == (\E m \in Joins : LoadMatch(e, m)) \/ CompleteMatch(e) \/ FailEnd(e)

UserStep(u) == LeaveQueue(u) \/ LoadPreferences(u) \/ StorePreferences(u)

Next ==
    \/ \E r \in Joins : JoinStep(r)
    \/ \E e \in Ends : EndStep(e)
    \/ \E u \in Users : UserStep(u)
    \/ \E m \in Joins : EndChat(m) \/ AgeMatch(m)

Spec == Init /\ [][Next]_vars

--------------------------------------------------------------------------------
(* Properties                                                              *)

\* RemoveFromQueue is the only arbiter of a match: no two requests ever
\* delete the same queue entry, so no candidate is handed to two joiners
\* (services/matching/application/join_queue/handler.go:175-186).
TicketClaimedOnce ==
    \A r, s \in Joins : claim[r] = claim[s] /\ claim[r] # NoTicket => r = s

\* Whoever disappears from the queue by being claimed can already be shown
\* the match: its history row and its chat were written before the DELETE,
\* for these two users, even if the claiming request failed afterwards.
ClaimIsRecorded ==
    \A r \in Joins : claim[r] # NoTicket =>
        /\ history[r] # "none"
        /\ Participants(chats[r]) = {user[r], user[claim[r]]}
        /\ user[claim[r]] # user[r]

\* Between two requests of one user there is no other source of rows: a user
\* who does not overlap joins and whose join is past the IsInQueue check is not
\* at the same time a candidate of other requests, whatever the others do.
SearcherNotQueued ==
    \A r \in Joins :
        user[r] \in Patient /\ pc[r] \in InFlight \ {"checking"} => ~Queued(user[r])

\* HasRecentMatch is read long before the match is saved, yet no pair of users
\* who do not overlap their joins gets a second match row while the first is
\* within the window.
NoRematchInWindow ==
    \A r, s \in Joins :
        /\ r # s
        /\ user[r] \in Patient /\ target[r] \in Patient
        /\ history[r] # "none"
        /\ history[s] # "none"
        /\ {user[r], target[r]} = {user[s], target[s]}
        => r \in aged \/ s \in aged

\* A completed match stays completed, whatever concurrent EndMatch requests
\* loaded before it was (services/matching/application/end_match/handler.go).
CompletedStaysCompleted ==
    [][\A m \in Joins : history[m] = "completed" => history'[m] = "completed"]_vars

\* The queue keeps the promise of QueueTickets: the life of a ticket is read
\* off the queue, the claims and the set of inserted rows.
TicketState(t) ==
    IF t \notin issued THEN "none"
    ELSE IF \E u \in Users : queue[u].ticket = t THEN "waiting"
    ELSE IF \E r \in Joins : claim[r] = t THEN "taken"
    ELSE "left"

TicketStates == [t \in Joins |-> TicketState(t)]
TicketUsers  == [t \in Joins |-> IF t \in issued THEN user[t] ELSE NoUser]

Tickets == INSTANCE QueueTickets WITH
    Requests <- Joins,
    ticket   <- TicketStates,
    holder   <- TicketUsers,
    taken    <- claim

ImplementsTickets == Tickets!Spec

--------------------------------------------------------------------------------
(* The inductive invariant behind TicketClaimedOnce and ClaimIsRecorded    *)

\* A request knows its user and preferences once it has arrived, and its
\* candidate, another user, from the search to the claim.
RequestsTyped ==
    \A r \in Joins :
        /\ pc[r] # "idle" => user[r] \in Users /\ wish[r] \in Prefs
        /\ pool[r] \subseteq Users \ {user[r]}
        /\ pc[r] # "recency" => pool[r] = {}
        /\ pc[r] \in {"recency", "chatting", "saving", "claiming"}
             => target[r] \in Users \ {user[r]}

\* A ticket is issued by a request that is over, sits in the row of the
\* request's user and is never both in the queue and claimed.
TicketsTracked ==
    /\ \A r \in issued : pc[r] \in {"queued", "failed"}
    /\ \A u \in Users : Queued(u) =>
         /\ queue[u].ticket \in issued
         /\ user[queue[u].ticket] = u
         /\ \A r \in Joins : claim[r] # queue[u].ticket
    /\ \A r \in Joins : claim[r] # NoTicket =>
         /\ claim[r] \in issued
         /\ user[claim[r]] = target[r]
         /\ target[r] # user[r]
         /\ pc[r] \in {"matched", "failed"}

\* The chat is written before the match, the match before the claim, and
\* nothing else creates a match row.
RecordsOrdered ==
    /\ \A e \in Ends : endPc[e] = "loaded" =>
         endMatch[e] \in Joins /\ history[endMatch[e]] # "none"
    /\ \A r \in Joins :
        /\ pc[r] \in {"idle", "checking", "searching", "recency", "chatting", "saving"}
             => history[r] = "none"
        /\ pc[r] \in {"saving", "claiming"} \/ claim[r] # NoTicket
             => Participants(chats[r]) = {user[r], target[r]}
        /\ pc[r] = "claiming" \/ claim[r] # NoTicket => history[r] # "none"

IInv == TypeOK /\ RequestsTyped /\ TicketsTracked /\ TicketClaimedOnce /\ RecordsOrdered

================================================================================
