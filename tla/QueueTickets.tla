------------------------------ MODULE QueueTickets -----------------------------
(***************************************************************************)
(* What the matching queue promises, without saying how.  A waiting user   *)
(* holds one ticket.  A ticket ends once: its holder leaves, or exactly    *)
(* one joining request takes it.  A request either waits with a ticket of  *)
(* its own or takes somebody else's, never both and never two.             *)
(***************************************************************************)
CONSTANTS Users, Requests, NoUser, NoTicket

VARIABLES ticket,   \* life of the ticket of each request
          holder,   \* the user who waits with it
          taken     \* the ticket each request took, or NoTicket

vars == <<ticket, holder, taken>>

Init ==
    /\ ticket = [r \in Requests |-> "none"]
    /\ holder = [r \in Requests |-> NoUser]
    /\ taken = [r \in Requests |-> NoTicket]

Waiting(u) == {r \in Requests : ticket[r] = "waiting" /\ holder[r] = u}

Wait(r, u) ==
    /\ ticket[r] = "none"
    /\ taken[r] = NoTicket
    /\ Waiting(u) = {}
    /\ ticket' = [ticket EXCEPT ![r] = "waiting"]
    /\ holder' = [holder EXCEPT ![r] = u]
    /\ UNCHANGED taken

Take(r, t) ==
    /\ r # t
    /\ ticket[r] = "none"
    /\ taken[r] = NoTicket
    /\ ticket[t] = "waiting"
    /\ ticket' = [ticket EXCEPT ![t] = "taken"]
    /\ taken' = [taken EXCEPT ![r] = t]
    /\ UNCHANGED holder

Leave(t) ==
    /\ ticket[t] = "waiting"
    /\ ticket' = [ticket EXCEPT ![t] = "left"]
    /\ UNCHANGED <<holder, taken>>

Next == \E r \in Requests : \/ \E u \in Users : Wait(r, u)
                            \/ \E t \in Requests : Take(r, t)
                            \/ Leave(r)

Spec == Init /\ [][Next]_vars

================================================================================
