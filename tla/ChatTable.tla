------------------------------- MODULE ChatTable -------------------------------
(***************************************************************************)
(* The rows of the chats table (services/chat), shared by the modules that *)
(* insert into it: the chat service itself and, through its CreateChat     *)
(* RPC, the matching service.                                              *)
(*                                                                         *)
(* UniqueIndexes says whether migrations/003_unique_active_chat.sql has    *)
(* been applied.  docker-compose.yml mounts only migrations/chat, which    *)
(* creates plain indexes of the same names, so both values are real        *)
(* deployments.                                                            *)
(***************************************************************************)
CONSTANTS Users,         \* participants
          ChatIds,       \* chat identifiers (UUIDs, never reused)
          UniqueIndexes  \* TRUE: the partial unique indexes exist

ASSUME UniqueIndexesAssumption == UniqueIndexes \in BOOLEAN

NoChat == [p1 |-> "none", p2 |-> "none", status |-> "none"]

Chat == [p1: Users, p2: Users, status: {"active", "ended"}]

\* NewChat: every chat starts active.
NewChat(p1, p2) == [p1 |-> p1, p2 |-> p2, status |-> "active"]

Participants(c) == {c.p1, c.p2}

\* The two partial indexes: one over participant1_id, one over
\* participant2_id, each restricted to the active rows.  Neither relates the
\* first participant of a row to the second participant of another.
IndexConflict(c, d) ==
    /\ c.status = "active"
    /\ d.status = "active"
    /\ \/ c.p1 = d.p1
       \/ c.p2 = d.p2

\* Save either inserts or overwrites row id with row c; the statement fails
\* when the unique indexes exist and another row conflicts with the new one.
SaveAllowed(table, id, c) ==
    UniqueIndexes => \A other \in ChatIds \ {id} : ~IndexConflict(c, table[other])

================================================================================
