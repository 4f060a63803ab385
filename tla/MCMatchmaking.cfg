\* Two patient users and one who sends joins without waiting and edits preferences
\* meanwhile; the chats table as docker-compose.yml creates it.
CONSTANTS
    alice = alice  bob = bob  carol = carol
    j1 = j1  j2 = j2  j3 = j3
    young = young
    e1 = e1
    Users = {alice, bob, carol}
    Patient = {alice, bob}
    Prefs = {young}
    Prefiltered <- OnePair
    Compatible <- OnePair
    Joins = {j1, j2, j3}
    Ends = {e1}
    Editors = {carol}
    Limit = 2
    UniqueIndexes = FALSE
SYMMETRY Symmetry
SPECIFICATION Spec
INVARIANTS
    SearcherNotQueued
    NoRematchInWindow
    TicketClaimedOnce
    ClaimIsRecorded
PROPERTIES
    ImplementsTickets
