SPECIFICATION Spec
CONSTANTS
    Users <- MCUsers
    Conns <- MCConns
    Rooms <- MCRooms
    UserOf <- MCUserOf
    Notifiers <- MCNotifiers
    Events <- MCEvents
    QueueOf <- MCQueueOf
    Recipients <- MCRecipients
    None = None
INVARIANTS
    NoGhostRegistration
    MembershipTracked
    LastOneOut
    AckedWhenSettled
PROPERTY
    ClosedConnectionsEnd
    EventsHandled
CHECK_DEADLOCK FALSE
