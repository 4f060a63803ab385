SPECIFICATION Spec
CONSTANTS
    Users <- MCPair
    Conns <- MCPairConns
    Rooms <- MCRooms
    UserOf <- MCPairOf
    Notifiers <- MCNoNotifiers
    Events <- MCNoEvents
    QueueOf <- MCNoQueueOf
    Recipients <- MCNoRecipients
    None = None
INVARIANT
    NoSendOnClosed
CHECK_DEADLOCK FALSE
