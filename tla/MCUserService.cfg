SPECIFICATION Spec
CONSTANTS
    Users <- MCUsers
    Known <- MCKnown
    Refused <- MCRefused
    Events <- MCEvents
    Commands <- MCCommands
    Prefetch = 2
    MaxFaults = 1
    None = None
INVARIANTS
    AwayHasReason
PROPERTIES
    RevivedOnlyByStaleSave
    SettledUnlessPoisoned
CHECK_DEADLOCK FALSE
