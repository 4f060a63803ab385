SPECIFICATION RegSpec
CONSTANTS
    Requests <- MCRequests
    Emails <- MCEmails
    EmailOf <- MCEmailOf
    Refused <- MCRefused
    Relays <- MCTwoRelays
    BatchSize = 2
    MaxCopies = 2
    MaxFaults = 1
INVARIANTS
    RegTypeOK
    NothingForgotten
PROPERTIES
    ImplementsProvisioning
    ProfilesFollow
CHECK_DEADLOCK FALSE
