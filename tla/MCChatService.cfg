SPECIFICATION Spec
CONSTANTS
    Users <- MCUsers
    ChatIds <- MCChatIds
    Enders <- MCEnders
    MaxEvents = 2
    UniqueIndexes = TRUE
PROPERTIES
    RevivedOnlyByStaleActivity
    EventsHandled
