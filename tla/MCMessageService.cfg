SPECIFICATION Spec
CONSTANTS
    ann = ann
    bob = bob
    eve = eve
    chat = chat
    m1 = m1
    m2 = m2
    m3 = m3
    Users = {ann, bob, eve}
    Chats = {chat}
    Messages = {m1, m2, m3}
    Members <- MCMembers
    ChatOf <- MCChatOf
    SenderOf <- MCSenderOf
    Edits <- MCEdits
    Limit = 1
    ReaderChat = chat
    MaxStamp = 1
    None = None
INVARIANTS WritersBelong EditsLast EditedOnce PagesMissOnlyByDeletion
CHECK_DEADLOCK FALSE
