----------------------------- MODULE MCChatService -----------------------------
(* Constants of the TLC runs over ChatService.                             *)
EXTENDS ChatService

MCUsers   == {"ann", "bob", "cyd"}
MCChatIds == {"k1", "k2"}
MCEnders  == {"e1", "e2"}

================================================================================
