-------------------------- MODULE MCWebSocketHandler --------------------------
(* Constants of the TLC runs over WebSocketHandler.                        *)
EXTENDS WebSocketHandler

MCRooms == {"room"}

\* ann reconnects while an event is pushed to her.
MCUsers     == {"ann"}
MCConns     == {"a1", "a2"}
MCUserOf    == [c \in MCConns |-> "ann"]
MCNotifiers == {"n1"}
MCEvents    == {"e1"}
MCQueueOf   == [e \in MCEvents |-> "n1"]
MCRecipients == [e \in MCEvents |-> MCUsers]

\* ann and bob broadcast to the room they share.
MCPair        == {"ann", "bob"}
MCPairConns   == {"a1", "b1"}
MCPairOf      == [c \in MCPairConns |-> IF c = "a1" THEN "ann" ELSE "bob"]
MCNoNotifiers == {}
MCNoEvents    == {}
MCNoQueueOf   == [e \in {} |-> "n1"]
MCNoRecipients == [e \in {} |-> {}]

================================================================================
