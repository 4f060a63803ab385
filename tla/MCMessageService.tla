--------------------------- MODULE MCMessageService ---------------------------
\* One chat of ann and bob, a stranger who writes too, and edits that overlap.
EXTENDS MessageService

CONSTANTS ann, bob, eve, chat, m1, m2, m3

MCMembers == [c \in {chat} |-> {ann, bob}]
MCChatOf == [m \in Messages |-> chat]
MCSenderOf == [m \in Messages |-> IF m = m3 THEN eve ELSE ann]
Edit(n, k, m, u) == [nr |-> n, kind |-> k, of |-> m, by |-> u]
MCEdits == {Edit(1, "read", m1, bob), Edit(2, "read", m1, bob), Edit(3, "delete", m1, ann)}

===============================================================================
