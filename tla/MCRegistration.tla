----------------------------- MODULE MCRegistration -----------------------------
(* Constants of the TLC runs over Registration: r1 and r2 ask for the same *)
(* address, and r3's username has a hyphen.                                *)
EXTENDS Registration

MCRequests == {"r1", "r2", "r3"}
MCEmails   == {"ann@x.org", "bob@x.org"}
MCEmailOf  == [r \in MCRequests |-> IF r = "r3" THEN "bob@x.org" ELSE "ann@x.org"]
MCRefused  == {"r3"}
MCTwoRelays == {"l1", "l2"}

================================================================================
