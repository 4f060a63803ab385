---------------------------- MODULE MCUserService ----------------------------
(* Constants of the TLC run over UserService: ann has a row, bob's comes by  *)
(* his registration, and eve's username is refused.                        *)
EXTENDS UserService

MCUsers   == {"ann", "bob", "eve"}
MCKnown   == {"ann"}
MCRefused == {"eve"}

Event(kind, of) == [kind |-> kind, of |-> of]

MCEvents ==
    {Event("registered", <<"bob">>), Event("registered", <<"eve">>),
     Event("found", <<"ann", "bob">>), Event("completed", <<"ann", "bob">>)}

MCCommands == {[kind |-> "delete", user |-> "bob"], [kind |-> "profile", user |-> "bob"]}

================================================================================
