----------------------------- MODULE MCLoginLimits -----------------------------
\* Three logins to one address from one IP address, one with the right password.
EXTENDS LoginLimits

CONSTANTS ip, email, r1, r2, r3

MCIpOf == [r \in Logins |-> ip]
MCEmailOf == [r \in Logins |-> email]

================================================================================
