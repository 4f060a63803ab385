---------------------------- MODULE MCIdempotency ----------------------------
\* Three requests with one key and one with another, and room for one answer.
EXTENDS Idempotency

CONSTANTS k1, k2, r1, r2, r3, r4

MCKeyOf == [r \in Requests |-> IF r = r4 THEN k2 ELSE k1]

===============================================================================
