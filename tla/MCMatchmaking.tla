----------------------------- MODULE MCMatchmaking -----------------------------
\* Alice and Bob wait for the answer to a join, Carol does not.  Who accepts whom
\* is the business of MCBestMatch: here everybody accepts everybody.
EXTENDS Matchmaking, TLC

CONSTANTS alice, bob, carol, j1, j2, j3, e1, young

OnePair == {<<young, young>>}

Symmetry == Permutations(Patient) \cup Permutations(Joins)

================================================================================
