------------------------------ MODULE MCBestMatch ------------------------------
\* Candidates at the boundaries of every part of the score.
EXTENDS BestMatch

CONSTANTS u, v, w, chess, music

Of(name, age, low, high, interests, gender, location, wait) ==
    [user |-> name, age |-> age, low |-> low, high |-> high, interests |-> interests,
     gender |-> gender, location |-> location, wait |-> wait]

\* The five interests that count, one more, and one of them named twice.
One == <<chess>>
Twice == <<chess, chess>>
Six == <<chess, chess, chess, music, music, music>>

MCCandidates ==
    {Of(u, 30, 18, 60, Six, "", "here", 0), Of(u, 30, 28, 32, One, "f", "here", 1),
     Of(v, 32, 18, 60, One, "", "here", 1), Of(v, 33, 18, 60, Twice, "", "there", 2),
     Of(v, 30, 18, 30, Six, "f", "here", 10), Of(v, 60, 18, 60, Six, "", "here", 30),
     Of(w, 39, 20, 40, <<>>, "", "here", 30), Of(w, 40, 31, 60, <<>>, "", "there", 0),
     Of(w, 41, 18, 60, Twice, "", "there", 9), Of(w, 32, 18, 60, One, "", "here", 0),
     Of(w, 28, 30, 60, Six, "f", "there", 29), Of(w, 36, 18, 60, One, "", "here", 10)}

\* Some order among equal scores.
MCRounding == [s \in Scores |-> s.location - s.wait]

================================================================================
