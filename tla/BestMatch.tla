------------------------------- MODULE BestMatch -------------------------------
(***************************************************************************)
(* FindBestMatch: which of the queued candidates a searching user gets.    *)
(*                                                                         *)
(* The loop over the candidates is the state machine.  Scores are integers *)
(* in thousandths.  The code adds floats: two scores that are equal here   *)
(* but made of different parts may differ there by what Rounding says,     *)
(* which may be anything.  The loop takes no time: waiting times are those *)
(* at its start.  (The names are such that MatchmakingProofs can speak of   *)
(* this module and of Matchmaking.)                                        *)
(***************************************************************************)
EXTENDS Integers, Sequences, FiniteSets

CONSTANTS Names, Interests, Places,
          Genders,     \* the empty string, for no preference, is NoGender
          NoGender,
          MatchingCandidates,  \* those to choose from
          Rounding,    \* how far the float of a score is from its value
          MaxPool      \* bound on the candidates of a query (100 in the code)

Candidate == [user : Names, age : 13..120, low : 13..120, high : 13..120,
              interests : Seq(Interests), gender : Genders, location : Places,
              wait : Nat]

ASSUME CandidatesAssumption ==
    /\ MatchingCandidates \subseteq Candidate
    /\ MaxPool \in Nat
    /\ NoGender \in Genders

VARIABLES me,     \* the searching user
          listed, \* the candidates, in the order of the query
          i,      \* the next one of the loop
          best,   \* the position of bestCandidate, 0 for nil
          score,  \* the parts of bestScore
          outcome \* "scanning", then what FindBestMatch returned

scanVars == <<me, listed, i, best, score, outcome>>

--------------------------------------------------------------------------------
(* Compatibility and score of candidates a and b                           *)

InRange(a, age) == age >= a.low /\ age <= a.high

\* Mutant: one of the two need not accept the other's age.
IsCompatibleOneWay(a, b) ==
    /\ a.user # b.user
    /\ InRange(a, b.age)
    /\ a.gender # NoGender => a.gender = b.gender
    /\ b.gender # NoGender => b.gender = a.gender

IsCompatibleWith(a, b) ==
    /\ a.user # b.user
    /\ InRange(a, b.age) /\ InRange(b, a.age)
    /\ a.gender # NoGender => a.gender = b.gender
    /\ b.gender # NoGender => b.gender = a.gender

Distance(x, y) == IF x < y THEN y - x ELSE x - y

\* Interests of b that a has; one that b names twice counts twice.
CommonInterests(a, b) ==
    Cardinality({k \in DOMAIN b.interests :
                    \E j \in DOMAIN a.interests : a.interests[j] = b.interests[k]})

\* 30%.  The ages are within each other's range, or the score is 0.
AgeScore(a, b) ==
    IF ~(InRange(a, b.age) /\ InRange(b, a.age)) THEN 0
    ELSE IF Distance(a.age, b.age) <= 2 THEN 300
    ELSE IF Distance(a.age, b.age) >= 10 THEN 150
    ELSE 300 - 15 * Distance(a.age, b.age)

\* 40%, of at most five interests.
InterestScore(a, b) ==
    IF CommonInterests(a, b) >= 5 THEN 400 ELSE 80 + 64 * CommonInterests(a, b)

\* 15%, by the average of two waiting times in minutes.
WaitScore(a, b) ==
    IF a.wait + b.wait < 2 THEN 45
    ELSE IF a.wait + b.wait < 10 THEN 75
    ELSE IF a.wait + b.wait < 30 THEN 105
    ELSE 150

\* 15%.
LocationScore(a, b) == IF a.location = b.location THEN 150 ELSE 75

CalculateMatchScore(a, b) ==
    [age |-> AgeScore(a, b), interests |-> InterestScore(a, b),
     wait |-> WaitScore(a, b), location |-> LocationScore(a, b)]

Total(s) == s.age + s.interests + s.wait + s.location

\* A sum of -1, which every candidate's is above.
NoScore == [age |-> -1, interests |-> 0, wait |-> 0, location |-> 0]

Scores == {CalculateMatchScore(a, b) : a, b \in MatchingCandidates}

ASSUME RoundingAssumption == Rounding \in [Scores -> Int]

--------------------------------------------------------------------------------
(* The loop                                                                *)

ScanInit ==
    /\ me \in MatchingCandidates
    /\ listed \in UNION {[1..n -> MatchingCandidates] : n \in 0..MaxPool}
    /\ i = 1 /\ best = 0 /\ score = NoScore /\ outcome = "scanning"

Current == CalculateMatchScore(me, listed[i])

\* score > bestScore, of floats.
Above(s, t) ==
    \/ Total(s) > Total(t)
    \/ Total(s) = Total(t) /\ Rounding[s] > Rounding[t]

Higher == Above(Current, score)

\* The same user, an incompatible one, or one whose score is not higher.
Skip ==
    /\ outcome = "scanning" /\ i <= Len(listed)
    /\ IsCompatibleWith(me, listed[i]) => ~Higher
    /\ i' = i + 1
    /\ UNCHANGED <<me, listed, best, score, outcome>>

\* Mutant: score >= bestScore.
TakeLast ==
    /\ outcome = "scanning" /\ i <= Len(listed)
    /\ IsCompatibleWith(me, listed[i])
    /\ Total(Current) >= Total(score)
    /\ best' = i /\ score' = Current /\ i' = i + 1
    /\ UNCHANGED <<me, listed, outcome>>

Take ==
    /\ outcome = "scanning" /\ i <= Len(listed)
    /\ IsCompatibleWith(me, listed[i])
    /\ Higher
    /\ best' = i /\ score' = Current /\ i' = i + 1
    /\ UNCHANGED <<me, listed, outcome>>

\* ErrNoSuitableMatch, or NewMatchScore of what was found, which refuses a
\* score that is not between 0 and 1.
Return ==
    /\ outcome = "scanning" /\ i > Len(listed)
    /\ outcome' = IF best = 0 THEN "none"
             ELSE IF Total(score) \in 0..1000 THEN "found" ELSE "error"
    /\ UNCHANGED <<me, listed, i, best, score>>

ScanNext == Skip \/ Take \/ Return

ScanSpec == ScanInit /\ [][ScanNext]_scanVars

--------------------------------------------------------------------------------
(* Properties                                                              *)

\* The weights add up: a score is a sum of parts that NewMatchScore accepts
\* (so FindBestMatch never fails with it), and a compatible candidate's has a
\* floor of 0.35, whatever the code's clamping to 0 and 1 would do.
ScanTypeOK ==
    /\ me \in MatchingCandidates
    /\ listed \in Seq(MatchingCandidates)
    /\ i \in 1..(Len(listed) + 1)
    /\ best \in 0..(i - 1)
    /\ best = 0 => score = NoScore
    /\ best # 0 => /\ score = CalculateMatchScore(me, listed[best])
                   /\ Total(score) \in 350..1000
    /\ outcome \in {"scanning", "none", "found"}

Score(k) == CalculateMatchScore(me, listed[k])

ScanAnswered == outcome # "scanning" => i = Len(listed) + 1 /\ (outcome = "found" <=> best # 0)

\* Whom FindBestMatch returns is compatible with the searcher in both ways
\* (a gender left empty matches only one left empty, too),
\* nobody before the loop's position is compatible and has a higher score, and
\* of those with the same parts it is the first.  It returns nobody only if
\* there is nobody compatible.
FirstBest ==
    /\ best # 0 => /\ InRange(me, listed[best].age) /\ InRange(listed[best], me.age)
                   /\ me.gender = listed[best].gender
    /\ \A k \in 1..(i - 1) :
          IsCompatibleWith(me, listed[k]) =>
             /\ best # 0
             /\ Total(Score(k)) <= Total(score)
             /\ k < best => Score(k) # score
    /\ ScanAnswered

\* The loop invariant, in terms of the comparison that the loop makes.
BestSoFar ==
    /\ best # 0 => IsCompatibleWith(me, listed[best])
    /\ \A k \in 1..(i - 1) :
          IsCompatibleWith(me, listed[k]) =>
             /\ best # 0
             /\ ~Above(Score(k), score)
             /\ k < best => Above(score, Score(k))

\* The inductive invariant of the theorems (in MatchmakingProofs).
ScanInv == ScanTypeOK /\ BestSoFar /\ ScanAnswered

================================================================================
