SPECIFICATION ScanSpec
CONSTANTS
    u = u
    v = v
    w = w
    chess = chess
    music = music
    Names = {u, v, w}
    Interests = {chess, music}
    Places = {"here", "there"}
    Genders = {"", "f", "m"}
    NoGender = ""
    MatchingCandidates <- MCCandidates
    Rounding <- MCRounding
    MaxPool = 3
INVARIANTS ScanTypeOK FirstBest
CHECK_DEADLOCK FALSE
