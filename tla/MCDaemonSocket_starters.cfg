SPECIFICATION FairSpec
CONSTANTS
    Daemon = {d1, d2, d3}
    Foreground = {d2, d3}
    Client = {c1}
    NoOne = NoOne
    Leftover = Leftover
INVARIANTS TypeOK NobodyTurnedAway
PROPERTY StartersConverge
