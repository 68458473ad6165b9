SPECIFICATION FairSpec
CONSTANTS
    Eval = {e1, e2}
    User = {}
    NoEval = NoEval
PROPERTIES InterruptEnds DisconnectEnds
