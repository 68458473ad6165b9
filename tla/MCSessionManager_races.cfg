SPECIFICATION Spec
CONSTANTS
    Key = {k1}
    Conn = {c1, c2, c3}
    Owner = {}
    Ops = {"fresh", "interrupt", "close"}
    Reaper = Reaper
    Main = Main
    NoConn = NoConn
    NoOwner = NoOwner
    MaxSession = 3
SYMMETRY Symmetry
INVARIANT TypeOK
INVARIANT ClearedNeverRuns
INVARIANT DiedIsUnregistered
INVARIANT WaitsAreShort
PROPERTY NeverOverwritten
PROPERTY LostOnlyByEviction
