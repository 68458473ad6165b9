SPECIFICATION Spec
CONSTANTS
    Key = {k1}
    Conn = {c1, c2}
    Owner = {}
    Ops = {"eval"}
    Reaper = Reaper
    Main = Main
    NoConn = NoConn
    NoOwner = NoOwner
    MaxSession = 2
SYMMETRY Symmetry
INVARIANT LostInterpreterIsUnregistered
