SPECIFICATION FairSpec
CONSTANTS
    Key = {k1}
    Conn = {c1, c2}
    Owner = {o1}
    Ops = {"eval", "free", "close"}
    Reaper = Reaper
    Main = Main
    NoConn = NoConn
    NoOwner = NoOwner
    MaxSession = 2
PROPERTY DeadOwnersReaped
