SPECIFICATION FairSpec
CONSTANTS
    Key = {k1}
    Conn = {c1, c2}
    Owner = {}
    Ops = {"file", "label", "interrupt", "stop"}
    Reaper = Reaper
    Main = Main
    NoConn = NoConn
    NoOwner = NoOwner
    MaxSession = 3
PROPERTIES RequestsAnswered ImplementsService
