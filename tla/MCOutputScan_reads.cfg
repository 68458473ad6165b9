SPECIFICATION Spec
CONSTANTS
    NL = "NL"
    CR = "CR"
    Lead = "Lead"
    Cont = "Cont"
    RuneLen = 3
    Plain = {"_", "a"}
    Sentinel <- MCSentinel
    MaxTail = 2
    MaxRead = 3
    MaxInput = 7
INVARIANTS TypeOK Verbatim ClosesExactly RunesWhole Streams
