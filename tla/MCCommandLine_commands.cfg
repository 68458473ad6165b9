SPECIFICATION Spec
CONSTANTS
    Token <- MCToken
    Attr <- MCAttr
    LangForExe <- MCLangForExe
    AbsExe <- MCAbsExe
    EvalLines <- MCEvalLines
    TargetLines <- MCTargetLines
    NoWish <- NoSuchWish
INVARIANTS TypeOK ForwardsVerbatim SameSession
