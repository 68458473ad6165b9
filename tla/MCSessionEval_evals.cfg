SPECIFICATION Spec
CONSTANTS
    Eval = {e1, e2}
    User = {u1}
    NoEval = NoEval
SYMMETRY Symmetry
INVARIANTS TypeOK OwnStatus
PROPERTIES CleanStart ImplementsService
