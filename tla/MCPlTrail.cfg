CONSTANTS
    X = X
    Y = Y
    U = U
    a = a
    b = b
    fX = fX
    fY = fY
    fa = fa
    gXY = gXY
    gYb = gYb
    Vars = {X, Y, U}
    Anonymous = {U}
    Atoms = {a, b}
    Compounds = {fX, fY, fa, gXY, gYb}
    Functor <- MCFunctor
    Args <- MCArgs
    Goals <- MCGoals
    Unbound = Unbound
    MaxMarks = 3
    MaxAgenda = 4
SPECIFICATION Spec
INVARIANTS
    TypeOK
    TrailRecordsBindings
    MarksNested
    NoRefRing
    SuccessIsMostGeneral
    FailureMeansNoUnifier
PROPERTY BacktrackingRestores
