CONSTANTS
    a1 = a1
    b1 = b1
    A = A
    B = B
    v1 = v1
    Nil = Nil
    s1 = s1
    s2 = s2
    Free = Free
    Spaces = {s1, s2}
    Paths <- MCOnePath
    Patterns <- MCSingles
    Commands = {"lock", "unlock", "unlock --force", "status"}
    Expiring = TRUE
    DiesIn = {}
SPECIFICATION PartsSpec
PROPERTY LossIsNoticed
PROPERTY EveryCallReturns
PROPERTY LeftoverGoesAway
CHECK_DEADLOCK FALSE
