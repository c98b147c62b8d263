CONSTANTS
    a1 = a1
    a2 = a2
    b1 = b1
    A = A
    B = B
    v1 = v1
    Nil = Nil
    c = c
    Absent = Absent
    Callers = {a1, a2, b1}
    Processes = {A, B}
    Versions = {v1}
    Requests <- MCEveryRequest
    LockAttempts = 2
    ProcessOf <- MCProcessOf
SPECIFICATION PartsSpec
INVARIANT TypeOK
INVARIANT Guarded
INVARIANT PartsTypeOK
INVARIANT PutRenews
PROPERTY NoLostUpdate
PROPERTY RefinesAtomicRef
PROPERTY RefinesAtomicObject
PROPERTY DeletedIsRecoverable
