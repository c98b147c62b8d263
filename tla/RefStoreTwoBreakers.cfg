CONSTANTS
    a1 = a1
    b1 = b1
    A = A
    B = B
    v1 = v1
    v2 = v2
    Nil = Nil
    Callers = {a1, b1}
    Processes = {A, B}
    Versions = {v1, v2}
    Requests <- MCEveryRequest
    LockAttempts = 2
    ProcessOf <- MCProcessOf
SPECIFICATION PunctualSpec
PROPERTY NoLostUpdate
