SPECIFICATION Spec
CONSTANTS
    p1 = p1
    p2 = p2
    Proc = {p1, p2}
    Settings <- Several
INVARIANTS
    TypeOK
    DeleteMeansGone
    InstallReported
    

    
CHECK_DEADLOCK FALSE
