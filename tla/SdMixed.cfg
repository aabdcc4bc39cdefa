\* Deletes racing for one domain; deletes, creations, set commands with faults.
SPECIFICATION FairSpec
CHECK_DEADLOCK FALSE
CONSTANTS
    c1 = c1  c2 = c2  c3 = c3  c4 = c4
    Proc = {c1, c2, c3, c4}
    Settings <- CalmAndFaulty
INVARIANTS
    TypeOK
    SuccessMeansGone
    RemovesWhatItDetached
    LeftOutsideIsReported
PROPERTIES
    WaitEnds
    SomeDeleteWins
    ImplementsDomainLife
