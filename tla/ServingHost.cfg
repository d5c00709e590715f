SPECIFICATION FairSpec
CONSTANTS
    t1 = t1
    t2 = t2
    Shells <- OneShell
    Foreigners <- Anything
    MaxStarts = 2
    MaxFaults = 2
    Nobody = Nobody
    Foreign = Foreign
    Earlier = Earlier
INVARIANTS
    TypeOK
PROPERTIES
    ForeignUntouched
    StartKeepsToItsOwn
    CommandsEnd
    EventuallyCleared
