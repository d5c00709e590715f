SPECIFICATION Spec
CONSTANTS
    t1 = t1
    t2 = t2
    Shells <- TwoShells
    Foreigners <- Nothing
    MaxStarts = 2
    MaxFaults = 2
    Nobody = Nobody
    Foreign = Foreign
    Earlier = Earlier
INVARIANTS
    BackendHasItsVolume
PROPERTIES
    OneStopClears
