SPECIFICATION FairSpec
CONSTANTS
    t1 = t1
    t2 = t2
    Shells = {t1,t2}
    Sources = {"old","new"}
    FirstSource = "old"
    Releases = {1,2}
    Variants = {1, 2}
    Usual = 1
    None = None
    MaxOverlaps = 1
    MaxEdits = 1
    MaxFaults = 1
INVARIANTS TypeOK PinsAreReviewed PassedIsReviewed
PROPERTIES SameInputsSameIdentity SavedIsRestorable EventuallyPasses
