SPECIFICATION TuneSpec
CONSTANTS
    Times <- Tune
    Notes = {2, 3}
    Files <- OneFile
    Block = 3
    Near = 3
    Step = 3
    Spots = {0, 3, 5, 8}
    Traced = TRUE
    Commands = {}
    Failing = FALSE
    AddPlay = TRUE
    MaxTail = 2
    MaxReads = 4
    Users = {"seeker", "deaf", "tempo", "reloader", "lister"}
    Kinds = {"note", "waltz", "dense"}
    Keys = {1, 2}
    Deltas = {0, 3}
    Tracks = 2
    Format = 1
    MaxItems = 3
    Preserve = TRUE
    MaxEvents = 9
    Filters = {}
    Repeat = 2
    Rates <- Tempi
    Sigs <- Meters
    One = 4
    Readers = {"tracks", "sequel", "marks", "slowing", "mfi", "recomposer", "nesting", "sliding"}
INVARIANTS OnTime InOrder SkipObeyed ListInOrder LoopUnwinds AsWritten KeepsTime
PROPERTIES ResumesThere TuneEnds
CHECK_DEADLOCK FALSE
