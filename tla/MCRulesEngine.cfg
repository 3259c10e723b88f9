SPECIFICATION EngineSpec
CONSTANTS
    Files = {f, g}
    Threads = {t1, t2}
    MaxEdits = 3
    Absent = Absent
INVARIANTS EngineTypeOK SkippedIsCurrent
PROPERTIES TakesEffect FaultyEditIsSkipped
