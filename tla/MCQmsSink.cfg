\* Three threads, a reload in between.
SPECIFICATION SinkSpec
CONSTANTS
    Threads = {t1, t2, t3}
    MaxHits = 3
    MaxLoads = 2
    Garbled = Garbled
    Empty = Empty
    NoFile = NoFile
INVARIANTS
    SinkTypeOK
    AnsweredIsRecorded
    FileStaysReadable
PROPERTIES
    HitIsAnswered
