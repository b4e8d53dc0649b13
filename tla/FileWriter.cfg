\* One output of each format over one take, with every failure of the disk.
SPECIFICATION WriterSpec
CONSTANTS
    Kinds = {"wav", "mp3", "ogg"}
    Cap = 3
    Chunk = 2
    MaxBlock = 4
    Interval = 2
    Header = 2
    Short = 6
    Delay = 1
    Lead = 2
    Fill = 1
    Packet = 3
    PreSkip = 2
    MaxFrames = 7
INVARIANTS AlwaysPlays AsLongAsTheTake UntoldIsWhole
PROPERTY NeverTakenBack
CHECK_DEADLOCK FALSE
