\* One reader on a ring of four frames; writes that fit, fill and overflow it.
SPECIFICATION Spec
CONSTANTS
    Readers = {r1}
    Cap = 4
    MaxRetries = 1
    MaxRead = 3
    WriteSizes = {1, 3, 5}
    MaxWritten = 9
    MaxLost = 6
INVARIANTS NoCorruption LossExact
PROPERTY ImplementsStream
CHECK_DEADLOCK FALSE
