CONSTANTS
    Capacity = 4
    Item = {v1, v2}
    Publisher = {t1}
    RingSize = 4
    Width = 8
    Chunk = 3
    FrameSizes = {2, 3}
    MaxFrames = 4
    Producer = {p1, p2}
    Consumer = {w1}
    Value = {a, b}
    MaxNodes = 3
SPECIFICATION QueuesSpec
INVARIANTS NoDataRace SendRingIsFifo NoUseAfterFree EachTaskOnce
PROPERTIES RingIsFifo Drains IsFifo QuietAfterShutdown WorkersGoOn
