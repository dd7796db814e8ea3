CONSTANTS
    TickSymbols = {s1, s2}
    BarSymbols = {}
    Broadcast = Broadcast
    reorder_window = 2
    MaxPublished = 2
    MaxPublishers = 1
SPECIFICATION UdpSpec
INVARIANTS GapsAreLosses
