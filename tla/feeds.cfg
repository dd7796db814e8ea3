CONSTANTS
    TickSymbols = {s1}
    BarSymbols = {}
    Broadcast = Broadcast
    reorder_window = 2
    MaxPublished = 4
    MaxPublishers = 2
    Conn = {c1, c2}
    NoConn = NoConn
    TcpKinds = {"tick"}
    ring_capacity = 6
    ChanCapacity = 4
    SendChunk = 4
    Garbage = {2}
    max_reconnect_attempts = 1
    MaxFrames = 3
    MaxServers = 2
    MaxClients = 1
SPECIFICATION Spec
INVARIANTS TypeOK NothingWithheld NeverTornNorRepeated IntactConnectionsDeliver
PROPERTIES DeliversInOrder UdpStopReturns ClientComesBack
CHECK_DEADLOCK FALSE
