------------------------------- MODULE TcpFeed ------------------------------
(***************************************************************************)
(* AsyncTcpFeed (networking/tcp_feed.cpp): a server that broadcasts frames *)
(* and a client that reads them, reconnecting when the connection ends.    *)
(*                                                                         *)
(* A connection's stream is cut into the cells of FrameParser: ring[c] is  *)
(* what the server has queued for it, chan[c] what the kernel carries.     *)
(* Connections are taken from a finite set and used again once both ends   *)
(* are closed.                                                             *)
(*                                                                         *)
(* Assumed of the caller, though tcp_feed.hpp:102 lets any thread publish: *)
(* one thread at a time publishes, since a send ring has one producer (see *)
(* SendRing), and not while a client is accepted or removed, which change  *)
(* the map that publish walks without a lock.                              *)
(***************************************************************************)
EXTENDS FrameParser, FiniteSets

CONSTANTS Conn, NoConn,
          TcpKinds,           \* what is published
          ring_capacity, ChanCapacity,
          SendChunk,          \* the 4096 bytes taken from a ring at a time
          Garbage,            \* lengths that bytes which are no header may give
          max_reconnect_attempts,
          MaxFrames, MaxServers, MaxClients   \* bounds: publishes and starts

ASSUME TcpAssumption ==
    /\ NoConn \notin Conn
    /\ TcpKinds \subseteq {"tick", "bar", "heartbeat"}
    /\ {ring_capacity, ChanCapacity, SendChunk} \subseteq Nat \ {0}
    /\ Garbage \subseteq Nat
    /\ max_reconnect_attempts \in Nat
    /\ {MaxFrames, MaxServers, MaxClients} \subseteq Nat

TcpFrame == [no : 1..MaxFrames, kind : TcpKinds]

VARIABLES server,      \* running_, whether its thread lives, and how many were started
          listening,   \* the listening sockets that are open, by server start
          listener,    \* the listening socket a connection went to
          srvEnd,      \* the server's end of a connection
          cliEnd,      \* the client's end is open
          ring, chan,
          published,   \* every frame, in order
          client,      \* running_, pc of its thread, connection, attempts, starts
          parser,      \* the parser of the client's connection
          received,    \* the frames the client's parsers passed on
          since,       \* published when the connection was accepted
          intact       \* no cell of the connection was dropped by the server

wire    == <<listening, listener, srvEnd, cliEnd>>
data    == <<ring, chan, since, intact>>
reader  == <<parser, received>>
tcpVars == <<server, wire, data, published, client, reader>>

TcpInit ==
    /\ server    = [running |-> FALSE, alive |-> FALSE, starts |-> 0]
    /\ listening = {}
    /\ listener  = [c \in Conn |-> 0]
    /\ srvEnd    = [c \in Conn |-> "closed"]
    /\ cliEnd    = [c \in Conn |-> FALSE]
    /\ ring      = [c \in Conn |-> <<>>]
    /\ chan      = [c \in Conn |-> <<>>]
    /\ published = <<>>
    /\ client    = [running |-> FALSE, pc |-> "off", conn |-> NoConn,
                    attempts |-> 0, starts |-> 0]
    /\ parser    = NewParser
    /\ received  = <<>>
    /\ since     = [c \in Conn |-> 0]
    /\ intact    = [c \in Conn |-> TRUE]

(* clients_: the connections the server has accepted and not removed.      *)
clients == {c \in Conn : srvEnd[c] = "accepted"}

(* Connections established by the kernel that wait in the backlog of l,    *)
(* for the accept_client that their arrival calls, or left there by one.   *)
Backlog(l) == {c \in Conn : srvEnd[c] \in {"backlog", "left"} /\ listener[c] = l}

(* The server has not closed its end of c.                                 *)
Whole(c) == c # NoConn /\ srvEnd[c] # "closed"

Free == {c \in Conn : srvEnd[c] = "closed" /\ ~cliEnd[c]}

CloseServerEnds(cs) ==
    /\ srvEnd'   = [c \in Conn |-> IF c \in cs THEN "closed" ELSE srvEnd[c]]
    /\ ring'     = [c \in Conn |-> IF c \in cs THEN <<>> ELSE ring[c]]
    /\ listener' = [c \in Conn |-> IF c \in cs THEN 0 ELSE listener[c]]
    /\ since'    = [c \in Conn |-> IF c \in cs THEN 0 ELSE since[c]]
    /\ intact'   = [c \in Conn |-> c \in cs \/ intact[c]]

-----------------------------------------------------------------------------
(* The server: start, stop, the destructor and the event loop *)

(* A server whose object was started before opens a second listening       *)
(* socket, next to the one it forgets.                                     *)
ServerStart ==
    /\ ~server.running /\ ~server.alive
    /\ server.starts < MaxServers
    /\ server'    = [running |-> TRUE, alive |-> TRUE, starts |-> server.starts + 1]
    /\ listening' = listening \cup {server.starts + 1}
    /\ UNCHANGED <<listener, srvEnd, cliEnd, data, published, client, reader>>

ServerStop ==
    /\ server.running
    /\ server' = [server EXCEPT !.running = FALSE]
    /\ UNCHANGED <<wire, data, published, client, reader>>

(* run_server leaves its loop and closes its clients; what is in the rings *)
(* is gone, and listen_fd_ stays open.                                     *)
ServerEnds ==
    /\ server.alive
    /\ server' = [server EXCEPT !.alive = FALSE]
    /\ CloseServerEnds(clients)
    /\ UNCHANGED <<listening, cliEnd, chan, published, client, reader>>

ServerExit == ~server.running /\ ServerEnds

(* epoll_wait fails: the thread ends, and running_ stays set.              *)
ServerFails == server.running /\ ServerEnds

(* The destructor of a stopped server closes its listening socket, and     *)
(* the kernel what waits there.                                            *)
ServerDestroy ==
    /\ ~server.alive /\ ~server.running
    /\ server.starts \in listening
    /\ listening' = listening \ {server.starts}
    /\ CloseServerEnds(Backlog(server.starts))
    /\ UNCHANGED <<server, cliEnd, chan, published, client, reader>>

(* A connection has arrived (the listening socket is edge-triggered):      *)
(* accept_client takes those that wait in their order, all of them unless  *)
(* accept4 fails.  The rest is left until another one arrives.             *)
accept_client ==
    /\ server.alive
    /\ \E c \in Backlog(server.starts) : srvEnd[c] = "backlog"
    /\ \E new \in SUBSET Backlog(server.starts) :
           /\ client.conn \in new => new = Backlog(server.starts)   \* its own is the last
           /\ srvEnd' = [c \in Conn |-> IF c \in new THEN "accepted"
                                        ELSE IF c \in Backlog(server.starts) THEN "left"
                                        ELSE srvEnd[c]]
           /\ since'  = [c \in Conn |-> IF c \in new THEN Len(published) ELSE since[c]]
    /\ UNCHANGED <<server, listening, listener, cliEnd, ring, chan, intact,
                   published, client, reader>>

(* The peer has hung up: epoll reports it, or recv() in read_client does.  *)
remove_client(c) ==
    /\ server.alive
    /\ c \in clients
    /\ ~cliEnd[c]
    /\ CloseServerEnds({c})
    /\ UNCHANGED <<server, listening, cliEnd, chan, published, client, reader>>

(* try_read: a full chunk, or all that is in the ring, or all but the      *)
(* frames that are published at this moment (head_ moves by whole frames). *)
Readable(c, n) ==
    /\ n <= Len(ring[c])
    /\ n < SendChunk /\ n < Len(ring[c]) => ring[c][n].of # ring[c][n + 1].of

(* drain_send_rings, one chunk of one client: n cells leave the ring       *)
(* first, then send() takes as many as the kernel has room for, perhaps    *)
(* none.  The others are not put back.                                     *)
drain_send_rings(c, n) ==
    LET room  == ChanCapacity - Len(chan[c])
        taken == IF cliEnd[c] THEN Min({n, room}) ELSE 0
    IN  /\ server.alive
        /\ c \in clients
        /\ Readable(c, n)
        /\ ring'   = [ring EXCEPT ![c] = SubSeq(@, n + 1, Len(@))]
        /\ chan'   = [chan EXCEPT ![c] = @ \o SubSeq(ring[c], 1, taken)]
        /\ intact' = [intact EXCEPT ![c] = @ /\ taken = n]
        /\ UNCHANGED <<server, wire, since, published, client, reader>>

\* Mutant: try_write does not stop at the end of the ring.
TcpPublishUnbounded(kind) ==
    LET cells == encode([no |-> Len(published) + 1, kind |-> kind])
    IN  /\ Len(published) < MaxFrames
        /\ published' = Append(published, cells[1].of)
        /\ ring' = [c \in Conn |-> IF c \in clients THEN ring[c] \o cells ELSE ring[c]]
        /\ UNCHANGED <<server, wire, chan, since, intact, client, reader>>

(* publish, by the one thread that does: every client's ring takes as many *)
(* cells of the frame as it has room for (try_write), whether or not the   *)
(* server runs.  A publish that overlaps a drain may not see what that     *)
(* frees; it is one from before the drain.                                 *)
TcpPublish(kind) ==
    LET cells    == encode([no |-> Len(published) + 1, kind |-> kind])
        fits(c)  == Min({Len(cells), ring_capacity - Len(ring[c])})
    IN  /\ Len(published) < MaxFrames
        /\ published' = Append(published, cells[1].of)
        /\ ring'   = [c \in Conn |-> IF c \in clients
                                       THEN ring[c] \o SubSeq(cells, 1, fits(c))
                                       ELSE ring[c]]
        /\ intact' = [c \in Conn |-> intact[c] /\ (c \in clients => fits(c) = Len(cells))]
        /\ UNCHANGED <<server, wire, chan, since, client, reader>>

-----------------------------------------------------------------------------
(* close() of conn_fd_: what the kernel still carries is gone.             *)
CloseClientEnd ==
    /\ cliEnd' = [c \in Conn |-> cliEnd[c] /\ c # client.conn]
    /\ chan'   = [c \in Conn |-> IF c = client.conn THEN <<>> ELSE chan[c]]

(* The client: start, stop, and run_client *)

ClientStart ==
    /\ ~client.running /\ client.pc = "off"
    /\ client.starts < MaxClients
    /\ client' = [client EXCEPT !.running = TRUE, !.pc = "connect",
                                !.attempts = 0, !.starts = @ + 1]
    /\ UNCHANGED <<server, wire, data, published, reader>>

ClientStop ==
    /\ client.running
    /\ client' = [client EXCEPT !.running = FALSE]
    /\ UNCHANGED <<server, wire, data, published, reader>>

ClientJoin ==
    /\ ~client.running /\ client.pc = "ended"
    /\ client' = [client EXCEPT !.pc = "off"]
    /\ UNCHANGED <<server, wire, data, published, reader>>

ClientEnds ==
    /\ client.pc = "connect" /\ ~client.running
    /\ client' = [client EXCEPT !.pc = "ended"]
    /\ UNCHANGED <<server, wire, data, published, reader>>

(* connect() is refused at once: after max_reconnect_attempts in a row the *)
(* thread gives up, with running_ still set.                               *)
ConnectRefused ==
    /\ client.pc = "connect" /\ client.running
    /\ listening = {}
    /\ client' = [client EXCEPT
           !.attempts = @ + 1,
           !.pc = IF client.attempts + 1 > max_reconnect_attempts THEN "ended" ELSE "sleep"]
    /\ UNCHANGED <<server, wire, data, published, reader>>

(* connect() is in progress: towards a listening socket, or towards one    *)
(* that is not there or whose backlog is full, which shows only later.     *)
(* Either clears attempts.                                                 *)
ConnectInProgress(c, l) ==
    /\ client.pc = "connect" /\ client.running
    /\ client' = [client EXCEPT !.pc = "wait", !.conn = c, !.attempts = 0]
    /\ IF c = NoConn
         THEN (listening = {} \/ Free = {}) /\ UNCHANGED <<wire, data>>
         ELSE /\ l \in listening
              /\ c \in Free
              /\ listener' = [listener EXCEPT ![c] = l]
              /\ srvEnd'   = [srvEnd EXCEPT ![c] = "backlog"]
              /\ cliEnd'   = [cliEnd EXCEPT ![c] = TRUE]
              /\ UNCHANGED <<listening, data>>
    /\ UNCHANGED <<server, published, reader>>

(* The wait for the connection fails: nobody listens, the server's end is  *)
(* closed by now, two seconds have passed, or a signal ends it.  Then      *)
(* connect again, without a pause.                                         *)
WaitFails ==
    /\ client.pc = "wait"
    /\ client' = [client EXCEPT !.pc = "connect", !.conn = NoConn]
    /\ CloseClientEnd
    /\ UNCHANGED <<server, listening, listener, srvEnd, ring, since, intact,
                   published, reader>>

Connected ==
    /\ client.pc = "wait"
    /\ Whole(client.conn)
    /\ client' = [client EXCEPT !.pc = "read"]
    /\ parser' = NewParser
    /\ UNCHANGED <<server, wire, data, published, received>>

(* recv() returns k cells: the first after an event that found the         *)
(* connection whole, the next ones without looking at running_.            *)
Recv(k, garbage) ==
    LET c == client.conn
        p == push(parser, SubSeq(chan[c], 1, k), garbage)
    IN  /\ \/ client.pc = "read" /\ client.running /\ Whole(c)
           \/ client.pc = "burst"
        /\ client'   = [client EXCEPT !.pc = "burst"]
        /\ chan'     = [chan EXCEPT ![c] = SubSeq(@, k + 1, Len(@))]
        /\ parser'   = [p EXCEPT !.out = <<>>]
        /\ received' = received \o p.out
        /\ UNCHANGED <<server, wire, ring, since, intact, published>>

\* Mutant: the thread ends with its first connection.
CloseForGood ==
    /\ client' = [client EXCEPT !.conn = NoConn, !.pc = "ended"]
    /\ CloseClientEnd
    /\ parser' = NewParser
    /\ UNCHANGED <<server, listening, listener, srvEnd, ring, since, intact,
                   published, received>>

Close ==
    /\ client' = [client EXCEPT !.conn = NoConn,
                                !.pc = IF client.running THEN "sleep" ELSE "ended"]
    /\ CloseClientEnd
    /\ parser' = NewParser
    /\ UNCHANGED <<server, listening, listener, srvEnd, ring, since, intact,
                   published, received>>

(* The event reports that the server is gone, or the loop sees the stop.   *)
HangUp ==
    /\ client.pc = "read"
    /\ Whole(client.conn) => ~client.running
    /\ Close

(* epoll_wait fails, by a signal for one, on a connection that is whole.   *)
Interrupted ==
    /\ client.pc = "read" /\ client.running
    /\ Whole(client.conn)
    /\ Close

(* recv() has nothing more: EAGAIN ends the connection like an error, and  *)
(* so does the end of the stream.                                          *)
NoMoreData == client.pc = "burst" /\ Close

Wake ==
    /\ client.pc = "sleep"
    /\ client' = [client EXCEPT !.pc = "connect"]
    /\ UNCHANGED <<server, wire, data, published, reader>>

-----------------------------------------------------------------------------
ServerStep ==
    \/ ServerExit
    \/ accept_client
    \/ \E c \in Conn : remove_client(c)
    \/ \E c \in Conn, n \in 1..SendChunk : drain_send_rings(c, n)

ClientStep ==
    \/ ClientEnds
    \/ ConnectRefused
    \/ \E c \in Conn, l \in listening : ConnectInProgress(c, l)
    \/ ConnectInProgress(NoConn, 0)
    \/ WaitFails
    \/ Connected
    \/ \E garbage \in Garbage, k \in 1..ChanCapacity :
           /\ client.pc \in {"read", "burst"}
           /\ k <= Len(chan[client.conn])
           /\ Recv(k, garbage)
    \/ HangUp
    \/ NoMoreData
    \/ Wake

TcpNext ==
    \/ ServerStart
    \/ ServerStop
    \/ ServerFails
    \/ ServerDestroy
    \/ \E kind \in TcpKinds : TcpPublish(kind)
    \/ ClientStart
    \/ ClientStop
    \/ ClientJoin
    \/ Interrupted
    \/ ServerStep
    \/ ClientStep

(* The two threads run.  Nothing makes epoll_wait fail.                    *)
TcpFairness == WF_tcpVars(ServerStep) /\ WF_tcpVars(ClientStep)

TcpSpec == TcpInit /\ [][TcpNext]_tcpVars /\ TcpFairness

-----------------------------------------------------------------------------
TcpTypeOK ==
    /\ server \in [running : BOOLEAN, alive : BOOLEAN, starts : 0..MaxServers]
    /\ listening \subseteq 1..MaxServers
    /\ listener \in [Conn -> 0..MaxServers]
    /\ srvEnd \in [Conn -> {"closed", "backlog", "left", "accepted"}]
    /\ cliEnd \in [Conn -> BOOLEAN]
    /\ published \in Seq(TcpFrame) /\ Len(published) <= MaxFrames
    /\ \A c \in Conn :
           /\ Len(ring[c]) <= ring_capacity /\ ring[c] \in Seq(Cell(TcpFrame))
           /\ Len(chan[c]) <= ChanCapacity  /\ chan[c] \in Seq(Cell(TcpFrame))
    /\ client.pc \in {"off", "connect", "wait", "read", "burst", "sleep", "ended"}
    /\ client.conn \in Conn \cup {NoConn}
    /\ client.attempts \in 0..(max_reconnect_attempts + 1)
    /\ Len(received) <= MaxFrames
    /\ \A c \in Conn : cliEnd[c] <=> client.conn = c

(* Through torn writes, short sends, lost connections and restarts of both *)
(* ends, the client passes on only frames that were published, each at     *)
(* most once and in the order of publication: a frame is never put         *)
(* together from two, and a new connection never replays an old one.  That *)
(* is said of frames published by one thread: two can bring the ring's     *)
(* head_ back, see SendRing.                                               *)
NeverTornNorRepeated ==
    /\ \A i \in 1..Len(received) :
           received[i].no \in 1..Len(published) /\ published[received[i].no] = received[i]
    /\ \A i, j \in 1..Len(received) : i < j => received[i].no < received[j].no

(* The frames of the connection the client reads from that are not yet     *)
(* passed on: in its parser, the kernel and the ring.                      *)
InFlight(c) == push([parser EXCEPT !.out = <<>>], chan[c] \o ring[c], 0).out

(* A connection of which the server dropped no cell carries every frame    *)
(* published since it was accepted, and no other, to the client: what the  *)
(* client has passed on after the older ones and what is on its way make   *)
(* the whole.  One thread publishes here too: of two, one can overwrite    *)
(* the other's frame in a ring that has room for both, see SendRing.       *)
IntactConnectionsDeliver ==
    \A c \in clients :
        intact[c] /\ client.pc \in {"read", "burst"} /\ client.conn = c =>
            \E k \in 0..Len(received) :
                /\ \A i \in 1..k : received[i].no <= since[c]
                /\ SubSeq(received, k + 1, Len(received)) \o InFlight(c)
                     = SubSeq(published, since[c] + 1, Len(published))

(* What keeps a running client from its server for good: a failed accept4  *)
(* left its connection in the backlog (tcp_feed.cpp:199-203), or left so   *)
(* many there that no other fits, and no other client connects.            *)
Stranded ==
    \/ client.conn # NoConn /\ srvEnd[client.conn] = "left"
    \/ \A c \in Conn : srvEnd[c] = "left"

(* The client gives up a connection that is whole.                         *)
GivesUp == Interrupted \/ (WaitFails /\ Whole(client.conn))

(* A running client is not left without a connection for ever: while one   *)
(* server runs, its thread lives and no forgotten socket listens beside    *)
(* it, the client gets a connection that the server has accepted           *)
(* (run_client's reconnect loop and accept_client).  Unless it had given   *)
(* up before, unless a failed accept4 strands it, and unless time-outs and *)
(* signals interrupt its connections without end.                          *)
ClientComesBack ==
    <>[][~GivesUp]_tcpVars =>
        ((client.running /\ server.running /\ listening = {server.starts})
           ~> \/ client.conn \in clients
              \/ ~client.running \/ ~server.running \/ ~server.alive
              \/ client.attempts > max_reconnect_attempts
              \/ Stranded)
=============================================================================
