------------------------------- MODULE UdpFeed ------------------------------
(***************************************************************************)
(* AsyncUdpFeed (networking/udp_feed.cpp): a publisher and a subscriber.   *)
(* The network loses, repeats, delays and reorders datagrams: "net" keeps  *)
(* every datagram that left the publisher, and the subscriber may receive  *)
(* any of them at any time, or never.  UDP's checksum keeps their bytes.   *)
(*                                                                         *)
(* The publisher may be replaced by a new process, which numbers from 0    *)
(* again.  The subscriber object is stopped and started by one thread.     *)
(***************************************************************************)
EXTENDS FrameParser, FiniteSets

CONSTANTS TickSymbols, BarSymbols, Broadcast,
          reorder_window,
          MaxPublished,       \* bound: calls of publish
          MaxPublishers       \* bound: publisher processes

ASSUME UdpAssumption ==
    /\ TickSymbols \cap BarSymbols = {}
    /\ Broadcast \notin TickSymbols \cup BarSymbols
    /\ reorder_window \in Nat
    /\ MaxPublished \in Nat
    /\ MaxPublishers \in Nat \ {0}

UdpSymbol == TickSymbols \cup BarSymbols \cup {Broadcast}

KindOf(s) == IF s \in TickSymbols THEN "tick"
             ELSE IF s \in BarSymbols THEN "bar" ELSE "heartbeat"

UdpFrame == [no : 1..MaxPublished, kind : {"tick", "bar", "heartbeat"}]
Datagram == [sym : UdpSymbol, seq : 0..MaxPublished, frame : UdpFrame]

VARIABLES publisher,   \* incarnation, whether its socket is set up, next_seq_
          numbered,    \* every datagram publish() numbered
          net,         \* those that sendto() took
          sub,         \* running_ and where the receive thread stands
          seq_map,     \* per symbol: expected, and pending by sequence number
          gaps,        \* the events gap_cb got
          dispatched,  \* the datagrams decoded per symbol, heartbeats too
          handled,     \* the datagrams handle_datagram got
          refused      \* those that found the reorder window full

pubVars   == <<publisher, numbered, net>>
subVars   == <<seq_map, gaps, dispatched, handled, refused>>
udpVars   == <<pubVars, sub, subVars>>

UdpInit ==
    /\ publisher  = [no |-> 1, sock |-> FALSE, next_seq |-> 0]
    /\ numbered   = {}
    /\ net        = {}
    /\ sub        = [running |-> FALSE, thread |-> "none", stopping |-> FALSE]
    /\ seq_map    = [s \in UdpSymbol |-> [expected |-> 0, pending |-> <<>>]]
    /\ gaps       = {}
    /\ dispatched = [s \in UdpSymbol |-> <<>>]
    /\ handled    = {}
    /\ refused    = {}

-----------------------------------------------------------------------------
(* The publisher *)

PublisherStart ==
    /\ ~publisher.sock
    /\ publisher' = [publisher EXCEPT !.sock = TRUE]
    /\ UNCHANGED <<numbered, net, sub, subVars>>

(* One counter numbers the datagrams of all symbols.  Nothing checks that  *)
(* the feed was started: without a socket the number is used up all the    *)
(* same.                                                                   *)
UdpPublish(s) ==
    LET d == [sym   |-> s,
              seq   |-> publisher.next_seq,
              frame |-> [no |-> Cardinality(numbered) + 1, kind |-> KindOf(s)]]
    IN  /\ Cardinality(numbered) < MaxPublished
        /\ publisher' = [publisher EXCEPT !.next_seq = @ + 1]
        /\ numbered'  = numbered \cup {d}
        /\ net'       = IF publisher.sock THEN net \cup {d} ELSE net
        /\ UNCHANGED <<sub, subVars>>

PublisherRestart ==
    /\ publisher.no < MaxPublishers
    /\ publisher' = [no |-> publisher.no + 1, sock |-> FALSE, next_seq |-> 0]
    /\ UNCHANGED <<numbered, net, sub, subVars>>

-----------------------------------------------------------------------------
(* The subscriber: start, stop, and its thread's loop *)

SubscriberStart ==
    /\ ~sub.running /\ ~sub.stopping
    /\ sub' = [sub EXCEPT !.running = TRUE, !.thread = "check"]
    /\ UNCHANGED <<pubVars, subVars>>

SubscriberStop ==
    /\ sub.running
    /\ sub' = [sub EXCEPT !.running = FALSE, !.stopping = TRUE]
    /\ UNCHANGED <<pubVars, subVars>>

SubscriberJoin ==
    /\ sub.stopping
    /\ sub.thread = "exited"
    /\ sub' = [sub EXCEPT !.thread = "none", !.stopping = FALSE]
    /\ UNCHANGED <<pubVars, subVars>>

\* Mutant: the loop does not look at running_.
LoopCheckForever ==
    /\ sub.thread = "check"
    /\ sub' = [sub EXCEPT !.thread = "recv"]
    /\ UNCHANGED <<pubVars, subVars>>

LoopCheck ==
    /\ sub.thread = "check"
    /\ sub' = [sub EXCEPT !.thread = IF sub.running THEN "recv" ELSE "exited"]
    /\ UNCHANGED <<pubVars, subVars>>

(* EAGAIN *)
RecvNothing ==
    /\ sub.thread = "recv"
    /\ sub' = [sub EXCEPT !.thread = "check"]
    /\ UNCHANGED <<pubVars, subVars>>

(* Any other error ends the thread and leaves running_ set.                *)
RecvFails ==
    /\ sub.thread = "recv"
    /\ sub' = [sub EXCEPT !.thread = "exited"]
    /\ UNCHANGED <<pubVars, subVars>>

-----------------------------------------------------------------------------
(* handle_datagram *)

(* The frames a fresh parser makes of the payload of a datagram.           *)
FramesOf(d) == push(NewParser, encode(d.frame), 0).out

(* A datagram goes to its symbol's callback if its frame decodes.          *)
Dispatch(got, d) == IF FramesOf(d) = <<d.frame>> THEN Append(got, d) ELSE got

(* Draining ss.pending from number n: the datagrams that follow one        *)
(* another.                                                                *)
Run(pending, n) ==
    LET last == CHOOSE k \in (n - 1)..MaxPublished :
                    /\ n..k \subseteq DOMAIN pending
                    /\ k + 1 \notin DOMAIN pending
    IN  [i \in 1..(last + 1 - n) |-> pending[n + i - 1]]

HandleLate(d) ==
    /\ d.seq < seq_map[d.sym].expected
    /\ UNCHANGED <<seq_map, gaps, dispatched, refused>>

(* An early datagram is buffered while the window has room; one with the   *)
(* same number replaces what was there.                                    *)
HandleGap(d) ==
    LET ss   == seq_map[d.sym]
        room == Cardinality(DOMAIN ss.pending) < reorder_window
    IN  /\ d.seq > ss.expected
        /\ gaps'    = gaps \cup {[sym |-> d.sym, expected |-> ss.expected, received |-> d.seq]}
        /\ seq_map' = IF room
                        THEN [seq_map EXCEPT ![d.sym].pending =
                                  [q \in DOMAIN ss.pending \cup {d.seq} |->
                                       IF q = d.seq THEN d ELSE ss.pending[q]]]
                        ELSE seq_map
        /\ refused' = IF room THEN refused ELSE refused \cup {d}
        /\ UNCHANGED dispatched

\* Mutants of HandleNext: the number moves past one datagram only; nothing
\* is drained.
HandleNextCountsOne(d) ==
    LET ss  == seq_map[d.sym]
        run == <<d>> \o Run(ss.pending, ss.expected + 1)
    IN  /\ d.seq = ss.expected
        /\ seq_map'    = [seq_map EXCEPT ![d.sym].expected = @ + 1]
        /\ dispatched' = [dispatched EXCEPT ![d.sym] = @ \o run]
        /\ UNCHANGED <<gaps, refused>>

HandleNextNoDrain(d) ==
    /\ d.seq = seq_map[d.sym].expected
    /\ seq_map'    = [seq_map EXCEPT ![d.sym].expected = @ + 1]
    /\ dispatched' = [dispatched EXCEPT ![d.sym] = Append(@, d)]
    /\ UNCHANGED <<gaps, refused>>

HandleNext(d) ==
    LET ss   == seq_map[d.sym]
        run  == <<d>> \o Run(ss.pending, ss.expected + 1)
        next == ss.expected + Len(run)
    IN  /\ d.seq = ss.expected
        /\ seq_map' = [seq_map EXCEPT ![d.sym] =
                           [expected |-> next,
                            pending  |-> [q \in {p \in DOMAIN ss.pending : p >= next} |->
                                              ss.pending[q]]]]
        /\ dispatched' = [dispatched EXCEPT ![d.sym] = FoldLeft(Dispatch, @, run)]
        /\ UNCHANGED <<gaps, refused>>

Receive(d) ==
    /\ sub.thread = "recv"
    /\ sub' = [sub EXCEPT !.thread = "check"]
    /\ handled' = handled \cup {d}
    /\ HandleLate(d) \/ HandleGap(d) \/ HandleNext(d)
    /\ UNCHANGED pubVars

-----------------------------------------------------------------------------
UdpNext ==
    \/ PublisherStart
    \/ \E s \in UdpSymbol : UdpPublish(s)
    \/ PublisherRestart
    \/ SubscriberStart
    \/ SubscriberStop
    \/ SubscriberJoin
    \/ LoopCheck
    \/ RecvNothing
    \/ RecvFails
    \/ \E d \in net : Receive(d)

(* The thread of the subscriber runs, and the caller of stop() wakes up    *)
(* when it has ended.                                                      *)
UdpFairness ==
    /\ WF_udpVars(LoopCheck \/ RecvNothing \/ \E d \in net : Receive(d))
    /\ WF_udpVars(SubscriberJoin)

UdpSpec == UdpInit /\ [][UdpNext]_udpVars /\ UdpFairness

-----------------------------------------------------------------------------
UdpTypeOK ==
    /\ publisher \in [no : 1..MaxPublishers, sock : BOOLEAN, next_seq : 0..MaxPublished]
    /\ numbered \subseteq Datagram
    /\ net \subseteq numbered
    /\ handled \subseteq net
    /\ refused \subseteq handled
    /\ sub \in [running : BOOLEAN, thread : {"none", "check", "recv", "exited"},
                stopping : BOOLEAN]
    /\ \A s \in UdpSymbol :
           /\ seq_map[s].expected \in 0..MaxPublished
           /\ DOMAIN seq_map[s].pending \subseteq 0..MaxPublished
           /\ \A q \in DOMAIN seq_map[s].pending :
                  seq_map[s].pending[q] \in handled

(* Whatever the network does, and across restarts of publisher and         *)
(* subscriber, the callbacks of a symbol get what InOrderDelivery          *)
(* promises: one sent message per number, the numbers in order without a   *)
(* hole.  The reorder window, the late check and the drain together must   *)
(* establish it (handle_datagram).                                         *)
InOrder == INSTANCE InOrderDelivery
               WITH Symbol <- UdpSymbol, sent <- numbered, delivered <- dispatched

DeliversInOrder == InOrder!Spec

(* handle_datagram withholds a datagram only for a reason it reports: one  *)
(* that was handled is dispatched, or its number was already, or it waits  *)
(* in the reorder window, or it was refused by a full window; and if it    *)
(* waits or was refused, gap_cb was told.  A waiting datagram waits for    *)
(* one that did not come: the next expected number is never in the window. *)
NothingWithheld ==
    \A d \in handled :
        LET ss      == seq_map[d.sym]
            waiting == d.seq \in DOMAIN ss.pending
        IN  /\ d.seq < ss.expected \/ waiting \/ d \in refused
            /\ d.seq < ss.expected => \E e \in handled :
                   /\ e.seq = d.seq
                   /\ dispatched[d.sym][d.seq + 1] = e
            /\ d.seq > ss.expected =>
                   \E g \in gaps : g.sym = d.sym /\ g.received = d.seq
            /\ ss.expected \notin DOMAIN ss.pending
            /\ Cardinality(DOMAIN ss.pending) <= reorder_window

(* stop() returns however long datagrams keep coming: the loop looks at    *)
(* running_ before each one.                                               *)
UdpStopReturns == sub.stopping ~> ~sub.stopping

(* udp_feed.hpp:8: "Each frame carries a per-symbol sequence number for    *)
(* gap detection."  Then a gap is reported only when a datagram of that    *)
(* symbol, with a number in between, has not come.                         *)
GapsAreLosses ==
    \A g \in gaps : \E d \in numbered :
        d.sym = g.sym /\ d.seq \in g.expected..(g.received - 1)
=============================================================================
