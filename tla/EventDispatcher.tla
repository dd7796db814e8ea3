-------------------------- MODULE EventDispatcher ---------------------------
(***************************************************************************)
(* EventBus and EventDispatcher (event_driven_core/event_bus.cpp and       *)
(* event_dispatcher.cpp): events go through one MPSCQueue to the handlers  *)
(* of their type, on the thread that calls process() or on the             *)
(* dispatcher's own.  The value of a node is the type of its event.        *)
(*                                                                         *)
(* The thread Main controls the dispatcher.  It keeps the contract of the  *)
(* queue: it calls process() and clear() only while the dispatcher's own   *)
(* thread, Async, does not exist.  Handlers publish, but neither subscribe *)
(* nor process: they run with subscribers_mutex_ held.                     *)
(***************************************************************************)
EXTENDS MpscQueue

CONSTANTS Main, Async, Nobody,
          MaxHandlers     \* bound: subscriptions per type

ASSUME DispatcherAssumption ==
    /\ Consumer = {Main, Async} /\ Main # Async
    /\ Consumer \subseteq Producer
    /\ Nobody \notin Producer
    /\ MaxHandlers \in Nat

VARIABLES async,        \* async_processing_
          proc,         \* where each consumer stands, why it drains the queue,
                        \* and the handlers it has left to call
          mutex,        \* who holds subscribers_mutex_
          handlers,     \* how many handlers each type has
          called,       \* how many handlers each event went to
          due           \* the last event that could be reached when a drain began

busVars == <<async, proc, mutex, handlers, called, due>>
vars == <<queueVars, busVars>>

Init ==
    /\ QueueInit
    /\ async    = FALSE
    /\ proc     = [c \in Consumer |-> [pc   |-> IF c = Main THEN "idle" ELSE "none",
                                       mode |-> "process", left |-> 0]]
    /\ mutex    = Nobody
    /\ handlers = [t \in Value |-> 0]
    /\ called   = [n \in Node |-> 0]
    /\ due      = 0

-----------------------------------------------------------------------------
(* subscribe and publish *)

Subscribe(p, t) ==
    /\ p \in Consumer => proc[p].pc = "idle"
    /\ mutex = Nobody
    /\ handlers[t] < MaxHandlers
    /\ handlers' = [handlers EXCEPT ![t] = @ + 1]
    /\ UNCHANGED <<queueVars, async, proc, mutex, called, due>>

Publish(p, t) ==
    /\ p \in Consumer => proc[p].pc \in {"idle", "handler"}
    /\ Exchange(p, t)
    /\ UNCHANGED busVars

PublishLink(p) == Link(p) /\ UNCHANGED busVars

-----------------------------------------------------------------------------
(* process_events *)

\* Nothing up to event n waits for its link.
Reachable(n) == \A i \in 1..n : next[i - 1] = i
LastReachable == CHOOSE n \in 0..head : Reachable(n) /\ (n < head => ~Reachable(n + 1))

Controls == proc[Main].pc = "idle" /\ writer[Main].pc = "idle"

\* process() and clear(), on Main.
Process(mode) ==
    /\ Controls
    /\ proc[Async].pc = "none"
    /\ proc' = [proc EXCEPT ![Main] = [pc |-> "dequeue", mode |-> mode, left |-> 0]]
    /\ due' = LastReachable
    /\ UNCHANGED <<queueVars, async, mutex, handlers, called>>

Dequeue(c) ==
    /\ proc[c].pc = "dequeue"
    /\ ReadTail(c) \/ ReadNext(c) \/ ReadValue(c) \/ MoveTail(c)
    /\ UNCHANGED busVars

\* clear drops the event, the others look up its handlers.
Dequeued(c) ==
    /\ proc[c].pc = "dequeue"
    /\ FreeTail(c)
    /\ proc' = [proc EXCEPT ![c].pc = IF proc[c].mode = "clear" THEN "dequeue" ELSE "lock"]
    /\ UNCHANGED <<async, mutex, handlers, called, due>>

DequeuedNothingEnds(c) ==
    /\ proc[c].pc = "dequeue"
    /\ ReadNextEmpty(c)
    /\ proc' = [proc EXCEPT ![c].pc = IF c = Async THEN "ended" ELSE "idle"]
    /\ UNCHANGED <<async, mutex, handlers, called, due>>

\* The queue counts as empty: the call returns, or the loop sleeps.
DequeuedNothing(c) ==
    /\ proc[c].pc = "dequeue"
    /\ ReadNextEmpty(c)
    /\ proc' = [proc EXCEPT ![c].pc = CASE proc[c].mode = "loop"  -> "check"
                                        [] proc[c].mode = "final" -> "ended"
                                        [] OTHER                  -> "idle"]
    /\ UNCHANGED <<async, mutex, handlers, called, due>>

LockUnguarded(c) ==
    /\ proc[c].pc = "lock"
    /\ proc' = [proc EXCEPT ![c].pc = "dispatch", ![c].left = handlers[reader[c].item]]
    /\ UNCHANGED <<queueVars, async, mutex, handlers, called, due>>

Lock(c) ==
    /\ proc[c].pc = "lock"
    /\ mutex = Nobody
    /\ mutex' = c
    /\ proc' = [proc EXCEPT ![c].pc = "dispatch", ![c].left = handlers[reader[c].item]]
    /\ UNCHANGED <<queueVars, async, handlers, called, due>>

CallHandler(c) ==
    /\ proc[c].pc = "dispatch"
    /\ proc[c].left > 0
    /\ proc' = [proc EXCEPT ![c].pc = "handler", ![c].left = @ - 1]
    /\ called' = [called EXCEPT ![reader[c].next] = @ + 1]
    /\ UNCHANGED <<queueVars, async, mutex, handlers, due>>

HandlerReturns(c) ==
    /\ proc[c].pc = "handler"
    /\ writer[c].pc = "idle"
    /\ proc' = [proc EXCEPT ![c].pc = "dispatch"]
    /\ UNCHANGED <<queueVars, async, mutex, handlers, called, due>>

Unlock(c) ==
    /\ proc[c].pc = "dispatch"
    /\ proc[c].left = 0
    /\ mutex' = Nobody
    /\ proc' = [proc EXCEPT ![c].pc = "dequeue"]
    /\ UNCHANGED <<queueVars, async, handlers, called, due>>

-----------------------------------------------------------------------------
(* The dispatcher's thread *)

\* Starting it again has no effect.
StartAsync ==
    /\ Controls
    /\ ~async
    /\ async' = TRUE
    /\ proc' = [proc EXCEPT ![Async].pc = "check"]
    /\ UNCHANGED <<queueVars, mutex, handlers, called, due>>

CheckAsyncNoDrain ==
    /\ proc[Async].pc = "check"
    /\ proc' = [proc EXCEPT ![Async].pc   = IF async THEN "dequeue" ELSE "ended",
                            ![Async].mode = IF async THEN "loop" ELSE "final"]
    /\ UNCHANGED <<queueVars, async, mutex, handlers, called, due>>

\* When it is stopped it drains the queue once more.
CheckAsync ==
    /\ proc[Async].pc = "check"
    /\ proc' = [proc EXCEPT ![Async].pc   = "dequeue",
                            ![Async].mode = IF async THEN "loop" ELSE "final"]
    /\ UNCHANGED <<queueVars, async, mutex, handlers, called, due>>

StopAsync ==
    /\ Controls
    /\ proc[Async].pc # "none"
    /\ async' = FALSE
    /\ proc' = [proc EXCEPT ![Main].pc = "join"]
    /\ due' = LastReachable
    /\ UNCHANGED <<queueVars, mutex, handlers, called>>

StopAsyncReturns ==
    /\ proc[Main].pc = "join"
    /\ proc[Async].pc = "ended"
    /\ proc' = [proc EXCEPT ![Main].pc = "idle", ![Async].pc = "none"]
    /\ UNCHANGED <<queueVars, async, mutex, handlers, called, due>>

-----------------------------------------------------------------------------

Runs(c) ==
    \/ Dequeue(c) \/ Dequeued(c) \/ DequeuedNothing(c)
    \/ Lock(c) \/ CallHandler(c) \/ HandlerReturns(c) \/ Unlock(c)

AsyncRuns == CheckAsync \/ Runs(Async)

Next ==
    \/ \E p \in Producer, t \in Value : Subscribe(p, t) \/ Publish(p, t)
    \/ \E p \in Producer : PublishLink(p)
    \/ \E mode \in {"process", "clear"} : Process(mode)
    \/ \E c \in Consumer : Runs(c)
    \/ StartAsync \/ CheckAsync \/ StopAsync \/ StopAsyncReturns

\* A thread in the middle of a publish, and the dispatcher's thread, go on, and
\* handlers return.
Fairness ==
    /\ \A p \in Producer : WF_vars(PublishLink(p))
    /\ WF_vars(AsyncRuns)
    /\ WF_vars(Runs(Main))

Spec == Init /\ [][Next]_vars /\ Fairness

-----------------------------------------------------------------------------

\* An event that is done with went to each handler that its type had when it was
\* taken up, once; while it goes round, the handlers called and the ones left are
\* all that its type has: nobody subscribes meanwhile.
InHand(c) == proc[c].pc \in {"dispatch", "handler"}
EachHandlerOnce ==
    \A c \in Consumer : InHand(c) =>
        called[reader[c].next] + proc[c].left = handlers[reader[c].item]

\* When process, clear or stop returns, every event that could be reached when it
\* was called is done with.  An event behind one whose publish has yet to link it
\* is left, even if its own publish had returned.
Drained ==
    [][proc[Main].pc # "idle" /\ proc'[Main].pc = "idle" => tail >= due]_vars

\* With the dispatcher's thread running, what is published is taken off the queue.
EventsHandled ==
    \A n \in Node : (n <= head /\ async) ~> (n <= tail \/ ~async)
=============================================================================
