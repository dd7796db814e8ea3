----------------------------- MODULE ThreadPool ------------------------------
(***************************************************************************)
(* ThreadPool (event_driven_core/thread_pool.cpp): workers that run tasks  *)
(* from one MPSCQueue.  Tasks are named by the nodes that carry them; what *)
(* a task does is not modelled.  Tasks may themselves submit: to the queue *)
(* that is one producer more.                                              *)
(***************************************************************************)
EXTENDS MpscQueue, FiniteSets

VARIABLES running,     \* running_
          client,      \* where each producer's submit stands
          worker,      \* where each consumer's worker_thread stands
          owner,       \* where shutdown stands
          runs         \* how often each task ran

poolVars == <<running, client, worker, owner, runs>>
vars == <<queueVars, poolVars>>

Init ==
    /\ QueueInit
    /\ running = TRUE
    /\ client  = [p \in Producer |-> "idle"]
    /\ worker  = [c \in Consumer |-> "loop"]
    /\ owner   = "up"
    /\ runs    = [n \in Node |-> 0]

-----------------------------------------------------------------------------
(* submit *)

\* The bound: each submit that goes on to enqueue finds a node.
NodeLeft ==
    head + Cardinality({p \in Producer : client[p] = "enqueue" /\ writer[p].pc = "idle"})
        < MaxNodes

\* A pool that does not run throws.
Submit(p) ==
    /\ client[p] = "idle"
    /\ running => NodeLeft
    /\ client' = [client EXCEPT ![p] = IF running THEN "enqueue" ELSE "idle"]
    /\ UNCHANGED <<queueVars, running, worker, owner, runs>>

SubmitExchange(p, v) ==
    /\ client[p] = "enqueue"
    /\ Exchange(p, v)
    /\ UNCHANGED poolVars

SubmitLink(p) ==
    /\ client[p] = "enqueue"
    /\ Link(p)
    /\ client' = [client EXCEPT ![p] = "idle"]
    /\ UNCHANGED <<running, worker, owner, runs>>

-----------------------------------------------------------------------------
(* worker_thread *)

CheckRunning(c) ==
    /\ worker[c] = "loop"
    /\ worker' = [worker EXCEPT ![c] = IF running THEN "dequeue" ELSE "exited"]
    /\ UNCHANGED <<queueVars, running, client, owner, runs>>

Dequeue(c) ==
    /\ worker[c] = "dequeue"
    /\ ReadTail(c) \/ ReadNext(c) \/ ReadValue(c) \/ MoveTail(c)
    /\ UNCHANGED poolVars

SleepEmptyExits(c) ==
    /\ worker[c] = "dequeue"
    /\ ReadNextEmpty(c)
    /\ worker' = [worker EXCEPT ![c] = "exited"]
    /\ UNCHANGED <<running, client, owner, runs>>

\* Nothing to do: sleep, and look again.
SleepEmpty(c) ==
    /\ worker[c] = "dequeue"
    /\ ReadNextEmpty(c)
    /\ worker' = [worker EXCEPT ![c] = "loop"]
    /\ UNCHANGED <<running, client, owner, runs>>

Dequeued(c) ==
    /\ worker[c] = "dequeue"
    /\ FreeTail(c)
    /\ worker' = [worker EXCEPT ![c] = "run"]
    /\ UNCHANGED <<running, client, owner, runs>>

RunTask(c) ==
    /\ worker[c] = "run"
    /\ worker' = [worker EXCEPT ![c] = "loop"]
    /\ runs' = [runs EXCEPT ![reader[c].next] = @ + 1]
    /\ UNCHANGED <<queueVars, running, client, owner>>

-----------------------------------------------------------------------------
(* shutdown *)

\* shutdown_requested_ is set as well; nothing reads it.
Shutdown ==
    /\ owner = "up"
    /\ owner' = "joining"
    /\ running' = FALSE
    /\ UNCHANGED <<queueVars, client, worker, runs>>

JoinNone ==
    /\ owner = "joining"
    /\ owner' = "down"
    /\ UNCHANGED <<queueVars, running, client, worker, runs>>

\* shutdown returns when every worker has ended.
JoinAll ==
    /\ owner = "joining"
    /\ \A c \in Consumer : worker[c] = "exited"
    /\ owner' = "down"
    /\ UNCHANGED <<queueVars, running, client, worker, runs>>

-----------------------------------------------------------------------------

SubmitGoesOn(p) == SubmitLink(p) \/ \E v \in Value : SubmitExchange(p, v)

Work(c) ==
    \/ CheckRunning(c) \/ Dequeue(c) \/ SleepEmpty(c) \/ Dequeued(c)
    \/ RunTask(c)

Next ==
    \/ \E p \in Producer : Submit(p) \/ SubmitGoesOn(p)
    \/ \E c \in Consumer : Work(c)
    \/ Shutdown \/ JoinAll

\* Threads are scheduled, and tasks return.  Nobody has to submit or to shut down.
Fairness ==
    /\ \A p \in Producer : WF_vars(SubmitGoesOn(p))
    /\ \A c \in Consumer : WF_vars(Work(c))
    /\ WF_vars(JoinAll)

Spec == Init /\ [][Next]_vars /\ Fairness

-----------------------------------------------------------------------------

\* Types of the queue's and the pool's members; a task that ran was submitted.
TypeOK ==
    /\ QueueTypeOK
    /\ running \in BOOLEAN
    /\ client \in [Producer -> {"idle", "enqueue"}]
    /\ worker \in [Consumer -> {"loop", "dequeue", "run", "exited"}]
    /\ owner \in {"up", "joining", "down"}
    /\ runs \in [Node -> Nat]

\* No task runs twice: 100 submissions count to 100.
EachTaskOnce == \A n \in Node : runs[n] <= 1

\* Once shutdown has returned, no task runs: what the tasks refer to may go.
QuietAfterShutdown == [][owner = "down" => UNCHANGED runs]_vars

\* A task whose submit has returned runs, unless the pool is shut down, and
\* shutdown returns whatever waits: workers look again, and stop looking.
Submitted(n) == n <= head /\ \A p \in Producer : writer[p].pc = "link" => writer[p].node # n
WorkersGoOn ==
    /\ \A n \in Node \ {0} : Submitted(n) ~> (runs[n] > 0 \/ ~running)
    /\ owner = "joining" ~> owner = "down"
=============================================================================
