------------------------------- MODULE Queues -------------------------------
(***************************************************************************)
(* The queues between threads: the ring of one producer and one consumer,  *)
(* the ring of a TCP client's sends, and the list that the workers of a    *)
(* pool are fed from.  They share no state, so a behaviour exercises one   *)
(* of them.                                                                *)
(***************************************************************************)
EXTENDS SpscQueue, SendRing, ThreadPool

queuesVars == <<ringVars, sendVars, vars>>

QueuesInit == RingInit /\ SendInit /\ Init

QueuesNext ==
    \/ SendInit /\ Init /\ RingNext /\ UNCHANGED <<sendVars, vars>>
    \/ RingInit /\ Init /\ SendNext /\ UNCHANGED <<ringVars, vars>>
    \/ RingInit /\ SendInit /\ Next /\ UNCHANGED <<ringVars, sendVars>>

(* What each part says of its threads.  Workers are ready from the start,  *)
(* so they go on where it is the pool that is exercised.  Of the send ring *)
(* only safety is stated.                                                  *)
QueuesFairness ==
    /\ RingFairness
    /\ \A p \in Producer : WF_vars(SubmitGoesOn(p))
    /\ \A c \in Consumer : WF_vars(RingInit /\ SendInit /\ Work(c))
    /\ WF_vars(JoinAll)

QueuesSpec == QueuesInit /\ [][QueuesNext]_queuesVars /\ QueuesFairness
=============================================================================
