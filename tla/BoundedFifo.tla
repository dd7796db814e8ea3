----------------------------- MODULE BoundedFifo -----------------------------
(***************************************************************************)
(* What a queue between threads promises: values come out in the order in  *)
(* which they went in, each once, and no more than Room wait at a time.    *)
(***************************************************************************)
EXTENDS Naturals, Sequences

CONSTANTS Value,    \* what is queued
          Room      \* how many values may wait

VARIABLES queue,    \* the values that wait
          taken     \* the value that came out last

vars == <<queue, taken>>

Init == queue = << >>

Put(v) ==
    /\ Len(queue) < Room
    /\ queue' = Append(queue, v)
    /\ UNCHANGED taken

Take ==
    /\ queue # << >>
    /\ taken' = Head(queue)
    /\ queue' = Tail(queue)

Next == Take \/ \E v \in Value : Put(v)

Safety == Init /\ [][Next]_vars

\* What waits is taken.
Liveness == WF_vars(Take)

Spec == Safety /\ Liveness
=============================================================================
