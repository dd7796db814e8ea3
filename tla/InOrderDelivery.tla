--------------------------- MODULE InOrderDelivery --------------------------
(***************************************************************************)
(* What a feed promises to the callbacks of a subscriber, whatever the     *)
(* network does: of each symbol it delivers messages that were sent, one   *)
(* for each sequence number, in the order of the numbers, with no hole and *)
(* no repetition.  It does not promise that a message arrives.             *)
(***************************************************************************)
EXTENDS Naturals, Sequences

CONSTANT Symbol

VARIABLES sent,        \* the messages that were numbered
          delivered    \* what each symbol's callback got

Init ==
    /\ sent = {}
    /\ delivered = [s \in Symbol |-> <<>>]

Send == sent \subseteq sent' /\ UNCHANGED delivered

(* The new messages of symbol s carry the next numbers.                    *)
Deliver(s) ==
    LET old == delivered[s]
        new == delivered'[s]
    IN  /\ Len(new) > Len(old)
        /\ SubSeq(new, 1, Len(old)) = old
        /\ \A i \in (Len(old) + 1)..Len(new) :
               new[i] \in sent /\ new[i].sym = s /\ new[i].seq = i - 1
        /\ \A t \in Symbol \ {s} : delivered'[t] = delivered[t]
        /\ UNCHANGED sent

Next == Send \/ \E s \in Symbol : Deliver(s)

Spec == Init /\ [][Next]_<<sent, delivered>>
=============================================================================
