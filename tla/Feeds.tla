-------------------------------- MODULE Feeds -------------------------------
(***************************************************************************)
(* The two market data feeds of networking/.  They share the wire format   *)
(* (FrameParser) and no state, so a behaviour starts one of them: the      *)
(* product of the two would show nothing that the two alone do not.        *)
(***************************************************************************)
EXTENDS UdpFeed, TcpFeed

vars == <<udpVars, tcpVars>>

Init == UdpInit /\ TcpInit

Next ==
    \/ TcpInit /\ UdpNext /\ UNCHANGED tcpVars
    \/ UdpInit /\ TcpNext /\ UNCHANGED udpVars

Spec == Init /\ [][Next]_vars /\ UdpFairness /\ TcpFairness

(* The variables of both feeds keep their types.                           *)
TypeOK == UdpTypeOK /\ TcpTypeOK
=============================================================================
