------------------------------ MODULE MCExchange ------------------------------
(* Exchange for TLC: what the runs give its constants. *)
EXTENDS Exchange

\* A reused node may read as all zeroes.
ZeroedNode == {NoOrder}
=============================================================================
