----------------------------- MODULE FrameParser ----------------------------
(***************************************************************************)
(* The wire format of networking/binary_protocol.cpp: encode and the       *)
(* streaming BinaryParser.                                                 *)
(*                                                                         *)
(* A stream is a sequence of cells: the magic, the header (type and        *)
(* length), the payload and the CRC of a frame.  A stream may be cut at a  *)
(* cell.  The magic is the same for every frame, and two frames of one     *)
(* kind have the same header.  The CRC is ideal: it matches the bytes it   *)
(* was computed over and no others.                                        *)
(***************************************************************************)
EXTENDS Naturals, Sequences, SequencesExt

Part == <<"magic", "head", "body", "crc">>

Cell(Frame) == [part : {Part[i] : i \in 1..4}, of : Frame]

encode(frame) == [i \in 1..4 |-> [part |-> Part[i], of |-> frame]]

(* A parser: its state, buf_, payload_len_ in cells, and the messages it   *)
(* has handed to its callback with ok set.                                 *)
NewParser == [state |-> "SeekMagic", buf |-> <<>>, len |-> 0, out |-> <<>>]

reset(p) == [state |-> "SeekMagic", buf |-> <<>>, len |-> 0, out |-> p.out]

\* Mutant: the frame is taken by its length alone.
CrcMatchesByLength(buf, len) == len = 1

(* dispatch_frame compares the CRC of the wire with the one over [magic    *)
(* .. payload].                                                            *)
CrcMatches(buf, len) ==
    /\ len = 1
    /\ buf[2].part = "head" /\ buf[3].part = "body" /\ buf[4].part = "crc"
    /\ buf[2].of.kind = buf[3].of.kind
    /\ buf[3].of = buf[4].of

(* What the bytes of buf_ decode to: the kind of the header over whatever  *)
(* stands where the payload belongs, 0 when that is no payload.            *)
Decoded(buf) ==
    [no   |-> IF buf[3].part = "body" THEN buf[3].of.no ELSE 0,
     kind |-> buf[2].of.kind]

(* A frame with a bad CRC is dropped with all its bytes, whatever other    *)
(* frames they hold.                                                       *)
dispatch_frame(p) ==
    IF CrcMatches(p.buf, p.len)
      THEN reset([p EXCEPT !.out = Append(@, Decoded(p.buf))])
      ELSE reset(p)

\* Mutant: the payload is read one cell too far.
process_byteTooFar(p, cell, garbage) ==
    LET buf == Append(p.buf, cell)
        Now(state, len) == [state |-> state, buf |-> buf, len |-> len, out |-> p.out]
    IN  CASE p.state = "SeekMagic" ->
               IF cell.part = "magic" THEN Now("ReadHeader", p.len) ELSE p
          [] p.state = "ReadHeader" -> Now("ReadPayload", 1)
          [] p.state = "ReadPayload" ->
               Now(IF Len(buf) <= 2 + p.len THEN "ReadPayload" ELSE "ReadTrailer", p.len)
          [] p.state = "ReadTrailer" -> dispatch_frame(Now("ReadTrailer", p.len))

(* process_byte for one cell.  What is not a header, read as one, gives a  *)
(* payload of some other length, "garbage".                                *)
process_byte(p, cell, garbage) ==
    LET buf == Append(p.buf, cell)
        len == IF cell.part = "head" THEN 1 ELSE garbage
        Now(state, n) == [state |-> state, buf |-> buf, len |-> n, out |-> p.out]
    IN  CASE p.state = "SeekMagic" ->
               IF cell.part = "magic" THEN Now("ReadHeader", p.len) ELSE p
          [] p.state = "ReadHeader" ->
               Now(IF len > 0 THEN "ReadPayload" ELSE "ReadTrailer", len)
          [] p.state = "ReadPayload" ->
               Now(IF Len(buf) < 2 + p.len THEN "ReadPayload" ELSE "ReadTrailer", p.len)
          [] p.state = "ReadTrailer" -> dispatch_frame(Now("ReadTrailer", p.len))

push(p, cells, garbage) ==
    FoldLeft(LAMBDA q, cell : process_byte(q, cell, garbage), p, cells)
=============================================================================
