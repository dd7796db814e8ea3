----------------------------- MODULE FeedProofs -----------------------------
(***************************************************************************)
(* Theorems about the feeds, for any symbols, window, capacities and       *)
(* number of restarts.                                                     *)
(*                                                                         *)
(* UDP: the datagrams of a symbol that were passed on are those with the   *)
(* numbers below the expected one (HadTheirTurn), and what waits is above  *)
(* it (WaitsInPlace).  TCP: what a client gets is told by the order of the *)
(* cells in its ring and in the kernel.  Frames come in order, nothing of  *)
(* a frame follows its CRC, and what was passed on comes before all that   *)
(* is still on its way (Past), so that a CRC that matches ends a frame     *)
(* which was not passed on yet.  While the server drops nothing of a       *)
(* connection, its ring, the kernel and the parser hold the cells of the   *)
(* published frames one after the other (Brought), so the parser keeps     *)
(* step with them and what comes out is the whole of the rest.             *)
(***************************************************************************)
EXTENDS Feeds, Induction, SequenceTheorems

-----------------------------------------------------------------------------
(* The parser *)

\* What is in the buffer in each state.
Framed(p) ==
    /\ p.state = "SeekMagic" => p.buf = <<>>
    /\ p.state = "ReadHeader" => Len(p.buf) = 1
    /\ p.state = "ReadPayload" => Len(p.buf) >= 2 /\ Len(p.buf) < 2 + p.len
    /\ p.state = "ReadTrailer" => Len(p.buf) = 2 + p.len

\* What they may hand out.
Outs(C) == Seq({Decoded(b) : b \in Seq(C)})

\* Parsers over cells C.
ParserOf(C) ==
    {p \in [state : {"SeekMagic", "ReadHeader", "ReadPayload", "ReadTrailer"},
            buf : Seq(C), len : Nat, out : Outs(C)] : Framed(p)}

\* A new parser is one.
LEMMA NewParserIs == ASSUME NEW C PROVE NewParser \in ParserOf(C)
BY EmptySeq DEF NewParser, ParserOf, Framed, Outs

\* The end of a frame empties the buffer, and hands out what it holds if the CRC
\* matches.
LEMMA DispatchStays ==
    ASSUME NEW C, NEW s, NEW b \in Seq(C), NEW n \in Nat,
           NEW o \in Outs(C),
           NEW p, p = [state |-> s, buf |-> b, len |-> n, out |-> o]
    PROVE  /\ dispatch_frame(p) \in ParserOf(C)
           /\ dispatch_frame(p).buf = <<>>
           /\ dispatch_frame(p).state = "SeekMagic"
           /\ dispatch_frame(p).out = IF CrcMatches(b, n) THEN Append(o, Decoded(b)) ELSE o
<1> DEFINE Empty(out) == [state |-> "SeekMagic", buf |-> <<>>, len |-> 0, out |-> out]
<1>1. \A out \in Outs(C) : Empty(out) \in ParserOf(C)
  BY EmptySeq DEF ParserOf, Framed
<1>2. Append(o, Decoded(b)) \in Outs(C)
  BY AppendProperties DEF Outs
<1>3. p.buf = b /\ p.len = n /\ p.out = o
      /\ [p EXCEPT !.out = Append(@, Decoded(b))].out = Append(o, Decoded(b))
  OBVIOUS
<1>4. dispatch_frame(p) = IF CrcMatches(b, n) THEN Empty(Append(o, Decoded(b))) ELSE Empty(o)
  BY <1>3 DEF dispatch_frame, reset
<1>5. \A out : Empty(out).buf = <<>> /\ Empty(out).state = "SeekMagic" /\ Empty(out).out = out
  OBVIOUS
<1> HIDE DEF Empty
<1> QED
  BY <1>1, <1>2, <1>4, <1>5

\* A parser put together from its parts.
LEMMA MadeOf ==
    ASSUME NEW C, NEW s \in {"SeekMagic", "ReadHeader", "ReadPayload", "ReadTrailer"},
           NEW b \in Seq(C), NEW n \in Nat, NEW o \in Outs(C),
           s = "SeekMagic" => b = <<>>, s = "ReadHeader" => Len(b) = 1,
           s = "ReadPayload" => Len(b) >= 2 /\ Len(b) < 2 + n,
           s = "ReadTrailer" => Len(b) = 2 + n,
           NEW p, p = [state |-> s, buf |-> b, len |-> n, out |-> o]
    PROVE  p \in ParserOf(C) /\ p.buf = b /\ p.out = o
<1>1. p.state = s /\ p.buf = b /\ p.len = n /\ p.out = o
  OBVIOUS
<1>2. Framed(p)
  BY <1>1 DEF Framed
<1> QED
  BY <1>1, <1>2 DEF ParserOf

\* The shape of one step: outside ReadTrailer nothing is handed out and the cell is
\* kept, or skipped before a magic; in ReadTrailer the buffer is emptied, and what
\* it decodes to with the last cell is handed out if the CRC matches.
LEMMA ByteStep ==
    ASSUME NEW C, NEW p \in ParserOf(C), NEW cell \in C, NEW garbage \in Nat,
           NEW q, q = process_byte(p, cell, garbage)
    PROVE  /\ q \in ParserOf(C)
           /\ \/ q = p
              \/ /\ q.buf = Append(p.buf, cell)
                 /\ q.out = p.out
              \/ /\ q.buf = <<>>
                 /\ q.out = p.out
              \/ /\ Len(p.buf) = 3
                 /\ CrcMatches(Append(p.buf, cell), 1)
                 /\ q.buf = <<>>
                 /\ q.out = Append(p.out, Decoded(Append(p.buf, cell)))
<1> DEFINE buf == Append(p.buf, cell)
           n1 == IF cell.part = "head" THEN 1 ELSE garbage
           Now(state, n) == [state |-> state, buf |-> buf, len |-> n, out |-> p.out]
           Kept(r) == r \in ParserOf(C) /\ r.buf = buf /\ r.out = p.out
<1>1. /\ p.state \in {"SeekMagic", "ReadHeader", "ReadPayload", "ReadTrailer"}
      /\ p.buf \in Seq(C) /\ p.len \in Nat /\ p.out \in Outs(C)
  BY DEF ParserOf
<1>11. /\ p.state = "SeekMagic" => Len(p.buf) = 0
       /\ p.state = "ReadHeader" => Len(p.buf) = 1
       /\ p.state = "ReadPayload" => Len(p.buf) >= 2 /\ Len(p.buf) < 2 + p.len
       /\ p.state = "ReadTrailer" => Len(p.buf) = 2 + p.len
  BY EmptySeq DEF ParserOf, Framed
<1>2. buf \in Seq(C) /\ Len(buf) = Len(p.buf) + 1 /\ Len(p.buf) \in Nat /\ n1 \in Nat
  BY <1>1, AppendProperties
<1> HIDE DEF buf, n1
<1>3. p.state = "SeekMagic" => Len(buf) = 1
  BY <1>1, <1>2, <1>11
<1>4. ASSUME p.state = "ReadHeader" PROVE Len(buf) = 2
  <2>1. Len(p.buf) = 1
    BY <1>4, <1>11
  <2>2. \A k, l \in Nat : k = 1 /\ l = k + 1 => l = 2
    OBVIOUS
  <2>3. Len(buf) \in Nat /\ Len(buf) = Len(p.buf) + 1 /\ Len(p.buf) \in Nat
    BY <1>2
  <2> QED
    BY <2>1, <2>2, <2>3
<1>5. p.state = "ReadPayload" => Len(buf) >= 2 /\ Len(buf) <= 2 + p.len
  BY <1>1, <1>2, <1>11
<1>6. p.state = "ReadTrailer" => Len(buf) = 3 + p.len
  BY <1>1, <1>2, <1>11
<1>7. CASE p.state = "SeekMagic"
  <2>1. q = IF cell.part = "magic" THEN Now("ReadHeader", p.len) ELSE p
    BY <1>7 DEF process_byte, buf
  <2>2. Kept(Now("ReadHeader", p.len))
    <3> DEFINE r == Now("ReadHeader", p.len)
    <3>1. r = [state |-> "ReadHeader", buf |-> buf, len |-> p.len, out |-> p.out]
      OBVIOUS
    <3> HIDE DEF r
    <3>3. Len(buf) = 1
      BY <1>3, <1>7
    <3>2. Kept(r)
      BY <1>1, <1>2, <3>1, <3>3, MadeOf
    <3> QED
      BY <3>2 DEF r
  <2> HIDE DEF Now
  <2> QED
    BY <2>1, <2>2 DEF buf
<1>8. CASE p.state = "ReadHeader"
  <2>1. q = IF n1 > 0 THEN Now("ReadPayload", n1) ELSE Now("ReadTrailer", n1)
    BY <1>8 DEF process_byte, buf, n1
  <2>2. n1 > 0 => Kept(Now("ReadPayload", n1))
    <3> DEFINE r == Now("ReadPayload", n1)
    <3>1. r = [state |-> "ReadPayload", buf |-> buf, len |-> n1, out |-> p.out]
      OBVIOUS
    <3> HIDE DEF r
    <3>2. n1 > 0 => Kept(r)
      BY <1>1, <1>2, <1>4, <1>8, <3>1, MadeOf, SMTT(30)
    <3> QED
      BY <3>2 DEF r
  <2>3. ~(n1 > 0) => Kept(Now("ReadTrailer", n1))
    <3> DEFINE r == Now("ReadTrailer", n1)
    <3>1. r = [state |-> "ReadTrailer", buf |-> buf, len |-> n1, out |-> p.out]
      OBVIOUS
    <3> HIDE DEF r
    <3>2. ~(n1 > 0) => Kept(r)
      BY <1>1, <1>2, <1>4, <1>8, <3>1, MadeOf, SMTT(30)
    <3> QED
      BY <3>2 DEF r
  <2> HIDE DEF Now
  <2> QED
    BY <2>1, <2>2, <2>3 DEF buf
<1>9. CASE p.state = "ReadPayload"
  <2>1. q = IF Len(buf) < 2 + p.len THEN Now("ReadPayload", p.len) ELSE Now("ReadTrailer", p.len)
    BY <1>9 DEF process_byte, buf
  <2>2. Len(buf) < 2 + p.len => Kept(Now("ReadPayload", p.len))
    <3> DEFINE r == Now("ReadPayload", p.len)
    <3>1. r = [state |-> "ReadPayload", buf |-> buf, len |-> p.len, out |-> p.out]
      OBVIOUS
    <3> HIDE DEF r
    <3>2. Len(buf) < 2 + p.len => Kept(r)
      BY <1>1, <1>2, <1>5, <1>9, <3>1, MadeOf, SMTT(30)
    <3> QED
      BY <3>2 DEF r
  <2>3. ~(Len(buf) < 2 + p.len) => Kept(Now("ReadTrailer", p.len))
    <3> DEFINE r == Now("ReadTrailer", p.len)
    <3>1. r = [state |-> "ReadTrailer", buf |-> buf, len |-> p.len, out |-> p.out]
      OBVIOUS
    <3> HIDE DEF r
    <3>2. ~(Len(buf) < 2 + p.len) => Kept(r)
      BY <1>1, <1>2, <1>5, <1>9, <3>1, MadeOf, SMTT(30)
    <3> QED
      BY <3>2 DEF r
  <2> HIDE DEF Now
  <2> QED
    BY <2>1, <2>2, <2>3 DEF buf
<1>10. CASE p.state = "ReadTrailer"
  <2> DEFINE r == Now("ReadTrailer", p.len)
  <2>1. q = dispatch_frame(r)
    BY <1>10 DEF process_byte, buf
  <2>2. CrcMatches(buf, p.len) => p.len = 1 /\ Len(p.buf) = 3
    <3>1. Len(p.buf) = 2 + p.len
      BY <1>10, <1>11
    <3>2. CrcMatches(buf, p.len) => p.len = 1
      BY DEF CrcMatches
    <3> QED
      BY <3>1, <3>2
  <2>7. r = [state |-> "ReadTrailer", buf |-> buf, len |-> p.len, out |-> p.out]
    OBVIOUS
  <2> HIDE DEF r
  <2>3. /\ dispatch_frame(r) \in ParserOf(C)
        /\ dispatch_frame(r).buf = <<>>
        /\ dispatch_frame(r).out = IF CrcMatches(buf, p.len) THEN Append(p.out, Decoded(buf))
                                                            ELSE p.out
    <3>1. buf \in Seq(C) /\ p.len \in Nat /\ p.out \in Outs(C)
      BY <1>1, <1>2
    <3> QED
      BY <2>7, <3>1, DispatchStays
  <2>4. q.buf = <<>> /\ q \in ParserOf(C)
    BY <2>1, <2>3
  <2>5. CASE CrcMatches(buf, p.len)
    BY <2>1, <2>2, <2>3, <2>4, <2>5 DEF buf
  <2>6. CASE ~CrcMatches(buf, p.len)
    BY <2>1, <2>3, <2>4, <2>6
  <2> QED
    BY <2>5, <2>6
<1> QED
  BY <1>1, <1>7, <1>8, <1>9, <1>10

\* A parser reads a stream cell by cell.
Reads(g, p, cells, garbage) ==
    /\ g[0] = p
    /\ \A n \in 1..Len(cells) : g[n] = process_byte(g[n - 1], cells[n], garbage)

ReadsThrough(C, p, cells, garbage) ==
    \E g \in [0..Len(cells) -> ParserOf(C)] :
        Reads(g, p, cells, garbage) /\ push(p, cells, garbage) = g[Len(cells)]

\* What push computes is the last of the parsers on the way.
LEMMA PushReads ==
    ASSUME NEW C, NEW p \in ParserOf(C), NEW cells \in Seq(C), NEW garbage \in Nat
    PROVE  ReadsThrough(C, p, cells, garbage)
<1> DEFINE S == DOMAIN cells
           B == ParserOf(C)
           Body(g) == [s \in SUBSET S |->
                         IF s = {} THEN p
                         ELSE process_byte(g[s \ {Max(s)}], cells[Max(s)], garbage)]
           pick == [s \in (SUBSET S) \ {{}} |-> Max(s)]
           step == [sb \in S \X B |-> process_byte(sb[2], cells[sb[1]], garbage)]
<1>1. push(p, cells, garbage) = (CHOOSE g : g = Body(g))[S]
  BY Zenon DEF push, FoldLeft, MapThenFoldSet
<1>2. Len(cells) \in Nat /\ S = 1..Len(cells)
  BY LenProperties
<1>3. IsFiniteSet(S)
  BY <1>2, FS_Interval, 1 \in Int, Len(cells) \in Int
<1>4. Picks(pick, S)
  <2>1. \A s \in (SUBSET S) \ {{}} : Max(s) \in s
    BY <1>2, MaxOfFinite
  <2> QED
    BY <2>1 DEF Picks
<1>5. \A i \in S, q \in B : process_byte(q, cells[i], garbage) \in B
  <2> TAKE i \in S, q \in B
  <2>1. cells[i] \in C
    BY <1>2, ElementOfSeq
  <2> QED
    BY <2>1, ByteStep
<1>6. step \in [S \X B -> B]
  BY <1>5
<1>7. PICK it : FoldsBy(it, S, B, p, pick, step)
  <2> HIDE DEF S, B, pick, step
  <2> QED
    BY <1>3, <1>4, <1>6, FoldExists DEF B
<1>8. it = Body(it)
  <2> HIDE DEF B, S
  <2>1. \A s \in (SUBSET S) \ {{}} : it[s] = Body(it)[s]
    <3> TAKE s \in (SUBSET S) \ {{}}
    <3>1. it[s] = step[<<pick[s], it[s \ {pick[s]}]>>]
      BY <1>7 DEF FoldsBy
    <3>2. pick[s] = Max(s) /\ Max(s) \in S /\ s \ {Max(s)} \in SUBSET S /\ s \in SUBSET S
      BY <1>4 DEF Picks
    <3>3. it[s \ {Max(s)}] \in B
      BY <1>7, <3>2 DEF FoldsBy
    <3> QED
      BY <3>1, <3>2, <3>3
  <2>2. it[{}] = Body(it)[{}]
    BY <1>7 DEF FoldsBy
  <2>3. it = [s \in SUBSET S |-> it[s]]
    BY <1>7 DEF FoldsBy
  <2> QED
    BY <2>1, <2>2, <2>3
<1> DEFINE f == CHOOSE g : g = Body(g)
<1>9. f = Body(f)
  <2> HIDE DEF Body
  <2> QED
    BY <1>8
<1>10. f[{}] = p /\ it[{}] = p
  BY <1>8, <1>9
<1>11. \A s \in SUBSET S : f[s] = it[s]
  <2>1. AgreeStepwise(f, it, S, pick)
    <3>1. ASSUME NEW s \in (SUBSET S) \ {{}}, f[s \ {pick[s]}] = it[s \ {pick[s]}]
          PROVE  f[s] = it[s]
      <4>1. pick[s] = Max(s) /\ s \in SUBSET S /\ s # {}
        OBVIOUS
      <4>2. f[s] = Body(f)[s] /\ it[s] = Body(it)[s]
        BY <1>8, <1>9
      <4> HIDE DEF f, S, pick
      <4> QED
        BY <3>1, <4>1, <4>2
    <3> HIDE DEF f
    <3> QED
      BY <1>10, <3>1 DEF AgreeStepwise
  <2> HIDE DEF f, pick, S
  <2> QED
    BY <1>3, <1>4, <2>1, FoldUnique
<1>12. \A n \in 1..Len(cells) : it[1..n] = process_byte(it[1..(n - 1)], cells[n], garbage)
  <2> TAKE n \in 1..Len(cells)
  <2>3. 1..n \in SUBSET S => it[1..n] = Body(it)[1..n]
    BY <1>8
  <2> HIDE DEF S
  <2>1. 1..n \in SUBSET S /\ 1..n # {} /\ n \in Nat \ {0}
    <3>1. n \in Nat \ {0} /\ n <= Len(cells)
      BY <1>2
    <3> QED
      BY <1>2, <3>1, SMTT(30)
  <2>2. Max(1..n) = n /\ (1..n) \ {n} = 1..(n - 1)
    BY <2>1, MaxOfInterval
  <2> QED
    BY <2>1, <2>2, <2>3
<1> DEFINE g == [n \in 0..Len(cells) |-> it[1..n]]
<1>13. g \in [0..Len(cells) -> B]
  <2>1. \A n \in 0..Len(cells) : 1..n \in SUBSET S
    BY <1>2
  <2> HIDE DEF B, S
  <2> QED
    BY <1>7, <2>1 DEF FoldsBy
<1>14. Reads(g, p, cells, garbage)
  <2>1. g[0] = p
    <3>1. 1..0 = {} /\ 0 \in 0..Len(cells)
      BY <1>2
    <3> QED
      BY <1>10, <3>1
  <2>2. \A n \in 1..Len(cells) : n \in 0..Len(cells) /\ n - 1 \in 0..Len(cells)
    BY <1>2
  <2>3. \A n \in 1..Len(cells) : g[n] = it[1..n] /\ g[n - 1] = it[1..(n - 1)]
    BY <2>2
  <2> HIDE DEF g
  <2> QED
    BY <1>12, <2>1, <2>3 DEF Reads
<1>15. push(p, cells, garbage) = g[Len(cells)]
  <2>1. S \in SUBSET S /\ f[S] = it[S]
    BY <1>11
  <2>2. g[Len(cells)] = it[S]
    BY <1>2
  <2> QED
    BY <1>1, <2>1, <2>2
<1> HIDE DEF g
<1> QED
  BY <1>13, <1>14, <1>15 DEF ReadsThrough

\* A parser in a given state, with nothing to hand out.
At(state, buf, len) == [state |-> state, buf |-> buf, len |-> len, out |-> <<>>]

\* A function on the numbers from 1 is a sequence.
LEMMA FunctionIsSeq ==
    ASSUME NEW S, NEW n \in Nat, NEW s \in [1..n -> S] PROVE s \in Seq(S) /\ Len(s) = n
OBVIOUS

\* A sequence of four, put together.
LEMMA AppendsToFour ==
    ASSUME NEW a, NEW b, NEW c, NEW e
    PROVE  /\ Append(<<>>, a) = <<a>> /\ Append(<<a>>, b) = <<a, b>>
           /\ Append(<<a, b>>, c) = <<a, b, c>> /\ Append(<<a, b, c>>, e) = <<a, b, c, e>>
<1> DEFINE C == {a, b, c, e}
           s2 == Append(<<a>>, b)
           s3 == Append(<<a, b>>, c)
           s4 == Append(<<a, b, c>>, e)
<1>1. /\ <<a>> \in Seq(C) /\ <<a, b>> \in Seq(C) /\ <<a, b, c>> \in Seq(C)
      /\ <<a, b, c, e>> \in Seq(C) /\ {b, c, e} \subseteq C
      /\ Len(<<a>>) = 1 /\ Len(<<a, b>>) = 2 /\ Len(<<a, b, c>>) = 3 /\ Len(<<a, b, c, e>>) = 4
  OBVIOUS
<1> HIDE DEF C
<1>2. Len(s2) = 2 /\ s2 \in Seq(C) /\ (\A i \in 1..1 : s2[i] = <<a>>[i]) /\ s2[2] = b
  BY <1>1, AppendProperties
<1>3. Len(s3) = 3 /\ s3 \in Seq(C) /\ (\A i \in 1..2 : s3[i] = <<a, b>>[i]) /\ s3[3] = c
  BY <1>1, AppendProperties
<1>4. Len(s4) = 4 /\ s4 \in Seq(C) /\ (\A i \in 1..3 : s4[i] = <<a, b, c>>[i]) /\ s4[4] = e
  BY <1>1, AppendProperties
<1> HIDE DEF s2, s3, s4
<1>5. s2 = <<a, b>>
  <2>1. s2[1] = a /\ s2[2] = b
    BY <1>2
  <2>2. \A i \in 1..2 : s2[i] = <<a, b>>[i]
    BY <2>1
  <2> QED
    BY <1>1, <1>2, <2>2, SeqEqual
<1>6. s3 = <<a, b, c>>
  <2>1. s3[1] = a /\ s3[2] = b /\ s3[3] = c
    BY <1>3
  <2>2. \A i \in 1..3 : s3[i] = <<a, b, c>>[i]
    BY <2>1
  <2> QED
    BY <1>1, <1>3, <2>2, SeqEqual
<1>7. s4 = <<a, b, c, e>>
  <2>1. s4[1] = a /\ s4[2] = b /\ s4[3] = c /\ s4[4] = e
    BY <1>4
  <2>2. \A i \in 1..4 : s4[i] = <<a, b, c, e>>[i]
    BY <2>1
  <2> QED
    BY <1>1, <1>4, <2>2, SeqEqual
<1>8. Append(<<>>, a) = <<a>>
  OBVIOUS
<1> QED
  BY <1>5, <1>6, <1>7, <1>8 DEF s2, s3, s4

\* What one makes of the four cells of a frame, one after another.
LEMMA FourCells ==
    ASSUME NEW a, a.part = "magic", NEW b, b.part = "head",
           NEW c, c.part = "body", NEW e, e.part = "crc",
           b.of.kind = c.of.kind, c.of = e.of,
           NEW p1, p1 = process_byte(NewParser, a, 0), NEW p2, p2 = process_byte(p1, b, 0),
           NEW p3, p3 = process_byte(p2, c, 0), NEW p4, p4 = process_byte(p3, e, 0)
    PROVE  p4.out = <<[no |-> c.of.no, kind |-> b.of.kind]>>
<1>1. /\ Append(<<>>, a) = <<a>> /\ Append(<<a>>, b) = <<a, b>>
      /\ Append(<<a, b>>, c) = <<a, b, c>> /\ Append(<<a, b, c>>, e) = <<a, b, c, e>>
  BY AppendsToFour
<1>5. \A s, x, n : At(s, x, n).state = s /\ At(s, x, n).buf = x /\ At(s, x, n).len = n
                /\ At(s, x, n).out = <<>>
  BY DEF At
<1>6. p1 = At("ReadHeader", <<a>>, 0)
  BY <1>1 DEF process_byte, At, NewParser
<1>7. p2 = At("ReadPayload", <<a, b>>, 1)
  <2>1. p1.state = "ReadHeader" /\ p1.buf = <<a>> /\ p1.out = <<>>
    BY <1>5, <1>6
  <2>2. Append(p1.buf, b) = <<a, b>>
    BY <1>1, <2>1
  <2>3. p2 = [state |-> IF 1 > 0 THEN "ReadPayload" ELSE "ReadTrailer",
              buf |-> <<a, b>>, len |-> 1, out |-> <<>>]
    BY <2>1, <2>2, Zenon DEF process_byte
  <2> QED
    BY <2>3 DEF At
<1>8. p3 = At("ReadTrailer", <<a, b, c>>, 1)
  <2>1. p2.state = "ReadPayload" /\ p2.buf = <<a, b>> /\ p2.len = 1 /\ p2.out = <<>>
    BY <1>5, <1>7
  <2>2. Append(p2.buf, c) = <<a, b, c>>
    BY <1>1, <2>1
  <2>3. p3 = [state |-> IF Len(<<a, b, c>>) < 2 + 1 THEN "ReadPayload" ELSE "ReadTrailer",
              buf |-> <<a, b, c>>, len |-> 1, out |-> <<>>]
    BY <2>1, <2>2, Zenon DEF process_byte
  <2>4. Len(<<a, b, c>>) = 3
    OBVIOUS
  <2> QED
    BY <2>3, <2>4 DEF At
<1> DEFINE q == At("ReadTrailer", <<a, b, c, e>>, 1)
<1>9. p4 = dispatch_frame(q)
  <2>1. p3.state = "ReadTrailer" /\ p3.buf = <<a, b, c>> /\ p3.len = 1 /\ p3.out = <<>>
    BY <1>5, <1>8
  <2>2. Append(p3.buf, e) = <<a, b, c, e>>
    BY <1>1, <2>1
  <2> QED
    BY <2>1, <2>2, Zenon DEF process_byte, At
<1>10. CrcMatches(<<a, b, c, e>>, 1)
  BY DEF CrcMatches
<1>11. Decoded(<<a, b, c, e>>) = [no |-> c.of.no, kind |-> b.of.kind]
  BY DEF Decoded
<1>12. dispatch_frame(q).out = Append(<<>>, Decoded(<<a, b, c, e>>))
  <2> DEFINE t == <<a, b, c, e>>
  <2>1. q.buf = t /\ q.len = 1 /\ q.out = <<>>
    BY DEF At
  <2>2. [q EXCEPT !.out = Append(@, Decoded(q.buf))].out = Append(<<>>, Decoded(t))
    BY DEF At
  <2>3. CrcMatches(t, 1)
    BY <1>10
  <2> HIDE DEF q, t
  <2>4. dispatch_frame(q) = reset([q EXCEPT !.out = Append(@, Decoded(q.buf))])
    BY <2>1, <2>3, Zenon DEF dispatch_frame
  <2>5. dispatch_frame(q).out = Append(<<>>, Decoded(t))
    BY <2>2, <2>4 DEF reset
  <2> QED
    BY <2>5 DEF t
<1> QED
  BY <1>9, <1>11, <1>12

\* A whole frame that a new parser reads comes out as it went in.
LEMMA WholeFrame == ASSUME NEW d, d.frame \in UdpFrame PROVE FramesOf(d) = <<d.frame>>
<1> DEFINE cells == encode(d.frame)
           C == {cells[i] : i \in 1..4}
<1>2. /\ cells[1] = [part |-> "magic", of |-> d.frame]
      /\ cells[2] = [part |-> "head", of |-> d.frame]
      /\ cells[3] = [part |-> "body", of |-> d.frame]
      /\ cells[4] = [part |-> "crc", of |-> d.frame]
  BY DEF encode, Part
<1>1. cells \in Seq(C) /\ Len(cells) = 4
  <2>1. cells = [i \in 1..4 |-> [part |-> Part[i], of |-> d.frame]]
    BY DEF encode
  <2>2. cells \in [1..4 -> C]
    <3> HIDE DEF cells
    <3> QED
      BY <2>1
  <2> HIDE DEF cells, C
  <2>3. PICK n \in Nat : n = 4
    OBVIOUS
  <2>4. cells \in [1..n -> C]
    BY <2>2, <2>3
  <2>5. cells \in Seq(C) /\ Len(cells) = n
    BY <2>4, FunctionIsSeq
  <2> QED
    BY <2>3, <2>5
<1> HIDE DEF cells, C
<1>3. PICK g \in [0..4 -> ParserOf(C)] : Reads(g, NewParser, cells, 0)
                                     /\ push(NewParser, cells, 0) = g[4]
  <2>1. \E g \in [0..Len(cells) -> ParserOf(C)] :
            Reads(g, NewParser, cells, 0) /\ push(NewParser, cells, 0) = g[Len(cells)]
    <3>1. PICK p \in ParserOf(C), garbage \in Nat : p = NewParser /\ garbage = 0
      BY NewParserIs
    <3>2. cells \in Seq(C)
      BY <1>1
    <3>3. ReadsThrough(C, p, cells, garbage)
      BY <3>2, PushReads
    <3> QED
      BY <3>1, <3>3, Zenon DEF ReadsThrough
  <2> QED
    BY <1>1, <2>1, Zenon
<1>4. g[0] = NewParser
  BY <1>3 DEF Reads
<1>5. \A n \in 1..4 : g[n] = process_byte(g[n - 1], cells[n], 0)
  BY <1>1, <1>3 DEF Reads
<1>6. /\ g[1] = process_byte(NewParser, cells[1], 0)
      /\ g[2] = process_byte(g[1], cells[2], 0)
      /\ g[3] = process_byte(g[2], cells[3], 0)
      /\ g[4] = process_byte(g[3], cells[4], 0)
  BY <1>4, <1>5
<1>7. PICK a, b, c, e : a = cells[1] /\ b = cells[2] /\ c = cells[3] /\ e = cells[4]
  OBVIOUS
<1>8. /\ a.part = "magic" /\ b.part = "head" /\ c.part = "body" /\ e.part = "crc"
      /\ b.of = d.frame /\ c.of = d.frame /\ e.of = d.frame
  BY <1>2, <1>7
<1>9. g[4].out = <<[no |-> c.of.no, kind |-> b.of.kind]>>
  BY <1>6, <1>7, <1>8, FourCells
<1>10. [no |-> c.of.no, kind |-> b.of.kind] = d.frame
  BY <1>8 DEF UdpFrame
<1> QED
  BY <1>3, <1>9, <1>10 DEF FramesOf, cells
-----------------------------------------------------------------------------
(* The inductive invariant of the UDP feed *)

\* Reorder windows: datagrams by number.
Window == UNION {[K -> Datagram] : K \in SUBSET (0..MaxPublished)}

\* The publisher's numbers stay below what it published.
NumbersFresh ==
    /\ IsFiniteSet(numbered)
    /\ Cardinality(numbered) <= MaxPublished
    /\ publisher.next_seq <= Cardinality(numbered)
    /\ \A d \in numbered :
           d.frame.no <= Cardinality(numbered) /\ d.seq < Cardinality(numbered)

UdpShape ==
    /\ publisher \in [no : 1..MaxPublishers, sock : BOOLEAN, next_seq : 0..MaxPublished]
    /\ numbered \subseteq Datagram /\ net \subseteq numbered
    /\ handled \subseteq net /\ refused \subseteq handled
    /\ sub \in [running : BOOLEAN, thread : {"none", "check", "recv", "exited"},
                stopping : BOOLEAN]
    /\ seq_map \in [UdpSymbol -> [expected : 0..MaxPublished, pending : Window]]
    /\ dispatched \in [UdpSymbol -> Seq(Datagram)]

\* What waits for its turn: datagrams of the symbol, under their numbers, past the
\* expected one.
WaitsInPlace(s) ==
    LET ss == seq_map[s] IN
    /\ Cardinality(DOMAIN ss.pending) <= reorder_window
    /\ \A q \in DOMAIN ss.pending :
           /\ q > ss.expected
           /\ ss.pending[q] \in handled /\ ss.pending[q].seq = q /\ ss.pending[q].sym = s

\* What had its turn: one datagram for each number below the expected one.
HadTheirTurn(s) ==
    /\ Len(dispatched[s]) = seq_map[s].expected
    /\ \A i \in 1..Len(dispatched[s]) :
           /\ dispatched[s][i] \in handled
           /\ dispatched[s][i].seq = i - 1 /\ dispatched[s][i].sym = s

\* Where a datagram that came is now.
Accounted(d) ==
    /\ \/ d.seq < seq_map[d.sym].expected
       \/ d.seq \in DOMAIN seq_map[d.sym].pending
       \/ d \in refused
    /\ d.seq > seq_map[d.sym].expected =>
           \E g \in gaps : g.sym = d.sym /\ g.received = d.seq

UdpIInv ==
    /\ UdpShape
    /\ NumbersFresh
    /\ \A s \in UdpSymbol : WaitsInPlace(s) /\ HadTheirTurn(s)
    /\ \A d \in handled : Accounted(d)

-----------------------------------------------------------------------------
(* The inductive invariant of the TCP feed *)

\* Cells of a stream, one before the other: frames come in order, and nothing of a
\* frame comes after its CRC.
Follows(x, y) == x.of.no <= y.of.no /\ (x.part = "crc" => x.of.no < y.of.no)

InSequence(s) == \A i, j \in 1..Len(s) : i < j => Follows(s[i], s[j])

\* Cells of frames that were published.
Real(s) ==
    \A i \in 1..Len(s) : s[i].of.no \in 1..Len(published) /\ published[s[i].of.no] = s[i].of

\* The frames got all come before those the cells after the n-th are of.
PastFrom(got, s, n) == \A i \in 1..Len(got), j \in (n + 1)..Len(s) : got[i].no < s[j].of.no

\* All its cells.
Past(got, s) == \A i \in 1..Len(got), j \in 1..Len(s) : got[i].no < s[j].of.no

\* Frames as they were published, each once and in order.
Sound(got) ==
    /\ \A i \in 1..Len(got) :
           got[i].no \in 1..Len(published) /\ published[got[i].no] = got[i]
    /\ \A i, j \in 1..Len(got) : i < j => got[i].no < got[j].no

\* Where the client's thread stands.
Reading == client.pc \in {"read", "burst"}

TcpShape ==
    /\ server \in [running : BOOLEAN, alive : BOOLEAN, starts : 0..MaxServers]
    /\ listening \subseteq 1..MaxServers
    /\ listener \in [Conn -> 0..MaxServers]
    /\ srvEnd \in [Conn -> {"closed", "backlog", "left", "accepted"}]
    /\ cliEnd \in [Conn -> BOOLEAN]
    /\ ring \in [Conn -> Seq(Cell(TcpFrame))] /\ chan \in [Conn -> Seq(Cell(TcpFrame))]
    /\ published \in Seq(TcpFrame) /\ Len(published) <= MaxFrames
    /\ client \in [running : BOOLEAN,
                   pc : {"off", "connect", "wait", "read", "burst", "sleep", "ended"},
                   conn : Conn \cup {NoConn}, attempts : 0..(max_reconnect_attempts + 1),
                   starts : 0..MaxClients]
    /\ parser \in ParserOf(Cell(TcpFrame)) /\ parser.out = <<>>
    /\ received \in Seq(TcpFrame)

\* The thread has a connection while it reads, none before it connects, and tries
\* again only while it may.
ClientPlace ==
    /\ client.pc \notin {"wait", "read", "burst"} => client.conn = NoConn
    /\ Reading => client.conn # NoConn
    /\ client.pc \notin {"off", "ended"} => client.attempts <= max_reconnect_attempts

\* The two halves of a connection.
ConnHolds(c) ==
    /\ Len(ring[c]) <= ring_capacity /\ Len(chan[c]) <= ChanCapacity
    /\ srvEnd[c] # "accepted" => ring[c] = <<>>
    /\ ~cliEnd[c] => chan[c] = <<>>
    /\ cliEnd[c] <=> client.conn = c
    /\ Real(ring[c]) /\ Real(chan[c])
    /\ InSequence(ring[c]) /\ InSequence(chan[c])
    /\ \A i \in 1..Len(chan[c]), j \in 1..Len(ring[c]) : Follows(chan[c][i], ring[c][j])
    /\ client.conn = c => Past(received, chan[c]) /\ Past(received, ring[c])

TcpIInv ==
    /\ TcpShape
    /\ ClientPlace
    /\ \A c \in Conn : ConnHolds(c)
    /\ Sound(received)
    /\ Real(parser.buf) /\ Past(received, parser.buf)
-----------------------------------------------------------------------------
(* What the UDP feed's operators compute *)

\* Every datagram of a run goes to the callback, in the order of the run.
LEMMA DispatchAll ==
    ASSUME NEW base \in Seq(Datagram), NEW run \in Seq(Datagram)
    PROVE  FoldLeft(Dispatch, base, run) = base \o run
<1> DEFINE S == DOMAIN run
           B == Seq(Datagram)
           Body(g) == [s \in SUBSET S |->
                         IF s = {} THEN base ELSE Dispatch(g[s \ {Max(s)}], run[Max(s)])]
           pick == [s \in (SUBSET S) \ {{}} |-> Max(s)]
           step == [sb \in S \X B |-> Dispatch(sb[2], run[sb[1]])]
<1>1. FoldLeft(Dispatch, base, run) = (CHOOSE g : g = Body(g))[S]
  BY Zenon DEF FoldLeft, MapThenFoldSet
<1>2. Len(run) \in Nat /\ S = 1..Len(run)
  BY LenProperties
<1>3. IsFiniteSet(S)
  BY <1>2, FS_Interval, 1 \in Int, Len(run) \in Int
<1>4. Picks(pick, S)
  <2>1. \A s \in (SUBSET S) \ {{}} : Max(s) \in s
    BY <1>2, MaxOfFinite
  <2> QED
    BY <2>1 DEF Picks
<1>5. \A i \in S, q \in B : Dispatch(q, run[i]) = Append(q, run[i]) /\ Append(q, run[i]) \in B
  <2> TAKE i \in S, q \in B
  <2>1. run[i] \in Datagram
    BY <1>2, ElementOfSeq
  <2>2. run[i].frame \in UdpFrame
    BY <2>1 DEF Datagram
  <2> QED
    BY <2>1, <2>2, WholeFrame, AppendProperties DEF Dispatch
<1>6. step \in [S \X B -> B]
  BY <1>5
<1>7. PICK it : FoldsBy(it, S, B, base, pick, step)
  <2> HIDE DEF S, B, pick, step
  <2> QED
    BY <1>3, <1>4, <1>6, FoldExists DEF B
<1>8. it = Body(it)
  <2> HIDE DEF B, S
  <2>1. \A s \in (SUBSET S) \ {{}} : it[s] = Body(it)[s]
    <3> TAKE s \in (SUBSET S) \ {{}}
    <3>1. it[s] = step[<<pick[s], it[s \ {pick[s]}]>>]
      BY <1>7 DEF FoldsBy
    <3>2. pick[s] = Max(s) /\ Max(s) \in S /\ s \ {Max(s)} \in SUBSET S /\ s \in SUBSET S
      BY <1>4 DEF Picks
    <3>3. it[s \ {Max(s)}] \in B
      BY <1>7, <3>2 DEF FoldsBy
    <3> QED
      BY <3>1, <3>2, <3>3
  <2>2. it[{}] = Body(it)[{}]
    BY <1>7 DEF FoldsBy
  <2>3. it = [s \in SUBSET S |-> it[s]]
    BY <1>7 DEF FoldsBy
  <2> QED
    BY <2>1, <2>2, <2>3
<1> DEFINE f == CHOOSE g : g = Body(g)
<1>9. f = Body(f)
  <2> HIDE DEF Body
  <2> QED
    BY <1>8
<1>10. f[{}] = base /\ it[{}] = base
  BY <1>8, <1>9
<1>11. \A s \in SUBSET S : f[s] = it[s]
  <2>1. AgreeStepwise(f, it, S, pick)
    <3>1. ASSUME NEW s \in (SUBSET S) \ {{}}, f[s \ {pick[s]}] = it[s \ {pick[s]}]
          PROVE  f[s] = it[s]
      <4>1. pick[s] = Max(s) /\ s \in SUBSET S /\ s # {}
        OBVIOUS
      <4>2. f[s] = Body(f)[s] /\ it[s] = Body(it)[s]
        BY <1>8, <1>9
      <4> HIDE DEF f, S, pick
      <4> QED
        BY <3>1, <4>1, <4>2
    <3> HIDE DEF f
    <3> QED
      BY <1>10, <3>1 DEF AgreeStepwise
  <2> HIDE DEF f, pick, S
  <2> QED
    BY <1>3, <1>4, <2>1, FoldUnique
<1>12. \A n \in 1..Len(run) : it[1..n] = Append(it[1..(n - 1)], run[n])
  <2> TAKE n \in 1..Len(run)
  <2>3. 1..n \in SUBSET S => it[1..n] = Body(it)[1..n]
    BY <1>8
  <2> HIDE DEF S
  <2>1. /\ 1..n \in SUBSET S /\ 1..n # {} /\ n \in Nat \ {0}
        /\ 1..(n - 1) \in SUBSET S /\ n \in S
    <3>1. n \in Nat \ {0} /\ n <= Len(run) /\ n \in 1..n
      BY <1>2
    <3>2. 1..n \subseteq 1..Len(run) /\ 1..(n - 1) \subseteq 1..Len(run)
      BY <1>2, <3>1
    <3>3. 1..n # {}
      BY <3>1
    <3> QED
      BY <1>2, <3>1, <3>2, <3>3
  <2>2. Max(1..n) = n /\ (1..n) \ {n} = 1..(n - 1)
    BY <2>1, MaxOfInterval
  <2>4. it[1..n] = Dispatch(it[1..(n - 1)], run[n])
    BY <2>1, <2>2, <2>3
  <2>5. it[1..(n - 1)] \in B
    BY <1>7, <2>1 DEF FoldsBy
  <2> HIDE DEF B
  <2> QED
    BY <1>5, <2>1, <2>4, <2>5
<1> DEFINE Upto(n) == base \o SubSeq(run, 1, n)
           Bad == {n \in Nat : n <= Len(run) /\ it[1..n] # Upto(n)}
<1>13. 0 \notin Bad
  <2>1. 1..0 = {} /\ SubSeq(run, 1, 0) = <<>>
    BY SubSeqEmpty
  <2>2. base \o <<>> = base
    BY ConcatEmptySeq
  <2> QED
    BY <1>10, <2>1, <2>2
<1>14. ASSUME NEW n \in Nat, n \notin Bad PROVE n + 1 \notin Bad
  <2> SUFFICES ASSUME n + 1 <= Len(run) PROVE it[1..(n + 1)] = Upto(n + 1)
    OBVIOUS
  <2>7. n + 1 \in 1..Len(run) /\ n + 1 - 1 = n /\ n <= Len(run)
    BY <1>2
  <2>1. n + 1 \in 1..Len(run) /\ n + 1 - 1 = n /\ it[1..n] = base \o SubSeq(run, 1, n)
    BY <1>14, <2>7
  <2>8. it[1..(n + 1)] = Append(it[1..(n + 1 - 1)], run[n + 1])
    BY <1>12, <2>7, SMTT(30)
  <2>2. it[1..(n + 1)] = Append(base \o SubSeq(run, 1, n), run[n + 1])
    BY <2>1, <2>8
  <2>3. run[n + 1] \in Datagram /\ SubSeq(run, 1, n) \in Seq(Datagram)
    <3>1. \A i \in 1..n : run[i] \in Datagram
      BY <1>2, <2>1, ElementOfSeq
    <3>2. 1 \in Int /\ n \in Int
      OBVIOUS
    <3> QED
      BY <2>1, <3>1, <3>2, ElementOfSeq, SubSeqProperties
  <2>4. SubSeq(run, 1, n + 1) = SubSeq(run, 1, n) \o <<run[n + 1]>>
    <3>1. 1 \in 1..Len(run) /\ n + 1 \in 1..Len(run)
      BY <1>2, <2>1
    <3> QED
      BY <2>1, <3>1, SubSeqRecursiveSecond, SMTT(30)
  <2>5. Append(base \o SubSeq(run, 1, n), run[n + 1])
          = (base \o SubSeq(run, 1, n)) \o <<run[n + 1]>>
    <3>1. base \o SubSeq(run, 1, n) \in Seq(Datagram)
      BY <2>3, ConcatProperties
    <3> QED
      BY <2>3, <3>1, AppendIsConcat
  <2>6. <<run[n + 1]>> \in Seq(Datagram)
    BY <2>3
  <2>9. (base \o SubSeq(run, 1, n)) \o <<run[n + 1]>>
          = base \o (SubSeq(run, 1, n) \o <<run[n + 1]>>)
    <3>1. PICK t \in Seq(Datagram), u \in Seq(Datagram) :
              t = SubSeq(run, 1, n) /\ u = <<run[n + 1]>>
      BY <2>3, <2>6
    <3>2. (base \o t) \o u = base \o (t \o u)
      BY ConcatAssociative, SMTT(30)
    <3> QED
      BY <3>1, <3>2, Zenon
  <2> QED
    BY <2>2, <2>4, <2>5, <2>9, Zenon
<1> HIDE DEF Bad
<1>15. Bad = {}
  <2>1. Bad \subseteq Nat
    BY DEF Bad
  <2> QED
    BY <1>13, <1>14, <2>1, NoLeastExample
<1>16. it[1..Len(run)] = base \o run
  <2>1. SubSeq(run, 1, Len(run)) = run
    BY SubSeqFull
  <2>2. it[1..Len(run)] = Upto(Len(run))
    BY <1>2, <1>15 DEF Bad
  <2> QED
    BY <2>1, <2>2
<1> QED
  <2>1. S \in SUBSET S /\ f[S] = it[S]
    BY <1>11
  <2> QED
    BY <1>1, <1>2, <1>16, <2>1

\* The drain takes the datagrams numbered n to last, and stops before a number that
\* is not there.
LEMMA RunIs ==
    ASSUME NEW pending, DOMAIN pending \subseteq 0..MaxPublished, NEW n \in 1..MaxPublished + 1
    PROVE  \E last \in (n - 1)..MaxPublished :
               /\ n..last \subseteq DOMAIN pending
               /\ last + 1 \notin DOMAIN pending
               /\ Run(pending, n) = [i \in 1..(last + 1 - n) |-> pending[n + i - 1]]
<1> DEFINE Ends(k) == n..k \subseteq DOMAIN pending /\ k + 1 \notin DOMAIN pending
           T == {k \in Nat : k >= n /\ k \notin DOMAIN pending}
<1>1. MaxPublished \in Nat
  BY UdpAssumption
<1>2. MaxPublished + 1 \in T
  <2>1. MaxPublished + 1 \notin 0..MaxPublished
    BY <1>1
  <2> QED
    BY <1>1, <2>1
<1>3. PICK m \in T : \A k \in T : m <= k
  BY <1>2, LeastNumber
<1>4. m - 1 \in (n - 1)..MaxPublished
  BY <1>1, <1>2, <1>3
<1>5. Ends(m - 1)
  <2>1. \A k \in n..(m - 1) : k \in DOMAIN pending
    <3> TAKE k \in n..(m - 1)
    <3>1. k \in Nat /\ k >= n /\ ~(m <= k)
      BY <1>3
    <3> QED
      BY <1>3, <3>1
  <2>2. m - 1 + 1 = m /\ m \notin DOMAIN pending
    BY <1>3
  <2> QED
    BY <2>1, <2>2
<1> DEFINE last == CHOOSE k \in (n - 1)..MaxPublished : Ends(k)
<1>6. last \in (n - 1)..MaxPublished /\ Ends(last)
  BY <1>4, <1>5
<1>7. Run(pending, n) = [i \in 1..(last + 1 - n) |-> pending[n + i - 1]]
  BY DEF Run
<1> HIDE DEF last
<1> QED
  BY <1>6, <1>7

-----------------------------------------------------------------------------
(* The steps of the UDP feed *)

\* The types follow.
LEMMA UdpTyped == UdpIInv => UdpTypeOK
<1> SUFFICES ASSUME UdpIInv PROVE UdpTypeOK
  OBVIOUS
<1>1. UdpShape /\ \A s \in UdpSymbol : WaitsInPlace(s)
  BY DEF UdpIInv
<1>2. ASSUME NEW s \in UdpSymbol
      PROVE  /\ seq_map[s].expected \in 0..MaxPublished
             /\ DOMAIN seq_map[s].pending \subseteq 0..MaxPublished
             /\ \A q \in DOMAIN seq_map[s].pending : seq_map[s].pending[q] \in handled
  <2>1. seq_map[s] \in [expected : 0..MaxPublished, pending : Window]
    BY <1>1 DEF UdpShape
  <2>2. DOMAIN seq_map[s].pending \subseteq 0..MaxPublished
    BY <2>1 DEF Window
  <2> QED
    BY <1>1, <2>1, <2>2 DEF WaitsInPlace
<1> QED
  BY <1>1, <1>2 DEF UdpTypeOK, UdpShape

\* No datagram is numbered at first.
LEMMA UdpStarts == UdpInit => UdpIInv
<1> SUFFICES ASSUME UdpInit PROVE UdpIInv
  OBVIOUS
<1>1. MaxPublished \in Nat /\ MaxPublishers \in Nat \ {0} /\ reorder_window \in Nat
  BY UdpAssumption
<1>2. <<>> \in Window /\ DOMAIN <<>> = {} /\ Cardinality({}) = 0 /\ IsFiniteSet({})
  <2>1. <<>> \in [{} -> Datagram] /\ {} \in SUBSET (0..MaxPublished)
    OBVIOUS
  <2>2. <<>> \in Window
    BY <2>1 DEF Window
  <2> QED
    BY <2>2, FS_EmptySet
<1>3. \A s \in UdpSymbol : seq_map[s].expected = 0 /\ seq_map[s].pending = <<>>
                        /\ dispatched[s] = <<>>
  BY DEF UdpInit
<1>4. UdpShape
  <2>1. [expected |-> 0, pending |-> <<>>] \in [expected : 0..MaxPublished, pending : Window]
    BY <1>1, <1>2
  <2>2. <<>> \in Seq(Datagram)
    BY EmptySeq
  <2> QED
    BY <1>1, <2>1, <2>2 DEF UdpShape, UdpInit
<1>5. NumbersFresh
  BY <1>1, <1>2 DEF NumbersFresh, UdpInit
<1>6. \A s \in UdpSymbol : WaitsInPlace(s) /\ HadTheirTurn(s)
  <2> TAKE s \in UdpSymbol
  <2>1. WaitsInPlace(s)
    BY <1>1, <1>2, <1>3 DEF WaitsInPlace
  <2>2. Len(<<>>) = 0 /\ 1..0 = {}
    OBVIOUS
  <2>3. HadTheirTurn(s)
    BY <1>3, <2>2 DEF HadTheirTurn
  <2> QED
    BY <2>1, <2>3
<1>7. \A d \in handled : Accounted(d)
  BY DEF UdpInit
<1> QED
  BY <1>4, <1>5, <1>6, <1>7 DEF UdpIInv

\* What the subscriber has for its symbols is as before while more datagrams come.
LEMMA SymbolKept ==
    ASSUME NEW s, WaitsInPlace(s), HadTheirTurn(s), seq_map'[s] = seq_map[s],
           dispatched'[s] = dispatched[s], handled \subseteq handled'
    PROVE  WaitsInPlace(s)' /\ HadTheirTurn(s)'
<1>1. WaitsInPlace(s)'
  BY DEF WaitsInPlace
<1>2. HadTheirTurn(s)'
  BY DEF HadTheirTurn
<1> QED
  BY <1>1, <1>2

\* So it is in a step of the publisher, and one in which the subscriber's thread or its
\* owner does not touch a datagram.
LEMMA SubscriberKept ==
    ASSUME UdpIInv, UNCHANGED subVars, UdpShape', NumbersFresh'
    PROVE  UdpIInv'
<1>1. \A s \in UdpSymbol : WaitsInPlace(s)' /\ HadTheirTurn(s)'
  BY SymbolKept DEF UdpIInv, subVars
<1>2. \A d \in handled' : Accounted(d)'
  BY DEF UdpIInv, subVars, Accounted
<1> QED
  BY <1>1, <1>2 DEF UdpIInv

\* A step that only moves the publisher or the subscriber's threads.
LEMMA ControlStays ==
    ASSUME UdpIInv, UNCHANGED <<numbered, net, subVars>>,
           publisher' \in [no : 1..MaxPublishers, sock : BOOLEAN, next_seq : 0..MaxPublished],
           publisher'.next_seq <= Cardinality(numbered),
           sub' \in [running : BOOLEAN, thread : {"none", "check", "recv", "exited"},
                     stopping : BOOLEAN]
    PROVE  UdpIInv'
<1>1. UdpShape'
  BY DEF UdpIInv, UdpShape, subVars
<1>2. NumbersFresh'
  BY DEF UdpIInv, NumbersFresh
<1> QED
  BY <1>1, <1>2, SubscriberKept

\* publish numbers a datagram that was not there.
LEMMA PublishStays ==
    ASSUME UdpIInv, NEW s \in UdpSymbol, UdpPublish(s)
    PROVE  UdpIInv'
<1>1. UdpShape /\ NumbersFresh
  BY DEF UdpIInv
<1>2. PICK max \in Nat : max = MaxPublished
  BY UdpAssumption
<1>3. PICK n \in Nat : n = Cardinality(numbered)
  BY <1>1, FS_CardinalityType DEF NumbersFresh
<1>4. PICK k \in 0..max : k = publisher.next_seq /\ k <= n
  BY <1>1, <1>2, <1>3 DEF UdpShape, NumbersFresh
<1> DEFINE d == [sym |-> s, seq |-> k, frame |-> [no |-> n + 1, kind |-> KindOf(s)]]
<1>5. /\ numbered' = numbered \cup {d} /\ n < max
      /\ net' = IF publisher.sock THEN net \cup {d} ELSE net
      /\ publisher' = [publisher EXCEPT !.next_seq = @ + 1]
      /\ UNCHANGED <<sub, subVars>>
  BY <1>2, <1>3, <1>4 DEF UdpPublish
<1>6. d \in Datagram /\ d.frame.no = n + 1 /\ d.seq = k
  <2>1. KindOf(s) \in {"tick", "bar", "heartbeat"}
    BY DEF KindOf
  <2>2. n + 1 \in 1..max
    BY <1>5
  <2> QED
    BY <1>2, <2>1, <2>2 DEF Datagram, UdpFrame
<1>7. \A e \in numbered : e \in Datagram /\ e.frame.no <= n /\ e.seq < n /\ e.frame.no \in Nat /\ e.seq \in Nat
  BY <1>1, <1>3 DEF NumbersFresh, UdpShape, Datagram, UdpFrame
<1>8. d \notin numbered
  BY <1>6, <1>7
<1> HIDE DEF d
<1>9. IsFiniteSet(numbered') /\ Cardinality(numbered') = n + 1
  BY <1>1, <1>3, <1>5, <1>8, FS_AddElement DEF NumbersFresh
<1>10. /\ publisher' \in [no : 1..MaxPublishers, sock : BOOLEAN, next_seq : 0..MaxPublished]
       /\ publisher'.next_seq = k + 1
  <2>1. publisher \in [no : 1..MaxPublishers, sock : BOOLEAN, next_seq : 0..MaxPublished]
    BY <1>1 DEF UdpShape
  <2>2. publisher' = [publisher EXCEPT !.next_seq = k + 1] /\ k + 1 \in 0..MaxPublished
    BY <1>2, <1>4, <1>5
  <2> QED
    BY <2>1, <2>2
<1>11. UdpShape'
  BY <1>1, <1>5, <1>6, <1>10 DEF UdpShape, subVars
<1>12. NumbersFresh'
  <2>1. \A e \in numbered' : e.frame.no <= n + 1 /\ e.seq < n + 1
    BY <1>4, <1>5, <1>6, <1>7
  <2>2. n + 1 <= MaxPublished /\ k + 1 <= n + 1
    BY <1>2, <1>4, <1>5
  <2> QED
    BY <1>9, <1>10, <2>1, <2>2 DEF NumbersFresh
<1> QED
  BY <1>5, <1>11, <1>12, SubscriberKept

\* The parts of what is known of a symbol.
LEMMA SymbolShape ==
    ASSUME UdpIInv, NEW s \in UdpSymbol
    PROVE  /\ seq_map[s] \in [expected : 0..MaxPublished, pending : Window]
           /\ seq_map[s].expected \in 0..MaxPublished
           /\ DOMAIN seq_map[s].pending \subseteq 0..MaxPublished
           /\ IsFiniteSet(DOMAIN seq_map[s].pending)
           /\ \A q \in DOMAIN seq_map[s].pending : seq_map[s].pending[q] \in Datagram
           /\ dispatched[s] \in Seq(Datagram)
<1>1. UdpShape
  BY DEF UdpIInv
<1>2. seq_map[s] \in [expected : 0..MaxPublished, pending : Window] /\ dispatched[s] \in Seq(Datagram)
  BY <1>1 DEF UdpShape
<1>3. /\ DOMAIN seq_map[s].pending \subseteq 0..MaxPublished
      /\ \A q \in DOMAIN seq_map[s].pending : seq_map[s].pending[q] \in Datagram
  BY <1>2 DEF Window
<1>4. IsFiniteSet(0..MaxPublished)
  BY UdpAssumption, FS_Interval, 0 \in Int, MaxPublished \in Int
<1> QED
  BY <1>2, <1>3, <1>4, FS_Subset

\* A datagram the network has.
LEMMA InTheNet ==
    ASSUME UdpIInv, NEW d \in net
    PROVE  /\ d \in Datagram /\ d \in numbered /\ d.sym \in UdpSymbol
           /\ d.seq \in Nat /\ d.seq < MaxPublished
<1>1. UdpShape /\ NumbersFresh /\ MaxPublished \in Nat
  BY UdpAssumption DEF UdpIInv
<1>2. d \in numbered /\ d \in Datagram /\ d.seq < Cardinality(numbered)
  BY <1>1 DEF UdpShape, NumbersFresh
<1>3. Cardinality(numbered) \in Nat /\ Cardinality(numbered) <= MaxPublished
  BY <1>1, FS_CardinalityType DEF NumbersFresh
<1> QED
  BY <1>1, <1>2, <1>3 DEF Datagram

\* The datagrams that the expected one lets through: it and those that waited behind it
\* without a hole.
Through(d) == <<d>> \o Run(seq_map[d.sym].pending, seq_map[d.sym].expected + 1)

LEMMA DrainIs ==
    ASSUME UdpIInv, NEW d \in net, d.seq = seq_map[d.sym].expected
    PROVE  /\ Through(d) \in Seq(Datagram) /\ Len(Through(d)) \in Nat \ {0}
           /\ d.seq + Len(Through(d)) <= MaxPublished
           /\ d.seq + Len(Through(d)) \notin DOMAIN seq_map[d.sym].pending
           /\ \A i \in 1..Len(Through(d)) :
                  /\ Through(d)[i] \in handled \cup {d}
                  /\ Through(d)[i].seq = d.seq + i - 1 /\ Through(d)[i].sym = d.sym
<1> PICK run : run = Through(d)
  OBVIOUS
<1> DEFINE s == d.sym
<1>1. d \in Datagram /\ s \in UdpSymbol /\ d.seq \in Nat /\ d.seq < MaxPublished
  BY InTheNet
<1>2. PICK e \in Nat : e = seq_map[s].expected /\ e = d.seq
  BY <1>1
<1>3. PICK pending : pending = seq_map[s].pending
  OBVIOUS
<1>4. PICK max \in Nat : max = MaxPublished
  BY UdpAssumption
<1>5. e < max
  BY <1>1, <1>2, <1>4
<1>6. /\ DOMAIN pending \subseteq 0..max
      /\ \A q \in DOMAIN pending : pending[q] \in Datagram
  BY <1>1, <1>3, <1>4, SymbolShape
<1>7. \A q \in DOMAIN pending :
          /\ q > e /\ pending[q] \in handled /\ pending[q].seq = q /\ pending[q].sym = s
  BY <1>1, <1>2, <1>3 DEF UdpIInv, WaitsInPlace
<1>8. \A q \in DOMAIN pending : q < max
  <2> TAKE q \in DOMAIN pending
  <2>1. pending[q] \in net
    BY <1>7 DEF UdpIInv, UdpShape
  <2>2. pending[q].seq < MaxPublished
    BY <2>1, InTheNet
  <2> QED
    BY <1>4, <1>7, <2>2
<1> HIDE DEF s
<1>9. PICK n \in 1..max + 1 : n = e + 1
  BY <1>5
<1>10. PICK last \in (n - 1)..max :
          /\ n..last \subseteq DOMAIN pending
          /\ last + 1 \notin DOMAIN pending
          /\ Run(pending, n) = [i \in 1..(last + 1 - n) |-> pending[n + i - 1]]
  BY <1>4, <1>6, RunIs
<1>11. PICK m \in Nat : last = e + m /\ last + 1 - n = m /\ last \in Nat
  <2>1. last - e \in Nat /\ last = e + (last - e) /\ last + 1 - n = last - e /\ last \in Nat
    BY <1>9
  <2> QED
    BY <2>1
<1>12. last < max
  <2>1. CASE m = 0
    BY <1>5, <1>11, <2>1
  <2>2. CASE m # 0
    <3>1. last \in n..last
      BY <1>9, <1>11, <2>2
    <3> QED
      BY <1>8, <1>10, <3>1
  <2> QED
    BY <2>1, <2>2
<1>13. \A i \in 1..m : n + i - 1 = e + i /\ e + i \in DOMAIN pending
  <2> TAKE i \in 1..m
  <2>1. e + i \in (e + 1)..(e + m) /\ (e + 1) + i - 1 = e + i
    OBVIOUS
  <2>2. n = e + 1 /\ last = e + m
    BY <1>9, <1>11
  <2>3. e + i \in n..last /\ n + i - 1 = e + i
    BY <2>1, <2>2, Zenon
  <2> QED
    BY <1>10, <2>3
<1>14. PICK rest : rest = Run(pending, n)
  OBVIOUS
<1>15. rest \in [1..m -> Datagram] /\ \A i \in 1..m : rest[i] = pending[e + i]
  <2>1. rest = [i \in 1..m |-> pending[n + i - 1]]
    BY <1>10, <1>11, <1>14
  <2>2. \A i \in 1..m : pending[n + i - 1] = pending[e + i] /\ pending[e + i] \in Datagram
    BY <1>6, <1>13
  <2> QED
    BY <2>1, <2>2
<1>16. rest \in Seq(Datagram) /\ Len(rest) = m
  BY <1>15, FunctionIsSeq
<1>17. <<d>> \in Seq(Datagram) /\ Len(<<d>>) = 1 /\ <<d>>[1] = d
  BY <1>1
<1>18. run = <<d>> \o rest
  BY <1>2, <1>3, <1>9, <1>14 DEF s, Through
<1>19. PICK one \in Seq(Datagram) : one = <<d>> /\ Len(one) = 1 /\ one[1] = d
  BY <1>17
<1>20. /\ one \o rest \in Seq(Datagram) /\ Len(one \o rest) = Len(one) + Len(rest)
       /\ \A i \in 1..Len(one) + Len(rest) :
              (one \o rest)[i] = IF i <= Len(one) THEN one[i] ELSE rest[i - Len(one)]
  BY <1>16, ConcatProperties
<1>21. /\ run \in Seq(Datagram) /\ Len(run) = 1 + m
       /\ \A i \in 1..(1 + m) : run[i] = IF i <= 1 THEN one[i] ELSE rest[i - 1]
  BY <1>16, <1>18, <1>19, <1>20
<1>22. ASSUME NEW i \in 1..(1 + m)
       PROVE  run[i] \in handled \cup {d} /\ run[i].seq = e + i - 1 /\ run[i].sym = s
  <2>1. CASE i = 1
    BY <1>2, <1>19, <1>21, <2>1 DEF s
  <2>2. CASE i # 1
    <3>1. i - 1 \in 1..m /\ ~(i <= 1) /\ e + (i - 1) = e + i - 1
      BY <2>2
    <3>2. run[i] = pending[e + (i - 1)] /\ e + (i - 1) \in DOMAIN pending
      BY <1>13, <1>15, <1>21, <3>1
    <3> QED
      BY <1>7, <3>1, <3>2
  <2> QED
    BY <2>1, <2>2
<1>23. e + Len(run) = last + 1 /\ last + 1 <= max /\ Len(run) \in Nat \ {0}
  <2>1. e + (1 + m) = last + 1 /\ last + 1 <= max /\ 1 + m \in Nat \ {0}
    BY <1>11, <1>12
  <2> QED
    BY <1>21, <2>1
<1> QED
  BY <1>2, <1>3, <1>4, <1>10, <1>21, <1>22, <1>23 DEF s

\* A datagram that came keeps its place while its symbol is untouched.
LEMMA AccountKept ==
    ASSUME NEW x, Accounted(x), seq_map'[x.sym] = seq_map[x.sym],
           gaps \subseteq gaps', refused \subseteq refused'
    PROVE  Accounted(x)'
BY DEF Accounted

\* What receiving a datagram leaves alone, whatever it does with it.
LEMMA ReceiveShape ==
    ASSUME UdpIInv, NEW d \in net, Receive(d),
           seq_map' \in [UdpSymbol -> [expected : 0..MaxPublished, pending : Window]],
           dispatched' \in [UdpSymbol -> Seq(Datagram)],
           refused' \subseteq handled'
    PROVE  UdpShape' /\ NumbersFresh' /\ handled' = handled \cup {d} /\ UNCHANGED numbered
<1>1. handled' = handled \cup {d} /\ UNCHANGED pubVars /\ sub' = [sub EXCEPT !.thread = "check"]
  BY DEF Receive
<1>2. UdpShape /\ NumbersFresh
  BY DEF UdpIInv
<1>3. UNCHANGED <<publisher, numbered, net>>
  BY <1>1 DEF pubVars
<1>4. UdpShape'
  BY <1>1, <1>2, <1>3 DEF UdpShape
<1>5. NumbersFresh'
  BY <1>2, <1>3 DEF NumbersFresh
<1> QED
  BY <1>1, <1>3, <1>4, <1>5

\* A late datagram is dropped.
LEMMA LateStays ==
    ASSUME UdpIInv, NEW d \in net, Receive(d), HandleLate(d)
    PROVE  UdpIInv' /\ UNCHANGED <<numbered, dispatched>>
<1>1. /\ d.seq < seq_map[d.sym].expected
      /\ UNCHANGED <<seq_map, gaps, dispatched, refused>>
  BY DEF HandleLate
<1>2. handled' = handled \cup {d}
  BY DEF Receive
<1>3. UdpShape' /\ NumbersFresh' /\ UNCHANGED numbered
  BY <1>1, <1>2, ReceiveShape DEF UdpIInv, UdpShape
<1>4. \A s \in UdpSymbol : WaitsInPlace(s)' /\ HadTheirTurn(s)'
  BY <1>1, <1>2, SymbolKept DEF UdpIInv
<1>5. Accounted(d)'
  <2>1. d.seq \in Nat /\ seq_map[d.sym].expected \in Nat
    BY InTheNet, SymbolShape
  <2> QED
    BY <1>1, <2>1 DEF Accounted
<1>6. \A x \in handled' : Accounted(x)'
  BY <1>1, <1>2, <1>5, AccountKept DEF UdpIInv
<1> QED
  BY <1>1, <1>3, <1>4, <1>6 DEF UdpIInv

\* Datagrams under numbers make a window.
LEMMA MakesWindow ==
    ASSUME NEW K, K \subseteq 0..MaxPublished, NEW w, w \in [K -> Datagram]
    PROVE  w \in Window
BY DEF Window

\* A datagram that is early waits if there is room, is refused if not, and is reported
\* either way.
LEMMA GapStays ==
    ASSUME UdpIInv, NEW d \in net, Receive(d), HandleGap(d)
    PROVE  UdpIInv' /\ UNCHANGED <<numbered, dispatched>>
<1>1. /\ d \in Datagram /\ d.sym \in UdpSymbol /\ d.seq \in Nat /\ d.seq < MaxPublished
      /\ MaxPublished \in Nat /\ reorder_window \in Nat
  BY InTheNet, UdpAssumption
<1>2. PICK ss : ss = seq_map[d.sym]
  OBVIOUS
<1>3. /\ ss \in [expected : 0..MaxPublished, pending : Window]
      /\ DOMAIN ss.pending \subseteq 0..MaxPublished /\ IsFiniteSet(DOMAIN ss.pending)
      /\ \A q \in DOMAIN ss.pending : ss.pending[q] \in Datagram
  BY <1>1, <1>2, SymbolShape
<1>4. /\ Cardinality(DOMAIN ss.pending) <= reorder_window
      /\ \A q \in DOMAIN ss.pending :
             /\ q > ss.expected /\ ss.pending[q] \in handled
             /\ ss.pending[q].seq = q /\ ss.pending[q].sym = d.sym
  BY <1>1, <1>2 DEF UdpIInv, WaitsInPlace
<1> DEFINE room == Cardinality(DOMAIN ss.pending) < reorder_window
           K == DOMAIN ss.pending \cup {d.seq}
           w == [q \in K |-> IF q = d.seq THEN d ELSE ss.pending[q]]
<1>5. /\ d.seq > ss.expected
      /\ gaps' = gaps \cup {[sym |-> d.sym, expected |-> ss.expected, received |-> d.seq]}
      /\ seq_map' = IF room THEN [seq_map EXCEPT ![d.sym].pending = w] ELSE seq_map
      /\ refused' = IF room THEN refused ELSE refused \cup {d}
      /\ UNCHANGED dispatched
  BY <1>2 DEF HandleGap
<1>6. handled' = handled \cup {d} /\ UdpShape
  BY DEF Receive, UdpIInv
<1>7. K \subseteq 0..MaxPublished /\ w \in [K -> Datagram] /\ DOMAIN w = K
  BY <1>1, <1>3
<1>8. \A q \in K : w[q] = IF q = d.seq THEN d ELSE ss.pending[q]
  OBVIOUS
<1>9. w \in Window
  <2> HIDE DEF w, K
  <2> QED
    BY <1>7, MakesWindow
<1>10. room => Cardinality(K) <= reorder_window
  <2>1. Cardinality(DOMAIN ss.pending) \in Nat
    BY <1>3, FS_CardinalityType
  <2>2. Cardinality(K) = Cardinality(DOMAIN ss.pending)
          \/ Cardinality(K) = Cardinality(DOMAIN ss.pending) + 1
    BY <1>3, FS_AddElement
  <2> QED
    BY <1>1, <2>1, <2>2
<1> HIDE DEF w, K
<1>11. seq_map' = IF room THEN [seq_map EXCEPT ![d.sym] = [ss EXCEPT !.pending = w]] ELSE seq_map
  BY <1>2, <1>5
<1>12. /\ [ss EXCEPT !.pending = w] \in [expected : 0..MaxPublished, pending : Window]
       /\ [ss EXCEPT !.pending = w].expected = ss.expected
       /\ [ss EXCEPT !.pending = w].pending = w
  BY <1>3, <1>9
<1>13. /\ DOMAIN seq_map = UdpSymbol
       /\ seq_map \in [UdpSymbol -> [expected : 0..MaxPublished, pending : Window]]
  BY <1>6 DEF UdpShape
<1>14. /\ seq_map' \in [UdpSymbol -> [expected : 0..MaxPublished, pending : Window]]
       /\ \A s \in UdpSymbol \ {d.sym} : seq_map'[s] = seq_map[s]
       /\ seq_map'[d.sym].expected = ss.expected
       /\ seq_map'[d.sym].pending = IF room THEN w ELSE ss.pending
  <2>1. CASE room
    BY <1>1, <1>11, <1>12, <1>13, <2>1
  <2>2. CASE ~room
    BY <1>2, <1>11, <1>13, <2>2
  <2> QED
    BY <2>1, <2>2
<1> HIDE DEF room
<1>15. UdpShape' /\ NumbersFresh' /\ UNCHANGED numbered
  <2>1. refused' \subseteq handled'
    BY <1>5, <1>6 DEF UdpShape
  <2>2. dispatched' \in [UdpSymbol -> Seq(Datagram)]
    BY <1>5, <1>6 DEF UdpShape
  <2> QED
    BY <1>14, <2>1, <2>2, ReceiveShape
<1>16. WaitsInPlace(d.sym)'
  <2>1. CASE room
    <3>1. \A q \in K : q > ss.expected /\ w[q] \in handled' /\ w[q].seq = q /\ w[q].sym = d.sym
      BY <1>4, <1>5, <1>6, <1>8 DEF K
    <3>2. /\ seq_map'[d.sym].expected = ss.expected /\ seq_map'[d.sym].pending = w
          /\ Cardinality(DOMAIN w) <= reorder_window /\ DOMAIN w = K
      BY <1>7, <1>10, <1>14, <2>1
    <3> QED
      BY <3>1, <3>2, Zenon DEF WaitsInPlace
  <2>2. CASE ~room
    BY <1>4, <1>6, <1>14, <2>2 DEF WaitsInPlace
  <2> QED
    BY <2>1, <2>2
<1>17. HadTheirTurn(d.sym)'
  <2>1. HadTheirTurn(d.sym)
    BY <1>1 DEF UdpIInv
  <2> QED
    BY <1>2, <1>5, <1>6, <1>14, <2>1 DEF HadTheirTurn
<1>18. \A s \in UdpSymbol : WaitsInPlace(s)' /\ HadTheirTurn(s)'
  <2> TAKE s \in UdpSymbol
  <2>1. CASE s = d.sym
    BY <1>16, <1>17, <2>1
  <2>2. CASE s # d.sym
    BY <1>5, <1>6, <1>14, <2>2, SymbolKept DEF UdpIInv
  <2> QED
    BY <2>1, <2>2
<1>19. Accounted(d)'
  <2>1. d.seq \in DOMAIN seq_map'[d.sym].pending \/ d \in refused'
    BY <1>5, <1>7, <1>14 DEF K
  <2>2. \E g \in gaps' : g.sym = d.sym /\ g.received = d.seq
    <3>1. PICK g \in gaps' : g = [sym |-> d.sym, expected |-> ss.expected, received |-> d.seq]
      BY <1>5
    <3> QED
      BY <3>1
  <2> QED
    BY <2>1, <2>2, Zenon DEF Accounted
<1>20. \A x \in handled' : Accounted(x)'
  <2> TAKE x \in handled'
  <2>1. CASE x = d
    BY <1>19, <2>1
  <2>2. CASE x \in handled /\ x.sym # d.sym
    <3>1. x.sym \in UdpSymbol
      BY <1>6, <2>2 DEF UdpShape, Datagram
    <3>2. seq_map'[x.sym] = seq_map[x.sym]
      BY <1>14, <2>2, <3>1
    <3> QED
      BY <1>5, <2>2, <3>2, AccountKept DEF UdpIInv
  <2>3. CASE x \in handled /\ x.sym = d.sym
    <3>1. Accounted(x)
      BY <2>3 DEF UdpIInv
    <3>2. DOMAIN ss.pending \subseteq DOMAIN seq_map'[d.sym].pending
      BY <1>7, <1>14 DEF K
    <3>3. refused \subseteq refused' /\ gaps \subseteq gaps'
      BY <1>5
    <3> QED
      BY <1>2, <1>14, <2>3, <3>1, <3>2, <3>3 DEF Accounted
  <2> QED
    BY <1>6, <2>1, <2>2, <2>3
<1> QED
  BY <1>5, <1>15, <1>18, <1>20 DEF UdpIInv

\* What the symbol of the expected datagram expects next, and what goes on waiting.
After(d) ==
    LET next    == d.seq + Len(Through(d))
        pending == seq_map[d.sym].pending
    IN  [expected |-> next, pending |-> [q \in {p \in DOMAIN pending : p >= next} |-> pending[q]]]

\* What the expected datagram does: the callbacks get it and all that waited behind it
\* without a hole, and the others go on waiting.
LEMMA NextDelivers ==
    ASSUME UdpIInv, NEW d \in net, HandleNext(d)
    PROVE  /\ dispatched' = [dispatched EXCEPT ![d.sym] = dispatched[d.sym] \o Through(d)]
           /\ seq_map' = [seq_map EXCEPT ![d.sym] = After(d)]
           /\ d.seq = seq_map[d.sym].expected /\ UNCHANGED <<gaps, refused>>
<1>1. d.seq = seq_map[d.sym].expected /\ UNCHANGED <<gaps, refused>>
  BY DEF HandleNext
<1>2. d.sym \in UdpSymbol /\ dispatched[d.sym] \in Seq(Datagram)
  BY InTheNet, SymbolShape
<1>3. Through(d) \in Seq(Datagram)
  BY <1>1, DrainIs
<1>4. FoldLeft(Dispatch, dispatched[d.sym], Through(d)) = dispatched[d.sym] \o Through(d)
  BY <1>2, <1>3, DispatchAll
<1>5. dispatched' = [dispatched EXCEPT ![d.sym] =
                        FoldLeft(Dispatch, dispatched[d.sym], Through(d))]
  BY Zenon DEF HandleNext, Through
<1>6. seq_map' = [seq_map EXCEPT ![d.sym] =
          [expected |-> seq_map[d.sym].expected + Len(Through(d)),
           pending  |-> [q \in {p \in DOMAIN seq_map[d.sym].pending :
                                    p >= seq_map[d.sym].expected + Len(Through(d))} |->
                             seq_map[d.sym].pending[q]]]]
  BY Zenon DEF HandleNext, Through
<1>7. seq_map' = [seq_map EXCEPT ![d.sym] = After(d)]
  BY <1>1, <1>6, Zenon DEF After
<1> QED
  BY <1>1, <1>4, <1>5, <1>7, Zenon

\* The expected datagram and its followers have their turn.
LEMMA NextStays ==
    ASSUME UdpIInv, NEW d \in net, Receive(d), HandleNext(d)
    PROVE  UdpIInv' /\ InOrder!Deliver(d.sym)
<1>1. PICK s \in UdpSymbol : s = d.sym
  BY InTheNet
<1>2. /\ d \in Datagram /\ d \in numbered /\ d.seq \in Nat /\ d.seq < MaxPublished
  BY InTheNet
<1>3. PICK ss : ss = seq_map[s]
  OBVIOUS
<1>4. PICK run : run = Through(d)
  OBVIOUS
<1>5. PICK e \in Nat : e = d.seq
  BY <1>2
<1>6. e = ss.expected /\ UNCHANGED <<gaps, refused>>
  BY <1>1, <1>3, <1>5 DEF HandleNext
<1>7. PICK l \in Nat \ {0} : l = Len(run)
  BY <1>1, <1>3, <1>4, <1>5, <1>6, DrainIs
<1>8. /\ run \in Seq(Datagram)
      /\ e + l <= MaxPublished /\ e + l \notin DOMAIN ss.pending
      /\ \A i \in 1..l : run[i] \in handled \cup {d} /\ run[i].seq = e + i - 1 /\ run[i].sym = s
  <2>1. d.seq = seq_map[d.sym].expected
    BY <1>1, <1>3, <1>5, <1>6
  <2>2. /\ Through(d) \in Seq(Datagram)
        /\ d.seq + Len(Through(d)) <= MaxPublished
        /\ d.seq + Len(Through(d)) \notin DOMAIN seq_map[d.sym].pending
        /\ \A i \in 1..Len(Through(d)) :
               /\ Through(d)[i] \in handled \cup {d}
               /\ Through(d)[i].seq = d.seq + i - 1 /\ Through(d)[i].sym = d.sym
    BY <2>1, DrainIs
  <2> QED
    BY <1>1, <1>3, <1>4, <1>5, <1>7, <2>2, Zenon
<1> DEFINE next == e + l
           K == {p \in DOMAIN ss.pending : p >= next}
           w == [q \in K |-> ss.pending[q]]
<1>9. /\ dispatched' = [dispatched EXCEPT ![s] = dispatched[s] \o run]
      /\ seq_map' = [seq_map EXCEPT ![s] = [expected |-> next, pending |-> w]]
  <2>1. /\ dispatched' = [dispatched EXCEPT ![d.sym] = dispatched[d.sym] \o Through(d)]
        /\ seq_map' = [seq_map EXCEPT ![d.sym] = After(d)]
    BY NextDelivers
  <2>2. After(d) = [expected |-> next, pending |-> w]
    BY <1>1, <1>3, <1>4, <1>5, <1>7, Zenon DEF After
  <2> QED
    BY <1>1, <1>4, <2>1, <2>2, Zenon
<1>10. handled' = handled \cup {d} /\ UdpShape
  BY DEF Receive, UdpIInv
<1>11. /\ ss \in [expected : 0..MaxPublished, pending : Window]
       /\ DOMAIN ss.pending \subseteq 0..MaxPublished /\ IsFiniteSet(DOMAIN ss.pending)
       /\ \A q \in DOMAIN ss.pending : ss.pending[q] \in Datagram
       /\ dispatched[s] \in Seq(Datagram)
  BY <1>3, SymbolShape
<1>12. /\ Cardinality(DOMAIN ss.pending) <= reorder_window
       /\ \A q \in DOMAIN ss.pending :
              /\ q > e /\ ss.pending[q] \in handled
              /\ ss.pending[q].seq = q /\ ss.pending[q].sym = s
  BY <1>3, <1>6 DEF UdpIInv, WaitsInPlace
<1>13. K \subseteq DOMAIN ss.pending /\ DOMAIN w = K /\ \A q \in K : w[q] = ss.pending[q]
  OBVIOUS
<1>14. w \in Window
  <2>1. K \subseteq 0..MaxPublished /\ w \in [K -> Datagram]
    BY <1>11
  <2> HIDE DEF w, K
  <2> QED
    BY <2>1, MakesWindow
<1>15. \A q \in K : q > next
  <2>1. \A q \in DOMAIN ss.pending : q \in Nat /\ q # next
    BY <1>8, <1>11
  <2> QED
    BY <2>1
<1>16. next \in 0..MaxPublished
  BY <1>8, UdpAssumption
<1> HIDE DEF K, w
<1>17. /\ seq_map' \in [UdpSymbol -> [expected : 0..MaxPublished, pending : Window]]
       /\ \A t \in UdpSymbol \ {s} : seq_map'[t] = seq_map[t]
       /\ seq_map'[s] = [expected |-> next, pending |-> w]
  <2>1. seq_map \in [UdpSymbol -> [expected : 0..MaxPublished, pending : Window]]
    BY <1>10 DEF UdpShape
  <2>2. [expected |-> next, pending |-> w] \in [expected : 0..MaxPublished, pending : Window]
    BY <1>14, <1>16
  <2> HIDE DEF next
  <2> QED
    BY <1>9, <2>1, <2>2
<1>18. seq_map'[s].expected = next /\ seq_map'[s].pending = w
  BY <1>17
<1>19. PICK old \in Seq(Datagram) : old = dispatched[s]
  BY <1>11
<1>20. /\ dispatched' \in [UdpSymbol -> Seq(Datagram)]
       /\ \A t \in UdpSymbol \ {s} : dispatched'[t] = dispatched[t]
       /\ dispatched'[s] = old \o run
  <2>1. dispatched \in [UdpSymbol -> Seq(Datagram)]
    BY <1>10 DEF UdpShape
  <2>2. old \o run \in Seq(Datagram)
    BY <1>8, ConcatProperties
  <2> QED
    BY <1>9, <1>19, <2>1, <2>2
<1>21. /\ Len(old) = e
       /\ \A i \in 1..e : old[i] \in handled /\ old[i].seq = i - 1 /\ old[i].sym = s
  BY <1>3, <1>6, <1>19 DEF UdpIInv, HadTheirTurn
<1>22. PICK new \in Seq(Datagram) :
           /\ new = dispatched'[s] /\ Len(new) = next
           /\ \A i \in 1..next : new[i] = IF i <= e THEN old[i] ELSE run[i - e]
  <2>1. /\ old \o run \in Seq(Datagram) /\ Len(old \o run) = Len(old) + Len(run)
        /\ \A i \in 1..Len(old) + Len(run) :
               (old \o run)[i] = IF i <= Len(old) THEN old[i] ELSE run[i - Len(old)]
    BY <1>8, ConcatProperties
  <2> QED
    BY <1>7, <1>20, <1>21, <2>1
<1>23. \A i \in 1..next : new[i] \in handled \cup {d} /\ new[i].seq = i - 1 /\ new[i].sym = s
  <2> TAKE i \in 1..next
  <2>1. CASE i <= e
    BY <1>21, <1>22, <2>1
  <2>2. CASE ~(i <= e)
    <3>1. i - e \in 1..l /\ e + (i - e) - 1 = i - 1
      BY <2>2
    <3> QED
      BY <1>8, <1>22, <2>2, <3>1
  <2> QED
    BY <2>1, <2>2
<1>24. UdpShape' /\ NumbersFresh' /\ UNCHANGED numbered
  <2>1. refused' \subseteq handled'
    BY <1>6, <1>10 DEF UdpShape
  <2> QED
    BY <1>17, <1>20, <2>1, ReceiveShape
<1>25. WaitsInPlace(s)'
  <2>1. \A q \in K : q > next /\ w[q] \in handled' /\ w[q].seq = q /\ w[q].sym = s
    BY <1>10, <1>12, <1>13, <1>15
  <2>2. Cardinality(DOMAIN w) <= reorder_window
    <3>1. Cardinality(K) <= Cardinality(DOMAIN ss.pending) /\ Cardinality(K) \in Nat
      BY <1>11, <1>13, FS_Subset, FS_CardinalityType
    <3>2. Cardinality(DOMAIN ss.pending) \in Nat /\ reorder_window \in Nat
      BY <1>11, FS_CardinalityType, UdpAssumption
    <3> QED
      BY <1>12, <1>13, <3>1, <3>2
  <2> QED
    BY <1>13, <1>18, <2>1, <2>2, Zenon DEF WaitsInPlace
<1>26. HadTheirTurn(s)'
  <2>1. \A i \in 1..Len(dispatched'[s]) :
            /\ dispatched'[s][i] \in handled'
            /\ dispatched'[s][i].seq = i - 1 /\ dispatched'[s][i].sym = s
    BY <1>10, <1>22, <1>23
  <2> QED
    BY <1>18, <1>22, <2>1, Zenon DEF HadTheirTurn
<1>27. \A t \in UdpSymbol : WaitsInPlace(t)' /\ HadTheirTurn(t)'
  <2> TAKE t \in UdpSymbol
  <2>1. CASE t = s
    BY <1>25, <1>26, <2>1
  <2>2. CASE t # s
    BY <1>10, <1>17, <1>20, <2>2, SymbolKept DEF UdpIInv
  <2> QED
    BY <2>1, <2>2
<1>28. \A x \in handled' : Accounted(x)'
  <2> TAKE x \in handled'
  <2>1. CASE x \in handled /\ x.sym # s
    <3>1. x.sym \in UdpSymbol
      BY <1>10, <2>1 DEF UdpShape, Datagram
    <3>2. seq_map'[x.sym] = seq_map[x.sym]
      BY <1>17, <2>1, <3>1
    <3> QED
      BY <1>6, <2>1, <3>2, AccountKept DEF UdpIInv
  <2>2. CASE x.sym = s
    <3>1. /\ x.seq < e \/ x.seq \in DOMAIN ss.pending \/ x \in refused \/ x = d
          /\ x.seq > e => \E g \in gaps : g.sym = s /\ g.received = x.seq
      <4>1. CASE x = d
        <5>1. ~(x.seq > e)
          BY <1>5, <4>1
        <5> QED
          BY <4>1, <5>1
      <4>2. CASE x \in handled
        <5>1. Accounted(x)
          BY <4>2 DEF UdpIInv
        <5> QED
          BY <1>3, <1>6, <2>2, <5>1 DEF Accounted
      <4> QED
        BY <1>10, <4>1, <4>2
    <3>2. x.seq \in Nat
      BY <1>2, <1>10 DEF UdpShape, Datagram
    <3>3. \/ x.seq < next \/ x.seq \in K \/ x \in refused
      BY <1>5, <3>1, <3>2 DEF K
    <3>4. x.seq > next => x.seq > e
      BY <3>2
    <3>5. x.seq > next => \E g \in gaps' : g.sym = s /\ g.received = x.seq
      BY <1>6, <3>1, <3>4
    <3> HIDE DEF next
    <3> QED
      BY <1>6, <1>13, <1>18, <2>2, <3>3, <3>5, Zenon DEF Accounted
  <2> QED
    BY <1>1, <1>10, <2>1, <2>2
<1>29. InOrder!Deliver(s)
  <2>1. Len(new) > Len(old)
    BY <1>21, <1>22
  <2>2. SubSeq(new, 1, Len(old)) = old
    <3>1. \A i \in 1..e : new[i] = old[i] /\ i \in 1..next
      BY <1>22
    <3>2. \A i \in 1..e : new[i] \in Datagram
      BY <1>22, <3>1, ElementOfSeq
    <3>3. /\ SubSeq(new, 1, e) \in Seq(Datagram)
          /\ Len(SubSeq(new, 1, e)) = IF 1 <= e THEN e - 1 + 1 ELSE 0
          /\ \A i \in 1..(e - 1 + 1) : SubSeq(new, 1, e)[i] = new[1 + i - 1]
      BY <3>2, SubSeqProperties, 1 \in Int, e \in Int
    <3>4. Len(SubSeq(new, 1, e)) = e /\ \A i \in 1..e : SubSeq(new, 1, e)[i] = old[i]
      BY <3>1, <3>3
    <3> QED
      BY <1>21, <3>3, <3>4, SeqEqual
  <2>3. \A i \in (Len(old) + 1)..Len(new) :
            new[i] \in numbered /\ new[i].sym = s /\ new[i].seq = i - 1
    <3> TAKE i \in (Len(old) + 1)..Len(new)
    <3>1. i \in 1..next
      BY <1>21, <1>22
    <3> QED
      BY <1>2, <1>10, <1>23, <3>1 DEF UdpShape
  <2> QED
    BY <1>19, <1>20, <1>22, <1>24, <2>1, <2>2, <2>3, Zenon DEF InOrder!Deliver
<1> QED
  BY <1>1, <1>24, <1>27, <1>28, <1>29 DEF UdpIInv

\* Every step of the UDP feed keeps the invariant, and is one that InOrderDelivery
\* allows.
LEMMA UdpStays ==
    ASSUME UdpIInv, [UdpNext]_udpVars
    PROVE  UdpIInv' /\ [InOrder!Next]_<<numbered, dispatched>>
<1> DEFINE Allowed == [InOrder!Next]_<<numbered, dispatched>>
<1>1. UdpShape /\ NumbersFresh
  BY DEF UdpIInv
<1>2. /\ publisher \in [no : 1..MaxPublishers, sock : BOOLEAN, next_seq : 0..MaxPublished]
      /\ sub \in [running : BOOLEAN, thread : {"none", "check", "recv", "exited"},
                  stopping : BOOLEAN]
      /\ publisher.next_seq <= Cardinality(numbered)
  BY <1>1 DEF UdpShape, NumbersFresh
<1>3. ASSUME UNCHANGED <<numbered, net, subVars>> PROVE Allowed
  BY <1>3 DEF subVars
<1>4. CASE PublisherStart
  <2>1. /\ UNCHANGED <<numbered, net, sub, subVars>>
        /\ publisher' = [publisher EXCEPT !.sock = TRUE]
    BY <1>4 DEF PublisherStart
  <2>2. /\ publisher' \in [no : 1..MaxPublishers, sock : BOOLEAN, next_seq : 0..MaxPublished]
        /\ publisher'.next_seq = publisher.next_seq
    BY <1>2, <2>1
  <2> QED
    BY <1>2, <1>3, <2>1, <2>2, ControlStays
<1>5. ASSUME NEW s \in UdpSymbol, UdpPublish(s) PROVE UdpIInv' /\ Allowed
  <2>1. UdpIInv'
    BY <1>5, PublishStays
  <2>2. numbered \subseteq numbered' /\ UNCHANGED dispatched
    BY <1>5 DEF UdpPublish, subVars
  <2> QED
    BY <2>1, <2>2 DEF InOrder!Next, InOrder!Send
<1>6. CASE PublisherRestart
  <2>1. /\ UNCHANGED <<numbered, net, sub, subVars>> /\ publisher.no < MaxPublishers
        /\ publisher' = [no |-> publisher.no + 1, sock |-> FALSE, next_seq |-> 0]
    BY <1>6 DEF PublisherRestart
  <2>2. /\ publisher' \in [no : 1..MaxPublishers, sock : BOOLEAN, next_seq : 0..MaxPublished]
        /\ publisher'.next_seq = 0
    <3>1. publisher.no + 1 \in 1..MaxPublishers /\ 0 \in 0..MaxPublished
      BY <1>2, <2>1, UdpAssumption
    <3> QED
      BY <2>1, <3>1
  <2>3. 0 <= Cardinality(numbered)
    BY <1>1, FS_CardinalityType DEF NumbersFresh
  <2> QED
    BY <1>2, <1>3, <2>1, <2>2, <2>3, ControlStays
<1>7. CASE SubscriberStart \/ SubscriberStop \/ SubscriberJoin \/ LoopCheck \/ RecvNothing
           \/ RecvFails
  <2>1. UNCHANGED <<publisher, numbered, net, subVars>>
    BY <1>7 DEF SubscriberStart, SubscriberStop, SubscriberJoin, LoopCheck, RecvNothing,
                RecvFails, pubVars
  <2>2. sub' \in [running : BOOLEAN, thread : {"none", "check", "recv", "exited"},
                  stopping : BOOLEAN]
    BY <1>2, <1>7 DEF SubscriberStart, SubscriberStop, SubscriberJoin, LoopCheck, RecvNothing,
                      RecvFails
  <2> QED
    BY <1>2, <1>3, <2>1, <2>2, ControlStays
<1>8. ASSUME NEW d \in net, Receive(d) PROVE UdpIInv' /\ Allowed
  <2>1. CASE HandleLate(d)
    BY <1>8, <2>1, LateStays
  <2>2. CASE HandleGap(d)
    BY <1>8, <2>2, GapStays
  <2>3. CASE HandleNext(d)
    BY <1>8, <2>3, NextStays, InTheNet DEF InOrder!Next
  <2> QED
    BY <1>8, <2>1, <2>2, <2>3 DEF Receive
<1>9. CASE UNCHANGED udpVars
  <2>1. UNCHANGED <<publisher, numbered, net, sub, subVars>>
    BY <1>9 DEF udpVars, pubVars
  <2> QED
    BY <1>2, <1>3, <2>1, ControlStays
<1> QED
  BY <1>4, <1>5, <1>6, <1>7, <1>8, <1>9 DEF UdpNext

\* The invariant says why a datagram that came was not passed on.
LEMMA NothingIsWithheld == UdpIInv => NothingWithheld
<1> SUFFICES ASSUME UdpIInv PROVE NothingWithheld
  OBVIOUS
<1> SUFFICES ASSUME NEW d \in handled
             PROVE  LET ss      == seq_map[d.sym]
                        waiting == d.seq \in DOMAIN ss.pending
                    IN  /\ d.seq < ss.expected \/ waiting \/ d \in refused
                        /\ d.seq < ss.expected => \E e \in handled :
                               /\ e.seq = d.seq
                               /\ dispatched[d.sym][d.seq + 1] = e
                        /\ d.seq > ss.expected =>
                               \E g \in gaps : g.sym = d.sym /\ g.received = d.seq
                        /\ ss.expected \notin DOMAIN ss.pending
                        /\ Cardinality(DOMAIN ss.pending) <= reorder_window
  BY DEF NothingWithheld
<1>1. Accounted(d) /\ d \in net
  BY DEF UdpIInv, UdpShape
<1>2. d.sym \in UdpSymbol /\ d.seq \in Nat
  BY <1>1, InTheNet
<1>3. WaitsInPlace(d.sym) /\ HadTheirTurn(d.sym)
  BY <1>2 DEF UdpIInv
<1>4. seq_map[d.sym].expected \in Nat
  BY <1>2, SymbolShape
<1>5. ASSUME d.seq < seq_map[d.sym].expected
      PROVE  dispatched[d.sym][d.seq + 1] \in handled /\ dispatched[d.sym][d.seq + 1].seq = d.seq
  <2>1. d.seq + 1 \in 1..Len(dispatched[d.sym])
    BY <1>2, <1>3, <1>4, <1>5 DEF HadTheirTurn
  <2>2. \A i \in 1..Len(dispatched[d.sym]) :
            dispatched[d.sym][i] \in handled /\ dispatched[d.sym][i].seq = i - 1
    BY <1>3 DEF HadTheirTurn
  <2> DEFINE i == d.seq + 1
  <2>3. i \in 1..Len(dispatched[d.sym]) /\ i - 1 = d.seq
    BY <1>2, <2>1
  <2> HIDE DEF i
  <2>4. dispatched[d.sym][i] \in handled /\ dispatched[d.sym][i].seq = d.seq
    BY <2>2, <2>3
  <2> QED
    BY <2>4 DEF i
<1>6. seq_map[d.sym].expected \notin DOMAIN seq_map[d.sym].pending
  BY <1>3, <1>4 DEF WaitsInPlace
<1> QED
  BY <1>1, <1>3, <1>5, <1>6 DEF Accounted, WaitsInPlace

-----------------------------------------------------------------------------
(* What the client of the TCP feed makes of a stream *)

TcpCell == Cell(TcpFrame)

\* A cell's frame has a number.
LEMMA CellNumbered ==
    ASSUME NEW x \in TcpCell PROVE x.of \in TcpFrame /\ x.of.no \in Nat
BY TcpAssumption DEF TcpCell, Cell, TcpFrame

\* An element is put behind two sequences as behind the second.
LEMMA ConcatAppend ==
    ASSUME NEW s \in Seq(TcpFrame), NEW t \in Seq(TcpFrame), NEW e \in TcpFrame
    PROVE  s \o Append(t, e) = Append(s \o t, e)
<1>1. Append(t, e) = t \o <<e>> /\ <<e>> \in Seq(TcpFrame)
  BY AppendIsConcat
<1>2. s \o t \in Seq(TcpFrame)
  BY ConcatProperties
<1>3. Append(s \o t, e) = (s \o t) \o <<e>>
  BY <1>2, AppendIsConcat
<1>4. PICK u \in Seq(TcpFrame) : u = <<e>>
  BY <1>1
<1>5. (s \o t) \o u = s \o (t \o u)
  BY ConcatAssociative
<1> QED
  BY <1>1, <1>3, <1>4, <1>5, Zenon

\* A frame that was published, and comes after those passed on, may be passed on.
LEMMA PassOn ==
    ASSUME NEW got \in Seq(TcpFrame), Sound(got), NEW f \in TcpFrame,
           f.no \in 1..Len(published), published[f.no] = f,
           \A i \in 1..Len(got) : got[i].no < f.no
    PROVE  /\ Append(got, f) \in Seq(TcpFrame) /\ Len(Append(got, f)) = Len(got) + 1
           /\ \A i \in 1..Len(got) : Append(got, f)[i] = got[i]
           /\ Append(got, f)[Len(got) + 1] = f
           /\ Sound(Append(got, f))
<1>1. PICK l \in Nat : l = Len(got)
  BY LenProperties
<1>0. PICK new \in Seq(TcpFrame) : new = Append(got, f)
  BY AppendProperties
<1>2. /\ new = Append(got, f) /\ Len(new) = l + 1 /\ new[l + 1] = f
      /\ \A i \in 1..l : new[i] = got[i]
  BY <1>0, <1>1, AppendProperties
<1>3. \A i \in 1..(l + 1) : i \in 1..l \/ i = l + 1
  OBVIOUS
<1>4. \A i \in 1..(l + 1) : new[i].no \in 1..Len(published) /\ published[new[i].no] = new[i]
  BY <1>1, <1>2, <1>3 DEF Sound
<1>5. ASSUME NEW i \in 1..(l + 1), NEW j \in 1..(l + 1), i < j PROVE new[i].no < new[j].no
  <2>1. i \in 1..l
    BY <1>5
  <2>2. CASE j \in 1..l
    BY <1>1, <1>2, <1>5, <2>1, <2>2 DEF Sound
  <2>3. CASE j = l + 1
    BY <1>1, <1>2, <2>1, <2>3
  <2> QED
    BY <1>3, <2>2, <2>3
<1>6. Sound(new)
  BY <1>2, <1>4, <1>5 DEF Sound
<1> QED
  BY <1>1, <1>2, <1>6, Zenon

\* What is known of a parser in the middle of a stream.
Told(got, p) == Sound(got) /\ Real(p.buf) /\ Past(got, p.buf)

\* One cell more: nothing is passed on, or the cell is a CRC and the frame it belongs to
\* is.
LEMMA ByteKeeps ==
    ASSUME NEW got \in Seq(TcpFrame), NEW p \in ParserOf(TcpCell), Told(got, p),
           NEW cell \in TcpCell,
           cell.of.no \in 1..Len(published), published[cell.of.no] = cell.of,
           \A i \in 1..Len(got) : got[i].no < cell.of.no,
           NEW garbage \in Nat, NEW q, q = process_byte(p, cell, garbage)
    PROVE  \/ q.out = p.out /\ Told(got, q)
           \/ /\ cell.part = "crc" /\ q.out = Append(p.out, cell.of)
              /\ Told(Append(got, cell.of), q)
<1>1. p.buf \in Seq(TcpCell)
  BY DEF ParserOf
<1>2. PICK b \in Seq(TcpCell) : b = Append(p.buf, cell)
  BY <1>1, AppendProperties
<1>3. PICK l \in Nat : l = Len(p.buf)
  BY <1>1, LenProperties
<1>4. Len(b) = l + 1 /\ b[l + 1] = cell /\ \A i \in 1..l : b[i] = p.buf[i]
  BY <1>1, <1>2, <1>3, AppendProperties
<1>5. \A i \in 1..(l + 1) : i \in 1..l \/ i = l + 1
  OBVIOUS
<1>6. Real(b)
  BY <1>3, <1>4, <1>5 DEF Real, Told
<1>7. Past(got, b)
  BY <1>3, <1>4, <1>5 DEF Past, Told
<1>8. Len(<<>>) = 0 /\ 1..0 = {}
  OBVIOUS
<1>9. ASSUME NEW any PROVE Real(<<>>) /\ Past(any, <<>>)
  BY <1>8 DEF Real, Past
<1>10. CASE q = p
  BY <1>10
<1>11. CASE q.buf = Append(p.buf, cell) /\ q.out = p.out
  BY <1>2, <1>6, <1>7, <1>11 DEF Told
<1>12. CASE q.buf = <<>> /\ q.out = p.out
  BY <1>9, <1>12 DEF Told
<1>13. CASE /\ Len(p.buf) = 3 /\ CrcMatches(Append(p.buf, cell), 1) /\ q.buf = <<>>
            /\ q.out = Append(p.out, Decoded(Append(p.buf, cell)))
  <2>1. b[4] = cell /\ b[3] \in TcpCell
    <3>1. l = 3
      BY <1>3, <1>13
    <3>2. 3 \in 1..Len(b) /\ l + 1 = 4
      BY <1>4, <3>1
    <3>3. b[3] \in TcpCell
      BY <3>2, ElementOfSeq
    <3> QED
      BY <1>4, <3>2, <3>3
  <2>2. /\ b[3].part = "body" /\ cell.part = "crc"
        /\ b[2].of.kind = b[3].of.kind /\ b[3].of = cell.of
    BY <1>2, <1>13, <2>1 DEF CrcMatches
  <2>3. cell.of \in TcpFrame
    BY CellNumbered
  <2>4. Decoded(b) = cell.of
    BY <2>2, <2>3 DEF Decoded, TcpFrame
  <2>5. Sound(Append(got, cell.of))
    BY <2>3, PassOn DEF Told
  <2> QED
    BY <1>2, <1>9, <1>13, <2>2, <2>4, <2>5 DEF Told
<1>14. \/ q = p
       \/ q.buf = Append(p.buf, cell) /\ q.out = p.out
       \/ q.buf = <<>> /\ q.out = p.out
       \/ /\ Len(p.buf) = 3 /\ CrcMatches(Append(p.buf, cell), 1) /\ q.buf = <<>>
          /\ q.out = Append(p.out, Decoded(Append(p.buf, cell)))
  BY ByteStep, SMTT(30)
<1> QED
  BY <1>10, <1>11, <1>12, <1>13, <1>14

\* What is known after the n-th cell of s, with r to come after s.
Good(got, p, s, n, r) == Told(got, p) /\ PastFrom(got, s, n) /\ Past(got, r)

\* A stream s of frames that were published, with r to come after it.
Stream(s, r) ==
    /\ Real(s)
    /\ InSequence(s)
    /\ \A i \in 1..Len(s), j \in 1..Len(r) : Follows(s[i], r[j])

\* One cell of a stream more.
LEMMA CellRead ==
    ASSUME NEW s \in Seq(TcpCell), NEW r \in Seq(TcpCell), Stream(s, r),
           NEW got \in Seq(TcpFrame), NEW p \in ParserOf(TcpCell), NEW m \in 1..Len(s),
           Good(got, p, s, m - 1, r),
           NEW garbage \in Nat, NEW q, q = process_byte(p, s[m], garbage)
    PROVE  \/ q.out = p.out /\ Good(got, q, s, m, r)
           \/ /\ s[m].of \in TcpFrame /\ q.out = Append(p.out, s[m].of)
              /\ Good(Append(got, s[m].of), q, s, m, r)
<1>1. PICK l \in Nat : l = Len(s)
  BY LenProperties
<1>2. PICK n \in Nat : n = m - 1
  BY <1>1
<1>3. m \in 1..l /\ m = n + 1
  BY <1>1, <1>2
<1>4. PICK cell \in TcpCell : cell = s[m]
  BY <1>1, <1>3, ElementOfSeq
<1>5. cell.of.no \in 1..Len(published) /\ published[cell.of.no] = cell.of
  BY <1>1, <1>3, <1>4 DEF Stream, Real
<1>6. \A i \in 1..Len(got) : got[i].no < cell.of.no
  BY <1>1, <1>3, <1>4 DEF Good, PastFrom
<1>7. q = process_byte(p, cell, garbage)
  BY <1>4
<1>8. Told(got, p)
  BY DEF Good
<1>9. \/ q.out = p.out /\ Told(got, q)
      \/ /\ cell.part = "crc" /\ q.out = Append(p.out, cell.of)
         /\ Told(Append(got, cell.of), q)
  BY <1>5, <1>6, <1>7, <1>8, ByteKeeps, SMTT(30)
<1>10. \A j \in (m + 1)..l : j \in (n + 1)..l /\ j \in 1..l /\ m < j
  BY <1>3
<1>11. PastFrom(got, s, m) /\ Past(got, r)
  BY <1>1, <1>2, <1>10 DEF Good, PastFrom
<1>12. cell.of \in TcpFrame /\ cell.of.no \in Nat
  BY CellNumbered
<1>13. ASSUME cell.part = "crc"
       PROVE  PastFrom(Append(got, cell.of), s, m) /\ Past(Append(got, cell.of), r)
  <2>1. PICK new \in Seq(TcpFrame) : new = Append(got, cell.of)
    BY <1>12, AppendProperties
  <2>2. PICK k \in Nat : k = Len(got)
    BY LenProperties
  <2>3. Len(new) = k + 1 /\ new[k + 1] = cell.of /\ \A i \in 1..k : new[i] = got[i]
    BY <1>12, <2>1, <2>2, AppendProperties
  <2>4. \A i \in 1..(k + 1) : i \in 1..k \/ i = k + 1
    OBVIOUS
  <2>5. \A j \in (m + 1)..l : cell.of.no < s[j].of.no
    BY <1>1, <1>3, <1>4, <1>10, <1>13 DEF Stream, InSequence, Follows
  <2>6. PastFrom(new, s, m)
    BY <1>1, <1>11, <2>2, <2>3, <2>4, <2>5 DEF PastFrom
  <2>7. \A j \in 1..Len(r) : cell.of.no < r[j].of.no
    BY <1>1, <1>3, <1>4, <1>13 DEF Stream, Follows
  <2>8. Past(new, r)
    BY <1>11, <2>2, <2>3, <2>4, <2>7 DEF Past
  <2> QED
    BY <2>1, <2>6, <2>8, Zenon
<1>14. \/ q.out = p.out /\ Good(got, q, s, m, r)
       \/ /\ cell.of \in TcpFrame /\ q.out = Append(p.out, cell.of)
          /\ Good(Append(got, cell.of), q, s, m, r)
  BY <1>9, <1>11, <1>12, <1>13, Zenon DEF Good
<1> QED
  BY <1>4, <1>14

\* A read of the first k cells.
LEMMA ReadOn ==
    ASSUME NEW s \in Seq(TcpCell), NEW r \in Seq(TcpCell), Stream(s, r),
           NEW got \in Seq(TcpFrame), NEW p \in ParserOf(TcpCell), p.out = <<>>,
           Good(got, p, s, 0, r),
           NEW k \in 1..Len(s), NEW garbage \in Nat,
           NEW q, q = push(p, SubSeq(s, 1, k), garbage)
    PROVE  /\ q \in ParserOf(TcpCell) /\ q.out \in Seq(TcpFrame)
           /\ Good(got \o q.out, q, s, k, r)
<1>1. PICK l \in Nat : l = Len(s)
  BY LenProperties
<1>2. \A i \in 1..k : i \in 1..Len(s) /\ s[i] \in TcpCell
  BY <1>1, ElementOfSeq
<1>3. k \in Nat /\ k <= l
  BY <1>1
<1>4. PICK t \in Seq(TcpCell) : t = SubSeq(s, 1, k)
  BY <1>2, <1>3, SubSeqProperties, 1 \in Int, k \in Int
<1>5. Len(t) = k /\ \A i \in 1..k : t[i] = s[i]
  <2>1. /\ Len(t) = IF 1 <= k THEN k - 1 + 1 ELSE 0
        /\ \A i \in 1..((k - 1) + 1) : t[i] = s[(1 + i) - 1]
    BY <1>2, <1>3, <1>4, SubSeqProperties, 1 \in Int, k \in Int
  <2>2. (k - 1) + 1 = k /\ \A i \in 1..k : (1 + i) - 1 = i
    BY <1>3
  <2> QED
    BY <1>1, <2>1, <2>2
<1>6. PICK g \in [0..k -> ParserOf(TcpCell)] : Reads(g, p, t, garbage) /\ q = g[k]
  <2>1. \E h \in [0..Len(t) -> ParserOf(TcpCell)] :
            Reads(h, p, t, garbage) /\ push(p, t, garbage) = h[Len(t)]
    <3>1. ReadsThrough(TcpCell, p, t, garbage)
      BY PushReads
    <3> QED
      BY <3>1, Zenon DEF ReadsThrough
  <2>2. Len(t) = k /\ push(p, t, garbage) = q
    BY <1>4, <1>5
  <2> QED
    BY <2>1, <2>2, Zenon
<1> DEFINE Fine(n) == g[n].out \in Seq(TcpFrame) /\ Good(got \o g[n].out, g[n], s, n, r)
           Bad == {n \in Nat : n <= k /\ ~Fine(n)}
<1>7. 0 \notin Bad
  <2>1. g[0] = p /\ got \o <<>> = got /\ <<>> \in Seq(TcpFrame)
    BY <1>6, ConcatEmptySeq, EmptySeq DEF Reads
  <2> QED
    BY <2>1
<1>8. ASSUME NEW n \in Nat, n \notin Bad PROVE n + 1 \notin Bad
  <2> SUFFICES ASSUME n + 1 <= k PROVE Fine(n + 1)
    OBVIOUS
  <2>1. Fine(n)
    BY <1>3, <1>8
  <2> HIDE DEF Bad
  <2>2. PICK o \in Seq(TcpFrame) : o = g[n].out
    BY <2>1
  <2>3. PICK old \in ParserOf(TcpCell) : old = g[n]
    <3>1. n \in 0..k
      BY <1>3
    <3> QED
      BY <1>6, <3>1
  <2>4. PICK m \in Nat : m = n + 1
    OBVIOUS
  <2>5. m \in 1..k /\ m - 1 = n /\ n + 1 <= Len(s)
    BY <1>1, <1>3, <2>4
  <2>6. PICK new \in ParserOf(TcpCell) : new = g[m]
    <3>1. m \in 0..k
      BY <2>5
    <3> QED
      BY <1>6, <3>1
  <2>7. new = process_byte(old, s[m], garbage)
    BY <1>5, <1>6, <2>3, <2>5, <2>6 DEF Reads
  <2>8. PICK had \in Seq(TcpFrame) : had = got \o o
    BY ConcatProperties
  <2>9. Good(had, old, s, m - 1, r)
    BY <2>1, <2>2, <2>3, <2>5, <2>8, Zenon
  <2>10. \/ new.out = old.out /\ Good(had, new, s, m, r)
         \/ /\ s[m].of \in TcpFrame /\ new.out = Append(old.out, s[m].of)
            /\ Good(Append(had, s[m].of), new, s, m, r)
    <3>1. m \in 1..Len(s)
      BY <1>1, <1>3, <2>5
    <3> QED
      BY <2>7, <2>9, <3>1, CellRead, SMTT(30)
  <2>11. CASE new.out = old.out /\ Good(had, new, s, m, r)
    <3>1. new.out = o
      BY <2>2, <2>3, <2>11
    <3> QED
      BY <2>4, <2>6, <2>8, <2>11, <3>1, Zenon
  <2>12. CASE /\ s[m].of \in TcpFrame /\ new.out = Append(old.out, s[m].of)
              /\ Good(Append(had, s[m].of), new, s, m, r)
    <3>1. PICK f \in TcpFrame : f = s[m].of
      BY <2>12
    <3>2. new.out = Append(o, f)
      BY <2>2, <2>3, <2>12, <3>1
    <3>3. got \o Append(o, f) = Append(got \o o, f)
      BY ConcatAppend
    <3>5. Append(o, f) \in Seq(TcpFrame)
      BY AppendProperties
    <3>4. Good(Append(had, f), new, s, m, r)
      BY <2>12, <3>1
    <3> QED
      BY <2>4, <2>6, <2>8, <3>2, <3>3, <3>4, <3>5, Zenon
  <2> QED
    BY <2>10, <2>11, <2>12
<1>9. Bad = {}
  <2>1. Bad \subseteq Nat
    OBVIOUS
  <2> HIDE DEF Bad
  <2> QED
    BY <1>7, <1>8, <2>1, NoLeastExample
<1>10. Fine(k)
  BY <1>3, <1>9
<1>11. q \in ParserOf(TcpCell)
  <2>1. k \in 0..k
    BY <1>3
  <2> QED
    BY <1>6, <2>1
<1> QED
  BY <1>6, <1>10, <1>11

-----------------------------------------------------------------------------
(* The invariant of the TCP feed *)

\* It holds of a server and a client that have not been started.
LEMMA TcpStarts == TcpInit => TcpIInv
<1> SUFFICES ASSUME TcpInit PROVE TcpIInv
  OBVIOUS
<1>1. <<>> \in Seq(Cell(TcpFrame)) /\ <<>> \in Seq(TcpFrame) /\ Len(<<>>) = 0 /\ 1..0 = {}
  OBVIOUS
<1>2. parser \in ParserOf(Cell(TcpFrame)) /\ parser.out = <<>> /\ parser.buf = <<>>
  BY NewParserIs DEF TcpInit, NewParser
<1>3. TcpShape
  BY <1>1, <1>2, TcpAssumption DEF TcpInit, TcpShape
<1>4. ClientPlace
  BY DEF TcpInit, ClientPlace, Reading
<1>5. ASSUME NEW s PROVE Real(<<>>) /\ InSequence(<<>>) /\ Past(s, <<>>) /\ Sound(<<>>)
  BY <1>1 DEF Real, InSequence, Past, Sound
<1>6. ASSUME NEW c \in Conn PROVE ConnHolds(c)
  <2>1. ring[c] = <<>> /\ chan[c] = <<>> /\ client.conn = NoConn /\ ~cliEnd[c] /\ c # NoConn
    BY TcpAssumption DEF TcpInit
  <2> QED
    BY <1>1, <1>5, <2>1, TcpAssumption DEF ConnHolds
<1> QED
  BY <1>2, <1>3, <1>4, <1>5, <1>6 DEF TcpIInv, TcpInit

\* What most steps do to a connection: its sequences stay or are emptied.
Quiet(c) ==
    /\ ring'[c] \in {ring[c], <<>>}
    /\ chan'[c] \in {chan[c], <<>>}
    /\ srvEnd'[c] # "accepted" => ring'[c] = <<>>
    /\ ~cliEnd'[c] => chan'[c] = <<>>
    /\ cliEnd'[c] <=> client'.conn = c
    /\ client'.conn = c /\ client.conn # c => ring'[c] = <<>> /\ chan'[c] = <<>>

\* Such a step keeps what is known of the connection.
LEMMA QuietHolds ==
    ASSUME NEW c \in Conn, ConnHolds(c), Quiet(c), UNCHANGED <<published, received>>
    PROVE  ConnHolds(c)'
<1>1. Len(<<>>) = 0 /\ 1..0 = {}
  OBVIOUS
<1>5. Len(ring'[c]) <= ring_capacity /\ Len(chan'[c]) <= ChanCapacity
  BY <1>1, TcpAssumption DEF ConnHolds, Quiet
<1>6. Real(ring[c])' /\ Real(chan[c])'
  BY <1>1 DEF ConnHolds, Quiet, Real
<1>7. InSequence(ring[c])' /\ InSequence(chan[c])'
  BY <1>1 DEF ConnHolds, Quiet, InSequence
<1>3. \A i \in 1..Len(chan'[c]), j \in 1..Len(ring'[c]) : Follows(chan'[c][i], ring'[c][j])
  BY <1>1 DEF ConnHolds, Quiet
<1>4. client'.conn = c => Past(received, chan[c])' /\ Past(received, ring[c])'
  BY <1>1 DEF ConnHolds, Quiet, Past
<1> QED
  BY <1>3, <1>4, <1>5, <1>6, <1>7 DEF ConnHolds, Quiet

\* A step that is quiet for every connection keeps the invariant.
LEMMA QuietStays ==
    ASSUME TcpIInv, TcpShape', ClientPlace', UNCHANGED <<published, received>>,
           parser' = parser \/ parser' = NewParser, \A c \in Conn : Quiet(c)
    PROVE  TcpIInv'
<1>1. \A c \in Conn : ConnHolds(c)'
  BY QuietHolds DEF TcpIInv
<1>2. Sound(received)'
  BY DEF TcpIInv, Sound
<1>3. Real(parser.buf)' /\ Past(received, parser.buf)'
  <2>1. Len(<<>>) = 0 /\ 1..0 = {}
    OBVIOUS
  <2>2. parser'.buf = parser.buf \/ parser'.buf = <<>>
    BY DEF NewParser
  <2> QED
    BY <2>1, <2>2 DEF TcpIInv, Real, Past
<1> QED
  BY <1>1, <1>2, <1>3 DEF TcpIInv

\* Steps that leave the data alone, and the ends of the connections.
LEMMA ThreadStays ==
    ASSUME TcpIInv, UNCHANGED <<wire, data, published, reader>>,
           server' \in [running : BOOLEAN, alive : BOOLEAN, starts : 0..MaxServers],
           client' \in [running : BOOLEAN,
                   pc : {"off", "connect", "wait", "read", "burst", "sleep", "ended"},
                   conn : Conn \cup {NoConn}, attempts : 0..(max_reconnect_attempts + 1),
                   starts : 0..MaxClients],
           ClientPlace', client'.conn = client.conn
    PROVE  TcpIInv'
<1>1. TcpShape'
  BY DEF TcpIInv, TcpShape, wire, data, reader
<1>2. ASSUME NEW c \in Conn PROVE Quiet(c)
  BY DEF TcpIInv, ConnHolds, Quiet, wire, data
<1> QED
  BY <1>1, <1>2, QuietStays DEF reader

\* The server closes its end of some connections.
LEMMA ServerClosesStays ==
    ASSUME TcpIInv, NEW cs, CloseServerEnds(cs), listening' \subseteq 1..MaxServers,
           server' \in [running : BOOLEAN, alive : BOOLEAN, starts : 0..MaxServers],
           UNCHANGED <<cliEnd, chan, published, client, reader>>
    PROVE  TcpIInv'
<1>4. <<>> \in Seq(Cell(TcpFrame)) /\ 0 \in 0..MaxServers
  BY EmptySeq, TcpAssumption
<1>5. /\ listener' \in [Conn -> 0..MaxServers]
      /\ srvEnd' \in [Conn -> {"closed", "backlog", "left", "accepted"}]
      /\ ring' \in [Conn -> Seq(Cell(TcpFrame))]
  BY <1>4 DEF TcpIInv, TcpShape, CloseServerEnds
<1>1. TcpShape'
  BY <1>5 DEF TcpIInv, TcpShape, reader
<1>2. ClientPlace'
  BY DEF TcpIInv, ClientPlace, Reading
<1>3. ASSUME NEW c \in Conn PROVE Quiet(c)
  BY DEF TcpIInv, ConnHolds, Quiet, CloseServerEnds
<1> QED
  BY <1>1, <1>2, <1>3, QuietStays DEF reader

\* The client closes its end of its connection.
LEMMA ClientClosesStays ==
    ASSUME TcpIInv, CloseClientEnd, parser' = parser \/ parser' = NewParser,
           client' = [client EXCEPT !.conn = NoConn, !.pc = client'.pc],
           \/ client'.pc = "ended" /\ Reading
           \/ client'.pc \in {"connect", "sleep"} /\ client.pc \in {"wait", "read", "burst"},
           UNCHANGED <<server, listening, listener, srvEnd, ring, published, received>>
    PROVE  TcpIInv'
<1>1. /\ client' \in [running : BOOLEAN,
                   pc : {"off", "connect", "wait", "read", "burst", "sleep", "ended"},
                   conn : Conn \cup {NoConn}, attempts : 0..(max_reconnect_attempts + 1),
                   starts : 0..MaxClients]
      /\ client'.conn = NoConn /\ client'.attempts = client.attempts
  BY DEF TcpIInv, TcpShape
<1>2. <<>> \in Seq(Cell(TcpFrame))
  BY EmptySeq
<1>3. parser' \in ParserOf(Cell(TcpFrame)) /\ parser'.out = <<>>
  BY NewParserIs DEF TcpIInv, TcpShape, NewParser
<1>4. cliEnd' \in [Conn -> BOOLEAN] /\ chan' \in [Conn -> Seq(Cell(TcpFrame))]
  BY <1>2 DEF TcpIInv, TcpShape, CloseClientEnd
<1>5. TcpShape'
  BY <1>1, <1>3, <1>4 DEF TcpIInv, TcpShape
<1>6. ClientPlace'
  <2>1. client'.pc \in {"ended", "connect", "sleep"}
    OBVIOUS
  <2>2. client'.pc # "ended" => client.attempts <= max_reconnect_attempts
    BY DEF TcpIInv, ClientPlace
  <2> QED
    BY <1>1, <2>1, <2>2 DEF ClientPlace, Reading
<1>7. ASSUME NEW c \in Conn PROVE Quiet(c)
  BY <1>1, TcpAssumption DEF TcpIInv, ConnHolds, Quiet, CloseClientEnd
<1> QED
  BY <1>5, <1>6, <1>7, QuietStays

\* A connection that neither end holds is empty, so it can be used again.
LEMMA ConnectStays ==
    ASSUME TcpIInv, NEW c \in Conn, NEW l \in listening, ConnectInProgress(c, l)
    PROVE  TcpIInv'
<1>1. /\ client' \in [running : BOOLEAN,
                   pc : {"off", "connect", "wait", "read", "burst", "sleep", "ended"},
                   conn : Conn \cup {NoConn}, attempts : 0..(max_reconnect_attempts + 1),
                   starts : 0..MaxClients]
      /\ client'.conn = c /\ client'.pc = "wait" /\ client'.attempts = 0
  <2>1. 0 \in 0..(max_reconnect_attempts + 1)
    BY TcpAssumption
  <2>2. client' = [client EXCEPT !.pc = "wait", !.conn = c, !.attempts = 0]
    BY DEF ConnectInProgress
  <2> QED
    BY <2>1, <2>2 DEF TcpIInv, TcpShape
<1>2. c # NoConn /\ max_reconnect_attempts \in Nat
  BY TcpAssumption
<1>3. /\ listener' = [listener EXCEPT ![c] = l] /\ srvEnd' = [srvEnd EXCEPT ![c] = "backlog"]
      /\ cliEnd' = [cliEnd EXCEPT ![c] = TRUE] /\ srvEnd[c] = "closed" /\ ~cliEnd[c]
      /\ client.pc = "connect"
      /\ UNCHANGED <<listening, data, server, published, reader>>
  BY <1>2 DEF ConnectInProgress, Free
<1>4. /\ listener' \in [Conn -> 0..MaxServers]
      /\ srvEnd' \in [Conn -> {"closed", "backlog", "left", "accepted"}]
      /\ cliEnd' \in [Conn -> BOOLEAN]
  <2>1. l \in 0..MaxServers
    BY TcpAssumption DEF TcpIInv, TcpShape
  <2> QED
    BY <1>3, <2>1 DEF TcpIInv, TcpShape
<1>5. TcpShape'
  BY <1>1, <1>3, <1>4 DEF TcpIInv, TcpShape, data, reader
<1>6. ClientPlace'
  BY <1>1, <1>2 DEF TcpIInv, ClientPlace, Reading
<1>7. client.conn = NoConn
  BY <1>3 DEF TcpIInv, ClientPlace
<1>8. ASSUME NEW d \in Conn PROVE Quiet(d)
  <2>1. ConnHolds(d) /\ d # NoConn
    BY TcpAssumption DEF TcpIInv
  <2>2. CASE d = c
    <3>1. cliEnd'[c] /\ srvEnd'[c] = "backlog" /\ ring[c] = <<>> /\ chan[c] = <<>>
      BY <1>3, <2>1, <2>2 DEF ConnHolds, TcpIInv, TcpShape
    <3> QED
      BY <1>1, <1>3, <2>2, <3>1 DEF Quiet, data
  <2>3. CASE d # c
    <3>1. cliEnd'[d] = cliEnd[d] /\ srvEnd'[d] = srvEnd[d]
      BY <1>3, <2>3 DEF TcpIInv, TcpShape
    <3> QED
      BY <1>1, <1>3, <1>7, <2>1, <2>3, <3>1 DEF ConnHolds, Quiet, data
  <2> QED
    BY <2>2, <2>3
<1> QED
  BY <1>3, <1>5, <1>6, <1>8, QuietStays DEF reader

\* The lesser of two numbers.
LEMMA MinOfTwo ==
    ASSUME NEW a \in Nat, NEW b \in Nat, NEW m, m = Min({a, b})
    PROVE  m \in Nat /\ m <= a /\ m <= b /\ (m = a \/ m = b)
<1>1. \E x \in {a, b} : \A y \in {a, b} : x <= y
  OBVIOUS
<1>2. m \in {a, b} /\ \A y \in {a, b} : m <= y
  BY <1>1 DEF Min
<1> QED
  BY <1>2

\* r2 is r and m cells of a frame, the fourth of which is the CRC.
Grown(r2, r, f, m) ==
    /\ r2 \in Seq(TcpCell)
    /\ Len(r2) = Len(r) + m
    /\ \A i \in 1..Len(r) : r2[i] = r[i]
    /\ \A i \in (Len(r) + 1)..(Len(r) + m) :
           r2[i].of = f /\ (r2[i].part = "crc" => i = Len(r) + 4)

\* What a ring holds after it took the first m cells of a frame.
LEMMA RingGrows ==
    ASSUME NEW r \in Seq(TcpCell), NEW f \in TcpFrame, NEW m \in 0..4
    PROVE  Grown(r \o SubSeq(encode(f), 1, m), r, f, m)
<1>1. \A i \in 1..m : i \in 1..4
  OBVIOUS
<1>2. \A i \in 1..4 : encode(f)[i] \in TcpCell /\ encode(f)[i].of = f
                      /\ (encode(f)[i].part = "crc" => i = 4)
  BY DEF encode, TcpCell, Cell, Part
<1>3. PICK cells : cells = encode(f)
  OBVIOUS
<1>4. \A i \in 1..m : cells[i] \in TcpCell /\ cells[i].of = f /\ (cells[i].part = "crc" => i = 4)
  BY <1>1, <1>2, <1>3
<1>5. PICK t \in Seq(TcpCell) : t = SubSeq(cells, 1, m)
  BY <1>4, SubSeqProperties, 1 \in Int, m \in Int
<1>6. Len(t) = m /\ \A i \in 1..m : t[i] = cells[i]
  <2>1. /\ Len(t) = IF 1 <= m THEN m - 1 + 1 ELSE 0
        /\ \A i \in 1..((m - 1) + 1) : t[i] = cells[(1 + i) - 1]
    BY <1>4, <1>5, SubSeqProperties, 1 \in Int, m \in Int
  <2>2. (m - 1) + 1 = m /\ \A i \in 1..m : (1 + i) - 1 = i
    OBVIOUS
  <2> QED
    BY <2>1, <2>2
<1>7. PICK l \in Nat : l = Len(r)
  BY LenProperties
<1>8. PICK r2 \in Seq(TcpCell) : r2 = r \o t
  BY ConcatProperties
<1>9. /\ Len(r2) = l + m
      /\ \A i \in 1..(l + m) : r2[i] = IF i <= l THEN r[i] ELSE t[i - l]
  BY <1>6, <1>7, <1>8, ConcatProperties
<1>10. \A i \in 1..l : r2[i] = r[i]
  BY <1>9
<1>11. ASSUME NEW i \in (l + 1)..(l + m)
       PROVE  r2[i].of = f /\ (r2[i].part = "crc" => i = l + 4)
  <2>1. PICK j \in 1..m : j = i - l
    OBVIOUS
  <2>2. r2[i] = t[j]
    BY <1>9, <2>1
  <2> QED
    BY <1>4, <1>6, <2>1, <2>2
<1>12. r2 = r \o SubSeq(encode(f), 1, m)
  BY <1>3, <1>5, <1>8
<1>13. Grown(r2, r, f, m)
  BY <1>7, <1>9, <1>10, <1>11 DEF Grown
<1> QED
  BY <1>12, <1>13, Zenon

\* A frame of which a connection's ring takes m cells.
LEMMA TakesCells ==
    ASSUME TcpIInv, NEW c \in Conn, NEW f \in TcpFrame, f.no = Len(published) + 1,
           published' = Append(published, f), NEW m \in 0..4,
           Len(ring[c]) + m <= ring_capacity, srvEnd[c] = "accepted" \/ m = 0,
           ring'[c] = ring[c] \o SubSeq(encode(f), 1, m),
           UNCHANGED <<srvEnd, cliEnd, chan, client, received>>
    PROVE  ConnHolds(c)'
<1>1. PICK r \in Seq(TcpCell), s \in Seq(TcpCell) : r = ring[c] /\ s = chan[c]
  BY DEF TcpIInv, TcpShape, TcpCell
<1>0. Grown(ring'[c], r, f, m)
  <2>1. Grown(r \o SubSeq(encode(f), 1, m), r, f, m)
    BY RingGrows
  <2> QED
    BY <1>1, <2>1
<1>2. PICK r2 \in Seq(TcpCell) : r2 = ring'[c] /\ Grown(r2, r, f, m)
  BY <1>0 DEF Grown
<1>3. PICK l \in Nat, k \in Nat, n \in Nat : l = Len(r) /\ k = Len(s) /\ n = Len(published)
  BY <1>1, LenProperties DEF TcpIInv, TcpShape
<1>4. /\ Len(r2) = l + m
      /\ \A i \in 1..l : r2[i] = r[i]
      /\ \A i \in (l + 1)..(l + m) : r2[i].of = f /\ (r2[i].part = "crc" => i = l + 4)
  BY <1>2, <1>3 DEF Grown
<1>5. \A i \in 1..(l + m) : i \in 1..l \/ i \in (l + 1)..(l + m)
  OBVIOUS
<1>6. /\ Len(published') = n + 1 /\ published'[n + 1] = f /\ f.no = n + 1
      /\ \A i \in 1..n : published'[i] = published[i] /\ i \in 1..(n + 1)
  BY <1>3, AppendProperties, SMTT(30) DEF TcpIInv, TcpShape
<1>7. ConnHolds(c)
  BY DEF TcpIInv
<1>8. /\ \A i \in 1..l : r[i].of.no \in 1..n /\ published[r[i].of.no] = r[i].of
      /\ \A i \in 1..k : s[i].of.no \in 1..n /\ published[s[i].of.no] = s[i].of
  BY <1>1, <1>3, <1>7 DEF ConnHolds, Real
<1>9. Real(chan[c])'
  BY <1>1, <1>3, <1>6, <1>8 DEF Real
<1>10. Real(ring[c])'
  <2>1. ASSUME NEW i \in 1..l
        PROVE  r2[i].of.no \in 1..(n + 1) /\ published'[r2[i].of.no] = r2[i].of
    <3>1. r2[i] = r[i] /\ r[i].of.no \in 1..n /\ published[r[i].of.no] = r[i].of
      BY <1>4, <1>8
    <3> QED
      BY <1>6, <3>1
  <2>2. \A i \in (l + 1)..(l + m) :
            r2[i].of.no \in 1..(n + 1) /\ published'[r2[i].of.no] = r2[i].of
    BY <1>4, <1>6
  <2> QED
    BY <1>2, <1>4, <1>5, <1>6, <2>1, <2>2 DEF Real
<1>11. InSequence(r2)
  <2> SUFFICES ASSUME NEW i \in 1..(l + m), NEW j \in 1..(l + m), i < j
               PROVE  Follows(r2[i], r2[j])
    BY <1>4 DEF InSequence
  <2>1. CASE j \in 1..l
    <3>3. i \in 1..l
      BY <2>1
    <3>4. InSequence(r)
      BY <1>1, <1>7 DEF ConnHolds
    <3>1. i \in 1..l /\ Follows(r[i], r[j])
      BY <1>3, <2>1, <3>3, <3>4 DEF InSequence
    <3>2. r2[i] = r[i] /\ r2[j] = r[j]
      BY <1>4, <2>1, <3>1
    <3> QED
      BY <3>1, <3>2, Zenon
  <2>2. CASE i \in 1..l /\ j \in (l + 1)..(l + m)
    <3>1. r2[i] = r[i] /\ r[i].of.no \in 1..n /\ r2[j].of = f
      BY <1>4, <1>8, <2>2
    <3> QED
      BY <1>6, <3>1 DEF Follows
  <2>3. CASE i \in (l + 1)..(l + m) /\ j \in (l + 1)..(l + m)
    <3>1. i # l + 4
      BY <2>3
    <3> QED
      BY <1>4, <1>6, <2>3, <3>1 DEF Follows
  <2> QED
    BY <1>5, <2>1, <2>2, <2>3
<1>12. ASSUME NEW i \in 1..k, NEW j \in 1..(l + m) PROVE Follows(s[i], r2[j])
  <2>1. CASE j \in 1..l
    BY <1>1, <1>3, <1>4, <1>7, <2>1 DEF ConnHolds
  <2>2. CASE j \in (l + 1)..(l + m)
    BY <1>4, <1>6, <1>8, <2>2 DEF Follows
  <2> QED
    BY <1>5, <2>1, <2>2
<1>13. ASSUME client.conn = c PROVE Past(received, r2)
  <2>1. \A i \in 1..Len(received) : received[i].no \in 1..n
    BY <1>3 DEF TcpIInv, Sound
  <2>2. ASSUME NEW i \in 1..Len(received), NEW j \in 1..(l + m)
        PROVE  received[i].no < r2[j].of.no
    <3>1. CASE j \in 1..l
      BY <1>1, <1>3, <1>4, <1>7, <1>13, <3>1, SMTT(30) DEF ConnHolds, Past
    <3>2. CASE j \in (l + 1)..(l + m)
      BY <1>4, <1>6, <2>1, <3>2, SMTT(30)
    <3> QED
      BY <1>5, <3>1, <3>2
  <2> QED
    BY <1>4, <2>2 DEF Past
<1>14. srvEnd[c] # "accepted" => r2 = <<>>
  <2> SUFFICES ASSUME srvEnd[c] # "accepted" PROVE r2 = <<>>
    OBVIOUS
  <2>1. Len(r2) = 0
    BY <1>1, <1>3, <1>4, <1>7 DEF ConnHolds
  <2> QED
    BY <2>1, EmptySeq
<1>15. Len(r2) <= ring_capacity
  BY <1>1, <1>3, <1>4
<1>16. /\ Len(chan[c]) <= ChanCapacity /\ (~cliEnd[c] => chan[c] = <<>>)
       /\ (cliEnd[c] <=> client.conn = c)
       /\ InSequence(chan[c]) /\ (client.conn = c => Past(received, chan[c]))
  BY <1>7 DEF ConnHolds
<1>17. InSequence(ring[c])' /\ (client.conn = c => Past(received, ring[c])')
  BY <1>2, <1>11, <1>13 DEF InSequence, Past
<1>18. \A i \in 1..Len(chan[c]), j \in 1..Len(ring'[c]) : Follows(chan[c][i], ring'[c][j])
  BY <1>1, <1>2, <1>3, <1>4, <1>12
<1>19. InSequence(chan[c])' /\ (client.conn = c => Past(received, chan[c])')
  BY <1>16 DEF InSequence, Past
<1> QED
  BY <1>2, <1>9, <1>10, <1>14, <1>15, <1>16, <1>17, <1>18, <1>19 DEF ConnHolds

\* A publish gives every connection what fits of the frame.
LEMMA TcpPublishStays ==
    ASSUME TcpIInv, NEW kind \in TcpKinds, TcpPublish(kind)
    PROVE  TcpIInv'
<1>1. PICK n \in Nat : n = Len(published)
  BY LenProperties DEF TcpIInv, TcpShape
<1>2. n < MaxFrames /\ MaxFrames \in Nat
  BY <1>1, TcpAssumption DEF TcpPublish
<1>3. PICK f \in TcpFrame : f = [no |-> n + 1, kind |-> kind]
  <2>1. n + 1 \in 1..MaxFrames
    BY <1>2
  <2> QED
    BY <2>1 DEF TcpFrame
<1>4. f.no = n + 1 /\ Len(encode(f)) = 4 /\ encode(f)[1].of = f
  <2>1. encode(f) \in [1..4 -> {encode(f)[i] : i \in 1..4}]
    BY DEF encode
  <2>2. Len(encode(f)) = 4
    BY <2>1, FunctionIsSeq
  <2> QED
    BY <1>3, <2>2 DEF encode
<1>5. published' = Append(published, f)
  BY <1>1, <1>3, <1>4 DEF TcpPublish
<1> DEFINE fits(c) == Min({4, ring_capacity - Len(ring[c])})
<1>6. ASSUME NEW c \in Conn
      PROVE  ring'[c] = IF c \in clients THEN ring[c] \o SubSeq(encode(f), 1, fits(c))
                                         ELSE ring[c]
  BY <1>1, <1>3, <1>4 DEF TcpPublish
<1>7. ASSUME NEW c \in Conn PROVE fits(c) \in 0..4 /\ Len(ring[c]) + fits(c) <= ring_capacity
  <2>1. PICK l \in Nat : l = Len(ring[c])
    BY LenProperties DEF TcpIInv, TcpShape
  <2>2. ring_capacity \in Nat /\ l <= ring_capacity
    BY <2>1, TcpAssumption DEF TcpIInv, ConnHolds
  <2>3. PICK room \in Nat : room = ring_capacity - l
    BY <2>2
  <2>4. PICK m : m = Min({4, room})
    OBVIOUS
  <2>5. m \in Nat /\ m <= 4 /\ m <= room
    BY <2>4, MinOfTwo
  <2>6. m \in 0..4 /\ l + m <= ring_capacity
    BY <2>2, <2>3, <2>5
  <2> QED
    BY <2>1, <2>3, <2>4, <2>6, Zenon
<1> HIDE DEF fits
<1>8. UNCHANGED <<server, wire, chan, client, reader>>
  BY DEF TcpPublish
<1>9. ASSUME NEW c \in Conn
      PROVE  ConnHolds(c)' /\ ring'[c] \in Seq(TcpCell)
  <2>1. PICK m \in 0..4 :
            /\ ring'[c] = ring[c] \o SubSeq(encode(f), 1, m)
            /\ Len(ring[c]) + m <= ring_capacity
            /\ srvEnd[c] = "accepted" \/ m = 0
    <3>1. CASE c \in clients
      BY <1>6, <1>7, <3>1 DEF clients
    <3>2. CASE c \notin clients
      <4>1. SubSeq(encode(f), 1, 0) = <<>>
        BY SubSeqEmpty, 1 \in Int, 0 \in Int, 0 < 1
      <4>2. ring[c] \in Seq(Cell(TcpFrame))
        BY DEF TcpIInv, TcpShape
      <4>3. ring[c] \o <<>> = ring[c] /\ Len(ring[c]) \in Nat
        BY <4>2, ConcatEmptySeq, LenProperties
      <4>4. Len(ring[c]) + 0 <= ring_capacity
        BY <4>3 DEF TcpIInv, ConnHolds
      <4>5. ring'[c] = ring[c] \o SubSeq(encode(f), 1, 0)
        BY <1>6, <3>2, <4>1, <4>3
      <4> QED
        BY <4>4, <4>5
    <3> QED
      BY <3>1, <3>2
  <2>2. ConnHolds(c)'
    BY <1>1, <1>4, <1>5, <1>8, <2>1, TakesCells DEF wire, reader
  <2>3. ring[c] \in Seq(TcpCell)
    BY DEF TcpIInv, TcpShape, TcpCell
  <2>4. Grown(ring[c] \o SubSeq(encode(f), 1, m), ring[c], f, m)
    BY <2>3, RingGrows
  <2> QED
    BY <2>1, <2>2, <2>4 DEF Grown
<1>10. /\ published' \in Seq(TcpFrame) /\ Len(published') = n + 1
       /\ \A i \in 1..n : published'[i] = published[i] /\ i \in 1..(n + 1)
  BY <1>1, <1>5, AppendProperties DEF TcpIInv, TcpShape
<1>11. ring' \in [Conn -> Seq(Cell(TcpFrame))]
  BY <1>9 DEF TcpPublish, TcpCell
<1>12. TcpShape'
  BY <1>2, <1>8, <1>10, <1>11, SMTT(30) DEF TcpIInv, TcpShape, wire, reader
<1>13. ClientPlace'
  BY <1>8 DEF TcpIInv, ClientPlace, Reading
<1>14. Sound(received)'
  <2>1. ASSUME NEW i \in 1..Len(received)
        PROVE  /\ received[i].no \in 1..(n + 1)
               /\ published'[received[i].no] = received[i]
    <3>1. received[i].no \in 1..n /\ published[received[i].no] = received[i]
      BY <1>1 DEF TcpIInv, Sound
    <3> QED
      BY <1>10, <3>1
  <2> QED
    BY <1>8, <1>10, <2>1 DEF TcpIInv, Sound, reader
<1>15. Real(parser.buf)' /\ Past(received, parser.buf)'
  <2>1. ASSUME NEW i \in 1..Len(parser.buf)
        PROVE  /\ parser.buf[i].of.no \in 1..(n + 1)
               /\ published'[parser.buf[i].of.no] = parser.buf[i].of
    <3>1. /\ parser.buf[i].of.no \in 1..n
          /\ published[parser.buf[i].of.no] = parser.buf[i].of
      BY <1>1 DEF TcpIInv, Real
    <3> QED
      BY <1>10, <3>1
  <2>2. Real(parser.buf)'
    BY <1>8, <1>10, <2>1 DEF Real, reader
  <2> QED
    BY <1>8, <2>2 DEF TcpIInv, Past, reader
<1> QED
  BY <1>9, <1>12, <1>13, <1>14, <1>15 DEF TcpIInv

\* A part of a sequence, by its cells.
LEMMA PartOf ==
    ASSUME NEW s \in Seq(TcpCell), NEW n \in Nat, NEW m \in Nat, m <= Len(s), n <= m
    PROVE  /\ SubSeq(s, n + 1, m) \in Seq(TcpCell) /\ Len(SubSeq(s, n + 1, m)) = m - n
           /\ \A i \in 1..(m - n) : SubSeq(s, n + 1, m)[i] = s[n + i]
<1>1. PICK l \in Nat : l = Len(s)
  BY LenProperties
<1>2. PICK a \in Nat : a = n + 1
  OBVIOUS
<1>3. \A i \in a..m : i \in 1..Len(s)
  BY <1>1, <1>2
<1>4. \A i \in a..m : s[i] \in TcpCell
  BY <1>3, ElementOfSeq
<1>5. PICK t \in Seq(TcpCell) : t = SubSeq(s, a, m)
  BY <1>4, SubSeqProperties, a \in Int, m \in Int
<1>6. /\ Len(t) = IF a <= m THEN m - a + 1 ELSE 0
      /\ \A i \in 1..((m - a) + 1) : t[i] = s[(a + i) - 1]
  BY <1>4, <1>5, SubSeqProperties, a \in Int, m \in Int
<1>7. Len(t) = m - n
  BY <1>2, <1>6
<1>8. (m - a) + 1 = m - n /\ \A i \in 1..(m - n) : (a + i) - 1 = n + i
  BY <1>2
<1>9. \A i \in 1..(m - n) : t[i] = s[n + i]
  BY <1>6, <1>8
<1> QED
  BY <1>2, <1>5, <1>7, <1>9, Zenon

\* The first n cells leave r for s, which keeps the first t of them; the rest is lost.
Moved(r2, s2, r, s, n, t) ==
    /\ r2 \in Seq(TcpCell) /\ s2 \in Seq(TcpCell)
    /\ n \in Nat /\ t \in Nat /\ t <= n /\ n <= Len(r)
    /\ Len(r2) = Len(r) - n /\ \A i \in 1..Len(r2) : r2[i] = r[n + i]
    /\ Len(s2) = Len(s) + t
    /\ \A i \in 1..Len(s) : s2[i] = s[i]
    /\ \A i \in (Len(s) + 1)..(Len(s) + t) : s2[i] = r[i - Len(s)]

\* What moves stays in sequence.
LEMMA MovedHolds ==
    ASSUME TcpIInv, NEW c \in Conn, NEW n, NEW t,
           Moved(ring'[c], chan'[c], ring[c], chan[c], n, t),
           Len(chan[c]) + t <= ChanCapacity, srvEnd[c] = "accepted", cliEnd[c] \/ t = 0,
           UNCHANGED <<srvEnd, cliEnd, published, client, received>>
    PROVE  ConnHolds(c)'
<1>1. PICK r \in Seq(TcpCell), s \in Seq(TcpCell) : r = ring[c] /\ s = chan[c]
  BY DEF TcpIInv, TcpShape, TcpCell
<1>2. PICK r2 \in Seq(TcpCell), s2 \in Seq(TcpCell) :
          r2 = ring'[c] /\ s2 = chan'[c] /\ Moved(r2, s2, r, s, n, t)
  <2>1. ring'[c] \in Seq(TcpCell) /\ chan'[c] \in Seq(TcpCell)
    BY DEF Moved
  <2> QED
    BY <1>1, <2>1, Zenon
<1>3. PICK l \in Nat, k \in Nat : l = Len(r) /\ k = Len(s)
  BY LenProperties
<1>4. /\ n \in Nat /\ t \in Nat /\ t <= n /\ n <= l
      /\ Len(r2) = l - n /\ \A i \in 1..(l - n) : r2[i] = r[n + i]
      /\ Len(s2) = k + t
      /\ \A i \in 1..k : s2[i] = s[i]
      /\ \A i \in (k + 1)..(k + t) : s2[i] = r[i - k]
  BY <1>2, <1>3 DEF Moved
<1>5. ConnHolds(c)
  BY DEF TcpIInv
<1>6. Real(r) /\ Real(s) /\ InSequence(r) /\ InSequence(s)
      /\ (\A i \in 1..k, j \in 1..l : Follows(s[i], r[j]))
      /\ Len(r) <= ring_capacity
  BY <1>1, <1>3, <1>5 DEF ConnHolds
<1>7. \A i \in 1..(l - n) : n + i \in 1..l
  BY <1>3, <1>4
<1>8. \A i \in (k + 1)..(k + t) : i - k \in 1..l /\ i - k \in 1..n
  BY <1>3, <1>4
<1>9. \A i \in 1..(k + t) : i \in 1..k \/ i \in (k + 1)..(k + t)
  BY <1>4
<1>10. Real(r2)
  BY <1>3, <1>4, <1>6, <1>7 DEF Real
<1>11. Real(s2)
  <2>1. \A i \in 1..k : s2[i].of.no \in 1..Len(published) /\ published[s2[i].of.no] = s2[i].of
    BY <1>3, <1>4, <1>6 DEF Real
  <2>2. ASSUME NEW i \in (k + 1)..(k + t)
        PROVE  s2[i].of.no \in 1..Len(published) /\ published[s2[i].of.no] = s2[i].of
    <3>1. s2[i] = r[i - k] /\ i - k \in 1..l
      BY <1>4, <1>8
    <3>2. r[i - k].of.no \in 1..Len(published) /\ published[r[i - k].of.no] = r[i - k].of
      BY <1>3, <1>6, <3>1 DEF Real
    <3> QED
      BY <3>1, <3>2, Zenon
  <2> QED
    BY <1>4, <1>9, <2>1, <2>2 DEF Real
<1>12. InSequence(r2)
  <2> SUFFICES ASSUME NEW i \in 1..(l - n), NEW j \in 1..(l - n), i < j
               PROVE  Follows(r2[i], r2[j])
    BY <1>4 DEF InSequence
  <2>1. n + i \in 1..l /\ n + j \in 1..l /\ n + i < n + j
    BY <1>4, <1>7
  <2>2. Follows(r[n + i], r[n + j])
    BY <1>3, <1>6, <2>1 DEF InSequence
  <2> QED
    BY <1>4, <2>2
<1>13. InSequence(s2)
  <2> SUFFICES ASSUME NEW i \in 1..(k + t), NEW j \in 1..(k + t), i < j
               PROVE  Follows(s2[i], s2[j])
    BY <1>4 DEF InSequence
  <2>1. CASE j \in 1..k
    <3>1. i \in 1..k
      BY <2>1
    <3>2. Follows(s[i], s[j])
      BY <1>3, <1>6, <2>1, <3>1 DEF InSequence
    <3>3. s2[i] = s[i] /\ s2[j] = s[j]
      BY <1>4, <2>1, <3>1
    <3> QED
      BY <3>2, <3>3, Zenon
  <2>2. CASE i \in 1..k /\ j \in (k + 1)..(k + t)
    <3>1. s2[i] = s[i] /\ s2[j] = r[j - k] /\ j - k \in 1..l
      BY <1>4, <1>8, <2>2
    <3>2. Follows(s[i], r[j - k])
      BY <1>6, <2>2, <3>1
    <3> QED
      BY <3>1, <3>2, Zenon
  <2>3. CASE i \in (k + 1)..(k + t) /\ j \in (k + 1)..(k + t)
    <3>1. s2[i] = r[i - k] /\ s2[j] = r[j - k]
      BY <1>4, <2>3
    <3>2. i - k \in 1..l /\ j - k \in 1..l /\ i - k < j - k
      BY <1>8, <2>3
    <3>3. Follows(r[i - k], r[j - k])
      BY <1>3, <1>6, <3>2 DEF InSequence
    <3> QED
      BY <3>1, <3>3, Zenon
  <2> QED
    BY <1>9, <2>1, <2>2, <2>3
<1>14. ASSUME NEW i \in 1..(k + t), NEW j \in 1..(l - n) PROVE Follows(s2[i], r2[j])
  <2>1. n + j \in 1..l /\ r2[j] = r[n + j]
    BY <1>4, <1>7
  <2>2. CASE i \in 1..k
    BY <1>4, <1>6, <2>1, <2>2
  <2>3. CASE i \in (k + 1)..(k + t)
    <3>1. s2[i] = r[i - k] /\ i - k \in 1..l /\ i - k < n + j
      BY <1>4, <1>8, <2>3
    <3>2. Follows(r[i - k], r[n + j])
      BY <1>3, <1>6, <2>1, <3>1 DEF InSequence
    <3> QED
      BY <2>1, <3>1, <3>2, Zenon
  <2> QED
    BY <1>9, <2>2, <2>3
<1>15. ASSUME client.conn = c PROVE Past(received, r2) /\ Past(received, s2)
  <2>1. /\ \A i \in 1..Len(received), j \in 1..l : received[i].no < r[j].of.no
        /\ \A i \in 1..Len(received), j \in 1..k : received[i].no < s[j].of.no
    BY <1>1, <1>3, <1>5, <1>15 DEF ConnHolds, Past
  <2>2. Past(received, r2)
    BY <1>4, <1>7, <2>1 DEF Past
  <2>3. Past(received, s2)
    BY <1>4, <1>8, <1>9, <2>1 DEF Past
  <2> QED
    BY <2>2, <2>3
<1>16. Len(r2) <= ring_capacity /\ Len(s2) <= ChanCapacity
  <2>1. ring_capacity \in Nat
    BY TcpAssumption
  <2> QED
    BY <1>1, <1>3, <1>4, <1>6, <2>1
<1>17. ~cliEnd[c] => s2 = <<>>
  <2> SUFFICES ASSUME ~cliEnd[c] PROVE s2 = <<>>
    OBVIOUS
  <2>1. Len(s2) = 0
    BY <1>1, <1>3, <1>4, <1>5 DEF ConnHolds
  <2> QED
    BY <2>1, EmptySeq
<1>18. Real(ring[c])' /\ Real(chan[c])'
  BY <1>2, <1>10, <1>11 DEF Real
<1>19. InSequence(ring[c])' /\ InSequence(chan[c])'
  BY <1>2, <1>12, <1>13 DEF InSequence
<1>20. client'.conn = c => Past(received, ring[c])' /\ Past(received, chan[c])'
  BY <1>2, <1>15 DEF Past
<1>21. \A i \in 1..Len(chan'[c]), j \in 1..Len(ring'[c]) : Follows(chan'[c][i], ring'[c][j])
  BY <1>2, <1>4, <1>14
<1>22. cliEnd'[c] <=> client'.conn = c
  BY <1>5 DEF ConnHolds
<1> QED
  BY <1>2, <1>16, <1>17, <1>18, <1>19, <1>20, <1>21, <1>22 DEF ConnHolds

\* A connection that a step leaves alone.
LEMMA OtherHolds ==
    ASSUME NEW c \in Conn, ConnHolds(c), ring'[c] = ring[c], chan'[c] = chan[c],
           client'.conn = client.conn, client.conn = c => UNCHANGED received,
           UNCHANGED <<srvEnd, cliEnd, published>>
    PROVE  ConnHolds(c)'
<1>1. Real(ring[c])' /\ Real(chan[c])'
  BY DEF ConnHolds, Real
<1>2. InSequence(ring[c])' /\ InSequence(chan[c])'
  BY DEF ConnHolds, InSequence
<1>3. client'.conn = c => Past(received, ring[c])' /\ Past(received, chan[c])'
  BY DEF ConnHolds, Past
<1>4. \A i \in 1..Len(chan'[c]), j \in 1..Len(ring'[c]) : Follows(chan'[c][i], ring'[c][j])
  BY DEF ConnHolds
<1> QED
  BY <1>1, <1>2, <1>3, <1>4 DEF ConnHolds

\* A chunk of n cells leaves the ring of c, and the kernel takes t of them.
Drained(c, n, t) ==
    /\ Moved(ring'[c], chan'[c], ring[c], chan[c], n, t)
    /\ Len(chan[c]) + t <= ChanCapacity /\ (cliEnd[c] \/ t = 0)
    /\ intact' = [intact EXCEPT ![c] = @ /\ t = n]
    /\ \A d \in Conn : d # c => ring'[d] = ring[d] /\ chan'[d] = chan[d]

\* That is what drain_send_rings does.
LEMMA DrainMoves ==
    ASSUME TcpIInv, NEW c \in Conn, NEW n \in 1..SendChunk, drain_send_rings(c, n)
    PROVE  /\ \E m \in Nat, t \in Nat : Drained(c, m, t)
           /\ srvEnd[c] = "accepted"
           /\ ring' \in [Conn -> Seq(Cell(TcpFrame))] /\ chan' \in [Conn -> Seq(Cell(TcpFrame))]
           /\ UNCHANGED <<server, wire, since, published, client, reader>>
<1>1. PICK r \in Seq(TcpCell), s \in Seq(TcpCell) : r = ring[c] /\ s = chan[c]
  BY DEF TcpIInv, TcpShape, TcpCell
<1>2. PICK l \in Nat, k \in Nat : l = Len(r) /\ k = Len(s)
  BY LenProperties
<1>3. SendChunk \in Nat /\ ChanCapacity \in Nat /\ k <= ChanCapacity
  BY <1>1, <1>2, TcpAssumption DEF TcpIInv, ConnHolds
<1>4. n \in Nat /\ n <= l
  BY <1>1, <1>2, <1>3 DEF drain_send_rings, Readable
<1>5. PICK room \in Nat : room = ChanCapacity - k
  BY <1>3
<1>6. PICK t \in Nat : /\ t = IF cliEnd[c] THEN Min({n, room}) ELSE 0
                       /\ t <= n /\ t <= room /\ (cliEnd[c] \/ t = 0)
  BY MinOfTwo
<1>7. /\ srvEnd[c] = "accepted"
      /\ ring' = [ring EXCEPT ![c] = SubSeq(@, n + 1, Len(@))]
      /\ chan' = [chan EXCEPT ![c] = @ \o SubSeq(ring[c], 1, t)]
      /\ intact' = [intact EXCEPT ![c] = @ /\ t = n]
      /\ UNCHANGED <<server, wire, since, published, client, reader>>
  BY <1>1, <1>2, <1>4, <1>5, <1>6 DEF drain_send_rings, clients
<1>8. ring \in [Conn -> Seq(Cell(TcpFrame))] /\ chan \in [Conn -> Seq(Cell(TcpFrame))]
  BY DEF TcpIInv, TcpShape
<1>9. PICK r2 \in Seq(TcpCell) :
          /\ r2 = SubSeq(r, n + 1, l) /\ Len(r2) = l - n
          /\ \A i \in 1..(l - n) : r2[i] = r[n + i]
  <2>1. l <= Len(r) /\ n <= l
    BY <1>2, <1>4
  <2>2. /\ SubSeq(r, n + 1, l) \in Seq(TcpCell) /\ Len(SubSeq(r, n + 1, l)) = l - n
        /\ \A i \in 1..(l - n) : SubSeq(r, n + 1, l)[i] = r[n + i]
    BY <2>1, PartOf
  <2> QED
    BY <2>2, Zenon
<1>10. PICK p \in Seq(TcpCell) :
           p = SubSeq(r, 1, t) /\ Len(p) = t /\ \A i \in 1..t : p[i] = r[i]
  <2>1. t <= l /\ 0 <= t /\ 0 + 1 = 1 /\ t - 0 = t /\ \A i \in 1..t : 0 + i = i
    BY <1>4, <1>6
  <2>2. /\ SubSeq(r, 0 + 1, t) \in Seq(TcpCell) /\ Len(SubSeq(r, 0 + 1, t)) = t - 0
        /\ \A i \in 1..(t - 0) : SubSeq(r, 0 + 1, t)[i] = r[0 + i]
    BY <1>2, <2>1, PartOf
  <2> QED
    BY <2>1, <2>2
<1>11. PICK s2 \in Seq(TcpCell) : s2 = s \o p
  BY ConcatProperties
<1>12. Len(s2) = k + t /\ \A i \in 1..(k + t) : s2[i] = IF i <= k THEN s[i] ELSE p[i - k]
  BY <1>2, <1>10, <1>11, ConcatProperties
<1>13. Moved(r2, s2, r, s, n, t)
  <2>1. \A i \in 1..k : s2[i] = s[i]
    BY <1>12
  <2>2. ASSUME NEW i \in (k + 1)..(k + t) PROVE s2[i] = r[i - k]
    <3>1. i \in 1..(k + t) /\ ~(i <= k) /\ i - k \in 1..t
      BY <1>12
    <3> QED
      BY <1>10, <1>12, <3>1
  <2> QED
    BY <1>2, <1>4, <1>6, <1>9, <1>12, <2>1, <2>2 DEF Moved
<1>14. ring'[c] = r2 /\ chan'[c] = s2
  BY <1>1, <1>2, <1>7, <1>8, <1>9, <1>10, <1>11
<1>15. \A d \in Conn : d # c => ring'[d] = ring[d] /\ chan'[d] = chan[d]
  BY <1>7, <1>8
<1>16. Drained(c, n, t)
  <2>1. Moved(ring'[c], chan'[c], ring[c], chan[c], n, t)
    BY <1>1, <1>13, <1>14, Zenon
  <2>2. Len(chan[c]) + t <= ChanCapacity
    BY <1>1, <1>2, <1>3, <1>5, <1>6
  <2> QED
    BY <1>6, <1>7, <1>15, <2>1, <2>2 DEF Drained
<1>17. ring' \in [Conn -> Seq(Cell(TcpFrame))] /\ chan' \in [Conn -> Seq(Cell(TcpFrame))]
  <2>1. ring'[c] \in Seq(Cell(TcpFrame)) /\ chan'[c] \in Seq(Cell(TcpFrame))
    BY <1>14 DEF TcpCell
  <2> QED
    BY <1>7, <1>8, <2>1
<1> QED
  BY <1>7, <1>16, <1>17

\* A chunk of a ring goes to the kernel.
LEMMA DrainStays ==
    ASSUME TcpIInv, NEW c \in Conn, NEW chunk \in 1..SendChunk, drain_send_rings(c, chunk)
    PROVE  TcpIInv'
<1>1. PICK n \in Nat, t \in Nat : Drained(c, n, t)
  BY DrainMoves
<1>2. /\ srvEnd[c] = "accepted"
      /\ ring' \in [Conn -> Seq(Cell(TcpFrame))] /\ chan' \in [Conn -> Seq(Cell(TcpFrame))]
      /\ UNCHANGED <<server, wire, since, published, client, reader>>
  BY DrainMoves
<1>3. ConnHolds(c)'
  <2>1. /\ Moved(ring'[c], chan'[c], ring[c], chan[c], n, t)
        /\ Len(chan[c]) + t <= ChanCapacity /\ (cliEnd[c] \/ t = 0)
    BY <1>1 DEF Drained
  <2> QED
    BY <1>2, <2>1, MovedHolds DEF wire, reader
<1>4. ASSUME NEW d \in Conn, d # c PROVE ConnHolds(d)'
  <2>1. ring'[d] = ring[d] /\ chan'[d] = chan[d] /\ ConnHolds(d)
    BY <1>1, <1>4 DEF TcpIInv, Drained
  <2> QED
    BY <1>2, <2>1, OtherHolds DEF wire, reader
<1>5. TcpShape'
  BY <1>2 DEF TcpIInv, TcpShape, wire, reader
<1>6. ClientPlace' /\ Sound(received)' /\ Real(parser.buf)' /\ Past(received, parser.buf)'
  BY <1>2 DEF TcpIInv, ClientPlace, Reading, Sound, Real, Past, reader
<1> QED
  BY <1>3, <1>4, <1>5, <1>6 DEF TcpIInv

\* The client reads k cells.
LEMMA RecvStays ==
    ASSUME TcpIInv, NEW garbage \in Garbage, NEW k \in 1..ChanCapacity, Reading,
           k <= Len(chan[client.conn]), Recv(k, garbage)
    PROVE  TcpIInv'
<1>1. PICK c \in Conn : c = client.conn
  BY DEF TcpIInv, TcpShape, ClientPlace
<1>2. PICK r \in Seq(TcpCell), s \in Seq(TcpCell) : r = ring[c] /\ s = chan[c]
  BY DEF TcpIInv, TcpShape, TcpCell
<1>3. PICK l \in Nat : l = Len(s)
  BY LenProperties
<1>4. k \in Nat /\ garbage \in Nat /\ k \in 1..l
  BY <1>1, <1>2, <1>3, TcpAssumption
<1>5. ConnHolds(c)
  BY DEF TcpIInv
<1>6. Stream(s, r)
  BY <1>2, <1>5 DEF ConnHolds, Stream
<1>7. /\ received \in Seq(TcpFrame) /\ parser \in ParserOf(TcpCell) /\ parser.out = <<>>
      /\ Sound(received) /\ Real(parser.buf) /\ Past(received, parser.buf)
  BY DEF TcpIInv, TcpShape, TcpCell
<1>8. Good(received, parser, s, 0, r)
  <2>1. Past(received, r) /\ Past(received, s)
    BY <1>1, <1>2, <1>5 DEF ConnHolds
  <2>2. PastFrom(received, s, 0)
    BY <2>1 DEF Past, PastFrom
  <2> QED
    BY <1>7, <2>1, <2>2 DEF Good, Told
<1>9. PICK p : p = push(parser, SubSeq(s, 1, k), garbage)
  OBVIOUS
<1>10. p \in ParserOf(TcpCell) /\ p.out \in Seq(TcpFrame) /\ Good(received \o p.out, p, s, k, r)
  BY <1>3, <1>4, <1>6, <1>7, <1>8, <1>9, ReadOn
<1>11. PICK got \in Seq(TcpFrame) : got = received \o p.out
  BY <1>7, <1>10, ConcatProperties
<1>12. Sound(got) /\ Real(p.buf) /\ Past(got, p.buf) /\ PastFrom(got, s, k) /\ Past(got, r)
  BY <1>10, <1>11 DEF Good, Told
<1>13. /\ client' = [client EXCEPT !.pc = "burst"]
       /\ chan' = [chan EXCEPT ![c] = SubSeq(@, k + 1, Len(@))]
       /\ parser' = [p EXCEPT !.out = <<>>]
       /\ received' = got
       /\ UNCHANGED <<server, wire, ring, since, intact, published>>
  BY <1>1, <1>2, <1>9, <1>11 DEF Recv
<1>14. PICK s2 \in Seq(TcpCell) :
           /\ s2 = SubSeq(s, k + 1, l) /\ Len(s2) = l - k
           /\ \A i \in 1..(l - k) : s2[i] = s[k + i]
  <2>1. l <= Len(s) /\ k <= l
    BY <1>3, <1>4
  <2>2. /\ SubSeq(s, k + 1, l) \in Seq(TcpCell) /\ Len(SubSeq(s, k + 1, l)) = l - k
        /\ \A i \in 1..(l - k) : SubSeq(s, k + 1, l)[i] = s[k + i]
    BY <1>4, <2>1, PartOf
  <2> QED
    BY <2>2, Zenon
<1>15. chan'[c] = s2 /\ chan' \in [Conn -> Seq(Cell(TcpFrame))]
       /\ \A d \in Conn : d # c => chan'[d] = chan[d]
  <2>1. chan \in [Conn -> Seq(Cell(TcpFrame))] /\ s2 \in Seq(Cell(TcpFrame))
    BY DEF TcpIInv, TcpShape, TcpCell
  <2>2. chan' = [chan EXCEPT ![c] = s2]
    BY <1>2, <1>3, <1>13, <1>14
  <2> QED
    BY <2>1, <2>2
<1>16. \A i \in 1..(l - k) : k + i \in 1..l /\ k + i \in (k + 1)..l
  BY <1>4
<1>17. client'.conn = c /\ client'.pc = "burst" /\ client'.attempts = client.attempts
       /\ client' \in [running : BOOLEAN,
                   pc : {"off", "connect", "wait", "read", "burst", "sleep", "ended"},
                   conn : Conn \cup {NoConn}, attempts : 0..(max_reconnect_attempts + 1),
                   starts : 0..MaxClients]
  BY <1>1, <1>13 DEF TcpIInv, TcpShape
<1>18. ConnHolds(c)'
  <2>1. Real(chan[c])'
    <3>1. Real(s)
      BY <1>6 DEF Stream
    <3>2. \A i \in 1..(l - k) : s[k + i].of.no \in 1..Len(published)
                                /\ published[s[k + i].of.no] = s[k + i].of
      BY <1>3, <1>16, <3>1 DEF Real
    <3>3. \A i \in 1..(l - k) : s2[i].of.no \in 1..Len(published)
                                /\ published[s2[i].of.no] = s2[i].of
      BY <1>14, <3>2
    <3> QED
      BY <1>13, <1>14, <1>15, <3>3 DEF Real
  <2>2. InSequence(s2)
    <3> SUFFICES ASSUME NEW i \in 1..(l - k), NEW j \in 1..(l - k), i < j
                 PROVE  Follows(s2[i], s2[j])
      BY <1>14 DEF InSequence
    <3>1. k + i \in 1..l /\ k + j \in 1..l /\ k + i < k + j
      BY <1>4, <1>16
    <3>2. Follows(s[k + i], s[k + j])
      BY <1>3, <1>6, <3>1 DEF Stream, InSequence
    <3> QED
      BY <1>14, <3>2
  <2>3. \A i \in 1..(l - k), j \in 1..Len(r) : Follows(s2[i], r[j])
    BY <1>3, <1>6, <1>14, <1>16 DEF Stream
  <2>4. Past(got, s2)
    BY <1>3, <1>12, <1>14, <1>16 DEF Past, PastFrom
  <2>5. Len(s2) <= ChanCapacity
    <3>1. l <= ChanCapacity /\ ChanCapacity \in Nat
      BY <1>2, <1>3, <1>5, TcpAssumption DEF ConnHolds
    <3> QED
      BY <1>4, <1>14, <3>1
  <2>6. cliEnd[c]
    BY <1>1, <1>5 DEF ConnHolds
  <2>7. ring'[c] = r /\ UNCHANGED <<srvEnd, cliEnd, published>>
    BY <1>2, <1>13 DEF wire
  <2>8. Real(ring[c])' /\ InSequence(ring[c])' /\ Past(received, ring[c])'
        /\ Len(ring'[c]) <= ring_capacity /\ (srvEnd'[c] # "accepted" => ring'[c] = <<>>)
    <3>1. Real(r) /\ InSequence(r) /\ Len(r) <= ring_capacity
          /\ (srvEnd[c] # "accepted" => r = <<>>)
      BY <1>2, <1>5 DEF ConnHolds
    <3> QED
      BY <1>12, <1>13, <2>7, <3>1 DEF Real, InSequence, Past
  <2>9. InSequence(chan[c])' /\ Past(received, chan[c])'
    BY <1>13, <1>15, <2>2, <2>4 DEF InSequence, Past
  <2>10. \A i \in 1..Len(chan'[c]), j \in 1..Len(ring'[c]) : Follows(chan'[c][i], ring'[c][j])
    BY <1>14, <1>15, <2>3, <2>7
  <2> QED
    BY <1>15, <1>17, <2>1, <2>5, <2>6, <2>7, <2>8, <2>9, <2>10 DEF ConnHolds
<1>19. ASSUME NEW d \in Conn, d # c PROVE ConnHolds(d)'
  <2>1. ring'[d] = ring[d] /\ chan'[d] = chan[d] /\ ConnHolds(d)
    BY <1>13, <1>15, <1>19 DEF TcpIInv
  <2> QED
    BY <1>1, <1>13, <1>17, <1>19, <2>1, OtherHolds DEF wire
<1>20. parser' \in ParserOf(Cell(TcpFrame)) /\ parser'.out = <<>> /\ parser'.buf = p.buf
  BY <1>10, <1>13, EmptySeq DEF ParserOf, Framed, Outs, TcpCell
<1>21. TcpShape'
  BY <1>13, <1>15, <1>17, <1>20 DEF TcpIInv, TcpShape, wire
<1>22. ClientPlace'
  BY <1>1, <1>17, TcpAssumption DEF TcpIInv, ClientPlace, Reading
<1>23. Sound(received)' /\ Real(parser.buf)' /\ Past(received, parser.buf)'
  BY <1>12, <1>13, <1>20 DEF Sound, Real, Past
<1> QED
  BY <1>18, <1>19, <1>21, <1>22, <1>23 DEF TcpIInv

\* Every step of the TCP feed keeps the invariant.
LEMMA TcpStays == TcpIInv /\ [TcpNext]_tcpVars => TcpIInv'
<1> SUFFICES ASSUME TcpIInv, [TcpNext]_tcpVars PROVE TcpIInv'
  OBVIOUS
<1> USE TcpAssumption
<1>1. /\ server \in [running : BOOLEAN, alive : BOOLEAN, starts : 0..MaxServers]
      /\ listening \subseteq 1..MaxServers
      /\ client \in [running : BOOLEAN,
                   pc : {"off", "connect", "wait", "read", "burst", "sleep", "ended"},
                   conn : Conn \cup {NoConn}, attempts : 0..(max_reconnect_attempts + 1),
                   starts : 0..MaxClients]
      /\ ClientPlace
  BY DEF TcpIInv, TcpShape
<1>2. CASE ServerStart
  <2>4. PICK n \in Nat : n = server.starts + 1 /\ n \in 1..MaxServers
    BY <1>1, <1>2 DEF ServerStart
  <2>1. /\ server' \in [running : BOOLEAN, alive : BOOLEAN, starts : 0..MaxServers]
        /\ listening' \subseteq 1..MaxServers
    <3>1. server' = [running |-> TRUE, alive |-> TRUE, starts |-> n]
          /\ listening' = listening \cup {n} /\ n \in 0..MaxServers
      BY <1>2, <2>4 DEF ServerStart
    <3> QED
      BY <1>1, <2>4, <3>1
  <2>2. TcpShape' /\ ClientPlace'
    BY <1>2, <2>1 DEF TcpIInv, TcpShape, ClientPlace, Reading, ServerStart, data, reader
  <2>3. ASSUME NEW c \in Conn PROVE Quiet(c)
    BY <1>2 DEF TcpIInv, ConnHolds, Quiet, ServerStart, data
  <2> QED
    BY <1>2, <2>2, <2>3, QuietStays DEF ServerStart, reader
<1>3. CASE ServerStop
  <2>1. server' \in [running : BOOLEAN, alive : BOOLEAN, starts : 0..MaxServers]
    BY <1>1, <1>3 DEF ServerStop
  <2> QED
    BY <1>1, <1>3, <2>1, ThreadStays DEF ServerStop, ClientPlace, Reading
<1>4. CASE ServerDestroy
  BY <1>1, <1>4, ServerClosesStays DEF ServerDestroy
<1>5. ASSUME NEW kind \in TcpKinds, TcpPublish(kind) PROVE TcpIInv'
  BY <1>5, TcpPublishStays
<1>6. CASE ClientStart
  <2>1. 0 \in 0..(max_reconnect_attempts + 1)
    OBVIOUS
  <2>2. /\ client' \in [running : BOOLEAN,
                   pc : {"off", "connect", "wait", "read", "burst", "sleep", "ended"},
                   conn : Conn \cup {NoConn}, attempts : 0..(max_reconnect_attempts + 1),
                   starts : 0..MaxClients]
        /\ client'.conn = client.conn /\ client'.attempts = 0 /\ client'.pc = "connect"
    <3>1. PICK n \in 0..MaxClients : n = client.starts + 1
      BY <1>1, <1>6 DEF ClientStart
    <3>2. client' = [client EXCEPT !.running = TRUE, !.pc = "connect", !.attempts = 0,
                                   !.starts = n]
      BY <1>6, <3>1 DEF ClientStart
    <3> QED
      BY <1>1, <2>1, <3>1, <3>2
  <2>3. ClientPlace'
    BY <1>1, <1>6, <2>2 DEF ClientStart, ClientPlace, Reading
  <2> QED
    BY <1>1, <1>6, <2>2, <2>3, ThreadStays DEF ClientStart
<1>7. CASE ClientStop \/ ClientJoin \/ ClientEnds \/ Wake
  <2>1. /\ client' \in [running : BOOLEAN,
                   pc : {"off", "connect", "wait", "read", "burst", "sleep", "ended"},
                   conn : Conn \cup {NoConn}, attempts : 0..(max_reconnect_attempts + 1),
                   starts : 0..MaxClients]
        /\ client'.conn = client.conn /\ client'.attempts = client.attempts
        /\ \/ client'.pc = client.pc
           \/ client'.pc \in {"off", "ended"} /\ client.pc \in {"ended", "connect"}
           \/ client'.pc = "connect" /\ client.pc = "sleep"
    <3>1. CASE ClientStop
      BY <1>1, <3>1 DEF ClientStop
    <3>2. CASE ClientJoin
      BY <1>1, <3>2 DEF ClientJoin
    <3>3. CASE ClientEnds
      BY <1>1, <3>3 DEF ClientEnds
    <3>4. CASE Wake
      BY <1>1, <3>4 DEF Wake
    <3> QED
      BY <1>7, <3>1, <3>2, <3>3, <3>4
  <2>2. ClientPlace'
    BY <1>1, <2>1 DEF ClientPlace, Reading
  <2>3. UNCHANGED <<server, wire, data, published, reader>>
    BY <1>7 DEF ClientStop, ClientJoin, ClientEnds, Wake
  <2> QED
    BY <1>1, <2>1, <2>2, <2>3, ThreadStays
<1>8. CASE ServerExit \/ ServerFails
  BY <1>1, <1>8, ServerClosesStays DEF ServerExit, ServerFails, ServerEnds
<1>9. CASE accept_client
  <2>1. PICK new \in SUBSET Backlog(server.starts) :
            srvEnd' = [c \in Conn |-> IF c \in new THEN "accepted"
                                     ELSE IF c \in Backlog(server.starts) THEN "left"
                                     ELSE srvEnd[c]]
    BY <1>9 DEF accept_client
  <2>2. srvEnd' \in [Conn -> {"closed", "backlog", "left", "accepted"}]
    BY <2>1 DEF TcpIInv, TcpShape
  <2>3. TcpShape' /\ ClientPlace'
    BY <1>9, <2>2 DEF TcpIInv, TcpShape, ClientPlace, Reading, accept_client, reader
  <2>4. ASSUME NEW c \in Conn PROVE Quiet(c)
    BY <1>9, <2>1 DEF TcpIInv, ConnHolds, Quiet, accept_client, Backlog
  <2> QED
    BY <1>9, <2>3, <2>4, QuietStays DEF accept_client, reader
<1>10. ASSUME NEW c \in Conn, remove_client(c) PROVE TcpIInv'
  BY <1>1, <1>10, ServerClosesStays DEF remove_client
<1>11. ASSUME NEW c \in Conn, NEW n \in 1..SendChunk, drain_send_rings(c, n) PROVE TcpIInv'
  BY <1>11, DrainStays
<1>12. CASE ConnectRefused
  <2>1. client.attempts + 1 \in 0..(max_reconnect_attempts + 1)
    BY <1>1, <1>12 DEF ConnectRefused, ClientPlace
  <2>2. /\ client' \in [running : BOOLEAN,
                   pc : {"off", "connect", "wait", "read", "burst", "sleep", "ended"},
                   conn : Conn \cup {NoConn}, attempts : 0..(max_reconnect_attempts + 1),
                   starts : 0..MaxClients]
        /\ client'.conn = client.conn /\ client'.attempts = client.attempts + 1
        /\ client'.pc = IF client.attempts + 1 > max_reconnect_attempts THEN "ended" ELSE "sleep"
        /\ client.pc = "connect"
    BY <1>1, <1>12, <2>1 DEF ConnectRefused
  <2>3. ClientPlace'
    BY <1>1, <2>1, <2>2 DEF ClientPlace, Reading
  <2> QED
    BY <1>1, <1>12, <2>2, <2>3, ThreadStays DEF ConnectRefused
<1>13. ASSUME NEW c \in Conn, NEW l \in listening, ConnectInProgress(c, l) PROVE TcpIInv'
  BY <1>13, ConnectStays
<1>14. CASE ConnectInProgress(NoConn, 0)
  <2>1. 0 \in 0..(max_reconnect_attempts + 1)
    OBVIOUS
  <2>2. /\ client' \in [running : BOOLEAN,
                   pc : {"off", "connect", "wait", "read", "burst", "sleep", "ended"},
                   conn : Conn \cup {NoConn}, attempts : 0..(max_reconnect_attempts + 1),
                   starts : 0..MaxClients]
        /\ client'.conn = NoConn /\ client'.attempts = 0 /\ client'.pc = "wait"
    BY <1>1, <1>14, <2>1 DEF ConnectInProgress
  <2>3. client.conn = NoConn
    BY <1>1, <1>14 DEF ConnectInProgress, ClientPlace
  <2>4. ClientPlace'
    BY <2>2 DEF ClientPlace, Reading
  <2> QED
    BY <1>1, <1>14, <2>2, <2>3, <2>4, ThreadStays DEF ConnectInProgress
<1>15. CASE WaitFails
  <2>1. client' = [client EXCEPT !.pc = "connect", !.conn = NoConn] /\ client.pc = "wait"
    BY <1>15 DEF WaitFails
  <2>2. client' = [client EXCEPT !.conn = NoConn, !.pc = client'.pc] /\ client'.pc = "connect"
    BY <1>1, <2>1
  <2> QED
    BY <1>15, <2>1, <2>2, ClientClosesStays DEF WaitFails, reader
<1>16. CASE Connected
  <2>1. /\ client' \in [running : BOOLEAN,
                   pc : {"off", "connect", "wait", "read", "burst", "sleep", "ended"},
                   conn : Conn \cup {NoConn}, attempts : 0..(max_reconnect_attempts + 1),
                   starts : 0..MaxClients]
        /\ client'.conn = client.conn /\ client'.attempts = client.attempts
        /\ client'.pc = "read" /\ client.pc = "wait" /\ client.conn # NoConn
    BY <1>1, <1>16 DEF Connected, Whole
  <2>2. ClientPlace'
    BY <1>1, <2>1 DEF ClientPlace, Reading
  <2>3. parser' \in ParserOf(Cell(TcpFrame)) /\ parser'.out = <<>>
    BY <1>16, NewParserIs DEF Connected, NewParser
  <2>4. TcpShape'
    BY <1>16, <2>1, <2>3 DEF TcpIInv, TcpShape, Connected, wire, data
  <2>5. ASSUME NEW c \in Conn PROVE Quiet(c)
    BY <1>16, <2>1 DEF TcpIInv, ConnHolds, Quiet, Connected, wire, data
  <2> QED
    BY <1>16, <2>2, <2>4, <2>5, QuietStays DEF Connected
<1>17. ASSUME NEW garbage \in Garbage, NEW k \in 1..ChanCapacity,
              client.pc \in {"read", "burst"}, k <= Len(chan[client.conn]), Recv(k, garbage)
       PROVE  TcpIInv'
  BY <1>17, RecvStays DEF Reading
<1>18. CASE HangUp \/ NoMoreData \/ Interrupted
  <2>1. Close /\ client.pc \in {"read", "burst"}
    BY <1>18 DEF HangUp, NoMoreData, Interrupted
  <2>2. client'.pc \in {"sleep", "ended"}
        /\ client' = [client EXCEPT !.conn = NoConn, !.pc = client'.pc]
    BY <1>1, <2>1 DEF Close
  <2> QED
    BY <2>1, <2>2, ClientClosesStays DEF Close, Reading
<1>19. CASE UNCHANGED tcpVars
  BY <1>1, <1>19, ThreadStays DEF tcpVars, ClientPlace, Reading
<1>20. ServerStep => TcpIInv'
  BY <1>8, <1>9, <1>10, <1>11 DEF ServerStep
<1>21. ClientStep => TcpIInv'
  BY <1>7, <1>12, <1>13, <1>14, <1>15, <1>16, <1>17, <1>18 DEF ClientStep
<1> QED
  BY <1>2, <1>3, <1>4, <1>5, <1>6, <1>7, <1>8, <1>18, <1>19, <1>20, <1>21 DEF TcpNext

\* Frames in strict order of their numbers are not more than the numbers there are.
LEMMA SoundBound ==
    ASSUME NEW got \in Seq(TcpFrame), Sound(got), published \in Seq(TcpFrame)
    PROVE  Len(got) <= Len(published)
<1>1. PICK l \in Nat, n \in Nat : l = Len(got) /\ n = Len(published)
  BY LenProperties
<1>2. /\ \A i \in 1..l : got[i].no \in 1..n
      /\ \A i, j \in 1..l : i < j => got[i].no < got[j].no
  BY <1>1 DEF Sound
<1> DEFINE Bad == {i \in Nat : i \in 1..l /\ ~(i <= got[i].no)}
<1>3. 0 \notin Bad
  OBVIOUS
<1>4. ASSUME NEW i \in Nat, i \notin Bad PROVE i + 1 \notin Bad
  <2> SUFFICES ASSUME i + 1 \in 1..l PROVE i + 1 <= got[i + 1].no
    OBVIOUS
  <2>1. CASE i = 0
    BY <1>2, <2>1
  <2>2. CASE i # 0
    <3>1. i \in 1..l /\ i < i + 1
      BY <2>2
    <3>2. i <= got[i].no /\ got[i].no < got[i + 1].no
      BY <1>2, <1>4, <3>1
    <3>3. got[i].no \in 1..n /\ got[i + 1].no \in 1..n
      BY <1>2, <3>1
    <3> QED
      BY <3>2, <3>3
  <2> QED
    BY <2>1, <2>2
<1>5. Bad = {}
  <2>1. Bad \subseteq Nat
    OBVIOUS
  <2> HIDE DEF Bad
  <2> QED
    BY <1>3, <1>4, <2>1, NoLeastExample
<1>6. l = 0 \/ l <= got[l].no
  BY <1>5
<1>7. l = 0 \/ got[l].no \in 1..n
  BY <1>2
<1> QED
  BY <1>1, <1>6, <1>7

\* The invariant implies the types.
LEMMA TcpTyped == TcpIInv => TcpTypeOK
<1> SUFFICES ASSUME TcpIInv PROVE TcpTypeOK
  OBVIOUS
<1>1. Len(received) <= MaxFrames
  <2>1. PICK l \in Nat, n \in Nat : l = Len(received) /\ n = Len(published)
    BY LenProperties DEF TcpIInv, TcpShape
  <2>2. l <= n /\ n <= MaxFrames
    BY <2>1, SoundBound DEF TcpIInv, TcpShape
  <2> QED
    BY <2>1, <2>2, TcpAssumption
<1> QED
  BY <1>1 DEF TcpIInv, TcpShape, ConnHolds, TcpTypeOK

-----------------------------------------------------------------------------
(* What a connection carries of which nothing was dropped *)

\* The i-th cell of the f-th frame, and the k-th of all the cells published.
CellOf(f, i) == [part |-> Part[i], of |-> published[f]]

StreamCell(k) == CellOf(((k - 1) \div 4) + 1, ((k - 1) % 4) + 1)

\* The cells of s are those after the n-th.
CellsFrom(s, n) == \A i \in 1..Len(s) : s[i] = StreamCell(n + i)

\* A parser that has read m cells of the frame after the z-th.
InFrame(p, z, m) ==
    /\ Len(p.buf) = m /\ CellsFrom(p.buf, 4 * z)
    /\ p.state = <<"SeekMagic", "ReadHeader", "ReadPayload", "ReadTrailer">>[m + 1]
    /\ m >= 2 => p.len = 1

\* The n frames of s after the k-th are those of t after the a-th.
Matches(s, k, t, a, n) == \A i \in 1..n : s[k + i] = t[a + i]

\* The connection has brought the client the first z frames and m cells of the next, and
\* holds all the rest; of what the client passed on, the frames after the k-th are those
\* published since the connection was accepted.
Brought(c, z, m, k) ==
    /\ since[c] <= z /\ z <= Len(published)
    /\ 4 * z + m + Len(chan[c]) + Len(ring[c]) = 4 * Len(published)
    /\ CellsFrom(chan[c], 4 * z + m)
    /\ CellsFrom(ring[c], 4 * z + m + Len(chan[c]))
    /\ InFrame(parser, z, m)
    /\ Len(received) = k + (z - since[c])
    /\ \A i \in 1..k : received[i].no <= since[c]
    /\ Matches(received, k, published, since[c], z - since[c])

CarriesAll(c) == \E z \in 0..Len(published), m \in 0..3, k \in 0..Len(received) : Brought(c, z, m, k)

IntactIInv ==
    /\ since \in [Conn -> 0..MaxFrames] /\ intact \in [Conn -> BOOLEAN]
    /\ \A i \in 1..Len(published) : published[i].no = i
    /\ ~Reading => parser = NewParser
    /\ \A c \in Conn : client.conn = c /\ srvEnd[c] \in {"backlog", "left"} =>
           parser = NewParser /\ chan[c] = <<>>
    /\ \A c \in Conn : client.conn = c /\ srvEnd[c] = "accepted" /\ intact[c] => CarriesAll(c)

-----------------------------------------------------------------------------
(* The parser in step with the stream *)

\* Four cells to a frame.
LEMMA PlaceOf ==
    ASSUME NEW z \in Nat, NEW i \in 1..4
    PROVE  ((4 * z + i) - 1) \div 4 = z /\ (((4 * z + i) - 1) % 4) + 1 = i
<1>1. CASE i = 1
  BY <1>1
<1>2. CASE i = 2
  BY <1>2
<1>3. CASE i = 3
  BY <1>3
<1>4. CASE i = 4
  BY <1>4
<1> QED
  BY <1>1, <1>2, <1>3, <1>4

\* The i-th cell of a frame, in the stream.
LEMMA StreamCellIs ==
    ASSUME NEW z \in Nat, NEW i \in 1..4 PROVE StreamCell(4 * z + i) = CellOf(z + 1, i)
BY PlaceOf, Zenon DEF StreamCell

\* A cell more of the frame that is being read.
LEMMA BufferGrows ==
    ASSUME NEW b \in Seq(TcpCell), NEW n \in Nat, NEW m \in Nat, Len(b) = m, CellsFrom(b, n),
           NEW cell \in TcpCell, cell = StreamCell(n + m + 1)
    PROVE  /\ Append(b, cell) \in Seq(TcpCell) /\ Len(Append(b, cell)) = m + 1
           /\ CellsFrom(Append(b, cell), n)
<1>1. PICK t \in Seq(TcpCell) : t = Append(b, cell)
  BY AppendProperties
<1>2. Len(t) = m + 1 /\ t[m + 1] = cell /\ \A i \in 1..m : t[i] = b[i]
  BY <1>1, AppendProperties
<1>3. \A i \in 1..(m + 1) : i \in 1..m \/ i = m + 1
  OBVIOUS
<1>4. n + (m + 1) = n + m + 1
  OBVIOUS
<1>5. CellsFrom(t, n)
  BY <1>2, <1>3, <1>4 DEF CellsFrom
<1> QED
  BY <1>1, <1>2, <1>5, Zenon

\* A parser in step with the stream takes the next cell of the frame, or passes the
\* frame on with its last, whatever lengths other bytes may give.
LEMMA CellInStep ==
    ASSUME NEW p \in ParserOf(TcpCell), NEW z \in Nat, NEW m \in 0..3, InFrame(p, z, m),
           NEW a, a = z + 1, published[a] \in TcpFrame,
           NEW e, e = m + 1, NEW cell \in TcpCell, cell = CellOf(a, e),
           NEW garbage \in Nat, NEW q, q = process_byte(p, cell, garbage)
    PROVE  \/ m < 3 /\ InFrame(q, z, e) /\ q.out = p.out
           \/ m = 3 /\ InFrame(q, a, 0) /\ q.out = Append(p.out, published[a])
<1>0. published[z + 1] \in TcpFrame /\ cell = StreamCell(4 * z + m + 1)
  <2>1. e \in 1..4 /\ 4 * z + e = 4 * z + m + 1
    OBVIOUS
  <2>2. StreamCell(4 * z + e) = CellOf(z + 1, e)
    BY <2>1, StreamCellIs
  <2> QED
    BY <2>1, <2>2
<1>1. p.buf \in Seq(TcpCell) /\ p.len \in Nat /\ Len(p.buf) = m /\ CellsFrom(p.buf, 4 * z)
  BY DEF ParserOf, InFrame
<1>2. PICK n \in Nat : n = 4 * z
  OBVIOUS
<1>3. PICK b \in Seq(TcpCell) : b = Append(p.buf, cell) /\ Len(b) = m + 1 /\ CellsFrom(b, n)
  <2>1. m \in Nat /\ cell = StreamCell(n + m + 1) /\ CellsFrom(p.buf, n)
    BY <1>0, <1>1, <1>2
  <2>2. /\ Append(p.buf, cell) \in Seq(TcpCell) /\ Len(Append(p.buf, cell)) = m + 1
        /\ CellsFrom(Append(p.buf, cell), n)
    BY <1>1, <2>1, BufferGrows
  <2> QED
    BY <2>2, Zenon
<1>14. CellsFrom(b, 4 * z)
  BY <1>2, <1>3, Zenon
<1>4. PICK f \in TcpFrame : f = published[z + 1]
  BY <1>0
<1>5. \A i \in 1..4 : StreamCell(n + i) = [part |-> Part[i], of |-> f]
  BY <1>2, <1>4, StreamCellIs DEF CellOf
<1>6. /\ StreamCell(n + 1).part = "magic" /\ StreamCell(n + 2).part = "head"
      /\ StreamCell(n + 3).part = "body" /\ StreamCell(n + 4).part = "crc"
      /\ \A i \in 1..4 : StreamCell(n + i).of = f
  BY <1>5 DEF Part
<1>7. \A i \in 1..(m + 1) : b[i] = StreamCell(n + i)
  BY <1>3 DEF CellsFrom
<1>8. cell = StreamCell(n + (m + 1))
  BY <1>0, <1>2
<1> DEFINE Now(state, len) == [state |-> state, buf |-> b, len |-> len, out |-> p.out]
<1>9. \A state, len : Now(state, len).state = state /\ Now(state, len).buf = b
                      /\ Now(state, len).len = len /\ Now(state, len).out = p.out
  OBVIOUS
<1>10. CASE m = 0
  <2>1. p.state = "SeekMagic" /\ cell.part = "magic"
    BY <1>6, <1>8, <1>10 DEF InFrame
  <2>2. q = Now("ReadHeader", p.len)
    BY <1>3, <2>1, Zenon DEF process_byte
  <2> HIDE DEF Now
  <2>5. q.state = "ReadHeader" /\ q.buf = b /\ q.len = p.len /\ q.out = p.out
    BY <1>9, <2>2
  <2>6. Len(q.buf) = 1 /\ CellsFrom(q.buf, 4 * z)
    <3>1. Len(b) = 1
      BY <1>3, <1>10
    <3> QED
      BY <1>14, <2>5, <3>1, Zenon
  <2>3. InFrame(q, z, 1) /\ q.out = p.out
    BY <2>5, <2>6 DEF InFrame
  <2> QED
    BY <1>10, <2>3
<1>11. CASE m = 1
  <2>1. p.state = "ReadHeader" /\ cell.part = "head"
    BY <1>6, <1>8, <1>11 DEF InFrame
  <2>2. q = Now(IF 1 > 0 THEN "ReadPayload" ELSE "ReadTrailer", 1)
    BY <1>3, <2>1, Zenon DEF process_byte
  <2> HIDE DEF Now
  <2>5. q.state = "ReadPayload" /\ q.buf = b /\ q.len = 1 /\ q.out = p.out
    BY <1>9, <2>2
  <2>6. Len(q.buf) = 2 /\ CellsFrom(q.buf, 4 * z)
    <3>1. Len(b) = 2
      BY <1>3, <1>11
    <3> QED
      BY <1>14, <2>5, <3>1, Zenon
  <2>3. InFrame(q, z, 2) /\ q.out = p.out
    BY <2>5, <2>6 DEF InFrame
  <2> QED
    BY <1>11, <2>3
<1>12. CASE m = 2
  <2>1. p.state = "ReadPayload" /\ p.len = 1
    BY <1>12 DEF InFrame
  <2>2. q = Now(IF Len(b) < 2 + 1 THEN "ReadPayload" ELSE "ReadTrailer", 1)
    BY <1>3, <2>1, Zenon DEF process_byte
  <2>4. Len(b) = 3
    BY <1>3, <1>12
  <2> HIDE DEF Now
  <2>5. q.state = "ReadTrailer" /\ q.buf = b /\ q.len = 1 /\ q.out = p.out
    BY <1>9, <2>2, <2>4
  <2>6. Len(q.buf) = 3 /\ CellsFrom(q.buf, 4 * z)
    <3>1. Len(b) = 3
      BY <1>3, <1>12
    <3> QED
      BY <1>14, <2>5, <3>1, Zenon
  <2>3. InFrame(q, z, 3) /\ q.out = p.out
    BY <2>5, <2>6 DEF InFrame
  <2> QED
    BY <1>12, <2>3
<1>13. CASE m = 3
  <2>1. p.state = "ReadTrailer" /\ p.len = 1
    BY <1>13 DEF InFrame
  <2>2. q = dispatch_frame(Now("ReadTrailer", 1))
    BY <1>3, <2>1, Zenon DEF process_byte
  <2>3. /\ b[2].part = "head" /\ b[3].part = "body" /\ b[4].part = "crc"
        /\ b[2].of = f /\ b[3].of = f /\ b[4].of = f
    <3>1. b[2] = StreamCell(n + 2) /\ b[3] = StreamCell(n + 3) /\ b[4] = StreamCell(n + 4)
      BY <1>7, <1>13
    <3> QED
      BY <1>6, <3>1
  <2>4. CrcMatches(b, 1)
    BY <2>3 DEF CrcMatches
  <2>5. Decoded(b) = f
    BY <2>3 DEF Decoded, TcpFrame
  <2> DEFINE r == Now("ReadTrailer", 1)
  <2>6. r.buf = b /\ r.len = 1 /\ r.out = p.out
        /\ [r EXCEPT !.out = Append(@, Decoded(r.buf))].out = Append(p.out, Decoded(b))
    OBVIOUS
  <2> HIDE DEF r
  <2>7. q = reset([r EXCEPT !.out = Append(@, Decoded(r.buf))])
    BY <2>2, <2>4, <2>6, Zenon DEF dispatch_frame, r
  <2>8. q.out = Append(p.out, f) /\ q.buf = <<>> /\ q.state = "SeekMagic"
    BY <2>5, <2>6, <2>7 DEF reset
  <2>9. InFrame(q, z + 1, 0)
    BY <2>8 DEF InFrame, CellsFrom
  <2> QED
    BY <1>4, <1>13, <2>8, <2>9
<1> QED
  BY <1>10, <1>11, <1>12, <1>13

\* A parser that has read the stream up to the n-th cell, from the frames after the z-th
\* on, and handed those it has read whole.
Handed(q, z, y, m) ==
    /\ z <= y
    /\ InFrame(q, y, m)
    /\ q.out \in Seq(TcpFrame) /\ Len(q.out) = y - z
    /\ \A i \in 1..(y - z) : q.out[i] = published[z + i]

InStep(q, z, n) == \E y \in Nat, m \in 0..3 : 4 * y + m = n /\ Handed(q, z, y, m)

\* It stays so with one cell more.
LEMMA CellOn ==
    ASSUME NEW p \in ParserOf(TcpCell), NEW z \in Nat, NEW n \in Nat, InStep(p, z, n),
           published \in Seq(TcpFrame), n + 1 <= 4 * Len(published),
           NEW cell \in TcpCell, cell = StreamCell(n + 1),
           NEW garbage \in Nat, NEW q, q = process_byte(p, cell, garbage)
    PROVE  InStep(q, z, n + 1)
<1>1. PICK y \in Nat, m \in 0..3 : 4 * y + m = n /\ Handed(p, z, y, m)
  BY DEF InStep
<1>2. PICK l \in Nat : l = Len(published)
  BY LenProperties
<1>3. PICK a \in Nat : a = y + 1
  OBVIOUS
<1>4. a \in 1..l
  BY <1>1, <1>2, <1>3
<1>5. PICK f \in TcpFrame : f = published[a]
  BY <1>2, <1>4, ElementOfSeq
<1>6. PICK e \in 1..4 : e = m + 1
  OBVIOUS
<1>12. cell = CellOf(a, e)
  <2>1. StreamCell(4 * y + e) = CellOf(y + 1, e)
    BY StreamCellIs
  <2>2. 4 * y + e = n + 1
    BY <1>1, <1>6
  <2> QED
    BY <1>3, <2>1, <2>2
<1>7. z <= y /\ InFrame(p, y, m) /\ p.out \in Seq(TcpFrame) /\ Len(p.out) = y - z
      /\ \A i \in 1..(y - z) : p.out[i] = published[z + i]
  BY <1>1 DEF Handed
<1>9. \/ m < 3 /\ InFrame(q, y, e) /\ q.out = p.out
      \/ m = 3 /\ InFrame(q, a, 0) /\ q.out = Append(p.out, published[a])
  <2>1. published[a] \in TcpFrame /\ InFrame(p, y, m)
    BY <1>5, <1>7
  <2> QED
    BY <1>3, <1>6, <1>12, <2>1, CellInStep, SMTT(60)
<1>10. CASE m < 3 /\ InFrame(q, y, e) /\ q.out = p.out
  <2>1. e \in 0..3 /\ 4 * y + e = n + 1
    BY <1>1, <1>6, <1>10
  <2>2. Handed(q, z, y, e)
    BY <1>7, <1>10 DEF Handed
  <2> QED
    BY <2>1, <2>2 DEF InStep
<1>11. CASE m = 3 /\ InFrame(q, a, 0) /\ q.out = Append(p.out, published[a])
  <2>1. PICK o \in Seq(TcpFrame) : o = q.out /\ o = Append(p.out, f)
    <3>1. q.out = Append(p.out, f)
      BY <1>5, <1>11
    <3>2. Append(p.out, f) \in Seq(TcpFrame)
      BY <1>7, AppendProperties
    <3> QED
      BY <3>1, <3>2, Zenon
  <2>2. PICK k \in Nat : k = y - z
    BY <1>7
  <2>3. Len(o) = k + 1 /\ o[k + 1] = f /\ \A i \in 1..k : o[i] = p.out[i]
    <3>1. PICK u \in Seq(TcpFrame) : u = p.out
      BY <1>7
    <3>2. Len(u) = k /\ o = Append(u, f)
      BY <1>7, <2>1, <2>2, <3>1
    <3>3. Len(o) = k + 1 /\ o[k + 1] = f /\ \A i \in 1..k : o[i] = u[i]
      BY <3>1, <3>2, AppendProperties, SMTT(30)
    <3> QED
      BY <3>1, <3>3
  <2>4. a - z = k + 1 /\ z + (k + 1) = a /\ z <= a /\ 4 * a + 0 = n + 1
    BY <1>1, <1>3, <1>7, <1>11, <2>2
  <2>5. \A i \in 1..k : o[i] = published[z + i]
    BY <1>7, <2>2, <2>3
  <2>6. \A i \in 1..(k + 1) : i \in 1..k \/ i = k + 1
    OBVIOUS
  <2>7. \A i \in 1..(k + 1) : o[i] = published[z + i]
    BY <1>5, <2>3, <2>4, <2>5, <2>6
  <2>9. Handed(q, z, a, 0)
    BY <1>11, <2>1, <2>3, <2>4, <2>7 DEF Handed
  <2> QED
    BY <2>4, <2>9 DEF InStep
<1> QED
  BY <1>9, <1>10, <1>11

\* And with a read.
LEMMA ReadInStep ==
    ASSUME NEW p \in ParserOf(TcpCell), p.out = <<>>, NEW z \in Nat, NEW m \in 0..3,
           InFrame(p, z, m), NEW n \in Nat, n = 4 * z + m,
           NEW t \in Seq(TcpCell), CellsFrom(t, n),
           published \in Seq(TcpFrame), n + Len(t) <= 4 * Len(published),
           NEW garbage \in Nat, NEW q, q = push(p, t, garbage)
    PROVE  InStep(q, z, n + Len(t))
<1>1. PICK k \in Nat, l \in Nat : k = Len(t) /\ l = Len(published)
  BY LenProperties
<1>2. PICK g \in [0..k -> ParserOf(TcpCell)] : Reads(g, p, t, garbage) /\ q = g[k]
  <2>1. \E h \in [0..Len(t) -> ParserOf(TcpCell)] :
            Reads(h, p, t, garbage) /\ push(p, t, garbage) = h[Len(t)]
    <3>1. ReadsThrough(TcpCell, p, t, garbage)
      BY PushReads
    <3> QED
      BY <3>1, Zenon DEF ReadsThrough
  <2> QED
    BY <1>1, <2>1, Zenon
<1>3. g[0] = p /\ \A i \in 1..k : g[i] = process_byte(g[i - 1], t[i], garbage)
  BY <1>1, <1>2 DEF Reads
<1>4. \A i \in 1..k : t[i] = StreamCell(n + i) /\ t[i] \in TcpCell
  BY <1>1, ElementOfSeq DEF CellsFrom
<1> DEFINE Bad == {i \in Nat : i <= k /\ ~InStep(g[i], z, n + i)}
<1>5. 0 \notin Bad
  <2>1. Handed(p, z, z, m)
    <3>1. <<>> \in Seq(TcpFrame) /\ Len(<<>>) = 0 /\ z - z = 0 /\ 1..0 = {} /\ z <= z
      BY EmptySeq
    <3> QED
      BY <3>1 DEF Handed
  <2>2. InStep(p, z, n)
    BY <2>1 DEF InStep
  <2>3. n + 0 = n
    OBVIOUS
  <2> QED
    BY <1>3, <2>2, <2>3, Zenon
<1>6. ASSUME NEW i \in Nat, i \notin Bad PROVE i + 1 \notin Bad
  <2> SUFFICES ASSUME i + 1 <= k PROVE InStep(g[i + 1], z, n + (i + 1))
    OBVIOUS
  <2>1. PICK j \in 1..k : j = i + 1
    BY <1>1
  <2>2. i \in 0..k /\ j \in 0..k /\ j - 1 = i
    BY <1>1, <2>1
  <2>3. InStep(g[i], z, n + i)
    BY <1>6, <2>2
  <2>4. PICK old \in ParserOf(TcpCell) : old = g[i]
    BY <1>2, <2>2
  <2>5. PICK cell \in TcpCell : cell = t[j]
    BY <1>4
  <2>6. PICK b \in Nat : b = n + i
    OBVIOUS
  <2>7. PICK new : new = process_byte(old, cell, garbage)
    OBVIOUS
  <2>8. new = g[j]
    BY <1>3, <2>2, <2>4, <2>5, <2>7
  <2>9. InStep(old, z, b)
    BY <2>3, <2>4, <2>6, Zenon
  <2>10. cell = StreamCell(b + 1) /\ b + 1 <= 4 * Len(published)
    <3>1. n + j = b + 1
      BY <2>1, <2>6
    <3>2. cell = StreamCell(n + j)
      BY <1>4, <2>5
    <3>3. cell = StreamCell(b + 1)
      BY <3>1, <3>2, Zenon
    <3>4. b + 1 <= 4 * Len(published)
      BY <1>1, <2>1, <2>6
    <3> QED
      BY <3>3, <3>4
  <2> HIDE DEF Bad
  <2>11. InStep(new, z, b + 1)
    BY <2>7, <2>9, <2>10, CellOn, SMTT(30)
  <2>12. b + 1 = n + (i + 1)
    BY <2>6
  <2> QED
    BY <2>1, <2>8, <2>11, <2>12, Zenon
<1>7. Bad = {}
  <2>1. Bad \subseteq Nat
    OBVIOUS
  <2> HIDE DEF Bad
  <2> QED
    BY <1>5, <1>6, <2>1, NoLeastExample
<1>8. InStep(g[k], z, n + k)
  BY <1>7
<1> QED
  BY <1>1, <1>2, <1>8

\* t is what s has after its n-th frame; s has l.
IsTail(t, s, n, l) ==
    t \in Seq(TcpFrame) /\ Len(t) = l - n /\ \A i \in 1..(l - n) : t[i] = s[n + i]

\* The frames after the n-th are.
LEMMA TailOf ==
    ASSUME NEW s \in Seq(TcpFrame), NEW l \in Nat, l = Len(s), NEW n \in Nat, n <= l
    PROVE  IsTail(SubSeq(s, n + 1, l), s, n, l)
<1>1. PICK a \in Nat : a = n + 1
  OBVIOUS
<1>2. \A i \in a..l : i \in 1..Len(s)
  BY <1>1
<1>3. \A i \in a..l : s[i] \in TcpFrame
  BY <1>2, ElementOfSeq
<1>4. PICK t \in Seq(TcpFrame) : t = SubSeq(s, a, l)
  BY <1>3, SubSeqProperties, a \in Int, l \in Int
<1>5. /\ Len(t) = IF a <= l THEN l - a + 1 ELSE 0
      /\ \A i \in 1..((l - a) + 1) : t[i] = s[(a + i) - 1]
  BY <1>3, <1>4, SubSeqProperties, a \in Int, l \in Int
<1>6. Len(t) = l - n
  BY <1>1, <1>5
<1>7. (l - a) + 1 = l - n /\ \A i \in 1..(l - n) : (a + i) - 1 = n + i
  BY <1>1
<1>8. \A i \in 1..(l - n) : t[i] = s[n + i]
  BY <1>5, <1>7
<1>9. IsTail(t, s, n, l)
  BY <1>6, <1>8 DEF IsTail
<1> QED
  BY <1>1, <1>4, <1>9, Zenon

\* v is two sequences put together, of d and of e elements.
Joined(v, s, d, r, e) ==
    Len(v) = d + e /\ \A i \in 1..(d + e) : v[i] = IF i <= d THEN s[i] ELSE r[i - d]

\* Two sequences are.
LEMMA JoinIs ==
    ASSUME NEW S, NEW s \in Seq(S), NEW r \in Seq(S),
           NEW d, d = Len(s), NEW e, e = Len(r), NEW v, v = s \o r
    PROVE  Joined(v, s, d, r, e)
BY ConcatProperties DEF Joined

\* What was got after the k-th frame is what was published after the a-th, up to the
\* z-th, and o is the rest.
Meets(got, o, pub, g, l, k, a, z) ==
    /\ g = Len(got) /\ l = Len(pub) /\ a <= z /\ z <= l
    /\ g = k + (z - a) /\ Matches(got, k, pub, a, z - a)
    /\ Len(o) = l - z /\ Matches(o, 0, pub, z, l - z)

\* Together they are all that was published after the a-th.
MakeUp(got, o, pub, g, l, k, a) == SubSeq(got, k + 1, g) \o o = SubSeq(pub, a + 1, l)

\* Those that meet do.
LEMMA TailsMeet ==
    ASSUME NEW got \in Seq(TcpFrame), NEW o \in Seq(TcpFrame), NEW pub \in Seq(TcpFrame),
           NEW g \in Nat, NEW l \in Nat, NEW k \in Nat, NEW a \in Nat, NEW z \in Nat,
           Meets(got, o, pub, g, l, k, a, z)
    PROVE  MakeUp(got, o, pub, g, l, k, a)
<1>1. /\ g = Len(got) /\ l = Len(pub) /\ a <= z /\ z <= l
      /\ g = k + (z - a) /\ Len(o) = l - z
      /\ Matches(got, k, pub, a, z - a) /\ Matches(o, 0, pub, z, l - z)
  BY DEF Meets
<1>2. PICK d \in Nat, e \in Nat : d = z - a /\ e = l - z
  <2>1. z - a \in Nat /\ l - z \in Nat
    BY <1>1
  <2> QED
    BY <2>1
<1>10. /\ \A i \in 1..d : got[k + i] = pub[a + i]
       /\ \A i \in 1..e : o[i] = pub[z + i]
  <2>1. Matches(got, k, pub, a, d) /\ Matches(o, 0, pub, z, e)
    BY <1>1, <1>2, Zenon
  <2>2. \A i \in 1..e : 0 + i = i
    OBVIOUS
  <2> QED
    BY <2>1, <2>2 DEF Matches
<1>3. k <= g /\ a <= l /\ g - k = d /\ l - a = d + e /\ Len(o) = e
  <2>1. g = k + d /\ Len(o) = e
    BY <1>1, <1>2, Zenon
  <2> QED
    BY <1>1, <1>2, <2>1
<1>4. PICK t : t = SubSeq(got, k + 1, g) /\ IsTail(t, got, k, g)
  BY <1>1, <1>3, TailOf
<1>5. PICK u : u = SubSeq(pub, a + 1, l) /\ IsTail(u, pub, a, l)
  BY <1>1, <1>3, TailOf
<1>11. /\ t \in Seq(TcpFrame) /\ Len(t) = g - k
       /\ \A i \in 1..(g - k) : t[i] = got[k + i]
       /\ u \in Seq(TcpFrame) /\ Len(u) = l - a
       /\ \A i \in 1..(l - a) : u[i] = pub[a + i]
  BY <1>4, <1>5 DEF IsTail
<1>6. PICK v \in Seq(TcpFrame) : v = t \o o
  BY <1>11, ConcatProperties
<1>7. Len(v) = d + e /\ \A i \in 1..(d + e) : v[i] = IF i <= d THEN t[i] ELSE o[i - d]
  <2>1. Len(t) = d /\ Len(o) = e
    BY <1>3, <1>11
  <2>2. Joined(v, t, d, o, e)
    BY <1>6, <1>11, <2>1, JoinIs
  <2> QED
    BY <2>2 DEF Joined
<1>8. ASSUME NEW i \in 1..(d + e) PROVE v[i] = u[i]
  <2>1. u[i] = pub[a + i]
    BY <1>3, <1>11
  <2>2. CASE i <= d
    <3>1. i \in 1..d
      BY <2>2
    <3>2. v[i] = t[i]
      BY <1>7, <2>2
    <3>3. t[i] = got[k + i]
      BY <1>3, <1>11, <3>1
    <3>4. got[k + i] = pub[a + i]
      BY <1>10, <3>1
    <3> QED
      BY <2>1, <3>2, <3>3, <3>4
  <2>3. CASE ~(i <= d)
    <3>1. PICK j \in 1..e : j = i - d
      BY <2>3
    <3>2. v[i] = o[j]
      BY <1>7, <2>3, <3>1
    <3>3. o[j] = pub[z + j]
      BY <1>10
    <3>4. z + j = a + i
      BY <1>2, <3>1
    <3> QED
      BY <2>1, <3>2, <3>3, <3>4, Zenon
  <2> QED
    BY <2>2, <2>3
<1>9. v = u
  BY <1>3, <1>7, <1>8, <1>11, SeqEqual
<1> QED
  BY <1>4, <1>5, <1>6, <1>9, Zenon DEF MakeUp

\* Two runs of the stream, one after the other, are one.
LEMMA CellsMeet ==
    ASSUME NEW s \in Seq(TcpCell), NEW r \in Seq(TcpCell), NEW n \in Nat, NEW m,
           m = n + Len(s), CellsFrom(s, n), CellsFrom(r, m)
    PROVE  s \o r \in Seq(TcpCell) /\ Len(s \o r) = Len(s) + Len(r) /\ CellsFrom(s \o r, n)
<1>1. PICK k \in Nat, l \in Nat : k = Len(s) /\ l = Len(r)
  BY LenProperties
<1>2. PICK w \in Seq(TcpCell) : w = s \o r
  BY ConcatProperties
<1>3. Len(w) = k + l /\ \A i \in 1..(k + l) : w[i] = IF i <= k THEN s[i] ELSE r[i - k]
  BY <1>1, <1>2, ConcatProperties
<1>4. ASSUME NEW i \in 1..(k + l) PROVE w[i] = StreamCell(n + i)
  <2>1. CASE i <= k
    BY <1>1, <1>3, <2>1 DEF CellsFrom
  <2>2. CASE ~(i <= k)
    <3>1. PICK j \in 1..l : j = i - k
      BY <2>2
    <3>2. w[i] = r[j] /\ r[j] = StreamCell(m + j)
      BY <1>1, <1>3, <2>2, <3>1 DEF CellsFrom
    <3>3. m + j = n + i
      BY <1>1, <3>1
    <3> QED
      BY <3>2, <3>3
  <2> QED
    BY <2>1, <2>2
<1>5. CellsFrom(w, n)
  BY <1>3, <1>4 DEF CellsFrom
<1> QED
  BY <1>1, <1>2, <1>3, <1>5, Zenon

\* What the invariants say of a connection that carries all.
LEMMA DeliversAll ==
    ASSUME TcpIInv, IntactIInv, NEW c \in Conn, NEW z \in Nat, NEW m \in 0..3,
           NEW k \in Nat, Brought(c, z, m, k)
    PROVE  SubSeq(received, k + 1, Len(received)) \o InFlight(c)
             = SubSeq(published, since[c] + 1, Len(published))
<1>1. PICK s \in Seq(TcpCell), r \in Seq(TcpCell) : s = chan[c] /\ r = ring[c]
  BY DEF TcpIInv, TcpShape, TcpCell
<1>2. /\ published \in Seq(TcpFrame) /\ received \in Seq(TcpFrame)
      /\ parser \in ParserOf(TcpCell) /\ parser.out = <<>>
  BY DEF TcpIInv, TcpShape, TcpCell
<1>3. PICK l \in Nat, a \in Nat : l = Len(published) /\ a = since[c]
  <2>1. Len(published) \in Nat /\ since[c] \in Nat
    BY <1>2, LenProperties, TcpAssumption DEF IntactIInv
  <2> QED
    BY <2>1
<1>4. a <= z /\ z <= l
  BY <1>3 DEF Brought
<1>5. PICK n \in Nat : n = 4 * z + m
  OBVIOUS
<1>6. PICK x \in Nat, y \in Nat : x = Len(s) /\ y = Len(r)
  BY LenProperties
<1>7. n + x + y = 4 * l
  BY <1>1, <1>3, <1>5, <1>6 DEF Brought
<1>8. PICK w \in Seq(TcpCell) : w = s \o r /\ Len(w) = x + y /\ CellsFrom(w, n)
  <2>1. PICK e \in Nat : e = n + x
    OBVIOUS
  <2>2. CellsFrom(s, n) /\ CellsFrom(r, e)
    <3>1. CellsFrom(chan[c], 4 * z + m) /\ CellsFrom(ring[c], 4 * z + m + Len(chan[c]))
      BY DEF Brought
    <3>2. 4 * z + m + Len(chan[c]) = e
      BY <1>1, <1>5, <1>6, <2>1
    <3> QED
      BY <1>1, <1>5, <3>1, <3>2, Zenon
  <2>3. s \o r \in Seq(TcpCell) /\ Len(s \o r) = Len(s) + Len(r) /\ CellsFrom(s \o r, n)
    BY <1>6, <2>1, <2>2, CellsMeet
  <2> QED
    BY <1>6, <2>3, Zenon
<1>9. PICK p : p = [parser EXCEPT !.out = <<>>]
  OBVIOUS
<1>10. p = parser
  BY <1>2, <1>9 DEF ParserOf
<1>11. InFrame(parser, z, m)
  BY DEF Brought
<1>12. PICK q : q = push(parser, w, 0)
  OBVIOUS
<1>13. InStep(q, z, n + Len(w))
  <2>1. n + Len(w) <= 4 * Len(published)
    BY <1>3, <1>7, <1>8
  <2> QED
    BY <1>2, <1>4, <1>5, <1>8, <1>11, <1>12, <2>1, ReadInStep
<1>14. PICK b \in Nat, e \in 0..3 : 4 * b + e = n + Len(w) /\ Handed(q, z, b, e)
  BY <1>13 DEF InStep
<1>15. b = l /\ n + Len(w) = 4 * l
  BY <1>7, <1>8, <1>14
<1>16. InFlight(c) = q.out
  BY <1>1, <1>8, <1>9, <1>10, <1>12 DEF InFlight
<1>17. PICK o \in Seq(TcpFrame) : /\ o = q.out /\ Len(o) = l - z
                                 /\ \A i \in 1..(l - z) : o[i] = published[z + i]
  BY <1>14, <1>15 DEF Handed
<1>18. Matches(o, 0, published, z, l - z)
  <2>1. \A i \in 1..(l - z) : 0 + i = i
    OBVIOUS
  <2> QED
    BY <1>17, <2>1 DEF Matches
<1>19. PICK g \in Nat : /\ g = Len(received) /\ g = k + (z - a)
                        /\ Matches(received, k, published, a, z - a)
  <2>1. Len(received) = k + (z - a) /\ Matches(received, k, published, a, z - a)
    BY <1>3 DEF Brought
  <2> QED
    BY <1>2, <2>1, LenProperties
<1>20. SubSeq(received, k + 1, g) \o o = SubSeq(published, a + 1, l)
  <2>1. Meets(received, o, published, g, l, k, a, z)
    BY <1>3, <1>4, <1>17, <1>18, <1>19 DEF Meets
  <2>2. received \in Seq(TcpFrame) /\ published \in Seq(TcpFrame)
    BY <1>2
  <2>3. MakeUp(received, o, published, g, l, k, a)
    BY <2>1, <2>2, TailsMeet
  <2> QED
    BY <2>3 DEF MakeUp
<1> QED
  BY <1>3, <1>16, <1>17, <1>19, <1>20, Zenon

\* So the client gets everything.
LEMMA AllIsDelivered == TcpIInv /\ IntactIInv => IntactConnectionsDeliver
<1> SUFFICES ASSUME TcpIInv, IntactIInv, NEW c \in clients, intact[c], client.conn = c
             PROVE  \E k \in 0..Len(received) :
                        /\ \A i \in 1..k : received[i].no <= since[c]
                        /\ SubSeq(received, k + 1, Len(received)) \o InFlight(c)
                             = SubSeq(published, since[c] + 1, Len(published))
  BY DEF IntactConnectionsDeliver
<1>1. c \in Conn /\ srvEnd[c] = "accepted"
  BY DEF clients
<1>2. CarriesAll(c)
  BY <1>1 DEF IntactIInv
<1>3. PICK z \in 0..Len(published), m \in 0..3, k \in 0..Len(received) : Brought(c, z, m, k)
  BY <1>2 DEF CarriesAll
<1>4. SubSeq(received, k + 1, Len(received)) \o InFlight(c)
        = SubSeq(published, since[c] + 1, Len(published))
  <2>1. Len(published) \in Nat /\ Len(received) \in Nat
    BY LenProperties DEF TcpIInv, TcpShape
  <2>2. z \in Nat /\ k \in Nat
    BY <2>1
  <2> QED
    BY <1>1, <1>3, <2>2, DeliversAll
<1>5. \A i \in 1..k : received[i].no <= since[c]
  BY <1>3 DEF Brought
<1> QED
  BY <1>4, <1>5

-----------------------------------------------------------------------------
(* Its invariant *)

\* No connection, no frame.
LEMMA IntactStarts == TcpInit => IntactIInv
<1> SUFFICES ASSUME TcpInit PROVE IntactIInv
  OBVIOUS
<1>1. since \in [Conn -> 0..MaxFrames] /\ intact \in [Conn -> BOOLEAN]
  BY TcpAssumption DEF TcpInit
<1>2. Len(<<>>) = 0 /\ 1..0 = {}
  OBVIOUS
<1>3. published = <<>> /\ parser = NewParser /\ client.conn = NoConn
  BY DEF TcpInit
<1> QED
  BY <1>1, <1>2, <1>3, TcpAssumption DEF IntactIInv

\* A step that closes a connection, or leaves it and the client's parser alone.
Settled(c) ==
    /\ parser' = parser
    /\ \/ srvEnd'[c] = "closed"
       \/ /\ client.conn = c /\ srvEnd'[c] = srvEnd[c]
          /\ ring'[c] = ring[c] /\ chan'[c] = chan[c]
          /\ since'[c] = since[c] /\ (intact'[c] => intact[c])

\* The second keeps what the connection carries.
LEMMA CarriesOn ==
    ASSUME NEW c \in Conn, CarriesAll(c), ring'[c] = ring[c], chan'[c] = chan[c],
           since'[c] = since[c], UNCHANGED <<published, received, parser>>
    PROVE  CarriesAll(c)'
<1>1. PICK z \in 0..Len(published), m \in 0..3, k \in 0..Len(received) : Brought(c, z, m, k)
  BY DEF CarriesAll
<1>2. CellsFrom(chan[c], 4 * z + m)' /\ CellsFrom(ring[c], 4 * z + m + Len(chan[c]))'
  BY <1>1 DEF Brought, CellsFrom, StreamCell, CellOf
<1>3. InFrame(parser, z, m)'
  BY <1>1 DEF Brought, InFrame, CellsFrom, StreamCell, CellOf
<1>4. Brought(c, z, m, k)'
  BY <1>1, <1>2, <1>3 DEF Brought, Matches
<1> QED
  BY <1>4 DEF CarriesAll

\* If that is all a step does to the client's connection, the invariant stays.
LEMMA SettledStays ==
    ASSUME IntactIInv, UNCHANGED <<published, received>>,
           since' \in [Conn -> 0..MaxFrames], intact' \in [Conn -> BOOLEAN],
           Reading' \/ parser' = NewParser,
           \A c \in Conn : client'.conn = c => Settled(c)
    PROVE  IntactIInv'
<1>1. ASSUME NEW c \in Conn, client'.conn = c, srvEnd'[c] \in {"backlog", "left"}
      PROVE  parser' = NewParser /\ chan'[c] = <<>>
  BY <1>1 DEF Settled, IntactIInv
<1>2. ASSUME NEW c \in Conn, client'.conn = c, srvEnd'[c] = "accepted", intact'[c]
      PROVE  CarriesAll(c)'
  <2>1. Settled(c) /\ srvEnd'[c] # "closed"
    BY <1>2
  <2>2. CarriesAll(c)
    BY <1>2, <2>1 DEF Settled, IntactIInv
  <2> QED
    BY <2>1, <2>2, CarriesOn DEF Settled
<1> QED
  BY <1>1, <1>2 DEF IntactIInv

\* Steps of the threads that leave the connections alone.
LEMMA ThreadSettles ==
    ASSUME IntactIInv, UNCHANGED <<srvEnd, data, published, reader>>,
           \/ client'.conn = client.conn
           \/ client'.conn = NoConn,
           Reading => Reading'
    PROVE  IntactIInv'
<1>1. ASSUME NEW c \in Conn, client'.conn = c PROVE Settled(c)
  BY <1>1, TcpAssumption DEF Settled, data, reader
<1>2. Reading' \/ parser' = NewParser
  BY DEF IntactIInv, reader
<1>3. since' \in [Conn -> 0..MaxFrames] /\ intact' \in [Conn -> BOOLEAN]
  BY DEF IntactIInv, data
<1> QED
  BY <1>1, <1>2, <1>3, SettledStays DEF reader

\* The server accepts what waits: nothing has been sent on it, and all that was published
\* by then is old.
LEMMA AcceptIntact ==
    ASSUME TcpIInv, IntactIInv, accept_client
    PROVE  IntactIInv'
<1>1. PICK new \in SUBSET Backlog(server.starts) :
          /\ srvEnd' = [c \in Conn |-> IF c \in new THEN "accepted"
                                      ELSE IF c \in Backlog(server.starts) THEN "left"
                                      ELSE srvEnd[c]]
          /\ since' = [c \in Conn |-> IF c \in new THEN Len(published) ELSE since[c]]
  BY DEF accept_client
<1>2. UNCHANGED <<ring, chan, intact, published, client, parser, received>>
  BY DEF accept_client, reader
<1>3. /\ published \in Seq(TcpFrame) /\ received \in Seq(TcpFrame)
      /\ Len(published) <= MaxFrames
  BY DEF TcpIInv, TcpShape
<1>4. PICK l \in Nat, g \in Nat : l = Len(published) /\ g = Len(received)
  BY <1>3, LenProperties
<1>5. since' \in [Conn -> 0..MaxFrames]
  BY <1>1, <1>3, <1>4, TcpAssumption DEF IntactIInv
<1>6. ASSUME NEW c \in Conn, client.conn = c, c \in new PROVE CarriesAll(c)'
  <2>1. srvEnd[c] \in {"backlog", "left"}
    BY <1>1, <1>6 DEF Backlog
  <2>2. parser = NewParser /\ chan[c] = <<>> /\ ring[c] = <<>>
    BY <1>6, <2>1 DEF IntactIInv, TcpIInv, ConnHolds
  <2>3. Len(<<>>) = 0 /\ 1..0 = {}
    OBVIOUS
  <2>4. since'[c] = l /\ Len(chan'[c]) = 0 /\ Len(ring'[c]) = 0
    BY <1>1, <1>2, <1>4, <1>6, <2>2, <2>3
  <2>5. CellsFrom(chan[c], 4 * l + 0)' /\ CellsFrom(ring[c], 4 * l + 0 + Len(chan[c]))'
    BY <2>3, <2>4 DEF CellsFrom
  <2>6. InFrame(parser, l, 0)'
    BY <1>2, <2>2, <2>3 DEF InFrame, NewParser, CellsFrom
  <2>7. \A i \in 1..g : received[i].no <= l
    <3>1. \A i \in 1..g : received[i].no \in 1..l
      BY <1>4 DEF TcpIInv, Sound
    <3> QED
      BY <1>4, <3>1
  <2>8. Matches(received, g, published, since[c], l - since[c])'
    <3>1. 1..(l - l) = {}
      OBVIOUS
    <3> QED
      BY <2>4, <3>1 DEF Matches
  <2>9. Brought(c, l, 0, g)'
    <3>1. 4 * l + 0 + 0 + 0 = 4 * l /\ g = g + (l - l) /\ l <= l
      OBVIOUS
    <3> QED
      BY <1>2, <1>4, <2>4, <2>5, <2>6, <2>7, <2>8, <3>1 DEF Brought
  <2>10. l \in 0..l /\ g \in 0..g /\ 0 \in 0..3
    OBVIOUS
  <2> QED
    BY <1>2, <1>4, <2>9, <2>10 DEF CarriesAll
<1>7. ASSUME NEW c \in Conn, client.conn = c, c \notin new, srvEnd[c] = "accepted", intact[c]
      PROVE  CarriesAll(c)'
  <2>1. CarriesAll(c)
    BY <1>7 DEF IntactIInv
  <2> QED
    BY <1>1, <1>2, <1>7, <2>1, CarriesOn
<1>8. ASSUME NEW c \in Conn, client'.conn = c, srvEnd'[c] \in {"backlog", "left"}
      PROVE  parser' = NewParser /\ chan'[c] = <<>>
  <2>1. srvEnd[c] \in {"backlog", "left"}
    BY <1>1, <1>8 DEF Backlog
  <2> QED
    BY <1>2, <1>8, <2>1 DEF IntactIInv
<1>9. ASSUME NEW c \in Conn, client'.conn = c, srvEnd'[c] = "accepted", intact'[c]
      PROVE  CarriesAll(c)'
  BY <1>1, <1>2, <1>6, <1>7, <1>9
<1>10. Reading' \/ parser' = NewParser
  BY <1>2 DEF IntactIInv, Reading
<1> QED
  BY <1>2, <1>5, <1>8, <1>9, <1>10 DEF IntactIInv

\* A new connection: nothing is on it.
LEMMA ConnectIntact ==
    ASSUME TcpIInv, IntactIInv, NEW c \in Conn, NEW l \in listening, ConnectInProgress(c, l)
    PROVE  IntactIInv'
<1>1. c # NoConn
  BY TcpAssumption
<1>2. /\ client.pc = "connect" /\ srvEnd' = [srvEnd EXCEPT ![c] = "backlog"] /\ ~cliEnd[c]
      /\ client' = [client EXCEPT !.pc = "wait", !.conn = c, !.attempts = 0]
      /\ UNCHANGED <<ring, chan, since, intact, published, parser, received>>
  BY <1>1 DEF ConnectInProgress, Free, data, reader
<1>3. client'.conn = c /\ srvEnd'[c] = "backlog"
  BY <1>2 DEF TcpIInv, TcpShape
<1>4. chan[c] = <<>>
  BY <1>2 DEF TcpIInv, ConnHolds
<1>5. parser = NewParser
  BY <1>2 DEF IntactIInv, Reading
<1> QED
  BY <1>2, <1>3, <1>4, <1>5 DEF IntactIInv

\* A publish adds to the stream, and keeps its cells.
LEMMA StreamKept ==
    ASSUME published \in Seq(TcpFrame), NEW f \in TcpFrame, published' = Append(published, f),
           NEW l \in Nat, l = Len(published), NEW k \in 1..(4 * l)
    PROVE  StreamCell(k)' = StreamCell(k)
<1>1. PICK j \in Nat : j = ((k - 1) \div 4) + 1
  OBVIOUS
<1>2. j \in 1..l
  BY <1>1
<1>3. published'[j] = published[j]
  BY <1>2, AppendProperties
<1> QED
  BY <1>1, <1>3 DEF StreamCell, CellOf

\* And those of a sequence that is on its way.
LEMMA CellsKept ==
    ASSUME published \in Seq(TcpFrame), NEW f \in TcpFrame, published' = Append(published, f),
           NEW l \in Nat, l = Len(published),
           NEW s \in Seq(TcpCell), NEW n \in Nat, n + Len(s) <= 4 * l, CellsFrom(s, n)
    PROVE  CellsFrom(s, n)'
<1>1. PICK x \in Nat : x = Len(s)
  BY LenProperties
<1>2. ASSUME NEW i \in 1..x PROVE s[i] = StreamCell(n + i)'
  <2>1. PICK k \in 1..(4 * l) : k = n + i
    BY <1>1
  <2>2. s[i] = StreamCell(k)
    BY <1>1, <2>1 DEF CellsFrom
  <2>3. StreamCell(k)' = StreamCell(k)
    BY StreamKept
  <2>4. StreamCell(n + i)' = StreamCell(k)'
    BY <2>1
  <2> QED
    BY <2>2, <2>3, <2>4
<1> QED
  BY <1>1, <1>2 DEF CellsFrom

\* The cells of s, after the n-th, are the last of l frames.
Completes(s, n, l) == n + Len(s) = 4 * l /\ CellsFrom(s, n)

\* A ring that takes the whole frame has the cells of the stream up to its end.
LEMMA FrameAdded ==
    ASSUME published \in Seq(TcpFrame), NEW f \in TcpFrame, published' = Append(published, f),
           NEW l \in Nat, l = Len(published), NEW q, q = l + 1,
           NEW r \in Seq(TcpCell), NEW n \in Nat, Completes(r, n, l),
           NEW r2, r2 = r \o SubSeq(encode(f), 1, 4)
    PROVE  Completes(r2, n, q)'
<1>0. n + Len(r) = 4 * l /\ CellsFrom(r, n)
  BY DEF Completes
<1>1. PICK x \in Nat : x = Len(r)
  BY LenProperties
<1>2. PICK cells \in Seq(TcpCell) :
          /\ cells = encode(f) /\ Len(cells) = 4
          /\ \A i \in 1..4 : cells[i] = [part |-> Part[i], of |-> f]
  <2>1. encode(f) \in [1..4 -> TcpCell]
    BY DEF encode, TcpCell, Cell, Part
  <2>2. encode(f) \in Seq(TcpCell) /\ Len(encode(f)) = 4
    BY <2>1, FunctionIsSeq
  <2>3. \A i \in 1..4 : encode(f)[i] = [part |-> Part[i], of |-> f]
    BY DEF encode
  <2> QED
    BY <2>2, <2>3
<1>3. PICK t \in Seq(TcpCell) : /\ t = SubSeq(cells, 1, 4) /\ Len(t) = 4
                                /\ \A i \in 1..4 : t[i] = cells[i]
  <2>1. /\ SubSeq(cells, 0 + 1, 4) \in Seq(TcpCell) /\ Len(SubSeq(cells, 0 + 1, 4)) = 4 - 0
        /\ \A i \in 1..(4 - 0) : SubSeq(cells, 0 + 1, 4)[i] = cells[0 + i]
    <3>1. 4 <= Len(cells) /\ 0 <= 4 /\ 0 \in Nat /\ 4 \in Nat
      BY <1>2
    <3> QED
      BY <3>1, PartOf
  <2>2. 0 + 1 = 1 /\ 4 - 0 = 4 /\ \A i \in 1..4 : 0 + i = i
    OBVIOUS
  <2> QED
    BY <2>1, <2>2
<1>4. r2 \in Seq(TcpCell) /\ Len(r2) = x + 4
      /\ \A i \in 1..(x + 4) : r2[i] = IF i <= x THEN r[i] ELSE t[i - x]
  <2>1. r2 = r \o t
    BY <1>2, <1>3
  <2>2. r2 \in Seq(TcpCell)
    BY <2>1, ConcatProperties
  <2>3. Joined(r2, r, x, t, 4)
    BY <1>1, <1>3, <2>1, JoinIs
  <2> QED
    BY <2>2, <2>3 DEF Joined
<1>5. CellsFrom(r, n)'
  <2>1. n + Len(r) <= 4 * l
    BY <1>0, <1>1
  <2> QED
    BY <1>0, <2>1, CellsKept
<1>6. PICK a \in Nat : a = l + 1
  OBVIOUS
<1>7. published'[a] = f
  BY <1>6, AppendProperties
<1>8. ASSUME NEW i \in 1..(x + 4) PROVE r2[i] = StreamCell(n + i)'
  <2>1. CASE i <= x
    <3>1. i \in 1..x
      BY <2>1
    <3>2. r[i] = StreamCell(n + i)'
      BY <1>1, <1>5, <3>1 DEF CellsFrom
    <3> QED
      BY <1>4, <2>1, <3>2
  <2>2. CASE ~(i <= x)
    <3>1. PICK j \in 1..4 : j = i - x
      BY <2>2
    <3>2. r2[i] = [part |-> Part[j], of |-> f]
      <4>1. r2[i] = t[j]
        BY <1>4, <2>2, <3>1
      <4>2. t[j] = cells[j] /\ cells[j] = [part |-> Part[j], of |-> f]
        BY <1>2, <1>3
      <4> QED
        BY <4>1, <4>2
    <3>3. n + i = 4 * l + j
      <4>1. PICK b \in Nat : b = 4 * l
        OBVIOUS
      <4>2. n + x = b
        BY <1>0, <1>1, <4>1
      <4>3. i = x + j
        BY <3>1
      <4>4. n + i = b + j
        BY <4>2, <4>3
      <4> QED
        BY <4>1, <4>4
    <3>4. ((4 * l + j) - 1) \div 4 = l /\ (((4 * l + j) - 1) % 4) + 1 = j
      BY PlaceOf
    <3>5. StreamCell(4 * l + j)' = [part |-> Part[j], of |-> f]
      BY <1>6, <1>7, <3>4 DEF StreamCell, CellOf
    <3> QED
      BY <3>2, <3>3, <3>5
  <2> QED
    BY <2>1, <2>2
<1>9. CellsFrom(r2, n)'
  BY <1>4, <1>8 DEF CellsFrom
<1>10. n + Len(r2) = 4 * q
  <2>1. PICK b \in Nat : b = 4 * l
    OBVIOUS
  <2>2. n + x = b
    BY <1>0, <1>1, <2>1
  <2>3. n + (x + 4) = b + 4
    BY <2>2
  <2>4. 4 * q = b + 4
    BY <2>1
  <2> QED
    BY <1>4, <2>3, <2>4, Zenon
<1> QED
  BY <1>9, <1>10 DEF Completes

\* A publish that leaves a connection intact adds its whole frame to what it carries.
LEMMA FrameCarried ==
    ASSUME TcpIInv, IntactIInv, NEW c \in Conn, CarriesAll(c),
           NEW f \in TcpFrame, published' = Append(published, f),
           ring'[c] = ring[c] \o SubSeq(encode(f), 1, 4),
           UNCHANGED <<chan, since, parser, received>>
    PROVE  CarriesAll(c)'
<1>1. PICK z \in 0..Len(published), m \in 0..3, k \in 0..Len(received) : Brought(c, z, m, k)
  BY DEF CarriesAll
<1>2. PICK s \in Seq(TcpCell), r \in Seq(TcpCell), b \in Seq(TcpCell) :
          s = chan[c] /\ r = ring[c] /\ b = parser.buf
  BY DEF TcpIInv, TcpShape, TcpCell, ParserOf
<1>3. published \in Seq(TcpFrame) /\ received \in Seq(TcpFrame)
  BY DEF TcpIInv, TcpShape
<1>4. PICK l \in Nat, g \in Nat : l = Len(published) /\ g = Len(received)
  BY <1>3, LenProperties
<1>5. PICK a \in Nat : a = since[c]
  BY TcpAssumption DEF IntactIInv
<1>6. PICK x \in Nat, y \in Nat : x = Len(s) /\ y = Len(r)
  BY LenProperties
<1>7. z \in 0..l /\ k \in 0..g
  BY <1>1, <1>4
<1>8. /\ a <= z /\ z <= l /\ 4 * z + m + x + y = 4 * l
      /\ CellsFrom(s, 4 * z + m) /\ CellsFrom(r, 4 * z + m + x) /\ InFrame(parser, z, m)
      /\ g = k + (z - a) /\ (\A i \in 1..k : received[i].no <= a)
      /\ Matches(received, k, published, a, z - a)
  BY <1>1, <1>2, <1>4, <1>5, <1>6 DEF Brought
<1>9. PICK n \in Nat, e \in Nat, d \in Nat : n = 4 * z + m /\ e = 4 * z + m + x /\ d = 4 * z
  BY <1>7
<1>10. n + x + y = 4 * l /\ e = n + x /\ d + m = n
  BY <1>7, <1>8, <1>9
<1>11. CellsFrom(s, n) /\ CellsFrom(r, e) /\ CellsFrom(b, d) /\ Len(b) = m
  BY <1>2, <1>8, <1>9 DEF InFrame
<1>12. CellsFrom(s, n)' /\ CellsFrom(b, d)'
  <2>2. PICK h \in Nat : h = 4 * l
    OBVIOUS
  <2>3. n + x + y = h /\ d + m = n
    BY <1>10, <2>2, Zenon
  <2>4. n + x <= h /\ d + m <= h
    BY <2>3
  <2>1. n + Len(s) <= 4 * l /\ d + Len(b) <= 4 * l
    BY <1>6, <1>11, <2>2, <2>4, Zenon
  <2> QED
    BY <1>3, <1>4, <1>11, <2>1, CellsKept
<1>14. PICK q \in Nat : q = l + 1 /\ Len(published') = q
  BY <1>3, <1>4, AppendProperties
<1>13. PICK r2 : r2 = ring'[c] /\ e + Len(r2) = 4 * q /\ CellsFrom(r2, e)'
  <2>1. Completes(r, e, l)
    BY <1>6, <1>10, <1>11 DEF Completes
  <2>2. PICK w : w = r \o SubSeq(encode(f), 1, 4)
    OBVIOUS
  <2>3. ring'[c] = w
    BY <1>2, <2>2
  <2>4. Completes(w, e, q)'
    BY <1>3, <1>4, <1>14, <2>1, <2>2, FrameAdded
  <2> QED
    BY <2>3, <2>4 DEF Completes
<1>15. Matches(received, k, published, a, z - a)'
  <2>1. ASSUME NEW i \in 1..(z - a) PROVE received[k + i] = published'[a + i]
    <3>1. PICK j \in 1..l : j = a + i
      BY <1>7, <1>8
    <3>2. received[k + i] = published[a + i]
      BY <1>8 DEF Matches
    <3>3. published'[j] = published[j]
      BY <1>3, <1>4, AppendProperties
    <3> QED
      BY <3>1, <3>2, <3>3
  <2> QED
    BY <2>1 DEF Matches
<1>16. InFrame(parser, z, m)'
  BY <1>2, <1>8, <1>9, <1>12 DEF InFrame
<1>17. Brought(c, z, m, k)'
  <2>0. z <= q
    BY <1>7, <1>14
  <2>1. z <= q /\ 4 * z + m + x + Len(r2) = 4 * q
    BY <1>9, <1>13, <2>0, Zenon
  <2>2. since'[c] = a /\ Len(received') = k + (z - a) /\ chan'[c] = s /\ Len(s) = x
    BY <1>2, <1>4, <1>5, <1>6, <1>8
  <2>3. CellsFrom(chan[c], 4 * z + m)' /\ CellsFrom(ring[c], 4 * z + m + Len(chan[c]))'
    BY <1>9, <1>12, <1>13, <2>2
  <2> QED
    BY <1>8, <1>13, <1>14, <1>15, <1>16, <2>1, <2>2, <2>3 DEF Brought
<1>18. z \in 0..q /\ k \in 0..g /\ Len(received') = g
  BY <1>4, <1>7, <1>14
<1> QED
  BY <1>14, <1>17, <1>18 DEF CarriesAll

\* A connection that is intact after a publish took its whole frame.
LEMMA PublishIntact ==
    ASSUME TcpIInv, IntactIInv, NEW kind \in TcpKinds, TcpPublish(kind)
    PROVE  IntactIInv'
<1>1. PICK n \in Nat : n = Len(published)
  BY LenProperties DEF TcpIInv, TcpShape
<1>2. n < MaxFrames /\ MaxFrames \in Nat
  BY <1>1, TcpAssumption DEF TcpPublish
<1>3. PICK f \in TcpFrame : f = [no |-> n + 1, kind |-> kind]
  <2>1. n + 1 \in 1..MaxFrames
    BY <1>2
  <2> QED
    BY <2>1 DEF TcpFrame
<1>4. f.no = n + 1 /\ Len(encode(f)) = 4 /\ encode(f)[1].of = f
  <2>1. encode(f) \in [1..4 -> {encode(f)[i] : i \in 1..4}]
    BY DEF encode
  <2>2. Len(encode(f)) = 4
    BY <2>1, FunctionIsSeq
  <2> QED
    BY <1>3, <2>2 DEF encode
<1>5. published' = Append(published, f)
  BY <1>1, <1>3, <1>4 DEF TcpPublish
<1> DEFINE fits(c) == Min({4, ring_capacity - Len(ring[c])})
<1>6. ASSUME NEW c \in Conn, srvEnd[c] = "accepted"
      PROVE  /\ ring'[c] = ring[c] \o SubSeq(encode(f), 1, fits(c))
             /\ intact'[c] => intact[c] /\ fits(c) = 4
  BY <1>1, <1>3, <1>4, <1>6 DEF TcpPublish, clients
<1> HIDE DEF fits
<1>7. UNCHANGED <<srvEnd, chan, since, client, parser, received>>
  BY DEF TcpPublish, wire, reader
<1>8. intact' \in [Conn -> BOOLEAN]
  BY DEF TcpPublish
<1>9. ASSUME NEW c \in Conn, client.conn = c, srvEnd[c] = "accepted", intact'[c]
      PROVE  CarriesAll(c)'
  <2>1. ring'[c] = ring[c] \o SubSeq(encode(f), 1, 4) /\ intact[c]
    BY <1>6, <1>9
  <2>2. CarriesAll(c)
    BY <1>9, <2>1 DEF IntactIInv
  <2> QED
    BY <1>5, <1>7, <2>1, <2>2, FrameCarried
<1>10. ASSUME NEW i \in 1..Len(published') PROVE published'[i].no = i
  <2>1. Len(published') = n + 1 /\ published'[n + 1] = f
        /\ \A j \in 1..n : published'[j] = published[j]
    BY <1>1, <1>5, AppendProperties DEF TcpIInv, TcpShape
  <2>2. i \in 1..n \/ i = n + 1
    BY <2>1
  <2> QED
    BY <1>1, <1>4, <2>1, <2>2 DEF IntactIInv
<1> QED
  BY <1>7, <1>8, <1>9, <1>10 DEF IntactIInv, Reading

\* The cells of s and then those of r, t in all, are those after the n-th.
OnTheWay(s, r, n, t) ==
    Len(s) + Len(r) = t /\ CellsFrom(s, n) /\ CellsFrom(r, n + Len(s))

\* So they are after a chunk has moved from r to s.
LEMMA ChunkMoves ==
    ASSUME NEW s \in Seq(TcpCell), NEW r \in Seq(TcpCell), NEW s2, NEW r2,
           NEW e \in Nat, NEW t, OnTheWay(s, r, e, t), NEW n, Moved(r2, s2, r, s, n, n)
    PROVE  OnTheWay(s2, r2, e, t)
<1>1. PICK x \in Nat, y \in Nat : x = Len(s) /\ y = Len(r)
  BY LenProperties
<1>2. /\ n \in Nat /\ n <= y /\ Len(r2) = y - n /\ Len(s2) = x + n
      /\ \A i \in 1..(y - n) : r2[i] = r[n + i]
      /\ \A i \in 1..x : s2[i] = s[i]
      /\ \A i \in (x + 1)..(x + n) : s2[i] = r[i - x]
  BY <1>1 DEF Moved
<1>3. PICK b \in Nat, h \in Nat : b = e + x /\ h = b + n
  BY <1>2
<1>4. /\ t = x + y
      /\ \A i \in 1..x : s[i] = StreamCell(e + i)
      /\ \A i \in 1..y : r[i] = StreamCell(b + i)
  BY <1>1, <1>3 DEF OnTheWay, CellsFrom
<1>5. CellsFrom(s2, e)
  <2>1. ASSUME NEW i \in 1..(x + n) PROVE s2[i] = StreamCell(e + i)
    <3>1. CASE i <= x
      <4>1. i \in 1..x
        BY <3>1
      <4> QED
        BY <1>2, <1>4, <4>1
    <3>2. CASE ~(i <= x)
      <4>1. PICK j \in 1..y : j = i - x
        BY <1>2, <3>2
      <4>2. i \in (x + 1)..(x + n)
        BY <1>2, <3>2
      <4>3. s2[i] = r[i - x]
        BY <1>2, <4>2
      <4>4. b + j = e + i
        BY <1>3, <4>1
      <4>5. r[j] = StreamCell(b + j)
        BY <1>4
      <4> QED
        BY <4>1, <4>3, <4>4, <4>5, Zenon
    <3> QED
      BY <3>1, <3>2
  <2> QED
    BY <1>2, <2>1 DEF CellsFrom
<1>6. CellsFrom(r2, h)
  <2>1. ASSUME NEW i \in 1..(y - n) PROVE r2[i] = StreamCell(h + i)
    <3>1. PICK j \in 1..y : j = n + i
      BY <1>2
    <3>2. r2[i] = r[n + i]
      BY <1>2
    <3>3. h + i = b + j
      BY <1>2, <1>3, <3>1
    <3>4. r[j] = StreamCell(b + j)
      BY <1>4
    <3> QED
      BY <3>1, <3>2, <3>3, <3>4, Zenon
  <2> QED
    BY <1>2, <2>1 DEF CellsFrom
<1>7. e + Len(s2) = h /\ Len(s2) + Len(r2) = t
  <2>1. e + (x + n) = h /\ (x + n) + (y - n) = t
    BY <1>2, <1>3, <1>4
  <2> QED
    BY <1>2, <2>1, Zenon
<1>8. CellsFrom(r2, e + Len(s2))
  BY <1>6, <1>7, Zenon
<1> QED
  BY <1>5, <1>7, <1>8 DEF OnTheWay

\* A chunk that the kernel takes whole is still there.
LEMMA ChunkCarried ==
    ASSUME TcpIInv, IntactIInv, NEW c \in Conn, CarriesAll(c), NEW n \in Nat,
           Moved(ring'[c], chan'[c], ring[c], chan[c], n, n),
           UNCHANGED <<since, published, parser, received>>
    PROVE  CarriesAll(c)'
<1>1. PICK z \in 0..Len(published), m \in 0..3, k \in 0..Len(received) : Brought(c, z, m, k)
  BY DEF CarriesAll
<1>2. PICK s \in Seq(TcpCell), r \in Seq(TcpCell) : s = chan[c] /\ r = ring[c]
  BY DEF TcpIInv, TcpShape, TcpCell
<1>3. PICK s2, r2 : s2 = chan'[c] /\ r2 = ring'[c]
  OBVIOUS
<1>4. PICK x \in Nat, y \in Nat : x = Len(s) /\ y = Len(r)
  BY LenProperties
<1>5. PICK e \in Nat : e = 4 * z + m
  <2>1. z \in Nat
    BY LenProperties DEF TcpIInv, TcpShape
  <2> QED
    BY <2>1
<1>6. PICK t \in Nat : t = x + y
  OBVIOUS
<1>7. OnTheWay(s, r, e, t) /\ e + x + y = 4 * Len(published)
  <2>1. /\ CellsFrom(s, e) /\ CellsFrom(r, e + Len(s))
        /\ e + x + y = 4 * Len(published)
    BY <1>1, <1>2, <1>4, <1>5, Zenon DEF Brought
  <2> QED
    BY <1>4, <1>6, <2>1 DEF OnTheWay
<1>8. OnTheWay(s2, r2, e, t)
  <2>1. Moved(r2, s2, r, s, n, n)
    BY <1>2, <1>3, Zenon
  <2> QED
    BY <1>7, <2>1, ChunkMoves
<1>9. CellsFrom(chan[c], 4 * z + m)' /\ CellsFrom(ring[c], 4 * z + m + Len(chan[c]))'
  <2>1. CellsFrom(s2, e) /\ CellsFrom(r2, e + Len(s2))
    BY <1>8 DEF OnTheWay
  <2>2. CellsFrom(s2, e)' /\ CellsFrom(r2, e + Len(s2))'
    BY <2>1 DEF CellsFrom, StreamCell, CellOf
  <2> QED
    BY <1>3, <1>5, <2>2, Zenon
<1>10. 4 * z + m + Len(chan'[c]) + Len(ring'[c]) = 4 * Len(published)
  <2>1. Len(s2) + Len(r2) = t
    BY <1>8 DEF OnTheWay
  <2>2. PICK u \in Nat, v \in Nat : u = Len(s2) /\ v = Len(r2)
    BY <1>3, LenProperties DEF Moved
  <2>4. u + v = x + y
    BY <1>6, <2>1, <2>2, Zenon
  <2>5. e + u + v = e + x + y
    BY <2>4
  <2>3. e + Len(s2) + Len(r2) = e + x + y
    BY <2>2, <2>5, Zenon
  <2> QED
    BY <1>3, <1>5, <1>7, <2>3, Zenon
<1>11. InFrame(parser, z, m)'
  BY <1>1 DEF Brought, InFrame, CellsFrom, StreamCell, CellOf
<1>12. Brought(c, z, m, k)'
  BY <1>1, <1>9, <1>10, <1>11 DEF Brought, Matches
<1> QED
  BY <1>12 DEF CarriesAll

\* So a connection is intact after a chunk only if it still carries all.
LEMMA DrainIntact ==
    ASSUME TcpIInv, IntactIInv, NEW c \in Conn, NEW chunk \in 1..SendChunk,
           drain_send_rings(c, chunk)
    PROVE  IntactIInv'
<1>1. PICK n \in Nat, t \in Nat : Drained(c, n, t)
  BY DrainMoves
<1>2. srvEnd[c] = "accepted" /\ UNCHANGED <<srvEnd, since, published, client, parser, received>>
  BY DrainMoves DEF wire, reader
<1>3. /\ Moved(ring'[c], chan'[c], ring[c], chan[c], n, t)
      /\ intact' = [intact EXCEPT ![c] = @ /\ t = n]
      /\ \A d \in Conn : d # c => ring'[d] = ring[d] /\ chan'[d] = chan[d]
  BY <1>1 DEF Drained
<1>4. intact' \in [Conn -> BOOLEAN] /\ (intact'[c] => intact[c] /\ t = n)
      /\ \A d \in Conn : d # c => intact'[d] = intact[d]
  BY <1>3 DEF IntactIInv
<1>5. ASSUME NEW d \in Conn, client.conn = d, srvEnd[d] = "accepted", intact'[d]
      PROVE  CarriesAll(d)'
  <2>1. CASE d = c
    <3>1. intact[c] /\ t = n
      BY <1>4, <1>5, <2>1
    <3>2. CarriesAll(c)
      BY <1>5, <2>1, <3>1 DEF IntactIInv
    <3>3. Moved(ring'[c], chan'[c], ring[c], chan[c], n, n)
      BY <1>3, <3>1
    <3> QED
      BY <1>2, <2>1, <3>2, <3>3, ChunkCarried
  <2>2. CASE d # c
    <3>1. CarriesAll(d)
      BY <1>4, <1>5, <2>2 DEF IntactIInv
    <3> QED
      BY <1>2, <1>3, <2>2, <3>1, CarriesOn
  <2> QED
    BY <2>1, <2>2
<1>6. ASSUME NEW d \in Conn, client.conn = d, srvEnd[d] \in {"backlog", "left"}
      PROVE  parser = NewParser /\ chan'[d] = <<>>
  BY <1>2, <1>3, <1>6 DEF IntactIInv
<1> QED
  BY <1>2, <1>4, <1>5, <1>6 DEF IntactIInv, Reading

\* What was got after the k-th frame are those published after the a-th, up to the z-th.
GotUpTo(got, k, a, z) == Len(got) = k + (z - a) /\ Matches(got, k, published, a, z - a)

\* The frames of o come next.
HandsOn(got, o, k, a, z, y) ==
    a <= z /\ z <= y /\ GotUpTo(got, k, a, z) /\ GotUpTo(o, 0, z, y)

\* The first k stay, and the rest goes up to the y-th.
GoesOn(got2, got, k, a, y) == GotUpTo(got2, k, a, y) /\ \A i \in 1..k : got2[i] = got[i]

\* That is so when they are put together.
LEMMA GotMore ==
    ASSUME NEW got \in Seq(TcpFrame), NEW o \in Seq(TcpFrame),
           NEW k \in Nat, NEW a \in Nat, NEW z \in Nat, NEW y \in Nat,
           HandsOn(got, o, k, a, z, y), NEW got2, got2 = got \o o
    PROVE  GoesOn(got2, got, k, a, y)
<1>1. /\ a <= z /\ z <= y /\ Len(got) = k + (z - a) /\ Len(o) = 0 + (y - z)
      /\ Matches(got, k, published, a, z - a) /\ Matches(o, 0, published, z, y - z)
  BY DEF HandsOn, GotUpTo
<1>2. PICK d \in Nat, e \in Nat : d = z - a /\ e = y - z
  <2>1. z - a \in Nat /\ y - z \in Nat
    BY <1>1
  <2> QED
    BY <2>1
<1>3. PICK g \in Nat : g = k + d /\ g = Len(got)
  <2>1. Len(got) = k + d
    BY <1>1, <1>2, Zenon
  <2> QED
    BY <2>1
<1>4. e = Len(o)
  <2>1. Len(o) = 0 + e
    BY <1>1, <1>2, Zenon
  <2> QED
    BY <2>1
<1>5. /\ \A i \in 1..d : got[k + i] = published[a + i]
      /\ \A i \in 1..e : o[i] = published[z + i]
  <2>1. Matches(got, k, published, a, d) /\ Matches(o, 0, published, z, e)
    BY <1>1, <1>2, Zenon
  <2>2. \A i \in 1..e : 0 + i = i
    OBVIOUS
  <2> QED
    BY <2>1, <2>2 DEF Matches
<1>6. Len(got2) = g + e /\ \A i \in 1..(g + e) : got2[i] = IF i <= g THEN got[i] ELSE o[i - g]
  <2>1. Joined(got2, got, g, o, e)
    BY <1>3, <1>4, JoinIs
  <2> QED
    BY <2>1 DEF Joined
<1>7. y - a = d + e /\ k + (d + e) = g + e
  BY <1>1, <1>2, <1>3
<1>8. ASSUME NEW i \in 1..(d + e) PROVE got2[k + i] = published[a + i]
  <2>1. PICK j \in 1..(g + e) : j = k + i
    BY <1>7
  <2>2. CASE i <= d
    <3>1. j <= g /\ i \in 1..d
      BY <1>3, <2>1, <2>2
    <3>2. got2[j] = got[j]
      BY <1>6, <3>1
    <3> QED
      BY <1>5, <2>1, <3>1, <3>2, Zenon
  <2>3. CASE ~(i <= d)
    <3>1. PICK h \in 1..e : h = i - d
      BY <2>3
    <3>2. ~(j <= g) /\ j - g = h
      BY <1>3, <2>1, <2>3, <3>1
    <3>3. got2[j] = o[h]
      BY <1>6, <3>2
    <3>4. z + h = a + i
      BY <1>2, <3>1
    <3>5. o[h] = published[z + h]
      BY <1>5
    <3> QED
      BY <2>1, <3>3, <3>4, <3>5, Zenon
  <2> QED
    BY <2>2, <2>3
<1>9. GotUpTo(got2, k, a, y)
  <2>1. Matches(got2, k, published, a, y - a)
    BY <1>7, <1>8 DEF Matches
  <2>2. Len(got2) = k + (y - a)
    BY <1>6, <1>7
  <2> QED
    BY <2>1, <2>2 DEF GotUpTo
<1>10. \A i \in 1..k : got2[i] = got[i]
  <2>1. \A i \in 1..k : i \in 1..(g + e) /\ i <= g
    BY <1>3
  <2> QED
    BY <1>6, <2>1
<1> QED
  BY <1>9, <1>10 DEF GoesOn

\* The client reads j cells of a connection.
Takes(c, j, p, garbage) ==
    /\ j <= Len(chan[c])
    /\ p = push(parser, SubSeq(chan[c], 1, j), garbage)
    /\ chan'[c] = SubSeq(chan[c], j + 1, Len(chan[c])) /\ ring'[c] = ring[c]
    /\ parser' = [p EXCEPT !.out = <<>>] /\ received' = received \o p.out
    /\ UNCHANGED <<since, published>>

\* If it carried all, it still does.
LEMMA ReadCarried ==
    ASSUME TcpIInv, IntactIInv, NEW c \in Conn, CarriesAll(c), NEW garbage \in Nat,
           NEW j \in Nat, NEW p, Takes(c, j, p, garbage)
    PROVE  CarriesAll(c)'
<1>1. PICK z \in 0..Len(published), m \in 0..3, k \in 0..Len(received) : Brought(c, z, m, k)
  BY DEF CarriesAll
<1>2. PICK s \in Seq(TcpCell), r \in Seq(TcpCell) : s = chan[c] /\ r = ring[c]
  BY DEF TcpIInv, TcpShape, TcpCell
<1>3. /\ published \in Seq(TcpFrame) /\ received \in Seq(TcpFrame)
      /\ parser \in ParserOf(TcpCell) /\ parser.out = <<>>
  BY DEF TcpIInv, TcpShape, TcpCell
<1>4. PICK l \in Nat, a \in Nat : l = Len(published) /\ a = since[c]
  <2>1. Len(published) \in Nat /\ since[c] \in Nat
    BY <1>3, LenProperties, TcpAssumption DEF IntactIInv
  <2> QED
    BY <2>1
<1>5. z \in Nat /\ k \in Nat
  <2>1. Len(published) \in Nat /\ Len(received) \in Nat
    BY <1>3, LenProperties
  <2> QED
    BY <2>1
<1>6. PICK n \in Nat : n = 4 * z + m
  BY <1>5
<1>7. PICK x \in Nat, u \in Nat : x = Len(s) /\ u = Len(r)
  BY LenProperties
<1>8. /\ a <= z /\ z <= l /\ n + x + u = 4 * l
      /\ CellsFrom(s, n) /\ CellsFrom(r, n + x) /\ InFrame(parser, z, m)
      /\ GotUpTo(received, k, a, z) /\ \A i \in 1..k : received[i].no <= a
  BY <1>1, <1>2, <1>4, <1>6, <1>7, Zenon DEF Brought, GotUpTo
<1>9. PICK t \in Seq(TcpCell) : /\ t = SubSeq(s, 1, j) /\ Len(t) = j
                                /\ \A i \in 1..j : t[i] = s[i]
  <2>1. /\ SubSeq(s, 0 + 1, j) \in Seq(TcpCell) /\ Len(SubSeq(s, 0 + 1, j)) = j - 0
        /\ \A i \in 1..(j - 0) : SubSeq(s, 0 + 1, j)[i] = s[0 + i]
    <3>1. j <= Len(s) /\ 0 <= j /\ 0 \in Nat
      BY <1>2 DEF Takes
    <3> QED
      BY <3>1, PartOf
  <2>2. 0 + 1 = 1 /\ j - 0 = j /\ \A i \in 1..j : 0 + i = i
    OBVIOUS
  <2> QED
    BY <2>1, <2>2
<1>10. PICK s2 \in Seq(TcpCell) : /\ s2 = SubSeq(s, j + 1, x) /\ Len(s2) = x - j
                                  /\ \A i \in 1..(x - j) : s2[i] = s[j + i]
  <2>1. x <= Len(s) /\ j <= x
    BY <1>2, <1>7 DEF Takes
  <2>2. /\ SubSeq(s, j + 1, x) \in Seq(TcpCell) /\ Len(SubSeq(s, j + 1, x)) = x - j
        /\ \A i \in 1..(x - j) : SubSeq(s, j + 1, x)[i] = s[j + i]
    BY <2>1, PartOf
  <2> QED
    BY <2>2, Zenon
<1>11. j <= x
  BY <1>2, <1>7 DEF Takes
<1>12. PICK b \in Nat : b = n + j
  <2>1. n + j \in Nat
    OBVIOUS
  <2> QED
    BY <2>1, Zenon
<1>13. CellsFrom(t, n)
  <2>1. \A i \in 1..x : s[i] = StreamCell(n + i)
    BY <1>7, <1>8, Zenon DEF CellsFrom
  <2>2. \A i \in 1..j : i \in 1..x
    BY <1>11
  <2> QED
    BY <1>9, <2>1, <2>2, Zenon DEF CellsFrom
<1>14. CellsFrom(s2, b)
  <2>1. ASSUME NEW i \in 1..(x - j) PROVE s2[i] = StreamCell(b + i)
    <3>1. j + i \in 1..x /\ n + (j + i) = b + i
      BY <1>11, <1>12
    <3>2. s[j + i] = StreamCell(n + (j + i))
      BY <1>7, <1>8, <3>1 DEF CellsFrom
    <3> QED
      BY <1>10, <3>1, <3>2, Zenon
  <2> QED
    BY <1>10, <2>1 DEF CellsFrom
<1>15. p = push(parser, t, garbage)
  BY <1>2, <1>9 DEF Takes
<1>16. p \in ParserOf(TcpCell)
  <2>1. ReadsThrough(TcpCell, parser, t, garbage)
    BY <1>3, PushReads
  <2> QED
    BY <1>9, <1>15, <2>1 DEF ReadsThrough
<1>17. PICK y \in Nat, e \in 0..3 : 4 * y + e = b /\ Handed(p, z, y, e)
  <2>1. n + Len(t) <= 4 * Len(published)
    BY <1>4, <1>8, <1>9, <1>11
  <2>2. InStep(p, z, n + Len(t))
    BY <1>3, <1>5, <1>6, <1>8, <1>13, <1>15, <2>1, ReadInStep
  <2> QED
    BY <1>9, <1>12, <2>2 DEF InStep
<1>18. y <= l
  <2>1. PICK d \in Nat : d = 4 * l
    OBVIOUS
  <2>2. n + x + u = d
    BY <1>8, <2>1
  <2>3. b <= d
    BY <1>11, <1>12, <2>2
  <2>4. b <= 4 * l
    BY <2>1, <2>3
  <2> QED
    BY <1>17, <2>4
<1>19. PICK o \in Seq(TcpFrame) : o = p.out /\ z <= y /\ GotUpTo(o, 0, z, y)
  <2>1. /\ z <= y /\ p.out \in Seq(TcpFrame) /\ Len(p.out) = y - z
        /\ \A i \in 1..(y - z) : p.out[i] = published[z + i]
    BY <1>17 DEF Handed
  <2>2. 0 + (y - z) = y - z /\ \A i \in 1..(y - z) : 0 + i = i
    BY <1>5
  <2> QED
    BY <2>1, <2>2 DEF GotUpTo, Matches
<1>29. PICK got : got = received \o o
  OBVIOUS
<1>20. GotUpTo(got, k, a, y) /\ \A i \in 1..k : got[i] = received[i]
  <2>1. HandsOn(received, o, k, a, z, y)
    BY <1>8, <1>19 DEF HandsOn
  <2>2. GoesOn(got, received, k, a, y)
    BY <1>3, <1>5, <1>29, <2>1, GotMore
  <2> QED
    BY <2>2 DEF GoesOn
<1>21. received' = got /\ chan'[c] = s2 /\ ring'[c] = r /\ since'[c] = a /\ Len(published') = l
  BY <1>2, <1>4, <1>7, <1>10, <1>19, <1>29 DEF Takes
<1>22. InFrame(parser, y, e)'
  <2>1. InFrame(p, y, e)
    BY <1>17 DEF Handed
  <2>2. parser'.state = p.state /\ parser'.buf = p.buf /\ parser'.len = p.len
    BY <1>16 DEF ParserOf, Takes
  <2> QED
    BY <2>1, <2>2 DEF InFrame, CellsFrom, StreamCell, CellOf, Takes
<1>23. CellsFrom(chan[c], 4 * y + e)' /\ CellsFrom(ring[c], 4 * y + e + Len(chan[c]))'
  <2>1. CellsFrom(s2, b)' /\ CellsFrom(r, n + x)'
    BY <1>8, <1>14 DEF CellsFrom, StreamCell, CellOf, Takes
  <2>2. b + Len(s2) = n + x
    BY <1>10, <1>11, <1>12
  <2> QED
    BY <1>17, <1>21, <2>1, <2>2, Zenon
<1>24. 4 * y + e + Len(chan'[c]) + Len(ring'[c]) = 4 * Len(published')
  <2>1. b + Len(s2) + Len(r) = 4 * l
    <3>1. b + (x - j) + u = n + x + u
      BY <1>11, <1>12
    <3> QED
      BY <1>7, <1>8, <1>10, <3>1, Zenon
  <2> QED
    BY <1>17, <1>21, <2>1, Zenon
<1>25. /\ Len(received') = k + (y - a) /\ Matches(received, k, published, a, y - a)'
       /\ \A i \in 1..k : received'[i].no <= a
  <2>1. Len(got) = k + (y - a) /\ Matches(got, k, published, a, y - a)
    BY <1>20 DEF GotUpTo
  <2>2. \A i \in 1..k : got[i].no <= a
    BY <1>8, <1>20
  <2> QED
    BY <1>21, <2>1, <2>2 DEF Matches, Takes
<1>26. a <= y
  <2>1. a <= z /\ z <= y
    BY <1>8, <1>19, Zenon
  <2> QED
    BY <1>5, <2>1
<1>27. Brought(c, y, e, k)'
  BY <1>18, <1>21, <1>22, <1>23, <1>24, <1>25, <1>26 DEF Brought
<1>28. y \in 0..l /\ k \in 0..Len(received')
  <2>1. y \in 0..l
    BY <1>18
  <2>2. k \in 0..(k + (y - a))
    BY <1>5, <1>26
  <2> QED
    BY <1>25, <2>1, <2>2, Zenon
<1> QED
  BY <1>21, <1>27, <1>28 DEF CarriesAll

\* The client reads from a connection the server has accepted: before that there is
\* nothing to read.
LEMMA RecvIntact ==
    ASSUME TcpIInv, IntactIInv, NEW garbage \in Garbage, NEW k \in 1..ChanCapacity, Reading,
           k <= Len(chan[client.conn]), Recv(k, garbage)
    PROVE  IntactIInv'
<1>1. PICK c \in Conn : c = client.conn
  BY DEF TcpIInv, TcpShape, ClientPlace
<1>2. k \in Nat /\ garbage \in Nat /\ k >= 1
  BY TcpAssumption
<1>3. PICK p : p = push(parser, SubSeq(chan[c], 1, k), garbage)
  OBVIOUS
<1>4. /\ client' = [client EXCEPT !.pc = "burst"]
      /\ chan' = [chan EXCEPT ![c] = SubSeq(@, k + 1, Len(@))]
      /\ parser' = [p EXCEPT !.out = <<>>]
      /\ received' = received \o p.out
      /\ UNCHANGED <<srvEnd, ring, since, intact, published>>
  BY <1>1, <1>3 DEF Recv, wire
<1>5. client'.conn = c /\ client'.pc = "burst"
  BY <1>1, <1>4 DEF TcpIInv, TcpShape
<1>6. chan'[c] = SubSeq(chan[c], k + 1, Len(chan[c]))
  <2>1. chan \in [Conn -> Seq(Cell(TcpFrame))]
    BY DEF TcpIInv, TcpShape
  <2> QED
    BY <1>4, <2>1
<1>7. Takes(c, k, p, garbage)
  BY <1>1, <1>3, <1>4, <1>6, Zenon DEF Takes
<1>8. srvEnd[c] # "backlog"
  <2>1. Len(<<>>) = 0
    OBVIOUS
  <2> QED
    BY <1>1, <1>2, <2>1 DEF IntactIInv
<1>9. ASSUME srvEnd[c] = "accepted", intact[c] PROVE CarriesAll(c)'
  <2>1. CarriesAll(c)
    BY <1>1, <1>9 DEF IntactIInv
  <2> QED
    BY <1>2, <1>7, <2>1, ReadCarried
<1>10. Reading'
  BY <1>5 DEF Reading
<1>11. since' \in [Conn -> 0..MaxFrames] /\ intact' \in [Conn -> BOOLEAN]
       /\ \A i \in 1..Len(published') : published'[i].no = i
  BY <1>4 DEF IntactIInv
<1> QED
  BY <1>4, <1>5, <1>8, <1>9, <1>10, <1>11 DEF IntactIInv

\* The server closes its end of some connections.
LEMMA ServerClosesIntact ==
    ASSUME IntactIInv, NEW cs, CloseServerEnds(cs),
           UNCHANGED <<chan, published, client, parser, received>>
    PROVE  IntactIInv'
<1>1. since' \in [Conn -> 0..MaxFrames] /\ intact' \in [Conn -> BOOLEAN]
  BY TcpAssumption DEF CloseServerEnds, IntactIInv
<1>2. ASSUME NEW c \in Conn, client'.conn = c PROVE Settled(c)
  BY <1>2 DEF CloseServerEnds, Settled
<1>3. Reading' \/ parser' = NewParser
  BY DEF IntactIInv, Reading
<1> QED
  BY <1>1, <1>2, <1>3, SettledStays

\* The client leaves its connection.
LEMMA ClientLeaves ==
    ASSUME IntactIInv, client'.conn = NoConn, parser' = NewParser,
           UNCHANGED <<since, intact, published, received>>
    PROVE  IntactIInv'
<1>1. since' \in [Conn -> 0..MaxFrames] /\ intact' \in [Conn -> BOOLEAN]
  BY DEF IntactIInv
<1>2. \A c \in Conn : client'.conn # c
  BY TcpAssumption
<1> QED
  BY <1>1, <1>2, SettledStays

\* Every step of the TCP feed keeps the connections' contents in place.
LEMMA IntactStays == TcpIInv /\ IntactIInv /\ [TcpNext]_tcpVars => IntactIInv'
<1> SUFFICES ASSUME TcpIInv, IntactIInv, [TcpNext]_tcpVars PROVE IntactIInv'
  OBVIOUS
<1>1. client \in [running : BOOLEAN,
                   pc : {"off", "connect", "wait", "read", "burst", "sleep", "ended"},
                   conn : Conn \cup {NoConn}, attempts : 0..(max_reconnect_attempts + 1),
                   starts : 0..MaxClients]
      /\ ClientPlace
  BY DEF TcpIInv, TcpShape
<1>2. CASE ServerStart \/ ServerStop
  <2>1. UNCHANGED <<srvEnd, data, published, client, reader>>
    BY <1>2 DEF ServerStart, ServerStop, wire
  <2> QED
    BY <2>1, ThreadSettles DEF Reading
<1>3. CASE ServerDestroy
  BY <1>3, ServerClosesIntact DEF ServerDestroy, reader
<1>4. ASSUME NEW kind \in TcpKinds, TcpPublish(kind) PROVE IntactIInv'
  BY <1>4, PublishIntact
<1>5. CASE ClientStart \/ ClientStop \/ ClientJoin \/ ClientEnds \/ ConnectRefused \/ Wake
  <2>1. UNCHANGED <<srvEnd, data, published, reader>>
    BY <1>5 DEF ClientStart, ClientStop, ClientJoin, ClientEnds, ConnectRefused, Wake, wire
  <2>2. client'.conn = client.conn /\ (client'.pc = client.pc \/ ~Reading)
    <3>1. CASE ClientStart
      BY <1>1, <3>1 DEF ClientStart, Reading
    <3>2. CASE ClientStop
      BY <1>1, <3>2 DEF ClientStop
    <3>3. CASE ClientJoin \/ ClientEnds
      BY <1>1, <3>3 DEF ClientJoin, ClientEnds, Reading
    <3>4. CASE ConnectRefused
      BY <1>1, <3>4 DEF ConnectRefused, Reading
    <3>5. CASE Wake
      BY <1>1, <3>5 DEF Wake, Reading
    <3> QED
      BY <1>5, <3>1, <3>2, <3>3, <3>4, <3>5
  <2>3. Reading => Reading'
    BY <2>2 DEF Reading
  <2> QED
    BY <2>1, <2>2, <2>3, ThreadSettles
<1>6. CASE ServerExit \/ ServerFails
  BY <1>6, ServerClosesIntact DEF ServerExit, ServerFails, ServerEnds, reader
<1>7. CASE accept_client
  BY <1>7, AcceptIntact
<1>8. ASSUME NEW c \in Conn, remove_client(c) PROVE IntactIInv'
  BY <1>8, ServerClosesIntact DEF remove_client, reader
<1>9. ASSUME NEW c \in Conn, NEW n \in 1..SendChunk, drain_send_rings(c, n) PROVE IntactIInv'
  BY <1>9, DrainIntact
<1>10. ASSUME NEW c \in Conn, NEW l \in listening, ConnectInProgress(c, l) PROVE IntactIInv'
  BY <1>10, ConnectIntact
<1>11. CASE ConnectInProgress(NoConn, 0)
  <2>1. client'.conn = NoConn /\ ~Reading /\ UNCHANGED <<srvEnd, data, published, reader>>
    BY <1>1, <1>11 DEF ConnectInProgress, Reading, wire
  <2> QED
    BY <2>1, ThreadSettles
<1>12. CASE WaitFails
  <2>1. /\ client'.conn = NoConn /\ ~Reading
        /\ UNCHANGED <<since, intact, published, parser, received>>
    BY <1>1, <1>12 DEF WaitFails, Reading, reader
  <2> QED
    BY <2>1, ClientLeaves DEF IntactIInv
<1>13. CASE Connected
  <2>1. client'.conn = client.conn /\ client'.pc = "read" /\ ~Reading
        /\ parser' = NewParser /\ UNCHANGED <<srvEnd, data, published, received>>
    BY <1>1, <1>13 DEF Connected, Reading, wire
  <2>2. UNCHANGED reader /\ Reading'
    BY <2>1 DEF IntactIInv, reader, Reading
  <2> QED
    BY <2>1, <2>2, ThreadSettles
<1>14. ASSUME NEW garbage \in Garbage, NEW k \in 1..ChanCapacity,
              client.pc \in {"read", "burst"}, k <= Len(chan[client.conn]), Recv(k, garbage)
       PROVE  IntactIInv'
  BY <1>14, RecvIntact DEF Reading
<1>15. CASE HangUp \/ NoMoreData \/ Interrupted
  <2>1. /\ client'.conn = NoConn /\ parser' = NewParser
        /\ UNCHANGED <<since, intact, published, received>>
    BY <1>1, <1>15 DEF HangUp, NoMoreData, Interrupted, Close
  <2> QED
    BY <2>1, ClientLeaves
<1>16. CASE UNCHANGED tcpVars
  <2>1. UNCHANGED <<srvEnd, data, published, client, reader>>
    BY <1>16 DEF tcpVars, wire
  <2> QED
    BY <2>1, ThreadSettles DEF Reading
<1>17. ServerStep => IntactIInv'
  BY <1>6, <1>7, <1>8, <1>9 DEF ServerStep
<1>18. ClientStep => IntactIInv'
  BY <1>5, <1>10, <1>11, <1>12, <1>13, <1>14, <1>15 DEF ClientStep
<1> QED
  BY <1>2, <1>3, <1>4, <1>5, <1>6, <1>15, <1>16, <1>17, <1>18 DEF TcpNext

-----------------------------------------------------------------------------
(* The theorems *)

Inv == UdpIInv /\ TcpIInv /\ IntactIInv

\* The inductive invariants of the two feeds hold together.
LEMMA Invariant == Spec => []Inv
<1>1. Init => Inv
  BY UdpStarts, TcpStarts, IntactStarts DEF Init, Inv
<1>2. Inv /\ [Next]_vars => Inv'
  <2> SUFFICES ASSUME Inv, [Next]_vars PROVE Inv'
    OBVIOUS
  <2>1. UdpIInv /\ TcpIInv /\ IntactIInv
    BY DEF Inv
  <2>2. [UdpNext]_udpVars /\ [TcpNext]_tcpVars
    BY DEF Next, vars
  <2>3. UdpIInv'
    BY <2>1, <2>2, UdpStays
  <2>4. TcpIInv'
    BY <2>1, <2>2, TcpStays
  <2>5. IntactIInv'
    BY <2>1, <2>2, IntactStays
  <2> QED
    BY <2>3, <2>4, <2>5 DEF Inv
<1> QED
  BY <1>1, <1>2, PTL DEF Spec

\* The variables of both feeds keep their types, within the bounds of the rings, the
\* kernel's buffers and the reorder window.
THEOREM Typed == Spec => []TypeOK
<1>1. Inv => TypeOK
  BY UdpTyped, TcpTyped DEF Inv, TypeOK
<1> QED
  BY <1>1, Invariant, PTL

\* Whatever the network loses, repeats or delays, the callbacks of a symbol of the UDP
\* feed get one sent message per number and the numbers without a hole.
THEOREM FeedInOrder == Spec => DeliversInOrder
<1>1. Init => InOrder!Init
  BY DEF Init, UdpInit, InOrder!Init
<1>2. Inv /\ [Next]_vars => [InOrder!Next]_<<numbered, dispatched>>
  <2> SUFFICES ASSUME Inv, [Next]_vars PROVE [InOrder!Next]_<<numbered, dispatched>>
    OBVIOUS
  <2>1. UdpIInv /\ [UdpNext]_udpVars
    BY DEF Inv, Next, vars
  <2> QED
    BY <2>1, UdpStays
<1> QED
  BY <1>1, <1>2, Invariant, PTL DEF Spec, DeliversInOrder, InOrder!Spec

\* A datagram that came is passed on, waits in the window for the one that is missing,
\* or was refused because the window was full; handle_datagram withholds none without
\* a gap that it reported.
THEOREM Withheld == Spec => []NothingWithheld
<1>1. Inv => NothingWithheld
  BY NothingIsWithheld DEF Inv
<1> QED
  BY <1>1, Invariant, PTL

\* Through torn writes, short sends and lost connections, and restarts of both ends, the
\* TCP client passes on only frames that were published, each once and in order.  One
\* thread publishes, as the send rings have one producer each.
THEOREM NeverTorn == Spec => []NeverTornNorRepeated
<1>1. Inv => NeverTornNorRepeated
  BY DEF Inv, TcpIInv, Sound, NeverTornNorRepeated
<1> QED
  BY <1>1, Invariant, PTL

\* A connection of which the server dropped no cell brings the client every frame published
\* since accept_client took it, and no other: what was passed on and what is on its way
\* make the whole, at every moment.  One thread publishes here too.
THEOREM Intact == Spec => []IntactConnectionsDeliver
<1>1. Inv => IntactConnectionsDeliver
  BY AllIsDelivered DEF Inv
<1> QED
  BY <1>1, Invariant, PTL

=============================================================================
