--------------------------- MODULE BacktestProofs ---------------------------
(***************************************************************************)
(* What the parts of a backtest keep, for any ticks, any sizes of files    *)
(* and any number of appends, crashes and power failures (the tick store), *)
(* for any orders, fills, marks, limits and sessions (the risk engine with *)
(* the portfolio), for any files, windows and ways to step, seek, rewind   *)
(* and loop (the replay, and what the portal's queries return at its       *)
(* time), for any bars, periods, thresholds and resets (the strategies),   *)
(* for any returns, windows and levels (the VaR measures), and for any     *)
(* folds that begin at the start value (the stitched curve).               *)
(***************************************************************************)
EXTENDS Backtest, Induction, SequenceTheorems

(* The tick store *)

Slot == Record \cup {Zeroes}

\* A writer in append() holds its record and has a place for it, where the
\* record is until it is counted; the header is written before any of that.
WriterInv ==
    /\ writer \in [at : {"none", "create", "open"}] \cup
                  [at : {"store", "count"}, record : Record]
    /\ writer.at = "create" => ~file.magic /\ appended = <<>>
    /\ writer.at \in {"open", "store", "count"} => file.magic
    /\ writer.at \in {"store", "count"} => file.record_count < map_len
    /\ writer.at = "count" => file.slots[file.record_count + 1] = writer.record

\* The counted slots hold the finished appends, and the first of them what was
\* synced.
SlotsInv ==
    /\ file.magic =>
         /\ Len(appended) = file.record_count
         /\ \A i \in 1..file.record_count : appended[i] = file.slots[i]
    /\ durable.header =>
         /\ file.magic
         /\ Len(durable.records) <= file.record_count
         /\ \A i \in 1..Len(durable.records) : durable.records[i] = file.slots[i]

StoreInv == StoreTypeOK /\ WriterInv /\ SlotsInv

-----------------------------------------------------------------------------
(* Slots *)

\* What the first n slots are, one by one.
LEMMA FirstSlots ==
    ASSUME NEW S, NEW s \in Seq(S), NEW n \in 0..Len(s)
    PROVE  /\ SubSeq(s, 1, n) \in Seq(S)
           /\ Len(SubSeq(s, 1, n)) = n
           /\ \A i \in 1..n : SubSeq(s, 1, n)[i] = s[i]
<1>1. \A i \in 1..n : s[i] \in S
  BY ElementOfSeq
<1> QED
  BY <1>1, SubSeqProperties

\* Sequences with the same elements are the same.
LEMMA SameSlots ==
    ASSUME NEW S, NEW s \in Seq(S), NEW n \in 0..Len(s), NEW a \in Seq(S)
    PROVE  SubSeq(s, 1, n) = a <=> Len(a) = n /\ \A i \in 1..n : a[i] = s[i]
<1>1. /\ SubSeq(s, 1, n) \in Seq(S)
      /\ Len(SubSeq(s, 1, n)) = n
      /\ \A i \in 1..n : SubSeq(s, 1, n)[i] = s[i]
  BY FirstSlots
<1>2. Len(a) = n /\ (\A i \in 1..n : a[i] = s[i]) => SubSeq(s, 1, n) = a
  BY <1>1, SeqEqual
<1> QED
  BY <1>1, <1>2

\* The larger of two numbers.
LEMMA MaxOfTwo ==
    ASSUME NEW a \in Int, NEW b \in Int
    PROVE  Max({a, b}) \in {a, b} /\ Max({a, b}) >= a /\ Max({a, b}) >= b
<1>1. \E x \in {a, b} : \A y \in {a, b} : x >= y
  <2>1. CASE a >= b
    BY <2>1
  <2>2. CASE b >= a
    BY <2>2
  <2> QED
    BY <2>1, <2>2
<1> QED
  BY <1>1 DEF Max

\* Growing a file makes it as long as it should be, keeps its slots, and zeroes
\* the new ones.
LEMMA ExtendedKeeps ==
    ASSUME NEW s \in Seq(Slot), NEW n \in Nat, n >= Len(s)
    PROVE  /\ Extended(s, n) \in Seq(Slot)
           /\ Len(Extended(s, n)) = n
           /\ \A i \in 1..Len(s) : Extended(s, n)[i] = s[i]
<1> DEFINE more == [i \in 1..(n - Len(s)) |-> Zeroes]
<1>1. Len(s) \in Nat /\ n - Len(s) \in Nat
  BY LenProperties
<1>2. more \in Seq(Slot) /\ Len(more) = n - Len(s)
  BY <1>1, SMT DEF Slot
<1> QED
  BY <1>1, <1>2, ConcatProperties DEF Extended

-----------------------------------------------------------------------------
(* The invariant *)

\* No store is open at first.
LEMMA InitStoreInv == Init => StoreInv
BY StoreAssumption, EmptySeq
   DEF Init, MarketInit, StoreInit, StoreInv, StoreTypeOK, WriterInv, SlotsInv, map_len, Slot

\* One lemma per action of the store.
LEMMA OpenCreateInv == StoreInv /\ OpenCreate => StoreInv'
<1> SUFFICES ASSUME StoreInv, OpenCreate PROVE StoreInv'
  OBVIOUS
<1> USE DEF StoreInv, StoreTypeOK, WriterInv, SlotsInv, OpenCreate, map_len
<1>1. /\ file'.slots \in Seq(Slot) /\ Len(file'.slots) = kInitialCapacity
      /\ file' \in [magic : BOOLEAN, slots : Seq(Slot), record_count : Nat]
      /\ file'.magic = FALSE /\ file'.record_count = 0
  BY StoreAssumption DEF Slot
<1>2. appended' = <<>> /\ appended' \in Seq(Slot)
  BY EmptySeq
<1>3. writer'.at = "create" /\ writer' \in [at : {"none", "create", "open"}]
  OBVIOUS
<1> QED
  BY <1>1, <1>2, <1>3, StoreAssumption DEF Slot

\* The header of a new file counts no records.
LEMMA WriteHeaderInv == StoreInv /\ WriteHeader => StoreInv'
<1> SUFFICES ASSUME StoreInv, WriteHeader PROVE StoreInv'
  OBVIOUS
<1> USE DEF StoreInv, StoreTypeOK, WriterInv, SlotsInv, WriteHeader, map_len
<1>1. /\ file' \in [magic : BOOLEAN, slots : Seq(Slot), record_count : Nat]
      /\ file'.slots = file.slots /\ file'.record_count = 0 /\ file'.magic = TRUE
  BY DEF Slot
<1>2. appended' = <<>> /\ ~durable'.header
  OBVIOUS
<1>3. writer'.at = "open" /\ writer' \in [at : {"none", "create", "open"}]
  OBVIOUS
<1> QED
  BY <1>1, <1>2, <1>3, LenProperties DEF Slot

\* A file that is opened again keeps the records that its header counts.
LEMMA OpenReadWriteInv == StoreInv /\ OpenReadWrite => StoreInv'
BY DEF StoreInv, StoreTypeOK, WriterInv, SlotsInv, OpenReadWrite, map_len

\* Room for one more record leaves the records where they are.
LEMMA GrownKeeps ==
    ASSUME StoreInv
    PROVE  LET grown == Grown(file.record_count + 1)
           IN  /\ grown \in Seq(Slot) /\ Len(grown) \in Nat
               /\ Len(grown) > file.record_count /\ Len(grown) >= map_len
               /\ \A i \in 1..map_len : grown[i] = file.slots[i]
<1> DEFINE k == file.record_count + 1
           n == Max({k, 2 * map_len})
<1>1. file.slots \in Seq(Slot) /\ Len(file.slots) \in Nat /\ file.record_count \in Nat
  BY LenProperties DEF StoreInv, StoreTypeOK, Slot
<1>2. map_len = Len(file.slots) /\ map_len \in Nat /\ k \in Int /\ 2 * map_len \in Int
  BY <1>1 DEF map_len
<1>3. n \in {k, 2 * map_len} /\ n >= k /\ n >= 2 * map_len
  <2> HIDE DEF k
  <2> QED
    BY <1>2, MaxOfTwo
<1> HIDE DEF n
<1>4. n \in Nat /\ n > file.record_count /\ n >= Len(file.slots)
  BY <1>1, <1>2, <1>3
<1>5. /\ Extended(file.slots, n) \in Seq(Slot)
      /\ Len(Extended(file.slots, n)) = n
      /\ \A i \in 1..Len(file.slots) : Extended(file.slots, n)[i] = file.slots[i]
  BY <1>1, <1>4, ExtendedKeeps
<1>6. Grown(k) = Extended(file.slots, n)
  BY DEF Grown, n
<1> QED
  BY <1>2, <1>4, <1>5, <1>6

\* An append makes room before it writes.
LEMMA BeginAppendInv ==
    ASSUME StoreInv, NEW r \in Record, BeginAppend(r)
    PROVE  StoreInv'
<1>1. /\ file \in [magic : BOOLEAN, slots : Seq(Slot), record_count : Nat]
      /\ file.slots \in Seq(Slot) /\ map_len \in Nat /\ map_len = Len(file.slots)
      /\ file.record_count \in 0..map_len
  BY LenProperties DEF StoreInv, StoreTypeOK, map_len, Slot
<1>2. PICK slots \in Seq(Slot) :
         /\ file' = [file EXCEPT !.slots = slots]
         /\ Len(slots) \in Nat /\ file.record_count < Len(slots)
         /\ \A i \in 1..map_len : slots[i] = file.slots[i]
  <2>1. CASE IsFull
    <3> DEFINE grown == Grown(file.record_count + 1)
    <3>1. /\ grown \in Seq(Slot) /\ Len(grown) \in Nat /\ Len(grown) > file.record_count
          /\ \A i \in 1..map_len : grown[i] = file.slots[i]
      BY GrownKeeps
    <3>2. file' = [file EXCEPT !.slots = grown]
      BY <2>1 DEF BeginAppend
    <3> HIDE DEF grown
    <3>3. file.record_count < Len(grown)
      BY <1>1, <3>1
    <3> QED
      BY <3>1, <3>2, <3>3
  <2>2. CASE ~IsFull
    <3>1. file' = [file EXCEPT !.slots = file.slots]
      BY <2>2 DEF BeginAppend
    <3>2. file.record_count < Len(file.slots) /\ Len(file.slots) \in Nat
      BY <1>1, <2>2 DEF IsFull
    <3> QED
      BY <1>1, <3>1, <3>2
  <2> QED
    BY <2>1, <2>2
<1>3. /\ file' \in [magic : BOOLEAN, slots : Seq(Slot), record_count : Nat]
      /\ file'.slots = slots
      /\ file'.magic = file.magic /\ file'.record_count = file.record_count
  BY <1>1, <1>2
<1>4. /\ writer' = [at |-> "store", record |-> r] /\ writer.at = "open"
      /\ UNCHANGED <<appended, durable, failures>>
  BY DEF BeginAppend
<1>5. StoreTypeOK'
  BY <1>1, <1>2, <1>3, <1>4 DEF StoreInv, StoreTypeOK, map_len, Slot
<1>6. WriterInv'
  BY <1>1, <1>2, <1>3, <1>4 DEF StoreInv, WriterInv, map_len
<1>7. SlotsInv'
  <2>1. \A i \in 1..file.record_count : i \in 1..map_len /\ file'.slots[i] = file.slots[i]
    BY <1>1, <1>2, <1>3
  <2>2. file.magic => /\ Len(appended) = file.record_count
                      /\ \A i \in 1..file.record_count : appended[i] = file'.slots[i]
    BY <2>1 DEF StoreInv, SlotsInv
  <2>3. durable.header =>
          /\ file.magic /\ Len(durable.records) <= file.record_count
          /\ \A i \in 1..Len(durable.records) : durable.records[i] = file'.slots[i]
    <3>1. Len(durable.records) \in Nat
      BY LenProperties DEF StoreInv, StoreTypeOK
    <3> QED
      BY <1>1, <2>1, <3>1 DEF StoreInv, SlotsInv
  <2> QED
    BY <1>3, <1>4, <2>2, <2>3 DEF SlotsInv
<1> QED
  BY <1>5, <1>6, <1>7 DEF StoreInv

\* A record is written behind those that are counted.
LEMMA StoreRecordInv == StoreInv /\ StoreRecord => StoreInv'
<1> SUFFICES ASSUME StoreInv, StoreRecord PROVE StoreInv'
  OBVIOUS
<1> USE DEF StoreInv, StoreTypeOK, WriterInv, SlotsInv
<1> DEFINE k == file.record_count + 1
<1>1. /\ file.slots \in Seq(Slot) /\ k \in 1..Len(file.slots)
      /\ writer.record \in Record /\ writer.record \in Slot
      /\ file' = [file EXCEPT !.slots = [file.slots EXCEPT ![k] = writer.record]]
  BY LenProperties DEF StoreRecord, map_len, Slot
<1>2. /\ [file.slots EXCEPT ![k] = writer.record] \in Seq(Slot)
      /\ Len([file.slots EXCEPT ![k] = writer.record]) = Len(file.slots)
      /\ \A i \in 1..Len(file.slots) : [file.slots EXCEPT ![k] = writer.record][i]
                                     = IF i = k THEN writer.record ELSE file.slots[i]
  BY <1>1, ExceptSeq
<1>3. /\ file' \in [magic : BOOLEAN, slots : Seq(Slot), record_count : Nat]
      /\ file'.magic = file.magic /\ file'.record_count = file.record_count
      /\ file'.slots \in Seq(Slot) /\ Len(file'.slots) = Len(file.slots)
      /\ \A i \in 1..Len(file.slots) : file'.slots[i]
                                     = IF i = k THEN writer.record ELSE file.slots[i]
  BY <1>1, <1>2 DEF Slot
<1>4. /\ writer' \in [at : {"store", "count"}, record : Record]
      /\ writer'.at = "count" /\ writer'.record = writer.record
      /\ writer.at = "store" /\ UNCHANGED <<appended, durable, failures>>
  BY DEF StoreRecord
<1> QED
  BY <1>1, <1>3, <1>4 DEF map_len, Slot

\* It is counted once it is written.
LEMMA CountRecordInv == StoreInv /\ CountRecord => StoreInv'
<1> SUFFICES ASSUME StoreInv, CountRecord PROVE StoreInv'
  OBVIOUS
<1> USE DEF StoreInv, StoreTypeOK, WriterInv, SlotsInv
<1>1. /\ file' \in [magic : BOOLEAN, slots : Seq(Slot), record_count : Nat]
      /\ file'.magic = file.magic /\ file'.slots = file.slots
      /\ file'.record_count = file.record_count + 1
      /\ writer.record \in Slot /\ file.slots[file.record_count + 1] = writer.record
      /\ file.magic /\ file.record_count < map_len
      /\ UNCHANGED <<durable, failures>>
  BY SMTT(30) DEF CountRecord, Slot
<1>2. /\ appended \in Seq(Slot) /\ appended' = Append(appended, writer.record)
      /\ Len(appended) = file.record_count
  BY DEF CountRecord, Slot
<1>3. /\ appended' \in Seq(Slot) /\ Len(appended') = file.record_count + 1
      /\ \A i \in 1..file.record_count : appended'[i] = appended[i]
      /\ appended'[file.record_count + 1] = writer.record
  BY <1>1, <1>2, AppendProperties
<1>4. writer' = [at |-> "open"]
  BY DEF CountRecord
<1> QED
  BY <1>1, <1>3, <1>4, LenProperties DEF map_len, Slot

\* A close leaves the file as it is.
LEMMA CloseInv == StoreInv /\ close_store => StoreInv'
<1> SUFFICES ASSUME StoreInv, close_store PROVE StoreInv'
  OBVIOUS
<1> USE DEF StoreInv, StoreTypeOK, WriterInv, SlotsInv
<1>1. /\ Records \in Seq(Slot) /\ Len(Records) = file.record_count
      /\ \A i \in 1..file.record_count : Records[i] = file.slots[i]
  <2>1. file.slots \in Seq(Slot) /\ file.record_count \in 0..Len(file.slots)
    BY LenProperties DEF map_len, Slot
  <2> QED
    BY <2>1, FirstSlots DEF Records
<1>2. /\ durable' = [header |-> TRUE, records |-> Records] /\ writer' = [at |-> "none"]
      /\ UNCHANGED <<file, appended, failures>> /\ file.magic
  BY DEF close_store
<1> QED
  BY <1>1, <1>2 DEF map_len, Slot

\* A crash loses nothing that was written, and counts nothing that was not.
LEMMA ProcessCrashInv == StoreInv /\ ProcessCrash => StoreInv'
BY DEF StoreInv, StoreTypeOK, WriterInv, SlotsInv, ProcessCrash, map_len

\* Whatever part of what was not synced a power failure takes.
LEMMA PowerFailureInv == StoreInv /\ PowerFailure => StoreInv'
<1> SUFFICES ASSUME StoreInv, PowerFailure PROVE StoreInv'
  OBVIOUS
<1> USE DEF StoreInv, StoreTypeOK, WriterInv, SlotsInv
<1> DEFINE synced == Len(durable.records)
<1>1. PICK header \in {TRUE, durable.header}, n \in synced..file.record_count,
           kept \in SUBSET (synced + 1..file.record_count + 1) :
         file' = [magic |-> file.magic /\ header, record_count |-> n,
                  slots |-> [i \in 1..map_len |->
                               IF i <= synced \/ i \in kept THEN file.slots[i] ELSE Zeroes]]
  BY DEF PowerFailure
<1>2. /\ file.slots \in Seq(Slot) /\ map_len \in Nat /\ synced \in Nat
      /\ n \in 0..map_len /\ n >= synced
      /\ \A i \in 1..map_len : file.slots[i] \in Slot
  BY LenProperties, ElementOfSeq DEF map_len, Slot
<1>3. /\ file'.slots \in Seq(Slot) /\ Len(file'.slots) = map_len
      /\ \A i \in 1..map_len : i <= synced => file'.slots[i] = file.slots[i]
      /\ file'.record_count = n /\ file'.magic = (file.magic /\ header)
      /\ file' \in [magic : BOOLEAN, slots : Seq(Slot), record_count : Nat]
  <2> DEFINE slots == [i \in 1..map_len |->
                          IF i <= synced \/ i \in kept THEN file.slots[i] ELSE Zeroes]
  <2>1. slots \in [1..map_len -> Slot]
    BY <1>2 DEF Slot
  <2>2. slots \in Seq(Slot) /\ Len(slots) = map_len
    <3> HIDE DEF slots
    <3> QED
      BY <1>2, <2>1, SeqDef, LenProperties
  <2>3. file'.slots = slots
    BY <1>1
  <2> QED
    BY <1>1, <1>2, <2>2, <2>3
<1>4. /\ appended' \in Seq(Slot) /\ Len(appended') = n
      /\ \A i \in 1..n : appended'[i] = file'.slots[i]
  BY <1>2, <1>3, FirstSlots DEF PowerFailure
<1>5. /\ writer' = [at |-> "none"] /\ UNCHANGED durable
      /\ failures' \in 0..MaxPowerFailures
  BY StoreAssumption DEF PowerFailure
<1>6. durable.header => header /\ file.magic
  BY <1>1
<1> QED
  BY <1>2, <1>3, <1>4, <1>5, <1>6 DEF map_len, Slot

\* The replay starts from a copy of the records, and the recorder is forgotten.
LEMMA OpenForReplayInv == StoreInv /\ OpenForReplay => StoreInv'
BY EmptySeq, StoreAssumption
   DEF StoreInv, StoreTypeOK, WriterInv, SlotsInv, OpenForReplay, map_len, Slot

\* Nothing else touches the store.
LEMMA OthersInv == StoreInv /\ UNCHANGED storeVars => StoreInv'
BY DEF StoreInv, StoreTypeOK, WriterInv, SlotsInv, storeVars, map_len

\* The invariant of the store is inductive.
LEMMA NextStoreInv == StoreInv /\ [Next]_vars => StoreInv'
<1> SUFFICES ASSUME StoreInv, [Next]_vars PROVE StoreInv'
  OBVIOUS
<1>1. CASE MarketNext
  <2>1. CASE StoreNext
    BY <2>1, OpenCreateInv, WriteHeaderInv, OpenReadWriteInv, BeginAppendInv, StoreRecordInv,
       CountRecordInv, CloseInv, ProcessCrashInv, PowerFailureInv DEF StoreNext
  <2>2. CASE OpenForReplay
    BY <2>2, OpenForReplayInv
  <2>3. CASE UNCHANGED storeVars
    BY <2>3, OthersInv
  <2> QED
    BY <1>1, <2>1, <2>2, <2>3 DEF MarketNext
<1>2. CASE UNCHANGED marketVars
  BY <1>2, OthersInv DEF marketVars
<1> QED
  BY <1>1, <1>2 DEF Next, vars

-----------------------------------------------------------------------------
(* What follows *)

\* The inductive invariant, which says element by element what the store owes and
\* what a writer in the middle of append() has done so far.
THEOREM Invariant == Spec => []StoreInv
BY InitStoreInv, NextStoreInv, PTL DEF Spec

\* StoreKeepsRecords (binary_store.cpp:147-160): after a crash anywhere in append()
\* a file holds the finished appends, and after a power failure what was synced.
THEOREM KeepsRecords == Spec => []StoreKeepsRecords
<1>1. StoreInv => StoreKeepsRecords
  <2> SUFFICES ASSUME StoreInv PROVE StoreKeepsRecords
    OBVIOUS
  <2>1. /\ file.slots \in Seq(Slot) /\ file.record_count \in 0..Len(file.slots)
        /\ appended \in Seq(Slot) /\ durable.records \in Seq(Slot)
        /\ Len(durable.records) \in Nat
    BY LenProperties DEF StoreInv, StoreTypeOK, map_len, Slot
  <2>2. file.magic => Records = appended
    BY <2>1, SameSlots DEF StoreInv, SlotsInv, Records
  <2>3. Records \in Seq(Slot) /\ Len(Records) = file.record_count
        /\ \A i \in 1..file.record_count : Records[i] = file.slots[i]
    BY <2>1, FirstSlots DEF Records
  <2>4. ASSUME durable.header PROVE IsPrefix(durable.records, Records)
    <3>1. /\ Len(durable.records) \in 0..Len(Records)
          /\ \A i \in 1..Len(durable.records) : durable.records[i] = Records[i]
      BY <2>1, <2>3, <2>4 DEF StoreInv, SlotsInv
    <3>2. SubSeq(Records, 1, Len(durable.records)) = durable.records
      BY <2>1, <2>3, <3>1, SameSlots
    <3>3. SubSeq(durable.records, 1, Len(durable.records)) = durable.records
      BY <2>1, SubSeqFull
    <3> QED
      BY <3>1, <3>2, <3>3 DEF IsPrefix
  <2> QED
    BY <2>2, <2>4 DEF StoreKeepsRecords, StoreInv, SlotsInv
<1> QED
  BY <1>1, Invariant, PTL

\* Types of the store.
THEOREM TypeCorrect == Spec => []StoreTypeOK
BY Invariant, PTL DEF StoreInv
-----------------------------------------------------------------------------
(* The risk engine *)

\* Orders that wait to be filled.
Item == [no : 1..MaxOrders,
         order : [sym : Symbol, side : {"Buy", "Sell"}, qty : Nat \ {0}, limit_price : LimitPrices]]

\* What the engine remembers of the NAVs is the last one and their peak.
RiskInv ==
    /\ IsFiniteSet(DOMAIN positions) /\ TradingTypeOK
    /\ positions = [s \in DOMAIN positions |-> positions[s]]
    /\ outstanding \subseteq Item
    /\ navs \in Seq(Int) /\ Len(navs) <= MaxFills /\ start_hwm \in Int
    /\ navs # <<>> \/ outstanding # {} => accepted > 0
    /\ hwm >= start_hwm /\ \A i \in 1..Len(navs) : hwm >= navs[i]
    /\ hwm = start_hwm \/ \E i \in 1..Len(navs) : hwm = navs[i]
    /\ navs = <<>> => daily_pnl = 0 /\ prev_nav = 0
    /\ navs # <<>> => /\ prev_nav = navs[Len(navs)]
                      /\ hwm > 0 => drawdown = <<hwm - prev_nav, hwm>>
    /\ (Solvent /\ navs # <<>>) =>
          daily_pnl = navs[Len(navs)] - navs[IF session = 0 THEN 1 ELSE session]

\* The smaller of two numbers is one.
LEMMA MinOfPair ==
    ASSUME NEW a \in Int, NEW b \in Int
    PROVE  Min({a, b}) \in Int
<1>1. \E x \in {a, b} : \A y \in {a, b} : x <= y
  <2>1. CASE a <= b
    BY <2>1
  <2>2. CASE b <= a
    BY <2>2
  <2> QED
    BY <2>1, <2>2
<1> QED
  BY <1>1 DEF Min

\* A valuation is a whole number.
LEMMA ValueIsInt ==
    ASSUME NEW pos, NEW prices, IsFiniteSet(DOMAIN pos),
           \A s \in DOMAIN pos : pos[s] \in Int, \A s \in DOMAIN prices : prices[s] \in Int
    PROVE  ValueOf(pos, prices) \in Int
<1> DEFINE S == DOMAIN pos \cap DOMAIN prices
           Body(g) == [s \in SUBSET S |->
                         IF s = {} THEN 0
                         ELSE pos[CHOOSE x \in s : TRUE] * prices[CHOOSE x \in s : TRUE]
                                + g[s \ {CHOOSE x \in s : TRUE}]]
           pick == [s \in (SUBSET S) \ {{}} |-> CHOOSE x \in s : TRUE]
           adds == [sb \in S \X Int |-> pos[sb[1]] * prices[sb[1]] + sb[2]]
<1>1. ValueOf(pos, prices) = (CHOOSE g : g = Body(g))[S]
  BY Zenon DEF ValueOf, MapThenSumSet, MapThenFoldSet
<1>2. IsFiniteSet(S) /\ Picks(pick, S)
  BY FS_Subset DEF Picks
<1>3. \A x \in S, v \in Int : pos[x] * prices[x] + v \in Int
  OBVIOUS
<1>4. adds \in [S \X Int -> Int] /\ 0 \in Int
  BY <1>3
<1>6. PICK it : FoldsBy(it, S, Int, 0, pick, adds)
  <2> HIDE DEF S, pick, adds
  <2> QED
    BY <1>2, <1>4, FoldExists
<1>7. it = Body(it)
  <2>1. \A s \in (SUBSET S) \ {{}} : it[s] = Body(it)[s]
    BY <1>2, <1>6 DEF FoldsBy, Picks
  <2>2. it[{}] = Body(it)[{}]
    BY <1>6 DEF FoldsBy
  <2>3. it = [s \in SUBSET S |-> it[s]]
    BY <1>6 DEF FoldsBy
  <2> QED
    BY <2>1, <2>2, <2>3
<1> DEFINE f == CHOOSE g : g = Body(g)
<1>8. f = Body(f)
  <2> HIDE DEF Body
  <2> QED
    BY <1>7
<1>9. \A s \in SUBSET S : it[s] = f[s]
  <2> HIDE DEF f
  <2>1. it[{}] = f[{}]
    BY <1>7, <1>8
  <2>2. ASSUME NEW s \in (SUBSET S) \ {{}}, it[s \ {pick[s]}] = f[s \ {pick[s]}]
        PROVE  it[s] = f[s]
    BY <1>7, <1>8, <2>2, SMTT(30)
  <2>3. AgreeStepwise(it, f, S, pick)
    BY <2>1, <2>2 DEF AgreeStepwise
  <2> HIDE DEF S, pick
  <2> QED
    BY <1>2, <2>3, FoldUnique
<1> QED
  <2> HIDE DEF S, f, Body, adds, pick
  <2>1. f[S] = it[S] /\ it[S] \in Int
    BY <1>6, <1>9 DEF FoldsBy
  <2> QED
    BY <1>1, <2>1 DEF f

-----------------------------------------------------------------------------
\* Where the NAV of the session starts.
LEMMA SessionIndex ==
    ASSUME NEW n \in Nat
    PROVE  Max({1, n}) = IF n = 0 THEN 1 ELSE n
<1>1. 1 \in Int /\ n \in Int
  OBVIOUS
<1>2. Max({1, n}) \in {1, n} /\ Max({1, n}) >= 1 /\ Max({1, n}) >= n
  BY <1>1, MaxOfTwo
<1> QED
  BY <1>2

\* The invariant of the risk engine holds before the first session.
LEMMA InitRiskInv == Init => RiskInv
<1> SUFFICES ASSUME Init PROVE RiskInv
  OBVIOUS
<1>1. DOMAIN positions = {} /\ navs = <<>> /\ navs \in Seq(Int) /\ Len(navs) = 0
  BY EmptySeq DEF Init, TradingInit, PortfolioInit
<1>2. IsFiniteSet(DOMAIN positions)
  BY <1>1, FS_EmptySet
<1> QED
  BY <1>1, <1>2, RiskAssumption, PortfolioAssumption
     DEF Init, TradingInit, PortfolioInit, RiskInv, TradingTypeOK

\* A fill's quantity after it.
LEMMA PositionType ==
    ASSUME NEW q \in Int, NEW d \in Int
    PROVE  PositionAfter(q, d) \in Int
<1>1. Abs(q) \in Int /\ Abs(d) \in Int
  BY DEF Abs
<1>2. Min({Abs(d), Abs(q)}) \in Int
  BY <1>1, MinOfPair
<1> QED
  BY <1>2 DEF PositionAfter, Closed, Lessened

\* An order that is let through keeps it: it changes no money.
LEMMA SubmitRiskInv ==
    ASSUME RiskInv, NEW o \in Order, NEW prices \in PriceMaps, SubmitOrder(o, prices)
    PROVE  RiskInv'
<1>1. /\ UNCHANGED <<positions, cash, daily_pnl, prev_nav, hwm, drawdown, navs, session, start_hwm>>
      /\ accepted < MaxOrders /\ accepted' = accepted + 1
      /\ outstanding' = outstanding \cup {[no |-> accepted + 1, order |-> o]}
  BY DEF SubmitOrder, portfolioVars, riskVars
<1>2. accepted \in Nat /\ MaxOrders \in Nat
  BY RiskAssumption DEF RiskInv, TradingTypeOK
<1>3. [no |-> accepted + 1, order |-> o] \in Item
  <2>1. /\ o \in [sym : Symbol, side : {"Buy", "Sell"}, qty : OrderQtys, limit_price : LimitPrices]
        /\ OrderQtys \subseteq Nat \ {0}
    BY RiskAssumption DEF Order
  <2>2. o \in [sym : Symbol, side : {"Buy", "Sell"}, qty : Nat \ {0}, limit_price : LimitPrices]
    BY <2>1
  <2>3. accepted + 1 \in 1..MaxOrders
    BY <1>1, <1>2
  <2> QED
    BY <2>2, <2>3 DEF Item
<1>4. outstanding' \subseteq Item
  BY <1>1, <1>3 DEF RiskInv
<1>5. TradingTypeOK'
  <2>1. \A it \in outstanding' : it.no \in 1..accepted' /\ it.order.qty > 0
    <3>1. \A it \in outstanding : it.no \in 1..accepted /\ it.order.qty > 0
      BY DEF RiskInv, TradingTypeOK
    <3>2. o.qty > 0
      <4>1. o.qty \in OrderQtys
        BY DEF Order
      <4>2. o.qty \in Nat \ {0}
        BY <4>1, RiskAssumption
      <4> QED
        BY <4>2
    <3>3. \A it \in outstanding : it.no \in 1..accepted' /\ it.order.qty > 0
      BY <1>1, <1>2, <3>1
    <3>4. LET new == [no |-> accepted + 1, order |-> o]
          IN  new.no \in 1..accepted' /\ new.order.qty > 0
      BY <1>1, <1>2, <3>2
    <3> QED
      BY <1>1, <3>3, <3>4
  <2>2. accepted' \in 0..MaxOrders
    BY <1>1, <1>2
  <2> QED
    BY <1>1, <2>1, <2>2 DEF RiskInv, TradingTypeOK
<1> QED
  BY <1>1, <1>2, <1>4, <1>5 DEF RiskInv, Solvent

\* A fill keeps it: the NAV changes by what the fill made or lost.
LEMMA FillRiskInv ==
    ASSUME RiskInv, NEW item \in outstanding, NEW price \in FillPrices, NEW fee \in Commissions,
           NEW prices \in PriceMaps, NEW qty \in 1..item.order.qty,
           Fill(item, [sym |-> item.order.sym, side |-> item.order.side, fill_qty |-> qty,
                       fill_price |-> price, commission |-> fee], prices)
    PROVE  RiskInv'
<1> DEFINE f == [sym |-> item.order.sym, side |-> item.order.side, fill_qty |-> qty,
                 fill_price |-> price, commission |-> fee]
           nav_now == cash' + ValueOf(positions', prices)
<1>1. item \in Item /\ item.order.sym \in Symbol /\ item.order.qty \in Nat \ {0} /\ qty \in Nat \ {0}
  BY DEF RiskInv, Item
<1>2. /\ Len(navs) < MaxFills /\ PortfolioOnFill(f) /\ RiskOnFill(nav_now)
      /\ navs' = Append(navs, nav_now)
      /\ outstanding' = AfterFill(item, qty)
      /\ UNCHANGED <<accepted, session, start_hwm>>
  BY DEF Fill
<1>3. Signed(f.side, f.fill_qty) \in Int /\ Signed(f.side, Notional(f)) \in Int /\ fee \in Int
  BY <1>1, RiskAssumption DEF Signed, Notional
<1>4. cash' \in Int
  BY <1>2, <1>3 DEF PortfolioOnFill, RiskInv, TradingTypeOK
<1>5. /\ DOMAIN positions' = DOMAIN positions \cup {item.order.sym}
      /\ \A s \in DOMAIN positions' : positions'[s] \in Int
      /\ positions' = [s \in DOMAIN positions' |-> positions'[s]]
  <2>1. \A s : Qty(s) \in Int
    BY DEF Qty, RiskInv, TradingTypeOK
  <2>2. \A s : PositionAfter(Qty(s), Signed(f.side, f.fill_qty)) \in Int
    BY <1>3, <2>1, PositionType
  <2>3. positions' = [s \in DOMAIN positions \cup {item.order.sym} |->
                        IF s = item.order.sym
                        THEN PositionAfter(Qty(s), Signed(f.side, f.fill_qty)) ELSE positions[s]]
    BY <1>2 DEF PortfolioOnFill
  <2> HIDE DEF f
  <2> QED
    BY <2>2, <2>3 DEF RiskInv, TradingTypeOK
<1>6. IsFiniteSet(DOMAIN positions')
  BY <1>5, FS_AddElement DEF RiskInv
<1>7. nav_now \in Int
  <2>1. ValueOf(positions', prices) \in Int
    BY <1>5, <1>6, ValueIsInt, RiskAssumption
  <2> QED
    BY <1>4, <2>1
<1> HIDE DEF nav_now, f
<1>8. /\ navs \in Seq(Int) /\ navs' \in Seq(Int) /\ Len(navs') = Len(navs) + 1 /\ Len(navs) \in Nat
      /\ navs'[Len(navs')] = nav_now /\ \A i \in 1..Len(navs) : navs'[i] = navs[i]
      /\ Len(navs') <= MaxFills
  BY <1>2, <1>7, AppendProperties, RiskAssumption, LenProperties DEF RiskInv
<1>9. /\ hwm' \in {hwm, nav_now} /\ hwm' >= hwm /\ hwm' >= nav_now
      /\ drawdown' = (IF hwm' > 0 THEN <<hwm' - nav_now, hwm'>> ELSE drawdown)
      /\ daily_pnl' = (IF prev_nav > 0 THEN daily_pnl + nav_now - prev_nav ELSE daily_pnl)
      /\ prev_nav' = nav_now
  BY <1>2, <1>7, MaxOfTwo DEF RiskOnFill, RiskInv, TradingTypeOK
<1>10. outstanding' \subseteq Item /\ accepted > 0 /\ accepted \in 0..MaxOrders
  <2>1. qty # item.order.qty => [item EXCEPT !.order.qty = @ - qty] \in Item
    BY <1>1 DEF Item
  <2> QED
    BY <1>2, <2>1 DEF AfterFill, RiskInv, TradingTypeOK
<1>11. \A it \in outstanding' : it.no \in 1..accepted' /\ it.order.qty > 0
  <2>1. item.no \in 1..accepted
    BY DEF RiskInv, TradingTypeOK
  <2>2. qty # item.order.qty => /\ [item EXCEPT !.order.qty = @ - qty].no = item.no
                                /\ [item EXCEPT !.order.qty = @ - qty].order.qty > 0
    BY <1>1 DEF Item
  <2> QED
    BY <1>2, <2>1, <2>2 DEF AfterFill, RiskInv, TradingTypeOK
<1>12. TradingTypeOK'
  <2>1. DOMAIN positions' \subseteq Symbol
    BY <1>1, <1>5 DEF RiskInv, TradingTypeOK
  <2>2. drawdown'[1] \in Nat /\ drawdown'[2] \in Nat \ {0}
    <3>1. hwm' \in Int /\ hwm' - nav_now \in Nat
      <4>1. hwm \in Int
        BY DEF RiskInv, TradingTypeOK
      <4>2. hwm' \in Int
        BY <1>7, <1>9, <4>1
      <4>3. \A a, b \in Int : a >= b => a - b \in Nat
        OBVIOUS
      <4>4. hwm' >= nav_now
        BY <1>9
      <4> QED
        BY <1>7, <4>2, <4>3, <4>4
    <3> QED
      BY <1>9, <3>1 DEF RiskInv, TradingTypeOK
  <2>3. {cash', daily_pnl', prev_nav', hwm'} \subseteq Int
    BY <1>4, <1>7, <1>9 DEF RiskInv, TradingTypeOK
  <2>4. accepted' \in 0..MaxOrders /\ session' \in 0..Len(navs')
    BY <1>2, <1>8 DEF RiskInv, TradingTypeOK
  <2> QED
    BY <1>5, <1>11, <2>1, <2>2, <2>3, <2>4 DEF TradingTypeOK
<1>13. (Solvent /\ navs # <<>>)' =>
         daily_pnl' = navs'[Len(navs')] - navs'[IF session' = 0 THEN 1 ELSE session']
  <2> SUFFICES ASSUME Solvent'
               PROVE  daily_pnl' = navs'[Len(navs')] - navs'[IF session' = 0 THEN 1 ELSE session']
    OBVIOUS
  <2>1. CASE navs = <<>>
    <3>1. Len(navs) = 0 /\ session = 0 /\ prev_nav = 0 /\ daily_pnl = 0
      BY <2>1 DEF RiskInv, TradingTypeOK
    <3> QED
      BY <1>2, <1>7, <1>8, <1>9, <3>1
  <2>2. CASE navs # <<>>
    <3>1. Len(navs) >= 1
      BY <1>8, <2>2, EmptySeq
    <3>2. prev_nav = navs[Len(navs)] /\ session \in 0..Len(navs)
      BY <2>2 DEF RiskInv, TradingTypeOK
    <3>3. Solvent /\ prev_nav > 0
      <4>1. DOMAIN navs = 1..Len(navs) /\ DOMAIN navs' = 1..Len(navs')
        BY <1>8
      <4>2. \A i \in 1..Len(navs) : navs'[i] > 0
        <5> TAKE i \in 1..Len(navs)
        <5>1. i \in DOMAIN navs'
          BY <1>8, <4>1
        <5> QED
          BY <5>1 DEF Solvent
      <4>3. \A i \in 1..Len(navs) : navs[i] > 0
        BY <1>8, <4>2
      <4>4. Len(navs) \in 1..Len(navs)
        BY <1>8, <3>1
      <4> QED
        BY <3>2, <4>1, <4>3, <4>4 DEF Solvent
    <3>4. daily_pnl = navs[Len(navs)] - navs[IF session = 0 THEN 1 ELSE session]
      BY <2>2, <3>3 DEF RiskInv
    <3>5. LET i == IF session = 0 THEN 1 ELSE session
          IN  navs'[i] = navs[i] /\ navs[i] \in Int
      BY <1>8, <3>1, <3>2, ElementOfSeq
    <3>6. navs[Len(navs)] \in Int
      BY <1>8, <3>1, ElementOfSeq
    <3>7. daily_pnl' = daily_pnl + nav_now - prev_nav
      BY <1>9, <3>3
    <3> QED
      BY <1>2, <1>7, <1>8, <3>2, <3>4, <3>5, <3>6, <3>7, SMTT(30)
  <2> QED
    BY <2>1, <2>2
<1>14. /\ hwm' >= start_hwm' /\ \A i \in 1..Len(navs') : hwm' >= navs'[i]
       /\ hwm' = start_hwm' \/ \E i \in 1..Len(navs') : hwm' = navs'[i]
  <2>1. \A i \in 1..Len(navs') : i \in 1..Len(navs) \/ i = Len(navs')
    BY <1>8
  <2>2. /\ hwm >= start_hwm /\ \A i \in 1..Len(navs) : hwm >= navs[i] /\ navs[i] \in Int
        /\ hwm \in Int /\ hwm' \in Int /\ start_hwm \in Int
    BY <1>7, <1>8, <1>9, ElementOfSeq DEF RiskInv, TradingTypeOK
  <2>3. hwm' >= start_hwm' /\ \A i \in 1..Len(navs') : hwm' >= navs'[i]
    BY <1>2, <1>7, <1>8, <1>9, <2>1, <2>2
  <2>4. hwm' = start_hwm' \/ \E i \in 1..Len(navs') : hwm' = navs'[i]
    <3>1. CASE hwm' = hwm
      BY <1>2, <1>8, <3>1 DEF RiskInv
    <3>2. CASE hwm' = nav_now
      BY <1>8, <3>2
    <3> QED
      BY <1>9, <3>1, <3>2
  <2> QED
    BY <2>3, <2>4
<1>15. navs' # <<>>
  BY <1>8
<1> QED
  BY <1>2, <1>5, <1>6, <1>8, <1>9, <1>10, <1>12, <1>13, <1>14, <1>15 DEF RiskInv

\* reset_daily_pnl keeps it: a session begins with the NAVs seen so far.
LEMMA ResetRiskInv == RiskInv /\ reset_daily_pnl => RiskInv'
<1> SUFFICES ASSUME RiskInv, reset_daily_pnl PROVE RiskInv'
  OBVIOUS
<1>1. /\ daily_pnl' = 0 /\ session' = Len(navs)
      /\ UNCHANGED <<positions, cash, prev_nav, hwm, drawdown, outstanding, accepted, navs, start_hwm>>
  BY DEF reset_daily_pnl, portfolioVars
<1>2. Len(navs) \in Nat /\ (navs # <<>> => Len(navs) >= 1 /\ navs[Len(navs)] \in Int)
  BY LenProperties, EmptySeq, ElementOfSeq DEF RiskInv
<1>3. TradingTypeOK'
  BY <1>1, <1>2 DEF RiskInv, TradingTypeOK
<1> QED
  BY <1>1, <1>2, <1>3 DEF RiskInv

\* A high-water mark that is carried over, before the first order, keeps it.
LEMMA MarkRiskInv ==
    ASSUME RiskInv, NEW mark \in HighWaterMarks, set_hwm(mark)
    PROVE  RiskInv'
<1>1. /\ accepted = 0 /\ hwm' = mark /\ start_hwm' = mark /\ mark \in Int
      /\ UNCHANGED <<positions, cash, daily_pnl, prev_nav, drawdown, outstanding, accepted, navs, session>>
  BY RiskAssumption DEF set_hwm, portfolioVars
<1>2. navs = <<>> /\ Len(navs) = 0
  BY <1>1 DEF RiskInv
<1>3. TradingTypeOK'
  BY <1>1, <1>2 DEF RiskInv, TradingTypeOK
<1> QED
  BY <1>1, <1>2, <1>3 DEF RiskInv

\* Limits are not in the invariant, and nothing else touches the portfolio.
LEMMA OtherRiskInv ==
    ASSUME RiskInv, UNCHANGED <<portfolioVars, daily_pnl, prev_nav, hwm, drawdown, clientVars>>
    PROVE  RiskInv'
BY DEF RiskInv, TradingTypeOK, portfolioVars, clientVars, Solvent

\* The invariant of the risk engine is inductive.
LEMMA NextRiskInv == RiskInv /\ [Next]_vars => RiskInv'
<1> SUFFICES ASSUME RiskInv, [Next]_vars PROVE RiskInv'
  OBVIOUS
<1>1. CASE TradingNext
  <2>1. CASE FillSome
    BY <2>1, FillRiskInv DEF FillSome
  <2>2. CASE engage_kill_switch \/ \E l \in Limits : set_limits(l)
    BY <2>2, OtherRiskInv DEF engage_kill_switch, set_limits
  <2> QED
    BY <1>1, <2>1, <2>2, SubmitRiskInv, ResetRiskInv, MarkRiskInv DEF TradingNext
<1>2. CASE UNCHANGED tradingVars
  BY <1>2, OtherRiskInv DEF tradingVars, riskVars
<1> QED
  BY <1>1, <1>2 DEF Next, vars

-----------------------------------------------------------------------------
(* Theorems *)

\* The invariant of the risk engine holds in every reachable state.
THEOREM RiskInvariant == Spec => []RiskInv
BY InitRiskInv, NextRiskInv, PTL DEF Spec

\* Where it holds, the daily P&L is a change of NAVs.
LEMMA RiskInvPnl == RiskInv => DailyPnlIsNavChange
<1> SUFFICES ASSUME RiskInv, Solvent, navs # <<>>
             PROVE  daily_pnl = Last(navs) - SessionStart
  BY DEF DailyPnlIsNavChange, SessionChange, RiskInv
<1>1. session \in Nat
  BY DEF RiskInv, TradingTypeOK
<1>2. Max({1, session}) = IF session = 0 THEN 1 ELSE session
  BY <1>1, SessionIndex
<1> QED
  BY <1>2 DEF RiskInv, SessionStart, Last

\* What the daily-loss limit is compared with is the change of the NAV since the
\* session began (risk_engine.cpp:66-70).
THEOREM DailyPnlCorrect == Spec => []DailyPnlIsNavChange
BY RiskInvPnl, RiskInvariant, PTL

\* No order is let through once the session has lost more than the daily limit,
\* or the NAV has fallen further from its peak than the drawdown limit
\* (risk_engine.cpp:39-40).
THEOREM LossesStopTrading == Spec => NoOrderAfterLoss
<1> DEFINE Step == accepted' # accepted /\ Solvent /\ navs # <<>> =>
                     /\ ~Exceeds(<<Peak - Last(navs), Peak>>, limits.max_drawdown_pct)
                     /\ SessionChange >= -limits.max_daily_loss
<1>2. ASSUME RiskInv, [Next]_vars PROVE [Step]_tradingVars
  <2> SUFFICES ASSUME accepted' # accepted, Solvent, navs # <<>>
               PROVE  /\ ~Exceeds(<<Peak - Last(navs), Peak>>, limits.max_drawdown_pct)
                      /\ SessionChange >= -limits.max_daily_loss
    OBVIOUS
  <2>1. PICK o \in Order, prices \in PriceMaps : SubmitOrder(o, prices)
    BY <1>2 DEF Next, vars, TradingNext, tradingVars, clientVars, FillSome, Fill, reset_daily_pnl,
       engage_kill_switch, set_limits, set_hwm
  <2>2. WithinDailyLoss /\ WithinDrawdown
    BY <2>1 DEF SubmitOrder, check_order
  <2>3. daily_pnl = SessionChange
    BY <1>2, RiskInvPnl DEF DailyPnlIsNavChange
  <2>4. Len(navs) \in Nat /\ Len(navs) >= 1 /\ DOMAIN navs = 1..Len(navs) /\ Last(navs) = navs[Len(navs)]
    BY <1>2, LenProperties, EmptySeq DEF RiskInv, Last
  <2>5. hwm = Peak
    <3> DEFINE all == {start_hwm} \cup {navs[i] : i \in DOMAIN navs}
    <3>1. hwm \in all /\ \A x \in all : hwm >= x
      BY <1>2, <2>4 DEF RiskInv
    <3>2. hwm \in Int /\ all \subseteq Int
      BY <1>2, <2>4, ElementOfSeq DEF RiskInv, TradingTypeOK
    <3>4. Peak = Max(all)
      BY DEF Peak
    <3> HIDE DEF all
    <3>3. \A x \in all : (\A y \in all : x >= y) => x = hwm
      BY <3>1, <3>2
    <3> QED
      BY <3>1, <3>3, <3>4 DEF Max
  <2>6. hwm > 0
    BY <1>2, <2>4 DEF RiskInv, Solvent
  <2>7. drawdown = <<Peak - Last(navs), Peak>>
    BY <1>2, <2>4, <2>5, <2>6 DEF RiskInv
  <2> QED
    BY <2>2, <2>3, <2>7 DEF WithinDailyLoss, WithinDrawdown
<1> QED
  BY <1>2, RiskInvariant, PTL DEF Spec, NoOrderAfterLoss

\* Positions, cash, NAVs and limits keep their types.
THEOREM TradingTypeCorrect == Spec => []TradingTypeOK
BY RiskInvariant, PTL DEF RiskInv

-----------------------------------------------------------------------------
(* Lookups *)

\* What one round of the binary search does with what the rest of it finds.
Round(g, s, lo, count, ts) ==
    LET half == count \div 2
        mid  == lo + half
    IN  IF count = 0 THEN lo
        ELSE IF s[mid + 1].recv_ts < ts THEN g[<<mid + 1, count - (half + 1)>>] ELSE g[<<lo, half>>]

\* Half of a number, and what is left of it.
LEMMA Halves ==
    ASSUME NEW n \in Nat, NEW count \in 1..n
    PROVE  /\ count \div 2 \in 0..n /\ count \div 2 < count
           /\ count - (count \div 2 + 1) \in 0..n /\ count - (count \div 2 + 1) < count
BY SMT

\* The search is a function of where it starts and of how much it looks at.
LEMMA SearchExists ==
    ASSUME NEW s, NEW n \in Nat, NEW ts
    PROVE  \E g \in [Nat \X (0..n) -> Nat] :
               \A lo \in Nat, count \in 0..n : g[<<lo, count>>] = Round(g, s, lo, count, ts)
<1> DEFINE G == [Nat \X (0..n) -> Nat]
           Good(g, k) == \A lo \in Nat, count \in 0..n :
                            count <= k => g[<<lo, count>>] = Round(g, s, lo, count, ts)
           Bad == {k \in Nat : ~\E g \in G : Good(g, k)}
<1>1. 0 \notin Bad
  <2> DEFINE g == [at \in Nat \X (0..n) |-> at[1]]
  <2>1. g \in G
    OBVIOUS
  <2>2. \A lo \in Nat, count \in 0..n : g[<<lo, count>>] = lo
    OBVIOUS
  <2> HIDE DEF g
  <2>3. Good(g, 0)
    BY <2>2 DEF Round
  <2> QED
    BY <2>1, <2>3
<1>2. ASSUME NEW k \in Nat, k \notin Bad PROVE k + 1 \notin Bad
  <2>1. PICK g \in G : Good(g, k)
    BY <1>2
  <2> DEFINE h == [at \in Nat \X (0..n) |->
                      IF at[2] <= k THEN g[at] ELSE Round(g, s, at[1], at[2], ts)]
  <2>2. \A lo \in Nat, count \in 0..n : Round(g, s, lo, count, ts) \in Nat
    <3> TAKE lo \in Nat, count \in 0..n
    <3>1. CASE count = 0
      BY <3>1 DEF Round
    <3>2. CASE count # 0
      <4>1. count \in 1..n
        BY <3>2
      <4>2. /\ count \div 2 \in 0..n /\ count - (count \div 2 + 1) \in 0..n
            /\ lo + count \div 2 + 1 \in Nat
        BY <4>1, Halves
      <4>3. g[<<lo, count \div 2>>] \in Nat /\ g[<<lo + count \div 2 + 1, count - (count \div 2 + 1)>>] \in Nat
        BY <2>1, <4>2
      <4> QED
        BY <3>2, <4>3 DEF Round
    <3> QED
      BY <3>1, <3>2
  <2>3. \A lo \in Nat, count \in 0..n :
            h[<<lo, count>>] = IF count <= k THEN g[<<lo, count>>] ELSE Round(g, s, lo, count, ts)
    OBVIOUS
  <2>4. h \in G
    <3>1. \A lo \in Nat, count \in 0..n : g[<<lo, count>>] \in Nat
      BY <2>1
    <3> QED
      BY <2>2, <3>1
  <2> HIDE DEF h, G
  <2>5. ASSUME NEW lo \in Nat, NEW count \in 0..n, count <= k + 1
        PROVE  h[<<lo, count>>] = Round(h, s, lo, count, ts)
    <3>1. h[<<lo, count>>] = Round(g, s, lo, count, ts)
      <4>1. CASE count <= k
        BY <2>1, <2>3, <4>1
      <4>2. CASE ~(count <= k)
        BY <2>3, <4>2
      <4> QED
        BY <4>1, <4>2
    <3>2. Round(h, s, lo, count, ts) = Round(g, s, lo, count, ts)
      <4>1. CASE count = 0
        BY <4>1 DEF Round
      <4>2. CASE count # 0
        <5>1. count \in 1..n
          BY <4>2
        <5>2. /\ count \div 2 \in 0..n /\ count - (count \div 2 + 1) \in 0..n
              /\ count \div 2 <= k /\ count - (count \div 2 + 1) <= k
              /\ lo + count \div 2 + 1 \in Nat
          BY <5>1, <2>5, Halves
        <5>3. /\ h[<<lo, count \div 2>>] = g[<<lo, count \div 2>>]
              /\ h[<<lo + count \div 2 + 1, count - (count \div 2 + 1)>>]
                   = g[<<lo + count \div 2 + 1, count - (count \div 2 + 1)>>]
          BY <2>3, <5>2
        <5> QED
          BY <4>2, <5>3 DEF Round
      <4> QED
        BY <4>1, <4>2
    <3> QED
      BY <3>1, <3>2
  <2>6. Good(h, k + 1)
    BY <2>5
  <2> QED
    BY <2>4, <2>6
<1>3. Bad = {}
  <2> HIDE DEF Bad
  <2>1. Bad \subseteq Nat
    BY DEF Bad
  <2> QED
    BY <1>1, <1>2, <2>1, NoLeastExample
<1>4. PICK g \in G : Good(g, n)
  BY <1>3
<1> QED
  BY <1>4

Searches(f, s, first, last, ts) ==
    /\ \A lo \in Nat, count \in 0..Len(s) : f[<<lo, count>>] = Round(f, s, lo, count, ts)
    /\ lower_bound(s, first, last, ts) = f[<<first, last - first>>]

\* lower_bound is such a function, at its first and for all the records it is given.
LEMMA SearchRuns ==
    ASSUME NEW s, NEW first, NEW last, NEW ts, Len(s) \in Nat
    PROVE  \E f : Searches(f, s, first, last, ts)
<1> DEFINE n == Len(s)
           Body(g) == [at \in Nat \X (0..n) |-> Round(g, s, at[1], at[2], ts)]
           f == CHOOSE g : g = Body(g)
<1>1. lower_bound(s, first, last, ts) = f[<<first, last - first>>]
  BY Zenon DEF lower_bound, Round
<1>2. PICK g \in [Nat \X (0..n) -> Nat] :
          \A lo \in Nat, count \in 0..n : g[<<lo, count>>] = Round(g, s, lo, count, ts)
  BY SearchExists
<1>3. g = Body(g)
  <2>1. \A lo \in Nat, count \in 0..n : g[<<lo, count>>] = Body(g)[<<lo, count>>]
    BY <1>2
  <2>2. g = [at \in Nat \X (0..n) |-> g[<<at[1], at[2]>>]]
    BY SMTT(30)
  <2> QED
    BY <2>1, <2>2
<1>4. f = Body(f)
  <2> HIDE DEF Body
  <2> QED
    BY <1>3
<1>5. \A lo \in Nat, count \in 0..n : f[<<lo, count>>] = Round(f, s, lo, count, ts)
  <2> HIDE DEF f
  <2> QED
    BY <1>4 DEF Round
<1> QED
  BY <1>1, <1>5 DEF Searches

\* The times of a sequence of records are numbers.
Timed(s) == \A i \in 1..Len(s) : s[i].recv_ts \in Nat

\* What is to the left of the result, if anything, is earlier; what the result is
\* on is not. That holds in files out of order too.
Found(s, lo, count, ts, r) ==
    /\ r \in lo..(lo + count)
    /\ r > lo => s[r].recv_ts < ts
    /\ r < lo + count => s[r + 1].recv_ts >= ts

\* One round of the search finds what it should if the rest of it does.
LEMMA RoundFinds ==
    ASSUME NEW s, Len(s) \in Nat, Timed(s), NEW ts \in Int, NEW f,
           NEW lo \in Nat, NEW count \in 0..Len(s), lo + count <= Len(s),
           \A m \in Nat, k \in 0..Len(s) :
              k < count /\ m + k <= Len(s) => Found(s, m, k, ts, f[<<m, k>>])
    PROVE  Found(s, lo, count, ts, Round(f, s, lo, count, ts))
<1>1. CASE count = 0
  BY <1>1 DEF Found, Round
<1>2. CASE count # 0
  <2>1. PICK half \in 0..Len(s), mid \in Nat, k \in 0..Len(s) :
            half = count \div 2 /\ mid = lo + half /\ k = count - (half + 1)
    <3>1. count \in 1..Len(s)
      BY <1>2
    <3>2. count \div 2 \in 0..Len(s) /\ count - (count \div 2 + 1) \in 0..Len(s)
      BY <3>1, Halves
    <3> QED
      BY <3>2
  <2>2. half < count /\ k < count /\ mid + 1 \in 1..Len(s) /\ mid + 1 + k = lo + count
        /\ mid + 1 \in Nat /\ lo + half <= Len(s) /\ lo <= mid /\ mid < lo + count
    <3>1. count \in 1..Len(s)
      BY <1>2
    <3>2. count \div 2 < count
      BY <3>1, Halves
    <3> QED
      BY <2>1, <3>2
  <2>3. Round(f, s, lo, count, ts)
          = IF s[mid + 1].recv_ts < ts THEN f[<<mid + 1, k>>] ELSE f[<<lo, half>>]
    BY <1>2, <2>1 DEF Round
  <2>4. s[mid + 1].recv_ts \in Nat
    BY <2>2 DEF Timed
  <2>5. CASE s[mid + 1].recv_ts < ts
    <3>1. PICK r : r = f[<<mid + 1, k>>]
      OBVIOUS
    <3>2. Found(s, mid + 1, k, ts, r)
      BY <2>2, <3>1
    <3>3. /\ r \in (mid + 1)..(lo + count)
          /\ r > mid + 1 => s[r].recv_ts < ts
          /\ r < lo + count => s[r + 1].recv_ts >= ts
      BY <2>2, <3>2 DEF Found
    <3>4. r > lo => s[r].recv_ts < ts
      BY <2>5, <3>3
    <3>5. r \in lo..(lo + count)
      BY <2>2, <3>3
    <3> QED
      BY <2>3, <2>5, <3>1, <3>3, <3>4, <3>5 DEF Found
  <2>6. CASE ~(s[mid + 1].recv_ts < ts)
    <3>1. PICK r : r = f[<<lo, half>>]
      OBVIOUS
    <3>2. Found(s, lo, half, ts, r)
      BY <2>2, <3>1
    <3>3. /\ r \in lo..mid
          /\ r > lo => s[r].recv_ts < ts
          /\ r < mid => s[r + 1].recv_ts >= ts
      BY <2>1, <3>2 DEF Found
    <3>4. r < lo + count => s[r + 1].recv_ts >= ts
      BY <2>4, <2>6, <3>3
    <3>5. r \in lo..(lo + count)
      BY <2>2, <3>3
    <3> QED
      BY <2>3, <2>6, <3>1, <3>3, <3>4, <3>5 DEF Found
  <2> QED
    BY <2>5, <2>6
<1> QED
  BY <1>1, <1>2

\* What the binary search promises: a place in its range, right behind a record
\* that is earlier than ts and right before one that is not.
LEMMA LowerBoundFinds ==
    ASSUME NEW s, Len(s) \in Nat, Timed(s), NEW ts \in Int,
           NEW first \in 0..Len(s), NEW last \in first..Len(s)
    PROVE  LET r == lower_bound(s, first, last, ts)
           IN  /\ r \in first..last
               /\ r > first => s[r].recv_ts < ts
               /\ r < last => s[r + 1].recv_ts >= ts
<1>9. PICK f : Searches(f, s, first, last, ts)
  BY SearchRuns
<1>1. /\ \A lo \in Nat, count \in 0..Len(s) : f[<<lo, count>>] = Round(f, s, lo, count, ts)
      /\ lower_bound(s, first, last, ts) = f[<<first, last - first>>]
  BY <1>9 DEF Searches
<1> DEFINE Fine(count) == \A lo \in Nat : lo + count <= Len(s) => Found(s, lo, count, ts, f[<<lo, count>>])
           Bad == {k \in Nat : \E count \in 0..Len(s) : count <= k /\ ~Fine(count)}
<1>2. ASSUME NEW count \in 0..Len(s), \A k \in 0..Len(s) : k < count => Fine(k)
      PROVE  Fine(count)
  <2> SUFFICES ASSUME NEW lo \in Nat, lo + count <= Len(s)
               PROVE  Found(s, lo, count, ts, f[<<lo, count>>])
    OBVIOUS
  <2>1. \A m \in Nat, k \in 0..Len(s) :
            k < count /\ m + k <= Len(s) => Found(s, m, k, ts, f[<<m, k>>])
    BY <1>2
  <2>2. Found(s, lo, count, ts, Round(f, s, lo, count, ts))
    BY <2>1, RoundFinds
  <2> QED
    BY <1>1, <2>2
<1> HIDE DEF Fine
<1>3. 0 \notin Bad
  <2>1. \A count \in 0..Len(s) : count <= 0 => count = 0
    OBVIOUS
  <2>2. 0 \in 0..Len(s) /\ \A k \in 0..Len(s) : ~(k < 0)
    OBVIOUS
  <2>3. Fine(0)
    BY <1>2, <2>2
  <2> QED
    BY <2>1, <2>3
<1>4. ASSUME NEW k \in Nat, k \notin Bad PROVE k + 1 \notin Bad
  <2> SUFFICES ASSUME NEW count \in 0..Len(s), count <= k + 1 PROVE Fine(count)
    OBVIOUS
  <2>1. \A j \in 0..Len(s) : j <= k => Fine(j)
    BY <1>4
  <2>2. \A j \in 0..Len(s) : j < count => Fine(j)
    BY <2>1
  <2> QED
    BY <1>2, <2>2
<1>5. Bad = {}
  <2> HIDE DEF Bad
  <2>1. Bad \subseteq Nat
    BY DEF Bad
  <2> QED
    BY <1>3, <1>4, <2>1, NoLeastExample
<1>6. PICK count \in 0..Len(s) : count = last - first /\ first + count = last
  OBVIOUS
<1>7. Fine(count)
  BY <1>5
<1>8. Found(s, first, count, ts, f[<<first, count>>])
  BY <1>6, <1>7 DEF Fine
<1> QED
  BY <1>1, <1>6, <1>8 DEF Found

\* Over the whole of a sequence it is a place in it, or the one before.
LEMMA LowerBoundPlace ==
    ASSUME NEW s, Len(s) \in Nat, Timed(s), NEW ts \in Int
    PROVE  lower_bound(s, 0, Len(s), ts) \in 0..Len(s)
<1>1. 0 \in 0..Len(s) /\ Len(s) \in 0..Len(s)
  OBVIOUS
<1>2. LET r == lower_bound(s, 0, Len(s), ts)
      IN  /\ r \in 0..Len(s)
          /\ r > 0 => s[r].recv_ts < ts
          /\ r < Len(s) => s[r + 1].recv_ts >= ts
  BY <1>1, LowerBoundFinds
<1> QED
  BY <1>2, Zenon

\* In a file in order of time an earlier record is not later.
LEMMA SortedFar ==
    ASSUME NEW s, Len(s) \in Nat, Timed(s), Sorted(s), NEW i \in 1..Len(s), NEW j \in i..Len(s)
    PROVE  s[i].recv_ts <= s[j].recv_ts
<1> DEFINE Bad == {d \in Nat : i + d <= Len(s) /\ ~(s[i].recv_ts <= s[i + d].recv_ts)}
<1>1. 0 \notin Bad
  <2>1. s[i].recv_ts \in Nat /\ i + 0 = i
    BY DEF Timed
  <2> QED
    BY <2>1
<1>2. ASSUME NEW d \in Nat, d \notin Bad PROVE d + 1 \notin Bad
  <2> SUFFICES ASSUME i + d + 1 <= Len(s) PROVE s[i].recv_ts <= s[i + d + 1].recv_ts
    OBVIOUS
  <2>1. s[i].recv_ts <= s[i + d].recv_ts
    BY <1>2
  <2>2. i + d \in 1..(Len(s) - 1) /\ i + d \in 1..Len(s) /\ i + d + 1 \in 1..Len(s)
    OBVIOUS
  <2>3. s[i + d].recv_ts <= s[i + d + 1].recv_ts
    BY <2>2 DEF Sorted
  <2>4. {s[i].recv_ts, s[i + d].recv_ts, s[i + d + 1].recv_ts} \subseteq Nat
    BY <2>2 DEF Timed
  <2> QED
    BY <2>1, <2>3, <2>4
<1>3. Bad = {}
  <2> HIDE DEF Bad
  <2>1. Bad \subseteq Nat
    BY DEF Bad
  <2> QED
    BY <1>1, <1>2, <2>1, NoLeastExample
<1>4. PICK d \in Nat : d = j - i /\ i + d = j
  OBVIOUS
<1> QED
  BY <1>3, <1>4

\* There the binary search splits its range.
LEMMA LowerBoundSplits ==
    ASSUME NEW s, Len(s) \in Nat, Timed(s), Sorted(s), NEW ts \in Int,
           NEW first \in 0..Len(s), NEW last \in first..Len(s),
           NEW i \in (first + 1)..last
    PROVE  i <= lower_bound(s, first, last, ts) <=> s[i].recv_ts < ts
<1>1. PICK r \in first..last :
          /\ r = lower_bound(s, first, last, ts)
          /\ r > first => s[r].recv_ts < ts
          /\ r < last => s[r + 1].recv_ts >= ts
  BY LowerBoundFinds
<1>2. i \in 1..Len(s) /\ s[i].recv_ts \in Nat
  BY DEF Timed
<1>3. CASE i <= r
  <2>1. r \in 1..Len(s) /\ r \in i..Len(s) /\ r > first
    BY <1>1, <1>2, <1>3
  <2>2. s[r].recv_ts \in Nat /\ s[i].recv_ts <= s[r].recv_ts
    <3>1. s[i].recv_ts <= s[r].recv_ts
      BY <1>2, <2>1, SortedFar
    <3> QED
      BY <2>1, <3>1 DEF Timed
  <2> QED
    BY <1>1, <1>2, <1>3, <2>1, <2>2
<1>4. CASE ~(i <= r)
  <2>1. r + 1 \in 1..Len(s) /\ i \in (r + 1)..Len(s) /\ r < last
    BY <1>1, <1>2, <1>4
  <2>2. s[r + 1].recv_ts \in Nat /\ s[r + 1].recv_ts <= s[i].recv_ts
    <3>1. s[r + 1].recv_ts <= s[i].recv_ts
      BY <1>2, <2>1, SortedFar
    <3> QED
      BY <2>1, <3>1 DEF Timed
  <2> QED
    BY <1>1, <1>2, <1>4, <2>1, <2>2
<1> QED
  BY <1>1, <1>3, <1>4

\* Searches for two times take the same way until the later one goes on to the right.
LEMMA LowerBoundMonotone ==
    ASSUME NEW s, Len(s) \in Nat, Timed(s), NEW ts1 \in Int, NEW ts2 \in Int, ts1 <= ts2,
           NEW first \in 0..Len(s), NEW last \in first..Len(s)
    PROVE  lower_bound(s, first, last, ts1) <= lower_bound(s, first, last, ts2)
<1>1. PICK f : Searches(f, s, first, last, ts1)
  BY SearchRuns
<1>2. PICK g : Searches(g, s, first, last, ts2)
  BY SearchRuns
<1> DEFINE Within(count) ==
             \A lo \in Nat : lo + count <= Len(s) =>
                 /\ f[<<lo, count>>] \in lo..(lo + count)
                 /\ g[<<lo, count>>] \in lo..(lo + count)
                 /\ f[<<lo, count>>] <= g[<<lo, count>>]
           Bad == {k \in Nat : \E count \in 0..Len(s) : count <= k /\ ~Within(count)}
<1>3. ASSUME NEW count \in 0..Len(s), \A k \in 0..Len(s) : k < count => Within(k)
      PROVE  Within(count)
  <2> SUFFICES ASSUME NEW lo \in Nat, lo + count <= Len(s)
               PROVE  /\ f[<<lo, count>>] \in lo..(lo + count)
                      /\ g[<<lo, count>>] \in lo..(lo + count)
                      /\ f[<<lo, count>>] <= g[<<lo, count>>]
    OBVIOUS
  <2>1. /\ f[<<lo, count>>] = Round(f, s, lo, count, ts1)
        /\ g[<<lo, count>>] = Round(g, s, lo, count, ts2)
    BY <1>1, <1>2 DEF Searches
  <2>2. CASE count = 0
    BY <2>1, <2>2 DEF Round
  <2>3. CASE count # 0
    <3>1. count \in 1..Len(s)
      BY <2>3
    <3>2. PICK half \in 0..Len(s), mid \in Nat, k \in 0..Len(s) :
              /\ half = count \div 2 /\ mid = lo + half /\ k = count - (half + 1)
              /\ half < count /\ k < count
      <4>1. /\ count \div 2 \in 0..Len(s) /\ count - (count \div 2 + 1) \in 0..Len(s)
            /\ count \div 2 < count /\ count - (count \div 2 + 1) < count
        BY <3>1, Halves
      <4> QED
        BY <4>1
    <3>3. /\ mid + 1 \in Nat /\ mid + 1 \in 1..Len(s) /\ mid + 1 + k = lo + count
          /\ mid + 1 + k <= Len(s) /\ lo + half <= Len(s) /\ lo <= mid /\ mid < lo + count
      BY <3>1, <3>2
    <3>4. PICK a, b, c, e : /\ a = f[<<mid + 1, k>>] /\ b = g[<<mid + 1, k>>]
                            /\ c = f[<<lo, half>>] /\ e = g[<<lo, half>>]
      OBVIOUS
    <3>5. /\ f[<<lo, count>>] = IF s[mid + 1].recv_ts < ts1 THEN a ELSE c
          /\ g[<<lo, count>>] = IF s[mid + 1].recv_ts < ts2 THEN b ELSE e
      BY <2>1, <2>3, <3>2, <3>4 DEF Round
    <3>6. /\ a \in (mid + 1)..(mid + 1 + k) /\ b \in (mid + 1)..(mid + 1 + k) /\ a <= b
          /\ c \in lo..mid /\ e \in lo..mid /\ c <= e
      <4>1. Within(k) /\ Within(half)
        BY <1>3, <3>2
      <4> QED
        BY <3>2, <3>3, <3>4, <4>1
    <3>7. s[mid + 1].recv_ts \in Nat
      BY <3>3 DEF Timed
    <3>8. /\ {a, b, c, e} \subseteq lo..(lo + count)
          /\ a <= b /\ c <= e /\ c <= b
      BY <3>3, <3>6
    <3>9. s[mid + 1].recv_ts < ts1 => s[mid + 1].recv_ts < ts2
      BY <3>7
    <3>10. CASE s[mid + 1].recv_ts < ts1
      BY <3>5, <3>8, <3>9, <3>10
    <3>11. CASE ~(s[mid + 1].recv_ts < ts1) /\ s[mid + 1].recv_ts < ts2
      BY <3>5, <3>8, <3>11
    <3>12. CASE ~(s[mid + 1].recv_ts < ts1) /\ ~(s[mid + 1].recv_ts < ts2)
      BY <3>5, <3>8, <3>12
    <3> QED
      BY <3>10, <3>11, <3>12
  <2> QED
    BY <2>2, <2>3
<1> HIDE DEF Within
<1>4. 0 \notin Bad
  <2>1. \A count \in 0..Len(s) : count <= 0 => count = 0
    OBVIOUS
  <2>2. 0 \in 0..Len(s) /\ \A k \in 0..Len(s) : ~(k < 0)
    OBVIOUS
  <2>3. Within(0)
    BY <1>3, <2>2
  <2> QED
    BY <2>1, <2>3
<1>5. ASSUME NEW k \in Nat, k \notin Bad PROVE k + 1 \notin Bad
  <2> SUFFICES ASSUME NEW count \in 0..Len(s), count <= k + 1 PROVE Within(count)
    OBVIOUS
  <2>1. \A j \in 0..Len(s) : j <= k => Within(j)
    BY <1>5
  <2>2. \A j \in 0..Len(s) : j < count => Within(j)
    BY <2>1
  <2> QED
    BY <1>3, <2>2
<1>6. Bad = {}
  <2> HIDE DEF Bad
  <2>1. Bad \subseteq Nat
    BY DEF Bad
  <2> QED
    BY <1>4, <1>5, <2>1, NoLeastExample
<1>7. PICK count \in 0..Len(s) : count = last - first /\ first + count <= Len(s)
  OBVIOUS
<1>8. Within(count)
  BY <1>6
<1>9. f[<<first, count>>] <= g[<<first, count>>]
  BY <1>7, <1>8 DEF Within
<1> QED
  BY <1>1, <1>2, <1>7, <1>9, Zenon DEF Searches

\* One more record is looked at.
Kept(acc, t, first_ts, last_ts) ==
    IF first_ts <= t.recv_ts /\ t.recv_ts <= last_ts THEN Append(acc, t) ELSE acc

\* The records among a time span, one after the other.
Selects(g, s, first_ts, last_ts) ==
    /\ g[0] = <<>>
    /\ \A n \in 1..Len(s) : g[n] = Kept(g[n - 1], s[n], first_ts, last_ts)
    /\ Among(s, first_ts, last_ts) = g[Len(s)]

\* Among is the last of the selections on the way.
LEMMA AmongSelects ==
    ASSUME NEW C, NEW cells \in Seq(C), NEW first_ts, NEW last_ts
    PROVE  \E g : Selects(g, cells, first_ts, last_ts)
<1> DEFINE S == DOMAIN cells
           B == Seq(C)
           Body(g) == [s \in SUBSET S |->
                         IF s = {} THEN <<>>
                         ELSE Kept(g[s \ {Max(s)}], cells[Max(s)], first_ts, last_ts)]
           pick == [s \in (SUBSET S) \ {{}} |-> Max(s)]
           look == [sb \in S \X B |-> Kept(sb[2], cells[sb[1]], first_ts, last_ts)]
<1>1. Among(cells, first_ts, last_ts) = (CHOOSE g : g = Body(g))[S]
  BY Zenon DEF Among, FoldLeft, MapThenFoldSet, Kept
<1>2. Len(cells) \in Nat /\ S = 1..Len(cells)
  BY LenProperties
<1>3. IsFiniteSet(S)
  BY <1>2, FS_Interval, 1 \in Int, Len(cells) \in Int
<1>4. Picks(pick, S)
  <2>1. \A s \in (SUBSET S) \ {{}} : Max(s) \in s
    BY <1>2, MaxOfFinite
  <2> QED
    BY <2>1 DEF Picks
<1>5. \A i \in S, q \in B : Kept(q, cells[i], first_ts, last_ts) \in B
  <2> TAKE i \in S, q \in B
  <2>1. cells[i] \in C
    BY <1>2, ElementOfSeq
  <2> QED
    BY <2>1, AppendProperties DEF Kept
<1>6. look \in [S \X B -> B]
  BY <1>5
<1>12. <<>> \in B
  BY EmptySeq
<1>7. PICK it : FoldsBy(it, S, B, <<>>, pick, look)
  <2> HIDE DEF S, B, pick, look
  <2> QED
    BY <1>3, <1>4, <1>6, <1>12, FoldExists
<1>8. it = Body(it)
  <2> HIDE DEF B, S
  <2>1. \A s \in (SUBSET S) \ {{}} : it[s] = Body(it)[s]
    <3> TAKE s \in (SUBSET S) \ {{}}
    <3>1. it[s] = look[<<pick[s], it[s \ {pick[s]}]>>]
      BY <1>7 DEF FoldsBy
    <3>2. pick[s] = Max(s) /\ Max(s) \in S /\ s \ {Max(s)} \in SUBSET S /\ s \in SUBSET S
      BY <1>4 DEF Picks
    <3>3. it[s \ {Max(s)}] \in B
      BY <1>7, <3>2 DEF FoldsBy
    <3> QED
      BY <3>1, <3>2, <3>3
  <2>2. it[{}] = Body(it)[{}]
    BY <1>7 DEF FoldsBy
  <2>3. it = [s \in SUBSET S |-> it[s]]
    BY <1>7 DEF FoldsBy
  <2> QED
    BY <2>1, <2>2, <2>3
<1> DEFINE f == CHOOSE g : g = Body(g)
<1>9. f = Body(f)
  <2> HIDE DEF Body
  <2> QED
    BY <1>8
<1>10. f[{}] = <<>>
  BY <1>9
<1>11. \A n \in 1..Len(cells) : f[1..n] = Kept(f[1..(n - 1)], cells[n], first_ts, last_ts)
  <2> TAKE n \in 1..Len(cells)
  <2>3. 1..n \in SUBSET S => f[1..n] = Body(f)[1..n]
    BY <1>9
  <2> HIDE DEF S, f
  <2>1. 1..n \in SUBSET S /\ 1..n # {} /\ n \in Nat \ {0}
    <3>1. n \in Nat \ {0} /\ n <= Len(cells)
      BY <1>2
    <3>2. 1..n \subseteq 1..Len(cells) /\ n \in 1..n
      BY <1>2, <3>1
    <3>3. 1..n \in SUBSET S
      BY <1>2, <3>2
    <3> QED
      BY <3>1, <3>2, <3>3
  <2>2. Max(1..n) = n /\ (1..n) \ {n} = 1..(n - 1)
    BY <2>1, MaxOfInterval
  <2> QED
    BY <2>1, <2>2, <2>3
<1> DEFINE g == [n \in 0..Len(cells) |-> f[1..n]]
<1>13. g[0] = <<>>
  <2>1. 1..0 = {} /\ 0 \in 0..Len(cells)
    BY <1>2
  <2> HIDE DEF f
  <2> QED
    BY <1>10, <2>1
<1>14. \A n \in 1..Len(cells) : g[n] = Kept(g[n - 1], cells[n], first_ts, last_ts)
  <2>1. \A n \in 1..Len(cells) : n \in 0..Len(cells) /\ n - 1 \in 0..Len(cells)
    BY <1>2
  <2> HIDE DEF f
  <2>2. \A n \in 1..Len(cells) : g[n] = f[1..n] /\ g[n - 1] = f[1..(n - 1)]
    BY <2>1
  <2> HIDE DEF g
  <2> QED
    BY <1>11, <2>2
<1>15. Among(cells, first_ts, last_ts) = g[Len(cells)]
  <2>1. Len(cells) \in 0..Len(cells)
    BY <1>2
  <2>2. Among(cells, first_ts, last_ts) = f[S]
    BY <1>1
  <2> HIDE DEF f
  <2> QED
    BY <1>2, <2>1, <2>2
<1> HIDE DEF g
<1> QED
  BY <1>13, <1>14, <1>15 DEF Selects

\* A part of a sequence goes on by one.
LEMMA SubSeqGrows ==
    ASSUME NEW C, NEW s \in Seq(C), NEW n \in 1..Len(s), NEW a \in 0..(n - 1)
    PROVE  SubSeq(s, a + 1, n) = Append(SubSeq(s, a + 1, n - 1), s[n])
<1>1. Len(s) \in Nat /\ n \in Nat /\ n <= Len(s)
  BY LenProperties
<1>2. PICK m \in 1..Len(s) : m = a + 1 /\ n \in m..Len(s)
  BY <1>1
<1>3. SubSeq(s, m, n) = SubSeq(s, m, n - 1) \o <<s[n]>>
  BY <1>2, SubSeqRecursiveSecond
<1>4. SubSeq(s, m, n - 1) \in Seq(C) /\ s[n] \in C
  <2>1. \A i \in m..(n - 1) : s[i] \in C
    BY <1>1, <1>2, ElementOfSeq
  <2> QED
    BY <1>1, <1>2, <2>1, SubSeqProperties, ElementOfSeq, m \in Int, n - 1 \in Int
<1>5. \A t \in Seq(C), x \in C : t \o <<x>> = Append(t, x)
  BY AppendIsConcat
<1> QED
  BY <1>2, <1>3, <1>4, <1>5

\* The records from a + 1 to b are those in a time span.
Spans(s, first_ts, last_ts, a, b) ==
    \A i \in 1..Len(s) :
        first_ts <= s[i].recv_ts /\ s[i].recv_ts <= last_ts <=> a < i /\ i <= b

\* Of a sequence whose records from a + 1 to b, and no others, are in a time span
\* it selects these.
LEMMA AmongBetween ==
    ASSUME NEW C, NEW s \in Seq(C), NEW first_ts, NEW last_ts,
           NEW b \in 0..Len(s), NEW a \in 0..b, Spans(s, first_ts, last_ts, a, b)
    PROVE  Among(s, first_ts, last_ts) = SubSeq(s, a + 1, b)
<1> USE DEF Spans
<1>1. PICK g : Selects(g, s, first_ts, last_ts)
  BY AmongSelects
<1>2. Len(s) \in Nat
  BY LenProperties
<1> DEFINE Upto(n) == IF n <= a THEN <<>> ELSE SubSeq(s, a + 1, IF n <= b THEN n ELSE b)
           Bad == {n \in Nat : n <= Len(s) /\ g[n] # Upto(n)}
<1>3. 0 \notin Bad
  BY <1>1, <1>2 DEF Selects
<1>4. ASSUME NEW m \in Nat, m \notin Bad PROVE m + 1 \notin Bad
  <2> SUFFICES ASSUME m + 1 <= Len(s) PROVE g[m + 1] = Upto(m + 1)
    OBVIOUS
  <2>1. g[m] = Upto(m)
    BY <1>2, <1>4
  <2>2. PICK n \in 1..Len(s) : n = m + 1 /\ n - 1 = m
    BY <1>2
  <2>3. g[n] = Kept(g[m], s[n], first_ts, last_ts)
    BY <1>1, <2>2 DEF Selects
  <2> HIDE DEF Bad, Upto
  <2>4. CASE a < n /\ n <= b
    <3>1. g[n] = Append(g[m], s[n])
      BY <2>3, <2>4 DEF Kept
    <3>2. SubSeq(s, a + 1, n) = Append(Upto(m), s[n])
      <4>1. a \in 0..(n - 1)
        BY <1>2, <2>4
      <4>2. SubSeq(s, a + 1, n) = Append(SubSeq(s, a + 1, n - 1), s[n])
        BY <4>1, SubSeqGrows
      <4>3. Upto(m) = SubSeq(s, a + 1, m)
        <5>1. m = a => SubSeq(s, a + 1, m) = <<>>
          BY <1>2, SubSeqEmpty, a + 1 \in Int
        <5> QED
          BY <1>2, <2>2, <2>4, <5>1 DEF Upto
      <4> QED
        BY <2>2, <4>2, <4>3
    <3>3. Upto(n) = SubSeq(s, a + 1, n)
      BY <1>2, <2>4 DEF Upto
    <3> QED
      BY <2>1, <2>2, <3>1, <3>2, <3>3
  <2>5. CASE ~(a < n /\ n <= b)
    <3>1. g[n] = g[m]
      BY <2>3, <2>5 DEF Kept
    <3>2. Upto(n) = Upto(m)
      <4>1. CASE n <= a
        BY <2>2, <4>1 DEF Upto
      <4>2. CASE ~(n <= a) /\ m = a
        <5>1. b = a /\ SubSeq(s, a + 1, b) = <<>>
          BY <1>2, <2>2, <2>5, <4>2, SubSeqEmpty, a + 1 \in Int, b \in Int
        <5> QED
          BY <2>2, <4>2, <5>1 DEF Upto
      <4>3. CASE ~(n <= a) /\ m # a
        <5>1. m > a /\ m >= b /\ n > b
          BY <1>2, <2>2, <2>5, <4>3
        <5> QED
          BY <1>2, <2>2, <4>3, <5>1 DEF Upto
      <4> QED
        BY <4>1, <4>2, <4>3
    <3> QED
      BY <2>1, <2>2, <3>1, <3>2
  <2> QED
    BY <2>4, <2>5
<1>5. Bad = {}
  <2> HIDE DEF Bad
  <2>1. Bad \subseteq Nat
    BY DEF Bad
  <2> QED
    BY <1>3, <1>4, <2>1, NoLeastExample
<1>6. g[Len(s)] = Upto(Len(s))
  BY <1>2, <1>5
<1>7. Upto(Len(s)) = SubSeq(s, a + 1, b)
  <2>1. CASE Len(s) <= a
    <3>1. a = b /\ a = Len(s)
      BY <1>2, <2>1
    <3>2. SubSeq(s, a + 1, b) = <<>>
      BY <1>2, <3>1, SubSeqEmpty
    <3> QED
      BY <2>1, <3>2
  <2>2. CASE ~(Len(s) <= a)
    <3>1. b = IF Len(s) <= b THEN Len(s) ELSE b
      BY <1>2
    <3> QED
      BY <2>2, <3>1
  <2> QED
    BY <2>1, <2>2
<1> QED
  BY <1>1, <1>6, <1>7 DEF Selects

\* In a file in order of time two searches find where a time span is.
LEMMA SpanFound ==
    ASSUME NEW C, NEW s \in Seq(C), Timed(s), Sorted(s),
           NEW first_ts \in Int, NEW last_ts \in Int, first_ts <= last_ts + 1
    PROVE  \E b \in 0..Len(s) : \E a \in 0..b :
               /\ a = lower_bound(s, 0, Len(s), first_ts)
               /\ b = lower_bound(s, 0, Len(s), last_ts + 1)
               /\ Spans(s, first_ts, last_ts, a, b)
<1>1. Len(s) \in Nat /\ 0 \in 0..Len(s) /\ Len(s) \in 0..Len(s) /\ last_ts + 1 \in Int
  BY LenProperties
<1>2. PICK a \in 0..Len(s) : a = lower_bound(s, 0, Len(s), first_ts)
  BY <1>1, LowerBoundFinds
<1>3. PICK b \in 0..Len(s) : b = lower_bound(s, 0, Len(s), last_ts + 1)
  BY <1>1, LowerBoundFinds
<1>4. a <= b
  <2>1. lower_bound(s, 0, Len(s), first_ts) <= lower_bound(s, 0, Len(s), last_ts + 1)
    BY <1>1, LowerBoundMonotone
  <2> QED
    BY <1>2, <1>3, <2>1, Zenon
<1>5. \A i \in 1..Len(s) : (i <= a <=> s[i].recv_ts < first_ts)
                        /\ (i <= b <=> s[i].recv_ts < last_ts + 1)
  <2> TAKE i \in 1..Len(s)
  <2>1. i \in (0 + 1)..Len(s)
    OBVIOUS
  <2>2. i <= lower_bound(s, 0, Len(s), first_ts) <=> s[i].recv_ts < first_ts
    BY <1>1, <2>1, LowerBoundSplits
  <2>3. i <= lower_bound(s, 0, Len(s), last_ts + 1) <=> s[i].recv_ts < last_ts + 1
    BY <1>1, <2>1, LowerBoundSplits
  <2> QED
    BY <1>2, <1>3, <2>2, <2>3, Zenon
<1>6. Spans(s, first_ts, last_ts, a, b)
  <2> SUFFICES ASSUME NEW i \in 1..Len(s)
               PROVE  first_ts <= s[i].recv_ts /\ s[i].recv_ts <= last_ts <=> a < i /\ i <= b
    BY DEF Spans
  <2>1. PICK t \in Nat : t = s[i].recv_ts
    BY DEF Timed
  <2>2. (i <= a <=> t < first_ts) /\ (i <= b <=> t < last_ts + 1)
    BY <1>5, <2>1, Zenon
  <2>3. (t >= first_ts <=> ~(t < first_ts)) /\ (t <= last_ts <=> t < last_ts + 1)
    OBVIOUS
  <2>4. first_ts <= t /\ t <= last_ts <=> a < i /\ i <= b
    BY <2>2, <2>3, <1>1
  <2> QED
    BY <2>1, <2>4, Zenon
<1>7. a \in 0..b
  BY <1>4
<1> QED
  BY <1>2, <1>3, <1>6, <1>7, Zenon

\* What lies there is what Among selects.
LEMMA AmongSorted ==
    ASSUME NEW C, NEW s \in Seq(C), Timed(s), Sorted(s),
           NEW first_ts \in Int, NEW last_ts \in Int, first_ts <= last_ts + 1
    PROVE  Among(s, first_ts, last_ts)
             = SubSeq(s, lower_bound(s, 0, Len(s), first_ts) + 1,
                         lower_bound(s, 0, Len(s), last_ts + 1))
<1>1. \E b \in 0..Len(s) : \E a \in 0..b :
          /\ a = lower_bound(s, 0, Len(s), first_ts)
          /\ b = lower_bound(s, 0, Len(s), last_ts + 1)
          /\ Spans(s, first_ts, last_ts, a, b)
  BY SpanFound
<1>2. PICK b \in 0..Len(s), a \in Nat :
          /\ a \in 0..b
          /\ a = lower_bound(s, 0, Len(s), first_ts)
          /\ b = lower_bound(s, 0, Len(s), last_ts + 1)
          /\ Spans(s, first_ts, last_ts, a, b)
  <2>1. \A b \in 0..Len(s) : \A a \in 0..b : a \in Nat
    OBVIOUS
  <2> QED
    BY <1>1, <2>1, Zenon
<1>3. Among(s, first_ts, last_ts) = SubSeq(s, a + 1, b)
  BY <1>2, AmongBetween
<1> QED
  BY <1>2, <1>3, Zenon

-----------------------------------------------------------------------------
(* Queries *)

\* Whatever the file holds, the last known tick is not later than the clock.
LEMMA QueriesNeverAhead ==
    ASSUME NEW now \in Nat, Len(view) \in Nat, Timed(view)
    PROVE  NeverAhead(now)
<1>1. 0 \in 0..Len(view) /\ Len(view) \in 0..Len(view) /\ now + 1 \in Int
  OBVIOUS
<1>2. PICK n \in 0..Len(view) : n = lower_bound(view, 0, Len(view), now + 1)
                              /\ (n > 0 => view[n].recv_ts < now + 1)
  <2> DEFINE r == lower_bound(view, 0, Len(view), now + 1)
  <2>1. r \in 0..Len(view) /\ (r > 0 => view[r].recv_ts < now + 1)
    BY <1>1, LowerBoundFinds
  <2> QED
    BY <2>1, Zenon
<1>3. current_tick(now) = IF n = 0 THEN <<>> ELSE <<view[n]>>
  BY <1>2, Zenon DEF current_tick, last_at_or_before
<1>4. CASE n = 0
  BY <1>3, <1>4 DEF NeverAhead
<1>5. CASE n # 0
  <2>1. view[n].recv_ts <= now
    <3>1. n > 0 /\ n \in 1..Len(view)
      BY <1>5
    <3> QED
      BY <1>2, <3>1 DEF Timed
  <2>2. current_tick(now) = <<view[n]>>
    BY <1>3, <1>5
  <2>3. \A i \in DOMAIN <<view[n]>> : <<view[n]>>[i] = view[n]
    OBVIOUS
  <2> QED
    BY <2>1, <2>2, <2>3 DEF NeverAhead
<1> QED
  BY <1>4, <1>5

\* In a file in order it is the last one that is not.
LEMMA QueriesLastKnown ==
    ASSUME NEW now \in Nat, NEW C, view \in Seq(C), Timed(view), Sorted(view)
    PROVE  LastKnown(now)
<1>1. /\ Len(view) \in Nat /\ 0 \in 0..Len(view) /\ Len(view) \in 0..Len(view)
      /\ now + 1 \in Int /\ 0 \in Int /\ now \in Int /\ 0 <= now + 1
  BY LenProperties
<1>2. PICK n \in 0..Len(view) : n = lower_bound(view, 0, Len(view), now + 1)
  BY <1>1, LowerBoundFinds
<1>3. current_tick(now) = IF n = 0 THEN <<>> ELSE <<view[n]>>
  BY <1>2, Zenon DEF current_tick, last_at_or_before
<1>4. PICK a \in 0..Len(view) : /\ a = lower_bound(view, 0, Len(view), 0)
                                /\ a > 0 => view[a].recv_ts < 0
  BY <1>1, LowerBoundFinds
<1>5. a = 0
  <2>1. a > 0 => a \in 1..Len(view)
    BY <1>1
  <2> QED
    BY <1>4, <2>1 DEF Timed
<1>6. Among(view, 0, now) = SubSeq(view, 1, n)
  <2>1. Among(view, 0, now) = SubSeq(view, lower_bound(view, 0, Len(view), 0) + 1,
                                           lower_bound(view, 0, Len(view), now + 1))
    BY <1>1, AmongSorted
  <2>2. Among(view, 0, now) = SubSeq(view, a + 1, n)
    BY <1>2, <1>4, <2>1, Zenon
  <2> QED
    BY <1>5, <2>2
<1>7. CASE n = 0
  <2>1. SubSeq(view, 1, n) = <<>>
    BY <1>7, SubSeqEmpty, 1 \in Int, n \in Int
  <2> QED
    BY <1>3, <1>6, <1>7, <2>1 DEF LastKnown
<1>8. CASE n # 0
  <2>1. \A i \in 1..n : view[i] \in C
    BY <1>1, ElementOfSeq
  <2>4. PICK t \in Seq(C) : t = SubSeq(view, 1, n)
    BY <1>8, <2>1, SubSeqProperties, 1 \in Int, n \in Int
  <2>2. t = SubSeq(view, 1, n) /\ Len(t) = n /\ t[n] = view[n]
    BY <1>8, <2>4, FirstSlots, n \in 1..n
  <2>3. t # <<>> /\ Last(t) = view[n]
    BY <1>8, <2>2 DEF Last
  <2> QED
    BY <1>3, <1>6, <1>8, <2>2, <2>3 DEF LastKnown
<1> QED
  BY <1>7, <1>8

\* There the ticks of the lookback are all it finds.
LEMMA QueriesHistory ==
    ASSUME NEW now \in Nat, NEW dur \in Nat, NEW n \in Nat,
           NEW C, view \in Seq(C), Timed(view), Sorted(view)
    PROVE  HistoryExact(now, dur, n)
<1>1. (n + 1) * dur \in Nat
  OBVIOUS
<1>2. PICK lookback \in Nat : lookback = (n + 1) * dur
  BY <1>1
<1>3. now - lookback \in Int /\ now \in Int /\ now - lookback <= now + 1
  OBVIOUS
<1>4. Among(view, now - lookback, now)
        = SubSeq(view, lower_bound(view, 0, Len(view), now - lookback) + 1,
                       lower_bound(view, 0, Len(view), now + 1))
  BY <1>3, AmongSorted
<1> QED
  BY <1>2, <1>4, Zenon DEF HistoryExact, history

-----------------------------------------------------------------------------
(* The replay *)

\* What was fired since the time was last set is what lies between there and the
\* cursor, if the file is in order and the window is not empty.
FiredSoFar ==
    LET a == lower_bound(view, 0, Len(view), from)
    IN  /\ a <= cursor /\ cursor <= end_idx
        /\ from <= cfg.end_ts
        /\ fired = SubSeq(view, a + 1, cursor)

\* A thread that paces has a tick to fire.
ReplayInv ==
    /\ ReplayTypeOK
    /\ ~opened => thread = "none" /\ fired = <<>>
    /\ thread = "pace" => cursor < end_idx
    /\ Sorted(view) /\ begin_idx < end_idx => FiredSoFar

\* Records of a file have times, those that a power failure took as well.
LEMMA SlotsTimed == ASSUME NEW s \in Seq(Slot) PROVE Len(s) \in Nat /\ Timed(s)
<1>1. \A r \in Slot : r.recv_ts \in Nat
  <2>1. \A r \in Record : r.recv_ts \in TickTimes
    BY DEF Record
  <2>2. Zeroes.recv_ts = 0
    BY DEF Zeroes
  <2>3. \A t \in TickTimes : t \in Nat
    BY StoreAssumption
  <2>4. \A r \in Slot : r \in Record \/ r = Zeroes
    BY Zenon DEF Slot
  <2> HIDE DEF Slot
  <2> QED
    BY <2>1, <2>2, <2>3, <2>4
<1>2. \A i \in 1..Len(s) : s[i] \in Slot
  BY ElementOfSeq
<1> QED
  BY <1>1, <1>2, LenProperties DEF Timed

\* Where the window is, in files out of order too.
LEMMA WindowPlaces ==
    ASSUME ReplayTypeOK
    PROVE  /\ view \in Seq(Slot) /\ Len(view) \in Nat /\ Timed(view)
           /\ 0 \in 0..Len(view) /\ Len(view) \in 0..Len(view)
           /\ cfg.start_ts \in Nat /\ cfg.end_ts \in Nat
           /\ begin_idx \in 0..Len(view) /\ end_idx \in 0..Len(view)
<1>1. view \in Seq(Slot)
  BY DEF ReplayTypeOK, Slot
<1>2. Len(view) \in Nat /\ Timed(view) /\ 0 \in 0..Len(view) /\ Len(view) \in 0..Len(view)
  BY <1>1, SlotsTimed
<1>3. cfg.start_ts \in Nat /\ cfg.end_ts \in Nat
  <2>1. CASE cfg = NotOpen
    BY <2>1 DEF NotOpen
  <2>2. CASE cfg \in [start_ts : StartTimes, end_ts : EndTimes, loop : BOOLEAN]
    BY <2>2, ReplayAssumption
  <2> QED
    BY <2>1, <2>2 DEF ReplayTypeOK
<1>6. cfg.start_ts \in Int /\ cfg.end_ts \in Int
  BY <1>3
<1>4. begin_idx \in 0..Len(view)
  BY <1>2, <1>6, LowerBoundPlace DEF begin_idx
<1>5. end_idx \in 0..Len(view)
  BY <1>2, <1>6, LowerBoundPlace DEF end_idx
<1> QED
  BY <1>1, <1>2, <1>3, <1>4, <1>5

\* A window that holds a tick does not end before it starts.
LEMMA WindowOpens ==
    ASSUME ReplayTypeOK, begin_idx < end_idx
    PROVE  cfg.start_ts <= cfg.end_ts
<1> USE WindowPlaces
<1> SUFFICES ASSUME ~(cfg.start_ts <= cfg.end_ts) PROVE FALSE
  OBVIOUS
<1>1. cfg.end_ts <= cfg.start_ts
  OBVIOUS
<1>2. end_idx <= begin_idx
  BY <1>1, LowerBoundMonotone DEF begin_idx, end_idx
<1> QED
  BY <1>2

\* pause, resume, start, stop and the rounds of the loop that fire nothing.
LEMMA FlagsReplayInv ==
    ASSUME ReplayInv, UNCHANGED <<view, cfg, cursor, current_ts, from, fired>>,
           paused' \in BOOLEAN, stopping' \in BOOLEAN,
           thread' \in {"none", "check", "pace", "ended", "crashed"}, depth' \in 0..StackDepth,
           thread' = "pace" => cursor < end_idx, ~opened => thread' = "none"
    PROVE  ReplayInv'
<1>1. begin_idx' = begin_idx /\ end_idx' = end_idx /\ opened' = opened
  BY DEF begin_idx, end_idx, opened
<1>2. FiredSoFar => FiredSoFar'
  BY <1>1 DEF FiredSoFar
<1>3. ReplayTypeOK'
  BY DEF ReplayInv, ReplayTypeOK
<1>4. Sorted(view)' = Sorted(view)
  BY DEF Sorted
<1> QED
  BY <1>1, <1>2, <1>3, <1>4 DEF ReplayInv

\* Ticks that are fired go on where the others ended.
LEMMA FiresReplayInv ==
    ASSUME ReplayInv, opened, NEW n \in Nat, cursor <= n, n <= end_idx, FireUpTo(n),
           UNCHANGED <<view, cfg>>, paused' \in BOOLEAN, stopping' \in BOOLEAN,
           thread' \in {"none", "check", "ended"}, depth' \in 0..StackDepth
    PROVE  ReplayInv'
<1>1. /\ begin_idx' = begin_idx /\ end_idx' = end_idx /\ opened' = opened
      /\ Sorted(view)' = Sorted(view) /\ view' = view /\ cfg' = cfg
      /\ cursor' = n /\ from' = from
      /\ current_ts' = IF n > cursor THEN view[n].recv_ts ELSE current_ts
      /\ fired' = fired \o SubSeq(view, cursor + 1, n)
  BY DEF begin_idx, end_idx, opened, FireUpTo, Sorted
<1>2. /\ view \in Seq(Slot) /\ Len(view) \in Nat /\ Timed(view)
      /\ 0 \in 0..Len(view) /\ Len(view) \in 0..Len(view) /\ end_idx \in 0..Len(view)
      /\ ReplayTypeOK
  BY WindowPlaces DEF ReplayInv
<1>3. cursor \in 0..Len(view) /\ n \in 0..Len(view) /\ current_ts \in Nat /\ from \in Nat
  BY <1>2 DEF ReplayTypeOK
<1>4. SubSeq(view, cursor + 1, n) \in Seq(Slot)
  <2>1. \A i \in (cursor + 1)..n : view[i] \in Slot
    BY <1>2, <1>3, ElementOfSeq
  <2> QED
    BY <1>3, <2>1, SubSeqProperties, cursor + 1 \in Int, n \in Int
<1>5. fired' \in Seq(Slot)
  BY <1>1, <1>2, <1>4, ConcatProperties DEF ReplayTypeOK, Slot
<1>6. current_ts' \in Nat
  <2>1. n > cursor => n \in 1..Len(view)
    BY <1>3
  <2> QED
    BY <1>1, <1>2, <1>3, <2>1 DEF Timed
<1>7. ReplayTypeOK'
  BY <1>1, <1>2, <1>3, <1>5, <1>6 DEF ReplayTypeOK, Slot
<1>8. ASSUME Sorted(view), begin_idx < end_idx PROVE FiredSoFar'
  <2>1. PICK a \in 0..Len(view) : a = lower_bound(view, 0, Len(view), from)
    <3>1. from \in Int
      BY <1>3
    <3>2. lower_bound(view, 0, Len(view), from) \in 0..Len(view)
      BY <1>2, <3>1, LowerBoundPlace
    <3> QED
      BY <3>2, Zenon
  <2>2. a <= cursor /\ from <= cfg.end_ts /\ fired = SubSeq(view, a + 1, cursor)
    BY <1>8, <2>1 DEF ReplayInv, FiredSoFar
  <2>3. SubSeq(view, a + 1, cursor) \o SubSeq(view, cursor + 1, n) = SubSeq(view, a + 1, n)
    <3>1. a + 1 \in 1..(Len(view) + 1) /\ cursor \in ((a + 1) - 1)..Len(view) /\ n \in cursor..Len(view)
      BY <1>2, <1>3, <2>1, <2>2
    <3> QED
      BY <1>2, <3>1, ConcatAdjacentSubSeq
  <2>4. fired' = SubSeq(view, a + 1, n)
    BY <1>1, <2>2, <2>3
  <2>5. a <= n
    BY <1>3, <2>2
  <2>6. a = lower_bound(view', 0, Len(view'), from')
    BY <1>1, <2>1, Zenon
  <2> QED
    BY <1>1, <2>2, <2>4, <2>5, <2>6 DEF FiredSoFar
<1> QED
  BY <1>1, <1>7, <1>8 DEF ReplayInv

\* What was fired is forgotten where the time is set.
LEMMA SetsReplayInv ==
    ASSUME ReplayInv, opened, NEW idx \in 0..Len(view), NEW ts \in Nat, SetTo(idx, ts),
           Sorted(view) /\ begin_idx < end_idx =>
              idx = lower_bound(view, 0, Len(view), ts) /\ idx <= end_idx /\ ts <= cfg.end_ts,
           UNCHANGED <<view, cfg, paused, thread, stopping>>, thread # "pace",
           depth' \in 0..StackDepth
    PROVE  ReplayInv'
<1>1. /\ begin_idx' = begin_idx /\ end_idx' = end_idx /\ opened' = opened
      /\ Sorted(view)' = Sorted(view) /\ view' = view /\ cfg' = cfg
      /\ cursor' = idx /\ from' = ts /\ current_ts' = ts /\ fired' = <<>>
  BY DEF begin_idx, end_idx, opened, SetTo, Sorted
<1>2. ReplayTypeOK'
  BY <1>1, EmptySeq DEF ReplayInv, ReplayTypeOK
<1>3. ASSUME Sorted(view), begin_idx < end_idx PROVE FiredSoFar'
  <2>1. idx = lower_bound(view', 0, Len(view'), from') /\ idx <= end_idx /\ ts <= cfg.end_ts
    BY <1>1, <1>3, Zenon
  <2>2. SubSeq(view, idx + 1, idx) = <<>>
    BY SubSeqEmpty, idx + 1 \in Int, idx \in Int
  <2>3. idx <= idx
    OBVIOUS
  <2> QED
    BY <1>1, <2>1, <2>2, <2>3 DEF FiredSoFar
<1> QED
  BY <1>1, <1>2, <1>3 DEF ReplayInv

\* Nothing is open at first.
LEMMA InitReplayInv == Init => ReplayInv
<1> SUFFICES ASSUME Init PROVE ReplayInv
  OBVIOUS
<1>1. /\ view = <<>> /\ cfg = NotOpen /\ cursor = 0 /\ current_ts = 0 /\ paused = FALSE
      /\ thread = "none" /\ depth = 0 /\ stopping = FALSE /\ from = 0 /\ fired = <<>>
  BY DEF Init, MarketInit, ReplayInit
<1>2. view \in Seq(Record \cup {Zeroes}) /\ fired \in Seq(Record \cup {Zeroes}) /\ Len(view) = 0
  BY <1>1, EmptySeq
<1>3. ReplayTypeOK
  <2>1. cursor \in 0..Len(view) /\ current_ts \in Nat /\ from \in Nat
    BY <1>1, <1>2
  <2>2. cfg \in [start_ts : StartTimes, end_ts : EndTimes, loop : BOOLEAN] \cup {NotOpen}
    BY <1>1, Zenon
  <2>3. depth \in 0..StackDepth
    BY <1>1, ReplayAssumption
  <2> QED
    BY <1>1, <1>2, <2>1, <2>2, <2>3, Zenon DEF ReplayTypeOK
<1>4. ~(begin_idx < end_idx)
  <2>1. begin_idx \in 0..0 /\ end_idx \in 0..0
    BY <1>2, <1>3, WindowPlaces
  <2> QED
    BY <2>1
<1> QED
  BY <1>1, <1>3, <1>4 DEF ReplayInv

\* A replay starts at the start of its window.
LEMMA OpenReplayInv == StoreInv /\ ReplayInv /\ OpenForReplay => ReplayInv'
<1> SUFFICES ASSUME StoreInv, ReplayInv, OpenForReplay PROVE ReplayInv'
  OBVIOUS
<1>9. PICK v : v = Records
  OBVIOUS
<1>1. PICK start_ts \in StartTimes, end_ts \in EndTimes, loop \in BOOLEAN :
          Open(v, start_ts, end_ts, loop)
  BY <1>9, Zenon DEF OpenForReplay
<1>2. v \in Seq(Slot)
  <2>1. file.slots \in Seq(Slot) /\ file.record_count \in 0..Len(file.slots)
    BY LenProperties DEF StoreInv, StoreTypeOK, map_len, Slot
  <2> QED
    BY <1>9, <2>1, FirstSlots DEF Records
<1>3. /\ Len(v) \in Nat /\ Timed(v) /\ start_ts \in Nat /\ end_ts \in Nat
      /\ start_ts \in Int /\ end_ts \in Int
  BY <1>2, SlotsTimed, ReplayAssumption
<1>4. /\ ~opened /\ view' = v /\ cfg' = [start_ts |-> start_ts, end_ts |-> end_ts, loop |-> loop]
      /\ cursor' = lower_bound(v, 0, Len(v), start_ts) /\ current_ts' = start_ts /\ from' = start_ts
      /\ UNCHANGED <<paused, thread, depth, stopping, fired>> /\ thread = "none" /\ fired = <<>>
  BY <1>1 DEF Open, ReplayInv
<1>5. lower_bound(v, 0, Len(v), start_ts) \in 0..Len(v)
  BY <1>3, LowerBoundPlace
<1>6. /\ view' = v /\ cursor' \in 0..Len(v) /\ current_ts' \in Nat /\ from' \in Nat
      /\ cfg' \in [start_ts : StartTimes, end_ts : EndTimes, loop : BOOLEAN]
      /\ paused' \in BOOLEAN /\ stopping' \in BOOLEAN /\ thread' = "none" /\ fired' = <<>>
      /\ depth' \in 0..StackDepth
  BY <1>3, <1>4, <1>5 DEF ReplayInv, ReplayTypeOK
<1>7. ReplayTypeOK'
  BY <1>2, <1>6, EmptySeq DEF ReplayTypeOK, Slot
<1>8. ASSUME begin_idx' < end_idx' PROVE FiredSoFar'
  <2>1. cfg'.start_ts = start_ts /\ cfg'.end_ts = end_ts
    BY <1>4
  <2>2. begin_idx' = cursor' /\ from' = start_ts
    BY <1>4, <2>1, Zenon DEF begin_idx
  <2>3. PICK a \in 0..Len(v), b \in 0..Len(v) : a = begin_idx' /\ b = end_idx'
    <3>1. begin_idx' \in 0..Len(v)
      BY <1>5, <1>4, <2>2, Zenon
    <3>2. end_idx' = lower_bound(v, 0, Len(v), end_ts)
      BY <1>4, <2>1, Zenon DEF end_idx
    <3>3. lower_bound(v, 0, Len(v), end_ts) \in 0..Len(v)
      BY <1>3, LowerBoundPlace
    <3> QED
      BY <3>1, <3>2, <3>3, Zenon
  <2>4. start_ts <= end_ts
    <3> SUFFICES ASSUME end_ts <= start_ts PROVE FALSE
      BY <1>3
    <3>1. 0 \in 0..Len(v) /\ Len(v) \in 0..Len(v)
      BY <1>3
    <3>2. lower_bound(v, 0, Len(v), end_ts) <= lower_bound(v, 0, Len(v), start_ts)
      BY <1>3, <3>1, LowerBoundMonotone
    <3>3. b <= a
      BY <1>4, <2>1, <2>3, <3>2, Zenon DEF begin_idx, end_idx
    <3> QED
      BY <1>8, <2>3, <3>3
  <2>5. SubSeq(v, a + 1, a) = <<>>
    BY SubSeqEmpty, a + 1 \in Int, a \in Int
  <2>6. a <= a /\ a <= b
    BY <1>8, <2>3
  <2>7. lower_bound(view, 0, Len(view), from)' = a
    BY <1>4, <2>2, <2>3, Zenon
  <2> QED
    BY <1>4, <1>6, <2>1, <2>2, <2>3, <2>4, <2>5, <2>6, <2>7 DEF FiredSoFar
<1> QED
  BY <1>6, <1>7, <1>8 DEF ReplayInv

\* A search between the ends of the window finds what one of the whole file finds,
\* for times of the window.
LEMMA SeekFinds ==
    ASSUME ReplayTypeOK, NEW ts \in Nat, cfg.start_ts <= ts, ts <= cfg.end_ts
    PROVE  /\ begin_idx <= end_idx
           /\ lower_bound(view, begin_idx, end_idx, ts) \in begin_idx..end_idx
           /\ Sorted(view) =>
                lower_bound(view, begin_idx, end_idx, ts) = lower_bound(view, 0, Len(view), ts)
<1> USE WindowPlaces
<1>1. ts \in Int /\ cfg.start_ts \in Int /\ cfg.end_ts \in Int /\ cfg.start_ts <= cfg.end_ts
  OBVIOUS
<1>2. begin_idx <= end_idx
  BY <1>1, LowerBoundMonotone DEF begin_idx, end_idx
<1>3. end_idx \in begin_idx..Len(view)
  BY <1>2
<1>4. LET r == lower_bound(view, begin_idx, end_idx, ts)
      IN  /\ r \in begin_idx..end_idx
          /\ r > begin_idx => view[r].recv_ts < ts
          /\ r < end_idx => view[r + 1].recv_ts >= ts
  BY <1>1, <1>3, LowerBoundFinds
<1>5. PICK r \in begin_idx..end_idx : r = lower_bound(view, begin_idx, end_idx, ts)
  BY <1>4, Zenon
<1>6. ASSUME Sorted(view) PROVE r = lower_bound(view, 0, Len(view), ts)
  <2>1. PICK a \in 0..Len(view) : a = lower_bound(view, 0, Len(view), ts)
    <3>1. lower_bound(view, 0, Len(view), ts) \in 0..Len(view)
      BY <1>1, LowerBoundPlace
    <3> QED
      BY <3>1, Zenon
  <2>2. begin_idx <= a /\ a <= end_idx
    <3>1. begin_idx <= lower_bound(view, 0, Len(view), ts)
      BY <1>1, LowerBoundMonotone DEF begin_idx
    <3>2. lower_bound(view, 0, Len(view), ts) <= end_idx
      BY <1>1, LowerBoundMonotone DEF end_idx
    <3> QED
      BY <2>1, <3>1, <3>2, Zenon
  <2>3. \A i \in (begin_idx + 1)..end_idx : i <= r <=> i <= a
    <3> TAKE i \in (begin_idx + 1)..end_idx
    <3>1. i \in (0 + 1)..Len(view)
      OBVIOUS
    <3>2. i <= lower_bound(view, begin_idx, end_idx, ts) <=> view[i].recv_ts < ts
      BY <1>1, <1>3, <1>6, LowerBoundSplits
    <3>3. i <= lower_bound(view, 0, Len(view), ts) <=> view[i].recv_ts < ts
      BY <1>1, <1>6, <3>1, LowerBoundSplits
    <3> QED
      BY <1>5, <2>1, <3>2, <3>3, Zenon
  <2>4. r = a
    <3>1. ~(r < a)
      <4> SUFFICES ASSUME r < a PROVE FALSE
        OBVIOUS
      <4>1. r + 1 \in (begin_idx + 1)..end_idx /\ r + 1 <= a /\ ~(r + 1 <= r)
        BY <2>2
      <4> QED
        BY <2>3, <4>1
    <3>2. ~(a < r)
      <4> SUFFICES ASSUME a < r PROVE FALSE
        OBVIOUS
      <4>1. a + 1 \in (begin_idx + 1)..end_idx /\ a + 1 <= r /\ ~(a + 1 <= a)
        BY <2>2
      <4> QED
        BY <2>3, <4>1
    <3> QED
      BY <3>1, <3>2
  <2> QED
    BY <2>1, <2>4
<1> QED
  BY <1>2, <1>5, <1>6, Zenon

\* step and the thread fire the next tick.
LEMMA StepReplayInv == ReplayInv /\ step => ReplayInv'
<1> SUFFICES ASSUME ReplayInv, step PROVE ReplayInv'
  OBVIOUS
<1>1. /\ opened /\ thread = "none" /\ ~(cursor >= end_idx) /\ FireUpTo(cursor + 1)
      /\ UNCHANGED <<view, cfg, paused, thread, depth, stopping>>
  BY DEF step, Sequential, at_end
<1>2. /\ cursor \in Nat /\ end_idx \in Nat /\ paused \in BOOLEAN /\ stopping \in BOOLEAN
      /\ depth \in 0..StackDepth
  BY WindowPlaces DEF ReplayInv, ReplayTypeOK
<1>3. cursor + 1 \in Nat /\ cursor <= cursor + 1 /\ cursor + 1 <= end_idx
  BY <1>1, <1>2
<1> QED
  BY <1>1, <1>2, <1>3, FiresReplayInv

\* Looping steps start again with the first tick of the window.
LEMMA StepAroundReplayInv == ReplayInv /\ stepAround => ReplayInv'
<1> SUFFICES ASSUME ReplayInv, stepAround PROVE ReplayInv'
  OBVIOUS
<1>1. /\ opened /\ thread = "none" /\ begin_idx < Len(view)
      /\ cursor' = begin_idx + 1 /\ current_ts' = view[begin_idx + 1].recv_ts
      /\ from' = cfg.start_ts /\ fired' = <<view[begin_idx + 1]>>
      /\ view' = view /\ cfg' = cfg /\ UNCHANGED <<paused, thread, depth, stopping>>
  BY DEF stepAround, Sequential
<1>2. /\ begin_idx' = begin_idx /\ end_idx' = end_idx /\ opened' = opened /\ Sorted(view)' = Sorted(view)
  BY <1>1 DEF begin_idx, end_idx, opened, Sorted
<1>3. /\ view \in Seq(Slot) /\ Len(view) \in Nat /\ Timed(view) /\ cfg.start_ts \in Nat
      /\ begin_idx \in 0..Len(view) /\ end_idx \in 0..Len(view) /\ ReplayTypeOK
  BY WindowPlaces DEF ReplayInv
<1>4. PICK n \in 1..Len(view) : n = begin_idx + 1 /\ n - 1 = begin_idx
  BY <1>1, <1>3
<1>5. view[n] \in Slot /\ view[n].recv_ts \in Nat
  BY <1>3, ElementOfSeq DEF Timed
<1>6. fired' \in Seq(Slot)
  BY <1>1, <1>4, <1>5
<1>7. ReplayTypeOK'
  <2>1. cursor' \in 0..Len(view) /\ current_ts' \in Nat /\ from' \in Nat
    BY <1>1, <1>3, <1>4, <1>5
  <2> QED
    BY <1>1, <1>3, <1>6, <2>1 DEF ReplayTypeOK, Slot
<1>8. ASSUME begin_idx < end_idx PROVE FiredSoFar'
  <2>1. begin_idx = lower_bound(view', 0, Len(view'), from')
    BY <1>1, Zenon DEF begin_idx
  <2>2. SubSeq(view, begin_idx + 1, begin_idx + 1) = <<view[begin_idx + 1]>>
    <3>1. SubSeq(view, n, n) = Append(SubSeq(view, n, n - 1), view[n])
      <4>1. n - 1 \in 0..(n - 1) /\ (n - 1) + 1 = n
        OBVIOUS
      <4>2. SubSeq(view, (n - 1) + 1, n) = Append(SubSeq(view, (n - 1) + 1, n - 1), view[n])
        BY <1>3, <4>1, SubSeqGrows
      <4> QED
        BY <4>1, <4>2
    <3>2. SubSeq(view, n, n - 1) = <<>>
      BY SubSeqEmpty, n \in Int, n - 1 \in Int, n - 1 < n
    <3>3. Append(<<>>, view[n]) = <<view[n]>>
      OBVIOUS
    <3> QED
      BY <1>4, <3>1, <3>2, <3>3
  <2>3. begin_idx <= begin_idx + 1 /\ begin_idx + 1 <= end_idx
    BY <1>3, <1>8
  <2>4. cfg.start_ts <= cfg.end_ts
    BY <1>3, <1>8, WindowOpens
  <2> QED
    BY <1>1, <1>2, <2>1, <2>2, <2>3, <2>4 DEF FiredSoFar
<1> QED
  BY <1>1, <1>2, <1>7, <1>8 DEF ReplayInv

\* The least of some numbers.
LEMMA MinOfNumbers ==
    ASSUME NEW s, s \subseteq Nat, s # {}
    PROVE  Min(s) \in s
<1>1. \E x \in s : \A y \in s : x <= y
  BY LeastNumber
<1> QED
  BY <1>1 DEF Min

\* step_to fires up to some place in the window.
LEMMA StepToReplayInv == ASSUME ReplayInv, NEW ts, step_to(ts) PROVE ReplayInv'
<1> DEFINE target == Min({ts, cfg.end_ts - 1})
           late   == {i \in cursor..(end_idx - 1) : view[i + 1].recv_ts > target}
           stops  == late \cup {end_idx}
<1>1. /\ opened /\ thread = "none" /\ ~(cursor >= end_idx) /\ FireUpTo(Min(stops))
      /\ UNCHANGED <<view, cfg, paused, thread, depth, stopping>>
  BY DEF step_to, Sequential, at_end
<1>2. /\ cursor \in Nat /\ end_idx \in Nat /\ paused \in BOOLEAN /\ stopping \in BOOLEAN
      /\ depth \in 0..StackDepth
  BY WindowPlaces DEF ReplayInv, ReplayTypeOK
<1>3. stops \subseteq cursor..end_idx /\ stops # {}
  <2> HIDE DEF target
  <2> QED
    BY <1>1, <1>2
<1> HIDE DEF stops
<1>4. Min(stops) \in cursor..end_idx
  <2>1. stops \subseteq Nat
    BY <1>2, <1>3
  <2>2. Min(stops) \in stops
    BY <1>3, <2>1, MinOfNumbers
  <2> QED
    BY <1>3, <2>2
<1>5. PICK n \in cursor..end_idx : n = Min(stops)
  BY <1>4
<1>6. n \in Nat /\ cursor <= n /\ n <= end_idx /\ FireUpTo(n)
  BY <1>1, <1>2, <1>5
<1> QED
  BY <1>1, <1>2, <1>6, FiresReplayInv

\* seek sets the cursor to the first tick that is not earlier.
LEMMA SeekReplayInv == ASSUME ReplayInv, NEW ts \in TickTimes, seek(ts) PROVE ReplayInv'
<1>1. /\ opened /\ thread = "none" /\ cfg.start_ts <= ts /\ ts < cfg.end_ts
      /\ SetTo(lower_bound(view, begin_idx, end_idx, ts), ts)
      /\ UNCHANGED <<view, cfg, paused, thread, depth, stopping>>
  BY DEF seek, Sequential
<1>2. /\ ts \in Nat /\ cfg.start_ts \in Nat /\ cfg.end_ts \in Nat /\ ReplayTypeOK
      /\ begin_idx \in 0..Len(view) /\ end_idx \in 0..Len(view) /\ Len(view) \in Nat
  <2>1. ts \in Nat
    BY StoreAssumption
  <2> QED
    BY <2>1, WindowPlaces DEF ReplayInv
<1>3. ts <= cfg.end_ts
  BY <1>1, <1>2
<1>4. /\ lower_bound(view, begin_idx, end_idx, ts) \in begin_idx..end_idx
      /\ Sorted(view) =>
           lower_bound(view, begin_idx, end_idx, ts) = lower_bound(view, 0, Len(view), ts)
  BY <1>1, <1>2, <1>3, SeekFinds
<1>5. PICK idx \in begin_idx..end_idx : idx = lower_bound(view, begin_idx, end_idx, ts)
  BY <1>4, Zenon
<1>6. /\ idx \in 0..Len(view) /\ idx <= end_idx /\ SetTo(idx, ts)
      /\ Sorted(view) => idx = lower_bound(view, 0, Len(view), ts)
  <2>1. idx \in 0..Len(view) /\ idx <= end_idx
    BY <1>2
  <2> QED
    BY <1>1, <1>4, <1>5, <2>1, Zenon
<1>7. depth' \in 0..StackDepth
  BY <1>1 DEF ReplayInv, ReplayTypeOK
<1> QED
  BY <1>1, <1>2, <1>3, <1>6, <1>7, SetsReplayInv

\* rewind, and a loop that begins again.
LEMMA RewoundReplayInv ==
    ASSUME ReplayInv, opened, Rewound, UNCHANGED <<view, cfg, paused, thread, stopping>>,
           thread # "pace", depth' \in 0..StackDepth
    PROVE  ReplayInv'
<1>1. /\ cfg.start_ts \in Nat /\ ReplayTypeOK
      /\ begin_idx \in 0..Len(view) /\ end_idx \in 0..Len(view) /\ Len(view) \in Nat
  BY WindowPlaces DEF ReplayInv
<1>2. SetTo(begin_idx, cfg.start_ts)
  BY DEF Rewound
<1>3. ASSUME begin_idx < end_idx
      PROVE  /\ begin_idx = lower_bound(view, 0, Len(view), cfg.start_ts)
             /\ begin_idx <= end_idx /\ cfg.start_ts <= cfg.end_ts
  <2>1. begin_idx <= end_idx
    BY <1>1, <1>3
  <2>2. cfg.start_ts <= cfg.end_ts
    BY <1>1, <1>3, WindowOpens
  <2> QED
    BY <2>1, <2>2, Zenon DEF begin_idx
<1> QED
  BY <1>1, <1>2, <1>3, SetsReplayInv

\* The thread is not there before the replay is open.
LEMMA LoopReplayInv == ReplayInv /\ LoopStep => ReplayInv'
<1> SUFFICES ASSUME ReplayInv, LoopStep PROVE ReplayInv'
  OBVIOUS
<1>1. /\ ReplayTypeOK /\ cursor \in Nat /\ end_idx \in Nat
      /\ paused \in BOOLEAN /\ stopping \in BOOLEAN /\ depth \in 0..StackDepth
  BY WindowPlaces DEF ReplayInv, ReplayTypeOK
<1>2. thread # "none" => opened
  BY DEF ReplayInv
<1>3. CASE LoopEnds
  <2>1. /\ UNCHANGED <<view, cfg, cursor, current_ts, from, fired, paused, depth, stopping>>
        /\ thread = "check" /\ thread' = "ended"
    BY <1>3 DEF LoopEnds
  <2> QED
    BY <1>1, <1>2, <2>1, FlagsReplayInv
<1>4. CASE LoopAgain
  <2>1. /\ Rewound /\ UNCHANGED <<view, cfg, paused, thread, stopping>> /\ thread = "check"
        /\ depth < StackDepth /\ depth' = depth + 1
    BY <1>4 DEF LoopAgain, LoopWraps
  <2>2. depth' \in 0..StackDepth
    BY <1>1, <2>1, ReplayAssumption
  <2> QED
    BY <1>2, <2>1, <2>2, RewoundReplayInv
<1>5. CASE LoopTakes
  <2>1. /\ UNCHANGED <<view, cfg, cursor, current_ts, from, fired, paused, depth, stopping>>
        /\ thread = "check" /\ thread' = "pace" /\ ~(cursor >= end_idx)
    BY <1>5 DEF LoopTakes, at_end
  <2>2. cursor < end_idx
    BY <1>1, <2>1
  <2> QED
    BY <1>1, <1>2, <2>1, <2>2, FlagsReplayInv
<1>6. CASE Paced /\ stopping
  <2>1. /\ UNCHANGED <<view, cfg, cursor, current_ts, from, fired, paused, depth, stopping>>
        /\ thread = "pace" /\ thread' = "ended"
    BY <1>6 DEF Paced
  <2> QED
    BY <1>1, <1>2, <2>1, FlagsReplayInv
<1>7. CASE Paced /\ ~stopping
  <2>1. /\ UNCHANGED <<view, cfg, paused, depth, stopping>> /\ thread = "pace" /\ thread' = "check"
        /\ FireUpTo(cursor + 1)
    BY <1>7 DEF Paced
  <2>2. cursor < end_idx
    BY <2>1 DEF ReplayInv
  <2>3. cursor + 1 \in Nat /\ cursor <= cursor + 1 /\ cursor + 1 <= end_idx
    BY <1>1, <2>2
  <2> QED
    BY <1>1, <1>2, <2>1, <2>3, FiresReplayInv
<1>8. CASE LoopOverflows
  <2>1. /\ UNCHANGED <<view, cfg, cursor, current_ts, from, fired, paused, depth, stopping>>
        /\ thread = "check" /\ thread' = "crashed"
    BY <1>8 DEF LoopOverflows, LoopWraps
  <2> QED
    BY <1>1, <1>2, <2>1, FlagsReplayInv
<1> QED
  BY <1>3, <1>4, <1>5, <1>6, <1>7, <1>8 DEF LoopStep

\* What callers say to the thread.
LEMMA CallersReplayInv ==
    ASSUME ReplayInv, start \/ PauseOrResume \/ stop \/ join PROVE ReplayInv'
<1>1. /\ thread \in {"none", "check", "pace", "ended", "crashed"} /\ paused \in BOOLEAN /\ stopping \in BOOLEAN
      /\ depth \in 0..StackDepth
      /\ ~opened => thread = "none"
      /\ thread = "pace" => cursor < end_idx
  BY DEF ReplayInv, ReplayTypeOK
<1>2. CASE start
  <2>1. depth' \in 0..StackDepth
    BY <1>2, ReplayAssumption DEF start
  <2> QED
    BY <1>1, <1>2, <2>1, FlagsReplayInv DEF start
<1>3. CASE PauseOrResume
  <2>1. /\ UNCHANGED <<view, cfg, cursor, current_ts, from, fired, thread, depth, stopping>>
        /\ paused' \in BOOLEAN
    BY <1>3 DEF PauseOrResume
  <2> QED
    BY <1>1, <2>1, FlagsReplayInv
<1>4. CASE stop
  BY <1>1, <1>4, FlagsReplayInv DEF stop
<1>5. CASE join
  <2>1. depth' \in 0..StackDepth
    BY <1>5, ReplayAssumption DEF join
  <2> QED
    BY <1>1, <1>5, <2>1, FlagsReplayInv DEF join
<1> QED
  BY <1>2, <1>3, <1>4, <1>5

\* Nothing else touches the replay.
LEMMA OthersReplayInv == ReplayInv /\ UNCHANGED replayVars => ReplayInv'
<1> SUFFICES ASSUME ReplayInv, UNCHANGED replayVars PROVE ReplayInv'
  OBVIOUS
<1>1. /\ UNCHANGED <<view, cfg, cursor, current_ts, from, fired, paused, thread, depth, stopping>>
  BY DEF replayVars
<1>2. /\ thread \in {"none", "check", "pace", "ended", "crashed"} /\ paused \in BOOLEAN /\ stopping \in BOOLEAN
      /\ depth \in 0..StackDepth
      /\ ~opened => thread = "none"
      /\ thread = "pace" => cursor < end_idx
  BY DEF ReplayInv, ReplayTypeOK
<1> QED
  BY <1>1, <1>2, FlagsReplayInv

\* The invariant of the replay is inductive.
LEMMA NextReplayInv == StoreInv /\ ReplayInv /\ [Next]_vars => ReplayInv'
<1> SUFFICES ASSUME StoreInv, ReplayInv, [Next]_vars PROVE ReplayInv'
  OBVIOUS
<1>1. CASE ReplayNext
  <2>1. CASE rewind
    <3>1. depth' \in 0..StackDepth
      BY <2>1 DEF rewind, ReplayInv, ReplayTypeOK
    <3> QED
      BY <2>1, <3>1, RewoundReplayInv DEF rewind, Sequential
  <2> QED
    BY <1>1, <2>1, StepReplayInv, StepAroundReplayInv, StepToReplayInv, SeekReplayInv,
       LoopReplayInv, CallersReplayInv DEF ReplayNext
<1>2. CASE UNCHANGED replayVars
  BY <1>2, OthersReplayInv
<1>3. CASE MarketNext
  BY <1>1, <1>2, <1>3, OpenReplayInv DEF MarketNext, portalVars
<1>4. CASE UNCHANGED marketVars
  BY <1>2, <1>4 DEF marketVars, portalVars
<1> QED
  BY <1>3, <1>4 DEF Next, vars

-----------------------------------------------------------------------------
(* The clock *)

\* Of some number and the times of some records one is the latest.
LEMMA LatestIsTime ==
    ASSUME NEW s, Len(s) \in Nat, DOMAIN s = 1..Len(s), Timed(s), NEW t0 \in Nat
    PROVE  Max({t0} \cup {s[i].recv_ts : i \in DOMAIN s}) \in Nat
<1> DEFINE T(n) == {t0} \cup {s[i].recv_ts : i \in 1..n}
           Has(n) == \E x \in T(n) : \A y \in T(n) : x >= y
           Bad == {n \in Nat : n <= Len(s) /\ ~Has(n)}
<1>1. \A n \in 0..Len(s) : T(n) \subseteq Nat
  BY DEF Timed
<1>2. 0 \notin Bad
  <2>1. T(0) = {t0}
    OBVIOUS
  <2> QED
    BY <2>1
<1>3. ASSUME NEW n \in Nat, n \notin Bad PROVE n + 1 \notin Bad
  <2> SUFFICES ASSUME n + 1 <= Len(s) PROVE Has(n + 1)
    OBVIOUS
  <2>1. Has(n)
    BY <1>3
  <2>2. PICK x \in T(n) : \A y \in T(n) : x >= y
    BY <2>1
  <2>3. PICK z : z = s[n + 1].recv_ts
    OBVIOUS
  <2>4. z \in Nat /\ T(n) \subseteq Nat
    <3>1. n + 1 \in 1..Len(s) /\ n \in 0..Len(s)
      OBVIOUS
    <3> HIDE DEF T
    <3> QED
      BY <1>1, <2>3, <3>1 DEF Timed
  <2>5. T(n + 1) = T(n) \cup {z}
    <3>1. \A i : i \in 1..(n + 1) <=> i \in 1..n \/ i = n + 1
      OBVIOUS
    <3> QED
      BY <2>3, <3>1
  <2> HIDE DEF T
  <2>6. CASE x >= z
    BY <2>2, <2>4, <2>5, <2>6
  <2>7. CASE z >= x
    BY <2>2, <2>4, <2>5, <2>7
  <2> QED
    BY <2>2, <2>4, <2>6, <2>7
<1>4. Bad = {}
  <2> HIDE DEF Bad
  <2>1. Bad \subseteq Nat
    BY DEF Bad
  <2> QED
    BY <1>2, <1>3, <2>1, NoLeastExample
<1>5. Has(Len(s)) /\ T(Len(s)) \subseteq Nat
  <2> HIDE DEF Has, T
  <2>1. Len(s) \in 0..Len(s) /\ Len(s) <= Len(s)
    OBVIOUS
  <2> QED
    BY <1>1, <1>4, <2>1
<1>6. {t0} \cup {s[i].recv_ts : i \in DOMAIN s} = T(Len(s))
  OBVIOUS
<1> HIDE DEF T
<1>7. Max(T(Len(s))) \in T(Len(s))
  BY <1>5 DEF Max
<1> QED
  BY <1>5, <1>6, <1>7

\* The clock of the portal shows a time.
LEMMA ClockInv ==
    ASSUME ReplayInv', portal_ts \in Nat, [Next]_vars
    PROVE  portal_ts' \in Nat
<1>1. CASE OpenForReplay
  BY <1>1, ReplayAssumption DEF OpenForReplay
<1>2. CASE advance_to
  <2>1. fired' \in Seq(Slot)
    BY DEF ReplayInv, ReplayTypeOK, Slot
  <2>2. PICK s \in Seq(Slot) : s = fired'
    BY <2>1
  <2>3. Len(s) \in Nat /\ DOMAIN s = 1..Len(s) /\ Timed(s)
    BY SlotsTimed, LenProperties
  <2>4. Max({portal_ts} \cup {s[i].recv_ts : i \in DOMAIN s}) \in Nat
    BY <2>3, LatestIsTime
  <2> QED
    BY <1>2, <2>2, <2>4, Zenon DEF advance_to
<1>3. CASE UNCHANGED portalVars
  BY <1>3 DEF portalVars
<1> QED
  BY <1>1, <1>2, <1>3 DEF Next, vars, MarketNext, marketVars

-----------------------------------------------------------------------------
(* Returns *)

\* Returns stay in their window.
LEMMA VarTyped == VarTypeOK /\ [Next]_vars => VarTypeOK'
<1> SUFFICES ASSUME VarTypeOK, [Next]_vars PROVE VarTypeOK'
  OBVIOUS
<1>1. ASSUME NEW r \in PeriodReturns, update(r) PROVE VarTypeOK'
  <2>1. returns \in Seq(PeriodReturns) /\ observed \in Seq(PeriodReturns) /\ Len(returns) \in Nat
    BY LenProperties DEF VarTypeOK
  <2>2. max_window \in Nat \ {0}
    BY VarAssumption
  <2>3. Len(returns) >= max_window => Tail(returns) \in Seq(PeriodReturns)
    <3>1. Len(returns) >= max_window => returns # <<>>
      BY <2>1, <2>2
    <3> QED
      BY <2>1, <3>1, HeadTailProperties
  <2>4. PICK kept \in Seq(PeriodReturns) :
            kept = IF Len(returns) >= max_window THEN Tail(returns) ELSE returns
    BY <2>1, <2>3
  <2>5. returns' = Append(kept, r) /\ observed' = Append(observed, r)
    BY <1>1, <2>4 DEF update
  <2> QED
    BY <2>1, <2>5, AppendProperties DEF VarTypeOK
<1>2. CASE VarReset
  BY <1>2, EmptySeq DEF VarReset, VarTypeOK
<1>3. CASE UNCHANGED varVars
  BY <1>3 DEF varVars, VarTypeOK
<1> QED
  BY <1>1, <1>2, <1>3 DEF Next, vars, VarNext

-----------------------------------------------------------------------------
(* Folds *)

\* As many folds are made as fit the data, from the first one on.
LEMMA FoldsFit ==
    LET c == Cardinality({n \in 0..total_bars : Fits(n * step_bars)})
    IN  /\ c \in Nat
        /\ \A k \in 1..c : Fits((k - 1) * step_bars)
        /\ ~Fits(c * step_bars)
<1>1. /\ train_bars \in Nat /\ test_bars \in Nat /\ total_bars \in Nat /\ step_bars \in Nat \ {0}
  BY WalkForwardAssumption
<1>2. \A n, m \in Nat : n <= m => n * step_bars \in Nat /\ m * step_bars \in Nat
                                  /\ n * step_bars <= m * step_bars
  <2> TAKE n, m \in Nat
  <2> HAVE n <= m
  <2>1. PICK d \in Nat : m = n + d
    <3>1. m - n \in Nat /\ m = n + (m - n)
      OBVIOUS
    <3> QED
      BY <3>1
  <2>2. m * step_bars = n * step_bars + d * step_bars
    BY <1>1, <2>1
  <2>3. d * step_bars \in Nat /\ n * step_bars \in Nat
    BY <1>1
  <2> QED
    BY <2>2, <2>3
<1>3. \A n, m \in Nat : n <= m /\ Fits(m * step_bars) => Fits(n * step_bars)
  <2> TAKE n, m \in Nat
  <2> HAVE n <= m /\ Fits(m * step_bars)
  <2>1. PICK a \in Nat, b \in Nat : a = n * step_bars /\ b = m * step_bars /\ a <= b
    BY <1>2
  <2> QED
    BY <1>1, <2>1 DEF Fits
<1>4. ~Fits((total_bars + 1) * step_bars)
  <2>1. (total_bars + 1) * step_bars \in Nat /\ (total_bars + 1) * step_bars > total_bars
    <3>1. PICK e \in Nat : step_bars = e + 1
      <4>1. step_bars - 1 \in Nat /\ step_bars = (step_bars - 1) + 1
        BY <1>1
      <4> QED
        BY <4>1
    <3>2. (total_bars + 1) * step_bars = (total_bars + 1) * e + (total_bars + 1)
      BY <1>1, <3>1
    <3>3. (total_bars + 1) * e \in Nat
      BY <1>1, <3>1
    <3> QED
      BY <1>1, <3>2, <3>3
  <2> QED
    BY <1>1, <2>1 DEF Fits
<1> DEFINE Misfits == {n \in Nat : ~Fits(n * step_bars)}
<1>12. PICK most \in Nat : most = total_bars + 1
  BY <1>1
<1>13. most \in Misfits
  <2>1. ~Fits(most * step_bars)
    BY <1>4, <1>12, Zenon
  <2> QED
    BY <2>1, Zenon
<1>5. PICK c \in Misfits : \A n \in Misfits : c <= n
  <2>1. Misfits # {} /\ Misfits \subseteq Nat
    BY <1>13, Zenon
  <2> HIDE DEF Misfits
  <2> QED
    BY <2>1, LeastNumber
<1>6. c \in Nat /\ c <= total_bars + 1 /\ ~Fits(c * step_bars)
  <2>1. c \in Nat /\ ~Fits(c * step_bars)
    BY Zenon
  <2>2. c <= most
    BY <1>5, <1>13, Zenon
  <2> QED
    BY <1>12, <2>1, <2>2
<1>7. \A n \in Nat : n < c <=> Fits(n * step_bars)
  <2> TAKE n \in Nat
  <2>1. n < c => Fits(n * step_bars)
    BY <1>5, <1>6
  <2>2. Fits(n * step_bars) => n < c
    <3> SUFFICES ASSUME Fits(n * step_bars), ~(n < c) PROVE FALSE
      OBVIOUS
    <3>1. c <= n
      BY <1>6
    <3> QED
      BY <1>3, <1>6, <3>1
  <2> QED
    BY <2>1, <2>2
<1> HIDE DEF Misfits
<1>8. {n \in 0..total_bars : Fits(n * step_bars)} = 0..(c - 1)
  <2>1. \A n \in 0..total_bars : n \in Nat /\ (Fits(n * step_bars) <=> n < c)
    BY <1>7
  <2>2. \A n : n \in 0..(c - 1) <=> n \in 0..total_bars /\ n < c
    BY <1>1, <1>6
  <2> QED
    BY <2>1, <2>2
<1>9. Cardinality(0..(c - 1)) = c
  BY <1>6, FS_Interval, 0 \in Int, c - 1 \in Int
<1>10. Cardinality({n \in 0..total_bars : Fits(n * step_bars)}) = c
  BY <1>8, <1>9, Zenon
<1>11. \A k \in 1..c : Fits((k - 1) * step_bars)
  <2> TAKE k \in 1..c
  <2>1. k - 1 \in Nat /\ k - 1 < c
    BY <1>6
  <2> QED
    BY <1>7, <2>1
<1> QED
  BY <1>6, <1>10, <1>11

\* The folds, as a sequence.
LEMMA WindowsMade ==
    /\ Len(make_windows) \in Nat /\ DOMAIN make_windows = 1..Len(make_windows)
    /\ \A k \in 1..Len(make_windows) : make_windows[k].test_end <= total_bars
    /\ ~Fits(Len(make_windows) * step_bars)
<1>1. PICK c \in Nat : /\ c = Cardinality({n \in 0..total_bars : Fits(n * step_bars)})
                       /\ \A k \in 1..c : Fits((k - 1) * step_bars)
                       /\ ~Fits(c * step_bars)
  BY FoldsFit, Zenon
<1>2. make_windows = [k \in 1..c |-> WindowAt(k)]
  BY <1>1, Zenon DEF make_windows
<1>3. PICK w : w = make_windows
  OBVIOUS
<1>4. DOMAIN w = 1..c /\ w \in [1..c -> {WindowAt(k) : k \in 1..c}]
  BY <1>2, <1>3
<1>5. Len(w) = c
  BY <1>4, SeqDef, LenProperties
<1>6. \A k \in 1..c : w[k].test_end <= total_bars
  <2> TAKE k \in 1..c
  <2>1. w[k] = WindowAt(k)
    BY <1>2, <1>3
  <2>2. WindowAt(k).test_end = (k - 1) * step_bars + train_bars + test_bars
    BY DEF WindowAt
  <2>3. Fits((k - 1) * step_bars)
    BY <1>1
  <2> QED
    BY <2>1, <2>2, <2>3 DEF Fits
<1> QED
  BY <1>1, <1>3, <1>4, <1>5, <1>6

\* Results are kept for no more folds than there are.
WalkInv ==
    /\ oos_results \in Seq(FoldCurves)
    /\ windows = <<>> \/ windows = make_windows
    /\ Len(oos_results) <= Len(windows)

\* Where it holds, the types do.
LEMMA WalkInvTyped == WalkInv => WalkTypeOK
<1> SUFFICES ASSUME WalkInv PROVE WalkTypeOK
  OBVIOUS
<1>1. CASE windows = <<>>
  BY <1>1 DEF WalkInv, WalkTypeOK
<1>2. CASE windows = make_windows
  BY <1>2, WindowsMade, Zenon DEF WalkInv, WalkTypeOK
<1> QED
  BY <1>1, <1>2 DEF WalkInv

\* It holds at first.
LEMMA InitWalkInv == Init => WalkInv
BY EmptySeq DEF Init, WalkInit, WalkInv

\* A walk makes its windows once, and runs one fold after the other.
LEMMA NextWalkInv == WalkInv /\ [Next]_vars => WalkInv'
<1> SUFFICES ASSUME WalkInv, [Next]_vars PROVE WalkInv'
  OBVIOUS
<1>1. make_windows' = make_windows
  BY Zenon DEF make_windows
<1>2. CASE StartWalk
  <2>1. windows = <<>> /\ windows' = make_windows /\ oos_results' = oos_results
    BY <1>2 DEF StartWalk
  <2>2. Len(oos_results) \in Nat /\ Len(oos_results) <= 0 /\ Len(make_windows) \in Nat
    BY <2>1, LenProperties, WindowsMade DEF WalkInv
  <2> QED
    BY <1>1, <2>1, <2>2 DEF WalkInv
<1>3. ASSUME NEW curve \in FoldCurves, RunFold(curve) PROVE WalkInv'
  <2>1. /\ Len(oos_results) < Len(windows) /\ windows' = windows
        /\ oos_results' = Append(oos_results, curve)
    BY <1>3 DEF RunFold
  <2>2. oos_results' \in Seq(FoldCurves) /\ Len(oos_results') = Len(oos_results) + 1
    BY <2>1, AppendProperties DEF WalkInv
  <2>3. Len(windows) \in Nat /\ Len(oos_results) \in Nat
    BY LenProperties, WindowsMade, Len(<<>>) = 0 DEF WalkInv
  <2> QED
    BY <1>1, <2>1, <2>2, <2>3 DEF WalkInv
<1>4. CASE UNCHANGED foldVars
  BY <1>1, <1>4 DEF foldVars, WalkInv
<1> QED
  BY <1>2, <1>3, <1>4 DEF Next, vars, WalkNext

-----------------------------------------------------------------------------
(* Theorems of the market data *)

\* Parts of a sequence that begin at the same place: the shorter is the beginning
\* of the longer.
LEMMA PartsBegin ==
    ASSUME NEW C, NEW s \in Seq(C), NEW b \in 0..Len(s), NEW c \in 0..b, NEW a \in 0..c
    PROVE  IsPrefix(SubSeq(s, a + 1, c), SubSeq(s, a + 1, b))
<1>1. Len(s) \in Nat /\ \A i \in 1..Len(s) : s[i] \in C
  BY LenProperties, ElementOfSeq
<1>2. PICK m \in Nat, n \in Nat : m = a + 1 /\ n = c - a /\ n <= b - a
  BY <1>1
<1>3. PICK p \in Seq(C) : /\ p = SubSeq(s, m, c) /\ Len(p) = n
                          /\ \A i \in 1..n : p[i] = s[a + i]
  <2>1. \A i \in m..c : s[i] \in C
    BY <1>1, <1>2
  <2>2. /\ SubSeq(s, m, c) \in Seq(C)
        /\ Len(SubSeq(s, m, c)) = IF m <= c THEN c - m + 1 ELSE 0
        /\ \A i \in 1..(c - m + 1) : SubSeq(s, m, c)[i] = s[m + i - 1]
    BY <2>1, <1>2, SubSeqProperties, m \in Int, c \in Int, SMTT(30)
  <2>3. PICK p \in Seq(C) : p = SubSeq(s, m, c)
    BY <2>2
  <2>4. Len(p) = n
    BY <1>2, <2>2, <2>3
  <2>5. ASSUME NEW i \in 1..n PROVE p[i] = s[a + i]
    <3>1. i \in 1..(c - m + 1) /\ m + i - 1 = a + i
      BY <1>2
    <3>2. p[i] = s[m + i - 1]
      BY <2>2, <2>3, <3>1, Zenon
    <3> QED
      BY <3>1, <3>2, Zenon
  <2> QED
    BY <2>3, <2>4, <2>5, Zenon
<1>4. PICK q \in Seq(C) : /\ q = SubSeq(s, m, b) /\ Len(q) >= n
                          /\ \A i \in 1..n : q[i] = s[a + i]
  <2>1. \A i \in m..b : s[i] \in C
    BY <1>1, <1>2
  <2>2. /\ SubSeq(s, m, b) \in Seq(C)
        /\ Len(SubSeq(s, m, b)) = IF m <= b THEN b - m + 1 ELSE 0
        /\ \A i \in 1..(b - m + 1) : SubSeq(s, m, b)[i] = s[m + i - 1]
    BY <2>1, <1>2, SubSeqProperties, m \in Int, b \in Int
  <2>3. PICK q \in Seq(C) : q = SubSeq(s, m, b)
    BY <2>2
  <2>4. Len(q) >= n
    BY <1>2, <2>2, <2>3
  <2>5. ASSUME NEW i \in 1..n PROVE q[i] = s[a + i]
    <3>1. i \in 1..(b - m + 1) /\ m + i - 1 = a + i
      BY <1>2
    <3>2. q[i] = s[m + i - 1]
      BY <2>2, <2>3, <3>1, Zenon
    <3> QED
      BY <3>1, <3>2, Zenon
  <2> QED
    BY <2>3, <2>4, <2>5, Zenon
<1>5. n \in 0..Len(q)
  BY <1>4, LenProperties
<1>6. SubSeq(q, 1, n) = p
  <2>1. SubSeq(q, 1, n) = p <=> Len(p) = n /\ \A i \in 1..n : p[i] = q[i]
    BY <1>5, SameSlots
  <2>2. \A i \in 1..n : p[i] = q[i]
    BY <1>3, <1>4, Zenon
  <2> QED
    BY <1>3, <2>1, <2>2, Zenon
<1>7. SubSeq(p, 1, n) = p
  BY <1>3, SubSeqFull
<1>8. IsPrefix(p, q)
  BY <1>3, <1>4, <1>6, <1>7 DEF IsPrefix
<1> QED
  BY <1>2, <1>3, <1>4, <1>8, Zenon

\* Store, replay and clock of the market data.
MarketInv == StoreInv /\ ReplayInv /\ portal_ts \in Nat

\* They hold at first.
LEMMA InitMarketInv == Init => MarketInv
BY InitStoreInv, InitReplayInv DEF Init, MarketInit, MarketInv

\* Every step keeps them.
LEMMA NextMarketInv == MarketInv /\ [Next]_vars => MarketInv'
BY NextStoreInv, NextReplayInv, ClockInv DEF MarketInv

\* The inductive invariant of the market data: what was fired and what is left to
\* fire, the records that the store owes, and a clock that shows a time.
THEOREM MarketInvariant == Spec => []MarketInv
BY InitMarketInv, NextMarketInv, PTL DEF Spec

\* Where it holds, the ticks of the window were fired up to the cursor.
LEMMA FiredInOrder == ReplayInv => ReplayInOrder
<1> SUFFICES ASSUME ReplayInv, opened, Sorted(view), begin_idx < end_idx
             PROVE  IsPrefix(fired, InWindow) /\ (at_end => fired = InWindow)
  BY DEF ReplayInOrder
<1>1. /\ ReplayTypeOK /\ view \in Seq(Slot) /\ Len(view) \in Nat /\ Timed(view)
      /\ 0 \in 0..Len(view) /\ Len(view) \in 0..Len(view)
      /\ cfg.end_ts \in Nat /\ end_idx \in 0..Len(view)
  BY WindowPlaces DEF ReplayInv
<1>12. PICK end_ts \in Nat : end_ts = cfg.end_ts
  BY <1>1, Zenon
<1>13. PICK last_ts \in Int : last_ts = end_ts - 1 /\ last_ts + 1 = end_ts
  OBVIOUS
<1>2. PICK ts \in Nat : ts = from
  BY <1>1, Zenon DEF ReplayTypeOK
<1>3. PICK b \in 0..Len(view) : b = end_idx
  BY <1>1
<1>4. PICK a \in 0..Len(view) : a = lower_bound(view, 0, Len(view), ts)
  BY <1>1, <1>2, LowerBoundPlace, ts \in Int
<1>5. FiredSoFar
  BY DEF ReplayInv
<1>6. PICK c \in Nat : c = cursor
  BY <1>1 DEF ReplayTypeOK
<1>7. a <= c /\ c <= b /\ ts <= end_ts /\ fired = SubSeq(view, a + 1, c)
  BY <1>2, <1>3, <1>12, <1>4, <1>5, <1>6, Zenon DEF FiredSoFar
<1>8. InWindow = SubSeq(view, a + 1, b)
  <2>1. ts \in Int /\ ts <= last_ts + 1
    BY <1>7, <1>13
  <2>2. Among(view, ts, last_ts)
          = SubSeq(view, lower_bound(view, 0, Len(view), ts) + 1,
                         lower_bound(view, 0, Len(view), last_ts + 1))
    BY <1>1, <2>1, AmongSorted
  <2> QED
    BY <1>2, <1>3, <1>4, <1>12, <1>13, <2>2, Zenon DEF InWindow, end_idx
<1>9. c \in 0..b /\ a \in 0..c
  BY <1>7
<1>10. IsPrefix(SubSeq(view, a + 1, c), SubSeq(view, a + 1, b))
  BY <1>1, <1>9, PartsBegin
<1>11. at_end => c = b
  BY <1>3, <1>6, <1>7 DEF at_end
<1> QED
  BY <1>7, <1>8, <1>10, <1>11, Zenon

\* However stepping, seeking, rewinding, looping and the thread are mixed, the
\* callbacks get the ticks of the window from the time last set, each once and in
\* order, and at its end they have had them all (replay_engine.cpp:73-175), in a file
\* that is in order of time and a window that holds a tick.
THEOREM ReplayDelivers == Spec => []ReplayInOrder
BY FiredInOrder, MarketInvariant, PTL DEF MarketInv

\* A query never looks ahead of the clock, not even in a file that a power failure
\* left out of order; in one that is in order it finds the last tick before the
\* clock, and of the lookback all of them and no other (data_portal.hpp:5).
THEOREM QueriesPointInTime == Spec => []PointInTime
<1>1. MarketInv => PointInTime
  <2> SUFFICES ASSUME ReplayInv, portal_ts \in Nat PROVE PointInTime
    BY DEF MarketInv
  <2>1. view \in Seq(Slot) /\ Len(view) \in Nat /\ Timed(view)
    BY WindowPlaces DEF ReplayInv
  <2>2. NeverAhead(portal_ts)
    BY <2>1, QueriesNeverAhead
  <2>3. Sorted(view) => LastKnown(portal_ts)
    BY <2>1, QueriesLastKnown
  <2>4. ASSUME Sorted(view), NEW dur \in BarDurations, NEW n \in BarCounts
        PROVE  HistoryExact(portal_ts, dur, n)
    <3>1. dur \in Nat /\ n \in Nat
      BY PortalAssumption
    <3> QED
      BY <2>1, <2>4, <3>1, QueriesHistory
  <2> QED
    BY <2>2, <2>3, <2>4 DEF PointInTime
<1> QED
  BY <1>1, MarketInvariant, PTL

-----------------------------------------------------------------------------
(* What the strategies know of the bars *)

\* A bar more leaves the windows before it as they are.
LEMMA RecentKept ==
    ASSUME NEW C, NEW s \in Seq(C), NEW x \in C, NEW n \in Nat \ {0}, NEW i \in 0..Len(s)
    PROVE  Recent(Append(s, x), i, n) = Recent(s, i, n)
<1> DEFINE t == Append(s, x)
           m == IF i > n THEN i - n + 1 ELSE 1
<1>1. t \in Seq(C) /\ Len(t) = Len(s) + 1 /\ \A j \in 1..Len(s) : t[j] = s[j]
  BY AppendProperties
<1>2. Len(s) \in Nat /\ m \in Int /\ i \in Int /\ m >= 1 /\ i <= Len(s)
  BY LenProperties
<1> HIDE DEF t, m
<1>3. \A j \in m..i : j \in 1..Len(s)
  BY <1>2
<1>4. \A j \in m..i : s[j] \in C /\ t[j] \in C
  BY <1>1, <1>3, ElementOfSeq
<1>5. /\ SubSeq(s, m, i) \in Seq(C) /\ SubSeq(t, m, i) \in Seq(C)
      /\ Len(SubSeq(s, m, i)) = (IF m <= i THEN i - m + 1 ELSE 0)
      /\ Len(SubSeq(t, m, i)) = (IF m <= i THEN i - m + 1 ELSE 0)
      /\ \A j \in 1..(i - m + 1) : SubSeq(s, m, i)[j] = s[m + j - 1]
      /\ \A j \in 1..(i - m + 1) : SubSeq(t, m, i)[j] = t[m + j - 1]
  BY <1>2, <1>4, SubSeqProperties
<1>6. ASSUME NEW j \in 1..Len(SubSeq(s, m, i)) PROVE SubSeq(s, m, i)[j] = SubSeq(t, m, i)[j]
  <2>1. j \in 1..(i - m + 1) /\ m + j - 1 \in 1..Len(s)
    BY <1>2, <1>5
  <2> QED
    BY <1>1, <1>5, <2>1
<1>7. SubSeq(s, m, i) = SubSeq(t, m, i)
  BY <1>5, <1>6, SeqEqual
<1> QED
  BY <1>7, Zenon DEF Recent, t, m

\* The window of the last n bars.
Latest(s, n) == Recent(s, Len(s), n)

\* What the window holds.
LEMMA LatestProperties ==
    ASSUME NEW C, NEW s \in Seq(C), NEW n \in Nat \ {0}
    PROVE  /\ Latest(s, n) \in Seq(C)
           /\ Len(Latest(s, n)) = IF Len(s) < n THEN Len(s) ELSE n
           /\ Len(s) >= n => Head(Latest(s, n)) = s[Len(s) - n + 1]
           /\ Len(s) >= 1 => Last(Latest(s, n)) = s[Len(s)]
<1> DEFINE l == Len(s)
           m == IF l > n THEN l - n + 1 ELSE 1
<1>1. l \in Nat /\ m \in Int /\ m >= 1 /\ (l >= n => m = l - n + 1)
  BY LenProperties
<1>2. \A j \in m..l : s[j] \in C
  BY <1>1, ElementOfSeq
<1>3. Latest(s, n) = SubSeq(s, m, l)
  BY Zenon DEF Latest, Recent
<1> HIDE DEF m, l
<1>4. /\ SubSeq(s, m, l) \in Seq(C)
      /\ Len(SubSeq(s, m, l)) = (IF m <= l THEN l - m + 1 ELSE 0)
      /\ \A j \in 1..(l - m + 1) : SubSeq(s, m, l)[j] = s[m + j - 1]
  BY <1>1, <1>2, SubSeqProperties
<1>5. Len(Latest(s, n)) = IF l < n THEN l ELSE n
  BY <1>1, <1>3, <1>4 DEF m
<1>6. l >= n => Head(Latest(s, n)) = s[l - n + 1]
  <2> HAVE l >= n
  <2>1. m = l - n + 1 /\ m \in 1..Len(s) /\ l \in m..Len(s)
    BY <1>1 DEF l
  <2>2. Head(SubSeq(s, m, l)) = s[m]
    BY <2>1, HeadTailOfSubSeq
  <2> QED
    BY <1>3, <2>1, <2>2
<1>7. l >= 1 => Last(Latest(s, n)) = s[l]
  <2> HAVE l >= 1
  <2>1. /\ m <= l /\ l - m + 1 \in 1..(l - m + 1) /\ m + (l - m + 1) - 1 = l
    BY <1>1 DEF m
  <2>2. SubSeq(s, m, l)[l - m + 1] = s[l] /\ Len(SubSeq(s, m, l)) = l - m + 1
    BY <1>4, <2>1
  <2> QED
    BY <1>3, <2>2, Zenon DEF Last
<1> QED
  BY <1>3, <1>4, <1>5, <1>6, <1>7 DEF l

\* push_back and pop_front keep the window.
LEMMA LatestPushed ==
    ASSUME NEW C, NEW s \in Seq(C), NEW x \in C, NEW n \in Nat \ {0}
    PROVE  Latest(Append(s, x), n) = Pushed(Latest(s, n), x, n)
<1> DEFINE t == Append(s, x)
           l == Len(s)
           a == IF l > n THEN l - n + 1 ELSE 1
           b == IF l + 1 > n THEN l + 1 - n + 1 ELSE 1
<1>1. t \in Seq(C) /\ Len(t) = l + 1 /\ t[l + 1] = x /\ l \in Nat
  BY AppendProperties, LenProperties
<1>2. l \in 0..Len(s)
  BY <1>1
<1>3. Latest(s, n) = SubSeq(t, a, l)
  <2>1. Recent(t, l, n) = Recent(s, l, n)
    BY <1>2, RecentKept
  <2> QED
    BY <2>1, Zenon DEF Recent, Latest
<1>4. Latest(t, n) = SubSeq(t, b, l + 1)
  BY <1>1 DEF Recent, Latest
<1>5. /\ Latest(s, n) \in Seq(C)
      /\ Len(Latest(s, n)) = IF l < n THEN l ELSE n
  BY LatestProperties
<1> HIDE DEF t, l
<1>6. SubSeq(t, a, l + 1) = Append(Latest(s, n), x)
  <2>1. a \in 1..Len(t) /\ l + 1 \in a..Len(t) /\ l + 1 - 1 = l
    BY <1>1
  <2>2. SubSeq(t, a, l + 1) = SubSeq(t, a, l + 1 - 1) \o <<t[l + 1]>>
    BY <1>1, <2>1, SubSeqRecursiveSecond
  <2>3. Append(Latest(s, n), x) = Latest(s, n) \o <<x>>
    BY <1>5, AppendIsConcat
  <2> QED
    BY <1>1, <1>3, <2>1, <2>2, <2>3
<1>7. CASE l < n
  <2>1. a = b
    BY <1>1, <1>7
  <2> HIDE DEF a, b
  <2>2. Latest(t, n) = Append(Latest(s, n), x)
    BY <1>4, <1>6, <2>1
  <2>3. Len(Latest(s, n)) < n
    BY <1>5, <1>7
  <2> QED
    BY <2>2, <2>3 DEF Pushed, t
<1>8. CASE ~(l < n)
  <2>1. b = a + 1 /\ a \in 1..Len(t) /\ l + 1 \in a..Len(t) /\ a \in 1..l /\ l \in a..l
    BY <1>1, <1>8
  <2> HIDE DEF a, b
  <2>2. Tail(SubSeq(t, a, l + 1)) = SubSeq(t, a + 1, l + 1)
    BY <1>1, <2>1, HeadTailOfSubSeq
  <2>3. Latest(s, n) # <<>> /\ ~(Len(Latest(s, n)) < n)
    BY <1>1, <1>5, <1>8, EmptySeq
  <2>4. Tail(Append(Latest(s, n), x)) = Append(Tail(Latest(s, n)), x)
    BY <1>5, <2>3, HeadTailAppend
  <2>5. Latest(t, n) = Append(Tail(Latest(s, n)), x)
    BY <1>4, <1>6, <2>1, <2>2, <2>4
  <2> QED
    BY <2>3, <2>5 DEF Pushed, t
<1> QED
  BY <1>7, <1>8

-----------------------------------------------------------------------------
(* Running sums *)

\* Numbers have one sequence of running sums.
LEMMA SumsUnique ==
    ASSUME NEW n \in Nat, NEW w, NEW T, NEW U, SumsOf(T, w, n), SumsOf(U, w, n)
    PROVE  \A i \in 0..n : T[i] = U[i]
<1> DEFINE Bad == {i \in Nat : i <= n /\ T[i] # U[i]}
<1>1. 0 \notin Bad
  BY DEF SumsOf
<1>2. ASSUME NEW i \in Nat, i \notin Bad PROVE i + 1 \notin Bad
  <2> SUFFICES ASSUME i + 1 <= n PROVE T[i + 1] = U[i + 1]
    OBVIOUS
  <2>1. i + 1 \in 1..n /\ i + 1 - 1 = i /\ T[i] = U[i]
    BY <1>2
  <2> QED
    BY <2>1 DEF SumsOf
<1> HIDE DEF Bad
<1>3. Bad = {}
  <2>1. Bad \subseteq Nat
    BY DEF Bad
  <2> QED
    BY <1>1, <1>2, <2>1, NoLeastExample
<1> QED
  BY <1>3 DEF Bad

\* SumOf is the last of the running sums.
LEMMA SumOfSums ==
    ASSUME NEW w \in Seq(Int)
    PROVE  \E T : SumsOf(T, w, Len(w)) /\ SumOf(w) = T[Len(w)]
<1> DEFINE S == DOMAIN w
           Body(g) == [s \in SUBSET S |-> IF s = {} THEN 0 ELSE g[s \ {Max(s)}] + w[Max(s)]]
           pick == [s \in (SUBSET S) \ {{}} |-> Max(s)]
           add == [sb \in S \X Int |-> sb[2] + w[sb[1]]]
<1>1. SumOf(w) = (CHOOSE g : g = Body(g))[S]
  BY Zenon DEF SumOf, FoldLeft, MapThenFoldSet
<1>2. Len(w) \in Nat /\ S = 1..Len(w)
  BY LenProperties
<1>3. IsFiniteSet(S)
  BY <1>2, FS_Interval, 1 \in Int, Len(w) \in Int
<1>4. Picks(pick, S)
  <2>1. \A s \in (SUBSET S) \ {{}} : Max(s) \in s
    BY <1>2, MaxOfFinite
  <2> QED
    BY <2>1 DEF Picks
<1>5. \A i \in S : w[i] \in Int
  BY <1>2, ElementOfSeq
<1>6. add \in [S \X Int -> Int]
  BY <1>5
<1>7. PICK it : FoldsBy(it, S, Int, 0, pick, add)
  <2>1. 0 \in Int
    OBVIOUS
  <2> HIDE DEF S, pick, add
  <2> QED
    BY <2>1, <1>3, <1>4, <1>6, FoldExists
<1>8. it = Body(it)
  <2> HIDE DEF S
  <2>1. \A s \in (SUBSET S) \ {{}} : it[s] = Body(it)[s]
    <3> TAKE s \in (SUBSET S) \ {{}}
    <3>1. it[s] = add[<<pick[s], it[s \ {pick[s]}]>>]
      BY <1>7 DEF FoldsBy
    <3>2. pick[s] = Max(s) /\ Max(s) \in S /\ s \ {Max(s)} \in SUBSET S /\ s \in SUBSET S
      BY <1>4 DEF Picks
    <3>3. it[s \ {Max(s)}] \in Int
      BY <1>7, <3>2 DEF FoldsBy
    <3> QED
      BY <3>1, <3>2, <3>3
  <2>2. it[{}] = Body(it)[{}]
    BY <1>7 DEF FoldsBy
  <2>3. it = [s \in SUBSET S |-> it[s]]
    BY <1>7 DEF FoldsBy
  <2> QED
    BY <2>1, <2>2, <2>3
<1> DEFINE f == CHOOSE g : g = Body(g)
<1>9. f = Body(f)
  <2> HIDE DEF Body
  <2> QED
    BY <1>8
<1>10. f[{}] = 0
  BY <1>9
<1>11. \A n \in 1..Len(w) : f[1..n] = f[1..(n - 1)] + w[n]
  <2> TAKE n \in 1..Len(w)
  <2>3. 1..n \in SUBSET S => f[1..n] = Body(f)[1..n]
    BY <1>9
  <2> HIDE DEF S, f
  <2>1. 1..n \in SUBSET S /\ 1..n # {} /\ n \in Nat \ {0}
    <3>1. n \in Nat \ {0} /\ n <= Len(w)
      BY <1>2
    <3>2. 1..n \subseteq 1..Len(w) /\ n \in 1..n
      BY <1>2, <3>1
    <3>3. 1..n \in SUBSET S
      BY <1>2, <3>2
    <3> QED
      BY <3>1, <3>2, <3>3
  <2>2. Max(1..n) = n /\ (1..n) \ {n} = 1..(n - 1)
    BY <2>1, MaxOfInterval
  <2> QED
    BY <2>1, <2>2, <2>3
<1> DEFINE T == [n \in 0..Len(w) |-> f[1..n]]
<1> HIDE DEF f, S, Body
<1>12. \A n \in 1..Len(w) : n \in 0..Len(w) /\ n - 1 \in 0..Len(w)
  BY <1>2
<1>13. T[0] = 0
  <2>1. 1..0 = {} /\ 0 \in 0..Len(w)
    BY <1>2
  <2> QED
    BY <1>10, <2>1
<1>14. \A n \in 1..Len(w) : T[n] = T[n - 1] + w[n]
  BY <1>11, <1>12
<1>15. SumOf(w) = T[Len(w)]
  <2>1. Len(w) \in 0..Len(w)
    BY <1>2
  <2> QED
    BY <1>1, <1>2, <2>1 DEF f
<1>16. PICK U : SumsOf(U, w, Len(w))
  <2>1. w \in [1..Len(w) -> Int]
    BY LenProperties
  <2> QED
    BY <1>2, <2>1, SumsExist
<1>17. \A i \in 0..Len(w) : T[i] = U[i]
  <2> DEFINE Bad == {i \in Nat : i <= Len(w) /\ T[i] # U[i]}
  <2> HIDE DEF T
  <2>1. 0 \notin Bad
    BY <1>13, <1>16 DEF SumsOf
  <2>2. ASSUME NEW i \in Nat, i \notin Bad PROVE i + 1 \notin Bad
    <3> SUFFICES ASSUME i + 1 <= Len(w) PROVE T[i + 1] = U[i + 1]
      OBVIOUS
    <3>1. i + 1 \in 1..Len(w) /\ i + 1 - 1 = i /\ T[i] = U[i]
      BY <1>2, <2>2
    <3> QED
      BY <1>14, <1>16, <3>1 DEF SumsOf
  <2> HIDE DEF Bad
  <2>3. Bad = {}
    <3>1. Bad \subseteq Nat
      BY DEF Bad
    <3> QED
      BY <2>1, <2>2, <3>1, NoLeastExample
  <2> QED
    BY <1>2, <2>3 DEF Bad
<1> HIDE DEF T
<1> QED
  <2>1. Len(w) \in 0..Len(w)
    BY <1>2
  <2> QED
    BY <1>15, <1>16, <1>17, <2>1

\* One more adds to the sum.
LEMMA SumAppend ==
    ASSUME NEW w \in Seq(Int), NEW x \in Int
    PROVE  SumOf(Append(w, x)) = SumOf(w) + x /\ SumOf(w) \in Int
<1> DEFINE v == Append(w, x)
<1>1. /\ v \in Seq(Int) /\ Len(v) = Len(w) + 1 /\ v[Len(w) + 1] = x
      /\ \A i \in 1..Len(w) : v[i] = w[i]
  BY AppendProperties
<1> HIDE DEF v
<1>2. Len(w) \in Nat
  BY LenProperties
<1>3. PICK T : SumsOf(T, w, Len(w)) /\ SumOf(w) = T[Len(w)]
  BY SumOfSums
<1>4. PICK U : SumsOf(U, v, Len(v)) /\ SumOf(v) = U[Len(v)]
  BY <1>1, SumOfSums
<1>5. SumsOf(U, v, Len(w) + 1)
  BY <1>1, <1>4
<1> DEFINE P == [i \in 0..Len(w) |-> U[i]]
<1>6. SumsOf(P, w, Len(w))
  <2>1. P \in [0..Len(w) -> Int] /\ P[0] = 0
    BY <1>2, <1>5 DEF SumsOf
  <2>2. ASSUME NEW i \in 1..Len(w) PROVE P[i] = P[i - 1] + w[i]
    <3>1. i \in 0..Len(w) /\ i - 1 \in 0..Len(w) /\ i \in 1..(Len(w) + 1)
      BY <1>2
    <3>2. U[i] = U[i - 1] + v[i]
      BY <1>5, <3>1 DEF SumsOf
    <3> QED
      BY <1>1, <3>1, <3>2
  <2> HIDE DEF P
  <2> QED
    BY <2>1, <2>2 DEF SumsOf
<1>7. Len(w) \in 0..Len(w) /\ P[Len(w)] = T[Len(w)]
  <2>1. Len(w) \in 0..Len(w)
    BY <1>2
  <2> HIDE DEF P
  <2> QED
    BY <1>2, <1>3, <1>6, <2>1, SumsUnique
<1>8. U[Len(w) + 1] = U[Len(w)] + x
  <2>1. Len(w) + 1 \in 1..(Len(w) + 1) /\ Len(w) + 1 - 1 = Len(w)
    BY <1>2
  <2> QED
    BY <1>1, <1>5, <2>1 DEF SumsOf
<1>9. T[Len(w)] \in Int
  BY <1>3, <1>7 DEF SumsOf
<1> QED
  BY <1>1, <1>3, <1>4, <1>7, <1>8, <1>9 DEF v

\* The sum is the first and the sum of the rest.
LEMMA SumTail ==
    ASSUME NEW w \in Seq(Int), w # <<>>
    PROVE  SumOf(w) = Head(w) + SumOf(Tail(w)) /\ Head(w) \in Int /\ SumOf(Tail(w)) \in Int
<1> DEFINE v == Tail(w)
           l == Len(v)
<1>1. v \in Seq(Int) /\ Len(w) = l + 1 /\ Head(w) = w[1] /\ l \in Nat
  BY HeadTailProperties, LenProperties
<1>2. \A i \in 1..l : v[i] = w[i + 1]
  BY HeadTailProperties
<1> HIDE DEF v, l
<1>3. PICK T : SumsOf(T, w, l + 1) /\ SumOf(w) = T[l + 1]
  BY <1>1, SumOfSums
<1>4. PICK U : SumsOf(U, v, l) /\ SumOf(v) = U[l]
  BY <1>1, SumOfSums DEF l
<1> DEFINE P == [i \in 0..l |-> T[i + 1] - w[1]]
<1>5. w[1] \in Int /\ T[1] = w[1]
  <2>1. 1 \in 1..(l + 1) /\ 1 - 1 = 0
    BY <1>1
  <2>2. w[1] \in Int
    BY <1>1, <2>1, ElementOfSeq
  <2> QED
    BY <1>3, <2>1, <2>2 DEF SumsOf
<1>6. SumsOf(P, v, l)
  <2>1. P \in [0..l -> Int] /\ P[0] = 0
    <3>1. \A i \in 0..l : T[i + 1] \in Int
      <4> TAKE i \in 0..l
      <4>1. i + 1 \in 0..(l + 1)
        BY <1>1
      <4> QED
        BY <1>3, <4>1 DEF SumsOf
    <3>2. 0 \in 0..l /\ 0 + 1 = 1
      BY <1>1
    <3> QED
      BY <1>5, <3>1, <3>2
  <2>2. ASSUME NEW i \in 1..l PROVE P[i] = P[i - 1] + v[i]
    <3>1. i \in 0..l /\ i - 1 \in 0..l /\ i + 1 \in 1..(l + 1) /\ i + 1 - 1 = i /\ i - 1 + 1 = i
      BY <1>1
    <3>2. T[i + 1] = T[i] + w[i + 1]
      BY <1>3, <3>1 DEF SumsOf
    <3>3. T[i] \in Int /\ w[i + 1] \in Int
      <4>1. i \in 0..(l + 1)
        BY <1>1
      <4> QED
        BY <1>1, <1>3, <3>1, <4>1, ElementOfSeq DEF SumsOf
    <3>4. P[i] = T[i + 1] - w[1] /\ P[i - 1] = T[i] - w[1]
      BY <3>1
    <3>5. v[i] = w[i + 1]
      BY <1>2
    <3> QED
      BY <1>5, <3>2, <3>3, <3>4, <3>5
  <2> HIDE DEF P
  <2> QED
    BY <2>1, <2>2 DEF SumsOf
<1>7. l \in 0..l /\ P[l] = U[l] /\ U[l] \in Int
  <2>1. l \in 0..l
    BY <1>1
  <2> HIDE DEF P
  <2>2. \A i \in 0..l : P[i] = U[i]
    BY <1>1, <1>4, <1>6, SumsUnique
  <2> QED
    BY <1>4, <2>1, <2>2 DEF SumsOf
<1>8. P[l] = T[l + 1] - w[1] /\ T[l + 1] \in Int
  <2>1. l + 1 \in 0..(l + 1)
    BY <1>1
  <2> QED
    BY <1>3, <1>7, <2>1 DEF SumsOf
<1> HIDE DEF P
<1> QED
  BY <1>1, <1>3, <1>4, <1>5, <1>7, <1>8 DEF v

\* A running sum follows its window.
LEMMA SumPushed ==
    ASSUME NEW w \in Seq(Int), NEW x \in Int, NEW n \in Nat \ {0}
    PROVE  SumOf(Pushed(w, x, n)) = SumOf(w) + x - Evicted(w, n)
<1>1. CASE Len(w) < n
  <2>1. Pushed(w, x, n) = Append(w, x) /\ Evicted(w, n) = 0
    BY <1>1 DEF Pushed, Evicted
  <2> QED
    BY <2>1, SumAppend
<1>2. CASE ~(Len(w) < n)
  <2>1. Pushed(w, x, n) = Append(Tail(w), x) /\ Evicted(w, n) = Head(w) /\ w # <<>>
    <3>1. Len(<<>>) = 0 /\ 0 < n
      OBVIOUS
    <3> QED
      BY <1>2, <3>1 DEF Pushed, Evicted
  <2>2. Tail(w) \in Seq(Int)
    BY <2>1, HeadTailProperties
  <2>3. SumOf(Append(Tail(w), x)) = SumOf(Tail(w)) + x
    BY <2>2, SumAppend
  <2>4. SumOf(w) = Head(w) + SumOf(Tail(w)) /\ Head(w) \in Int /\ SumOf(Tail(w)) \in Int
    BY <2>1, SumTail
  <2> QED
    BY <2>1, <2>3, <2>4
<1> QED
  BY <1>1, <1>2

\* The squares of a window are the window of the squares.
LEMMA SquaresPushed ==
    ASSUME NEW w \in Seq(Int), NEW x \in Int, NEW n \in Nat \ {0}
    PROVE  /\ Squares(w) \in Seq(Int) /\ Len(Squares(w)) = Len(w)
           /\ Squares(Pushed(w, x, n)) = Pushed(Squares(w), x * x, n)
           /\ Evicted(Squares(w), n) = Evicted(w, n) * Evicted(w, n)
<1>1. \A v \in Seq(Int) : /\ Squares(v) \in Seq(Int) /\ Len(Squares(v)) = Len(v)
                          /\ \A i \in 1..Len(v) : Squares(v)[i] = v[i] * v[i]
  <2> TAKE v \in Seq(Int)
  <2>1. Len(v) \in Nat /\ DOMAIN v = 1..Len(v) /\ \A i \in 1..Len(v) : v[i] \in Int
    BY LenProperties, ElementOfSeq
  <2>2. \A i \in 1..Len(v) : v[i] * v[i] \in Int
    BY <2>1
  <2> QED
    BY <2>1, <2>2 DEF Squares
<1>2. ASSUME NEW v \in Seq(Int) PROVE Squares(Append(v, x)) = Append(Squares(v), x * x)
  <2>1. /\ Append(v, x) \in Seq(Int) /\ Len(Append(v, x)) = Len(v) + 1
        /\ Append(v, x)[Len(v) + 1] = x /\ \A i \in 1..Len(v) : Append(v, x)[i] = v[i]
    BY AppendProperties
  <2>2. x * x \in Int /\ Squares(v) \in Seq(Int) /\ Len(v) \in Nat
    BY <1>1, LenProperties
  <2>3. /\ Append(Squares(v), x * x) \in Seq(Int)
        /\ Len(Append(Squares(v), x * x)) = Len(v) + 1
        /\ Append(Squares(v), x * x)[Len(v) + 1] = x * x
        /\ \A i \in 1..Len(v) : Append(Squares(v), x * x)[i] = Squares(v)[i]
    BY <1>1, <2>2, AppendProperties
  <2>4. ASSUME NEW i \in 1..(Len(v) + 1)
        PROVE  Squares(Append(v, x))[i] = Append(Squares(v), x * x)[i]
    <3>1. Squares(Append(v, x))[i] = Append(v, x)[i] * Append(v, x)[i]
      BY <1>1, <2>1
    <3>2. CASE i = Len(v) + 1
      BY <2>1, <2>3, <3>1, <3>2
    <3>3. CASE i # Len(v) + 1
      <4>1. i \in 1..Len(v)
        BY <2>2, <3>3
      <4> QED
        BY <1>1, <2>1, <2>3, <3>1, <4>1
    <3> QED
      BY <3>2, <3>3
  <2>5. Squares(Append(v, x)) \in Seq(Int) /\ Len(Squares(Append(v, x))) = Len(v) + 1
    BY <1>1, <2>1
  <2> QED
    BY <2>3, <2>4, <2>5, SeqEqual
<1>3. Len(w) \in Nat
  BY LenProperties
<1>4. CASE Len(w) < n
  BY <1>1, <1>2, <1>4 DEF Pushed, Evicted
<1>5. CASE ~(Len(w) < n)
  <2>1. Len(<<>>) = 0 /\ 0 < n
    OBVIOUS
  <2>2. w # <<>> /\ Squares(w) # <<>> /\ 1 \in 1..Len(w)
    BY <1>1, <1>3, <1>5, <2>1
  <2>3. /\ Head(w) = w[1] /\ Tail(w) \in Seq(Int) /\ Len(Tail(w)) = Len(w) - 1
        /\ \A i \in 1..Len(Tail(w)) : Tail(w)[i] = w[i + 1]
    BY <2>2, HeadTailProperties
  <2>4. /\ Head(Squares(w)) = Squares(w)[1] /\ Tail(Squares(w)) \in Seq(Int)
        /\ Len(Tail(Squares(w))) = Len(w) - 1
        /\ \A i \in 1..Len(Tail(Squares(w))) : Tail(Squares(w))[i] = Squares(w)[i + 1]
    BY <1>1, <2>2, HeadTailProperties
  <2>5. Head(Squares(w)) = Head(w) * Head(w)
    BY <1>1, <2>2, <2>3, <2>4
  <2>6. ASSUME NEW i \in 1..(Len(w) - 1) PROVE Squares(Tail(w))[i] = Tail(Squares(w))[i]
    <3>1. i + 1 \in 1..Len(w)
      BY <1>3
    <3>2. Squares(Tail(w))[i] = Tail(w)[i] * Tail(w)[i]
      BY <1>1, <2>3
    <3> QED
      BY <1>1, <2>3, <2>4, <3>1, <3>2
  <2>7. Squares(Tail(w)) \in Seq(Int) /\ Len(Squares(Tail(w))) = Len(w) - 1
    BY <1>1, <2>3
  <2>8. Squares(Tail(w)) = Tail(Squares(w))
    BY <2>4, <2>6, <2>7, SeqEqual
  <2>9. Squares(Append(Tail(w), x)) = Append(Tail(Squares(w)), x * x)
    BY <1>2, <2>3, <2>8
  <2> QED
    BY <1>1, <1>5, <2>5, <2>9 DEF Pushed, Evicted
<1> QED
  BY <1>1, <1>4, <1>5

-----------------------------------------------------------------------------
(* One bar more in what the bars call for *)

\* A function on the first n numbers.
Numbered(f, n) == f = [k \in 1..n |-> f[k]]

\* Such a function goes on by one.
LEMMA OneMore ==
    ASSUME NEW n \in Nat, NEW f, NEW g, Numbered(f, n), Numbered(g, n + 1),
           \A k \in 1..n : g[k] = f[k]
    PROVE  g = f \o <<g[n + 1]>>
<1> DEFINE V == {f[k] : k \in 1..n} \cup {g[n + 1]}
           e == <<g[n + 1]>>
<1>1. \A k \in 1..n : f[k] \in V
  OBVIOUS
<1>2. \A k \in 1..(n + 1) : g[k] \in V
  <2>1. \A k \in 1..(n + 1) : k = n + 1 \/ k \in 1..n
    OBVIOUS
  <2> QED
    BY <1>1, <2>1
<1>3. g[n + 1] \in V
  OBVIOUS
<1> HIDE DEF V
<1>4. f \in Seq(V) /\ Len(f) = n
  <2>1. f \in [1..n -> V]
    BY <1>1 DEF Numbered
  <2> QED
    BY <2>1
<1>5. g \in Seq(V) /\ Len(g) = n + 1
  <2>1. g \in [1..(n + 1) -> V]
    BY <1>2 DEF Numbered
  <2> QED
    BY <2>1
<1>6. e \in Seq(V) /\ Len(e) = 1 /\ e[1] = g[n + 1]
  BY <1>3
<1> HIDE DEF e
<1>7. /\ f \o e \in Seq(V) /\ Len(f \o e) = n + 1
      /\ \A i \in 1..(n + 1) : (f \o e)[i] = IF i <= n THEN f[i] ELSE e[i - n]
  <2>1. /\ f \o e \in Seq(V) /\ Len(f \o e) = Len(f) + Len(e)
        /\ \A i \in 1..(Len(f) + Len(e)) :
             (f \o e)[i] = IF i <= Len(f) THEN f[i] ELSE e[i - Len(f)]
    BY <1>4, <1>6, ConcatProperties
  <2> QED
    BY <1>4, <1>6, <2>1
<1>8. ASSUME NEW i \in 1..(n + 1) PROVE g[i] = (f \o e)[i]
  <2>1. CASE i <= n
    <3>1. i \in 1..n
      BY <2>1
    <3> QED
      BY <1>7, <2>1, <3>1
  <2>2. CASE ~(i <= n)
    <3>1. i = n + 1 /\ i - n = 1
      BY <2>2
    <3> QED
      BY <1>6, <1>7, <2>2, <3>1
  <2> QED
    BY <2>1, <2>2
<1>9. g = f \o e
  BY <1>5, <1>7, <1>8, SeqEqual
<1> QED
  BY <1>9 DEF e

\* An average of the last bars there are.
LEMMA MeanKept ==
    ASSUME NEW C, NEW s \in Seq(C), NEW x \in C, NEW n \in Nat \ {0}, NEW i \in 0..Len(s)
    PROVE  MeanAt(Append(s, x), i, n) = MeanAt(s, i, n)
BY RecentKept, Zenon DEF MeanAt

\* The signals of the crossing averages up to a bar are not touched by the next one.
LEMMA SmaExpectedMore ==
    ASSUME NEW s \in Seq(Closes), NEW x \in Closes
    PROVE  SmaExpected(Append(s, x)) =
             IF Len(s) + 1 >= slow_period
             THEN SmaExpected(s) \o
                    <<Cross(Above(s, Len(s)), MeanAt(Append(s, x), Len(s) + 1, fast_period),
                            MeanAt(Append(s, x), Len(s) + 1, slow_period))>>
             ELSE SmaExpected(s)
<1> DEFINE t == Append(s, x)
           l == Len(s)
           At(z, k) == Cross(Above(z, (k + slow_period - 1) - 1),
                             MeanAt(z, k + slow_period - 1, fast_period),
                             MeanAt(z, k + slow_period - 1, slow_period))
<1>1. Len(t) = l + 1 /\ l \in Nat
  BY AppendProperties, LenProperties
<1>2. fast_period \in Nat \ {0} /\ slow_period \in Nat \ {0}
  BY StrategyAssumption
<1>3. /\ SmaExpected(s) = [k \in 1..(l - slow_period + 1) |-> At(s, k)]
      /\ SmaExpected(t) = [k \in 1..(l + 1 - slow_period + 1) |-> At(t, k)]
  <2>1. /\ SmaExpected(s) = [k \in 1..(Len(s) - slow_period + 1) |-> At(s, k)]
        /\ SmaExpected(t) = [k \in 1..(Len(t) - slow_period + 1) |-> At(t, k)]
    BY Zenon DEF SmaExpected
  <2>3. l = Len(s)
    OBVIOUS
  <2> HIDE DEF At, t, l
  <2>2. 1..(Len(t) - slow_period + 1) = 1..(l + 1 - slow_period + 1)
    BY <1>1, <1>2
  <2> QED
    BY <2>1, <2>2, <2>3, Zenon
<1> HIDE DEF t, l
<1>4. ASSUME NEW i \in 0..l
      PROVE  /\ MeanAt(t, i, fast_period) = MeanAt(s, i, fast_period)
             /\ MeanAt(t, i, slow_period) = MeanAt(s, i, slow_period)
             /\ Above(t, i) = Above(s, i)
  <2>1. /\ MeanAt(t, i, fast_period) = MeanAt(s, i, fast_period)
        /\ MeanAt(t, i, slow_period) = MeanAt(s, i, slow_period)
    BY <1>2, MeanKept DEF t, l
  <2> QED
    BY <2>1, Zenon DEF Above
<1>5. \A k \in 1..(l - slow_period + 1) : At(t, k) = At(s, k)
  <2> TAKE k \in 1..(l - slow_period + 1)
  <2>1. k + slow_period - 1 \in 0..l /\ (k + slow_period - 1) - 1 \in 0..l
    BY <1>1, <1>2
  <2> QED
    BY <1>4, <2>1
<1>6. CASE l + 1 >= slow_period
  <2> DEFINE n == l - slow_period + 1
  <2>1. /\ n \in Nat /\ l + 1 - slow_period + 1 = n + 1
        /\ n + 1 + slow_period - 1 = l + 1 /\ (n + 1 + slow_period - 1) - 1 = l
    BY <1>1, <1>2, <1>6
  <2>2. l \in 0..l
    BY <1>1
  <2>3. At(t, n + 1) = Cross(Above(s, l), MeanAt(t, l + 1, fast_period),
                             MeanAt(t, l + 1, slow_period))
    BY <1>4, <2>1, <2>2
  <2> HIDE DEF n
  <2> DEFINE f == SmaExpected(s)
             g == SmaExpected(t)
  <2>4. Numbered(f, n) /\ \A k \in 1..n : f[k] = At(s, k)
    BY <1>3 DEF n, Numbered
  <2>5. Numbered(g, n + 1) /\ \A k \in 1..(n + 1) : g[k] = At(t, k)
    BY <1>3, <2>1 DEF Numbered
  <2>6. \A k \in 1..n : g[k] = f[k]
    <3>1. \A k \in 1..n : k \in 1..(n + 1)
      BY <2>1
    <3>2. \A k \in 1..n : At(t, k) = At(s, k)
      BY <1>5 DEF n
    <3> HIDE DEF f, g, At
    <3> QED
      BY <2>4, <2>5, <3>1, <3>2
  <2>7. g[n + 1] = At(t, n + 1)
    <3>1. n + 1 \in 1..(n + 1)
      BY <2>1
    <3> QED
      BY <2>5, <3>1
  <2>8. g = f \o <<g[n + 1]>>
    <3> HIDE DEF f, g
    <3> QED
      BY <2>1, <2>4, <2>5, <2>6, OneMore
  <2> HIDE DEF At
  <2> QED
    BY <1>6, <2>3, <2>7, <2>8 DEF t, l
<1>7. CASE ~(l + 1 >= slow_period)
  <2>1. 1..(l - slow_period + 1) = {} /\ 1..(l + 1 - slow_period + 1) = {}
    BY <1>1, <1>2, <1>7
  <2> HIDE DEF At
  <2>2. SmaExpected(t) = SmaExpected(s)
    BY <1>3, <2>1
  <2> QED
    BY <1>7, <2>2 DEF t, l
<1> QED
  BY <1>6, <1>7

\* The first n smoothed rates.
RatesTo(g, s, n) ==
    g = [k \in 1..n |-> IF k = 1 \/ ~(ema_alpha.n > 0) THEN RateAt(s, k)
                                                       ELSE Smoothed(RateAt(s, k), g[k - 1])]

\* One of them.
LEMMA RateOf ==
    ASSUME NEW s, NEW n \in Nat, NEW g, RatesTo(g, s, n), NEW k \in 1..n
    PROVE  g[k] = IF k = 1 \/ ~(ema_alpha.n > 0) THEN RateAt(s, k)
                                                 ELSE Smoothed(RateAt(s, k), g[k - 1])
BY Zenon DEF RatesTo

\* There are such rates.
LEMMA RatesExist == ASSUME NEW s, NEW n \in Nat PROVE \E g : RatesTo(g, s, n)
<1> DEFINE Bad == {i \in Nat : ~\E g : RatesTo(g, s, i)}
<1>1. 0 \notin Bad
  <2> DEFINE g == [k \in 1..0 |-> k]
  <2>1. RatesTo(g, s, 0)
    <3>1. 1..0 = {}
      OBVIOUS
    <3> QED
      BY <3>1 DEF RatesTo
  <2> QED
    BY <2>1
<1>2. ASSUME NEW i \in Nat, i \notin Bad PROVE i + 1 \notin Bad
  <2>1. PICK g : RatesTo(g, s, i)
    BY <1>2
  <2> DEFINE R(k, old) == IF k = 1 \/ ~(ema_alpha.n > 0) THEN RateAt(s, k)
                                                         ELSE Smoothed(RateAt(s, k), old)
             h == [k \in 1..(i + 1) |-> IF k = i + 1 THEN R(k, g[i]) ELSE g[k]]
  <2>2. \A k \in 1..i : g[k] = R(k, g[k - 1])
    BY <2>1, Zenon DEF RatesTo
  <2> HIDE DEF R
  <2>3. ASSUME NEW k \in 1..(i + 1) PROVE h[k] = R(k, h[k - 1])
    <3>1. CASE k = 1 /\ i = 0
      <4>1. \A a, b : R(1, a) = R(1, b)
        BY Zenon DEF R
      <4>2. h[k] = R(1, g[i])
        BY <3>1
      <4> HIDE DEF h
      <4> QED
        BY <3>1, <4>1, <4>2
    <3>2. CASE k = 1 /\ i # 0
      <4>1. \A a, b : R(1, a) = R(1, b)
        BY Zenon DEF R
      <4>2. k \in 1..i /\ h[k] = g[1]
        BY <3>2
      <4>3. g[1] = R(1, g[1 - 1])
        BY <2>2, <3>2, <4>2
      <4> HIDE DEF h
      <4> QED
        BY <3>2, <4>1, <4>2, <4>3
    <3>3. CASE k # 1 /\ k = i + 1
      <4>1. k - 1 \in 1..(i + 1) /\ k - 1 # i + 1 /\ k - 1 = i
        BY <3>3
      <4> QED
        BY <3>3, <4>1
    <3>4. CASE k # 1 /\ k # i + 1
      <4>1. k - 1 \in 1..(i + 1) /\ k - 1 # i + 1 /\ k \in 1..i
        BY <3>4
      <4> QED
        BY <2>2, <3>4, <4>1
    <3> QED
      BY <3>1, <3>2, <3>3, <3>4
  <2>4. RatesTo(h, s, i + 1)
    <3>1. h = [k \in 1..(i + 1) |-> h[k]]
      OBVIOUS
    <3> HIDE DEF h
    <3>2. h = [k \in 1..(i + 1) |-> R(k, h[k - 1])]
      BY <2>3, <3>1
    <3> QED
      BY <3>2, Zenon DEF RatesTo, R
  <2> HIDE DEF h
  <2> QED
    BY <2>4
<1> HIDE DEF Bad
<1>3. Bad = {}
  <2>1. Bad \subseteq Nat
    BY DEF Bad
  <2> QED
    BY <1>1, <1>2, <2>1, NoLeastExample
<1> QED
  BY <1>3 DEF Bad

\* The first n rates of s and t are the same.
SameRates(s, t, n) == \A k \in 1..n : RateAt(s, k) = RateAt(t, k)

\* The same bars have the same rates, more bars may follow.
LEMMA RatesAgree ==
    ASSUME NEW s, NEW t, NEW n \in Nat, NEW m \in Nat, n <= m, NEW g, NEW h,
           RatesTo(g, s, n), RatesTo(h, t, m), SameRates(s, t, n)
    PROVE  \A k \in 1..n : g[k] = h[k]
<1> DEFINE Bad == {k \in Nat : k \in 1..n /\ g[k] # h[k]}
<1>1. 0 \notin Bad
  OBVIOUS
<1>2. ASSUME NEW k \in Nat, k \notin Bad PROVE k + 1 \notin Bad
  <2> SUFFICES ASSUME k + 1 \in 1..n PROVE g[k + 1] = h[k + 1]
    OBVIOUS
  <2> DEFINE j == k + 1
  <2>1. j \in 1..n /\ j \in 1..m /\ j - 1 = k /\ (j # 1 => k \in 1..n)
    OBVIOUS
  <2>2. j # 1 => g[j - 1] = h[j - 1]
    BY <1>2, <2>1
  <2> HIDE DEF j
  <2>3. RateAt(s, j) = RateAt(t, j)
    BY <2>1 DEF SameRates
  <2>4. g[j] = IF j = 1 \/ ~(ema_alpha.n > 0) THEN RateAt(s, j)
                                              ELSE Smoothed(RateAt(s, j), g[j - 1])
    BY <2>1, RateOf
  <2>5. h[j] = IF j = 1 \/ ~(ema_alpha.n > 0) THEN RateAt(t, j)
                                              ELSE Smoothed(RateAt(t, j), h[j - 1])
    BY <2>1, RateOf
  <2>6. g[j] = h[j]
    BY <2>2, <2>3, <2>4, <2>5, Zenon
  <2> QED
    BY <2>6 DEF j
<1> HIDE DEF Bad
<1>3. Bad = {}
  <2>1. Bad \subseteq Nat
    BY DEF Bad
  <2> QED
    BY <1>1, <1>2, <2>1, NoLeastExample
<1> QED
  BY <1>3 DEF Bad

\* The rates that MomentumExpected uses.
LEMMA SmoothedRatesAre ==
    ASSUME NEW s, Len(s) - roc_lookback \in Nat
    PROVE  RatesTo(SmoothedRates(s), s, Len(s) - roc_lookback)
<1> DEFINE n == Len(s) - roc_lookback
<1>1. \E g : RatesTo(g, s, n)
  BY RatesExist
<1>2. SmoothedRates(s) = CHOOSE g : RatesTo(g, s, n)
  BY Zenon DEF SmoothedRates, RatesTo
<1> HIDE DEF n
<1>3. RatesTo(SmoothedRates(s), s, n)
  BY <1>1, <1>2, Zenon
<1> QED
  BY <1>3 DEF n

\* The rate at a bar is smoothed with the one before it.
LEMMA SmoothedRatesMore ==
    ASSUME NEW s \in Seq(Closes), NEW x \in Closes, NEW n \in Nat, n = Len(s) - roc_lookback
    PROVE  /\ \A k \in 1..n : SmoothedRates(Append(s, x))[k] = SmoothedRates(s)[k]
           /\ SmoothedRates(Append(s, x))[n + 1] =
                IF n + 1 = 1 \/ ~(ema_alpha.n > 0) THEN RateAt(Append(s, x), n + 1)
                ELSE Smoothed(RateAt(Append(s, x), n + 1), SmoothedRates(s)[n])
<1> DEFINE t == Append(s, x)
           g == SmoothedRates(s)
           h == SmoothedRates(t)
<1>1. /\ Len(t) = Len(s) + 1 /\ Len(s) \in Nat /\ \A i \in 1..Len(s) : t[i] = s[i]
      /\ roc_lookback \in Nat \ {0}
  BY AppendProperties, LenProperties, StrategyAssumption
<1> HIDE DEF t
<1>2. RatesTo(g, s, n) /\ RatesTo(h, t, n + 1)
  <2>1. Len(t) - roc_lookback = n + 1 /\ n + 1 \in Nat
    BY <1>1
  <2> QED
    BY <2>1, SmoothedRatesAre
<1>3. SameRates(s, t, n)
  <2> SUFFICES ASSUME NEW k \in 1..n PROVE RateAt(s, k) = RateAt(t, k)
    BY DEF SameRates
  <2>1. k \in 1..Len(s) /\ k + roc_lookback \in 1..Len(s)
    BY <1>1
  <2> QED
    BY <1>1, <2>1 DEF RateAt
<1> HIDE DEF g, h
<1>4. \A k \in 1..n : g[k] = h[k]
  <2>1. n + 1 \in Nat /\ n <= n + 1
    OBVIOUS
  <2> QED
    BY <1>2, <1>3, <2>1, RatesAgree
<1>5. h[n + 1] = IF n + 1 = 1 \/ ~(ema_alpha.n > 0) THEN RateAt(t, n + 1)
                 ELSE Smoothed(RateAt(t, n + 1), h[n + 1 - 1])
  <2>1. n + 1 \in Nat /\ n + 1 \in 1..(n + 1)
    OBVIOUS
  <2> QED
    BY <1>2, <2>1, RateOf
<1>6. n + 1 # 1 => h[n + 1 - 1] = g[n]
  <2> HAVE n + 1 # 1
  <2>1. n \in 1..n /\ n + 1 - 1 = n
    OBVIOUS
  <2> QED
    BY <1>4, <2>1
<1>7. h[n + 1] = IF n + 1 = 1 \/ ~(ema_alpha.n > 0) THEN RateAt(t, n + 1)
                 ELSE Smoothed(RateAt(t, n + 1), g[n])
  BY <1>5, <1>6, Zenon
<1> QED
  BY <1>4, <1>7 DEF t, g, h

\* The signals of the momentum up to a bar are not touched by the next one.
LEMMA MomentumExpectedMore ==
    ASSUME NEW s \in Seq(Closes), NEW x \in Closes
    PROVE  MomentumExpected(Append(s, x)) =
             IF Len(s) >= roc_lookback
             THEN MomentumExpected(s) \o
                    <<RocSignal(SmoothedRates(Append(s, x))[Len(s) - roc_lookback + 1])>>
             ELSE MomentumExpected(s)
<1> DEFINE t == Append(s, x)
           l == Len(s)
           n == l - roc_lookback
           f == MomentumExpected(s)
           g == MomentumExpected(t)
<1>1. Len(t) = l + 1 /\ l \in Nat /\ roc_lookback \in Nat
  BY AppendProperties, LenProperties, StrategyAssumption
<1>2. n \in Int /\ Len(t) - roc_lookback = n + 1
  <2> HIDE DEF t, l
  <2> QED
    BY <1>1
<1>3. f = [k \in 1..n |-> RocSignal(SmoothedRates(s)[k])]
  BY Zenon DEF MomentumExpected
<1>4. g = [k \in 1..(n + 1) |-> RocSignal(SmoothedRates(t)[k])]
  <2>1. g = [k \in 1..(Len(t) - roc_lookback) |-> RocSignal(SmoothedRates(t)[k])]
    BY Zenon DEF MomentumExpected
  <2> HIDE DEF t, g, n, l
  <2> QED
    BY <1>2, <2>1, Zenon
<1> HIDE DEF f, g
<1>5. CASE l >= roc_lookback
  <2>1. n \in Nat
    BY <1>1, <1>5
  <2>2. \A k \in 1..n : SmoothedRates(t)[k] = SmoothedRates(s)[k]
    BY <2>1, SmoothedRatesMore
  <2> HIDE DEF n, t, l
  <2>3. Numbered(f, n) /\ Numbered(g, n + 1)
    BY <1>3, <1>4 DEF Numbered
  <2>4. \A k \in 1..n : g[k] = f[k]
    <3> TAKE k \in 1..n
    <3>1. k \in 1..(n + 1)
      BY <2>1
    <3> QED
      BY <1>3, <1>4, <2>2, <3>1
  <2>5. g = f \o <<g[n + 1]>>
    BY <2>1, <2>3, <2>4, OneMore
  <2>6. g[n + 1] = RocSignal(SmoothedRates(t)[n + 1])
    <3>1. n + 1 \in 1..(n + 1)
      BY <2>1
    <3> QED
      BY <1>4, <3>1
  <2> QED
    BY <1>5, <2>5, <2>6 DEF f, g, t, l, n
<1>6. CASE ~(l >= roc_lookback)
  <2>1. 1..n = {} /\ 1..(n + 1) = {}
    BY <1>1, <1>6
  <2> HIDE DEF n, t, l
  <2>2. g = f
    BY <1>3, <1>4, <2>1
  <2> QED
    BY <1>6, <2>2 DEF f, g, t, l
<1> QED
  BY <1>5, <1>6

\* The first n sequences, one behind the other.
FlatTo(g, seqs, n) == g = [i \in 1..n |-> IF i = 1 THEN seqs[i] ELSE g[i - 1] \o seqs[i]]

\* One of them.
LEMMA FlatOf ==
    ASSUME NEW seqs, NEW n \in Nat, NEW g, FlatTo(g, seqs, n), NEW k \in 1..n
    PROVE  g[k] = IF k = 1 THEN seqs[k] ELSE g[k - 1] \o seqs[k]
BY Zenon DEF FlatTo

\* They can be put one behind the other.
LEMMA FlatExists ==
    ASSUME NEW V, NEW seqs \in Seq(Seq(V)), NEW n \in 1..Len(seqs)
    PROVE  \E g : FlatTo(g, seqs, n) /\ \A i \in 1..n : g[i] \in Seq(V)
<1> DEFINE Flat(g, i) == FlatTo(g, seqs, i) /\ \A k \in 1..i : g[k] \in Seq(V)
           Bad == {i \in Nat : i + 1 <= n /\ ~\E g : Flat(g, i + 1)}
<1>1. Len(seqs) \in Nat /\ \A k \in 1..Len(seqs) : seqs[k] \in Seq(V)
  BY LenProperties, ElementOfSeq
<1>2. 0 \notin Bad
  <2> DEFINE g == [i \in 1..1 |-> seqs[i]]
  <2>1. FlatTo(g, seqs, 1)
    <3>1. \A i \in 1..1 : i = 1
      OBVIOUS
    <3>2. g = [i \in 1..1 |-> IF i = 1 THEN seqs[i] ELSE g[i - 1] \o seqs[i]]
      BY <3>1
    <3> QED
      BY <3>2 DEF FlatTo
  <2>2. \A k \in 1..1 : g[k] \in Seq(V)
    BY <1>1
  <2>3. \E q : Flat(q, 1)
    <3> HIDE DEF g
    <3> QED
      BY <2>1, <2>2
  <2> HIDE DEF Flat
  <2> QED
    BY <2>3
<1>3. ASSUME NEW i \in Nat, i \notin Bad PROVE i + 1 \notin Bad
  <2> SUFFICES ASSUME i + 1 + 1 <= n PROVE \E g : Flat(g, i + 1 + 1)
    OBVIOUS
  <2> DEFINE m == i + 1
  <2>1. m \in Nat \ {0} /\ m + 1 <= n /\ m + 1 \in 1..Len(seqs) /\ m \in 1..m
    BY <1>1
  <2>2. PICK g : Flat(g, m)
    BY <1>3
  <2> HIDE DEF m
  <2> DEFINE h == [k \in 1..(m + 1) |-> IF k = m + 1 THEN g[m] \o seqs[k] ELSE g[k]]
  <2>3. \A k \in 1..m : g[k] = IF k = 1 THEN seqs[k] ELSE g[k - 1] \o seqs[k]
    BY <2>2, Zenon DEF FlatTo
  <2>4. \A k \in 1..m : k \in 1..(m + 1) /\ h[k] = g[k]
    BY <2>1
  <2>5. m + 1 \in 1..(m + 1) /\ h[m + 1] = g[m] \o seqs[m + 1]
    <3>1. m + 1 \in 1..(m + 1)
      BY <2>1
    <3> QED
      BY <3>1, Zenon
  <2>6. h = [k \in 1..(m + 1) |-> h[k]]
    OBVIOUS
  <2>7. \A k \in 1..(m + 1) : k = m + 1 \/ k \in 1..m
    BY <2>1
  <2> HIDE DEF h
  <2>8. ASSUME NEW k \in 1..(m + 1)
        PROVE  h[k] = IF k = 1 THEN seqs[k] ELSE h[k - 1] \o seqs[k]
    <3>1. CASE k = m + 1
      <4>1. k # 1 /\ k - 1 = m /\ h[m] = g[m]
        BY <2>1, <2>4, <3>1
      <4>2. h[k] = g[m] \o seqs[k]
        BY <2>5, <3>1
      <4>3. h[k] = h[k - 1] \o seqs[k]
        BY <4>1, <4>2
      <4> QED
        BY <4>1, <4>3, Zenon
    <3>2. CASE k = 1
      <4>1. k \in 1..m
        BY <2>1, <3>2
      <4> QED
        BY <2>3, <2>4, <3>2, <4>1, Zenon
    <3>3. CASE k # 1 /\ k # m + 1
      <4>1. k \in 1..m /\ k - 1 \in 1..m
        BY <2>1, <3>3
      <4>2. h[k] = g[k] /\ h[k - 1] = g[k - 1]
        BY <2>4, <4>1
      <4> QED
        BY <2>3, <3>3, <4>1, <4>2, Zenon
    <3> QED
      BY <3>1, <3>2, <3>3
  <2>9. FlatTo(h, seqs, m + 1)
    BY <2>6, <2>8, Zenon DEF FlatTo
  <2>10. ASSUME NEW k \in 1..(m + 1) PROVE h[k] \in Seq(V)
    <3>1. CASE k = m + 1
      <4>1. g[m] \in Seq(V) /\ seqs[m + 1] \in Seq(V)
        BY <1>1, <2>1, <2>2
      <4>2. g[m] \o seqs[m + 1] \in Seq(V)
        BY <4>1, ConcatProperties
      <4> QED
        BY <2>5, <3>1, <4>2
    <3>2. CASE k \in 1..m
      BY <2>2, <2>4, <3>2
    <3> QED
      BY <2>7, <3>1, <3>2
  <2> QED
    BY <2>9, <2>10 DEF m
<1> HIDE DEF Bad
<1>4. Bad = {}
  <2>1. Bad \subseteq Nat
    BY DEF Bad
  <2> QED
    BY <1>2, <1>3, <2>1, NoLeastExample
<1>5. n - 1 \in Nat /\ n - 1 + 1 = n /\ n - 1 + 1 <= n
  BY <1>1
<1> HIDE DEF Flat
<1>6. \E g : Flat(g, n - 1 + 1)
  <2>1. n - 1 \notin Bad
    BY <1>4
  <2> QED
    BY <1>5, <2>1 DEF Bad
<1> QED
  BY <1>5, <1>6 DEF Flat

\* The first n sequences are the same.
SameFirst(seqs, more, n) == \A k \in 1..n : seqs[k] = more[k]

\* The first sequences are put behind each other in one way.
LEMMA FlatAgree ==
    ASSUME NEW seqs, NEW more, NEW n \in Nat, NEW m \in Nat, n <= m, NEW g, NEW h,
           FlatTo(g, seqs, n), FlatTo(h, more, m), SameFirst(seqs, more, n)
    PROVE  \A k \in 1..n : g[k] = h[k]
<1> DEFINE Bad == {k \in Nat : k \in 1..n /\ g[k] # h[k]}
<1>1. 0 \notin Bad
  OBVIOUS
<1>2. ASSUME NEW k \in Nat, k \notin Bad PROVE k + 1 \notin Bad
  <2> SUFFICES ASSUME k + 1 \in 1..n PROVE g[k + 1] = h[k + 1]
    OBVIOUS
  <2> DEFINE j == k + 1
  <2>1. j \in 1..n /\ j \in 1..m /\ j - 1 = k /\ (j # 1 => k \in 1..n)
    OBVIOUS
  <2>2. j # 1 => g[j - 1] = h[j - 1]
    BY <1>2, <2>1
  <2> HIDE DEF j
  <2>3. seqs[j] = more[j]
    BY <2>1 DEF SameFirst
  <2>4. g[j] = IF j = 1 THEN seqs[j] ELSE g[j - 1] \o seqs[j]
    BY <2>1, FlatOf
  <2>5. h[j] = IF j = 1 THEN more[j] ELSE h[j - 1] \o more[j]
    BY <2>1, FlatOf
  <2>6. g[j] = h[j]
    BY <2>2, <2>3, <2>4, <2>5, Zenon
  <2> QED
    BY <2>6 DEF j
<1> HIDE DEF Bad
<1>3. Bad = {}
  <2>1. Bad \subseteq Nat
    BY DEF Bad
  <2> QED
    BY <1>1, <1>2, <2>1, NoLeastExample
<1> QED
  BY <1>3 DEF Bad

\* What FlattenSeq gives.
LEMMA FlattenIs ==
    ASSUME NEW V, NEW seqs \in Seq(Seq(V)), Len(seqs) # 0
    PROVE  \E g : /\ FlatTo(g, seqs, Len(seqs)) /\ \A i \in 1..Len(seqs) : g[i] \in Seq(V)
                  /\ FlattenSeq(seqs) = g[Len(seqs)]
<1> DEFINE n == Len(seqs)
           f == CHOOSE g : FlatTo(g, seqs, n)
<1>1. n \in Nat /\ n \in 1..n
  BY LenProperties
<1>2. FlattenSeq(seqs) = f[n]
  BY Zenon DEF FlattenSeq, FlatTo
<1>3. PICK g : FlatTo(g, seqs, n) /\ \A i \in 1..n : g[i] \in Seq(V)
  BY <1>1, FlatExists
<1>4. FlatTo(f, seqs, n)
  BY <1>3, Zenon
<1> HIDE DEF f
<1>5. \A k \in 1..n : f[k] = g[k]
  <2>1. n <= n /\ SameFirst(seqs, seqs, n)
    BY <1>1 DEF SameFirst
  <2> QED
    BY <1>1, <1>3, <1>4, <2>1, FlatAgree
<1>6. \A i \in 1..n : f[i] \in Seq(V)
  BY <1>3, <1>5
<1> QED
  BY <1>2, <1>4, <1>6

\* A sequence more is put behind the others.
LEMMA FlattenMore ==
    ASSUME NEW V, NEW seqs \in Seq(Seq(V)), NEW e \in Seq(V)
    PROVE  FlattenSeq(Append(seqs, e)) = FlattenSeq(seqs) \o e
<1> DEFINE more == Append(seqs, e)
           n == Len(seqs)
<1>1. /\ more \in Seq(Seq(V)) /\ Len(more) = n + 1 /\ n \in Nat
      /\ more[n + 1] = e /\ \A k \in 1..n : seqs[k] = more[k]
  BY AppendProperties, LenProperties
<1> HIDE DEF more
<1>2. PICK h : FlatTo(h, more, n + 1) /\ FlattenSeq(more) = h[n + 1]
  <2>1. Len(more) # 0
    BY <1>1
  <2>2. \E h : FlatTo(h, more, Len(more)) /\ FlattenSeq(more) = h[Len(more)]
    BY <1>1, <2>1, FlattenIs
  <2> QED
    BY <1>1, <2>2
<1>3. h[n + 1] = IF n + 1 = 1 THEN more[n + 1] ELSE h[n + 1 - 1] \o more[n + 1]
  <2> DEFINE m == n + 1
  <2>1. m \in 1..m /\ m \in Nat /\ FlatTo(h, more, m)
    BY <1>1, <1>2
  <2> HIDE DEF m
  <2>2. h[m] = IF m = 1 THEN more[m] ELSE h[m - 1] \o more[m]
    BY <2>1, FlatOf
  <2> QED
    BY <2>2 DEF m
<1>4. CASE n = 0
  <2>1. seqs = <<>>
    BY <1>4, EmptySeq
  <2>2. FlattenSeq(seqs) = <<>>
    BY <1>4, <2>1, Zenon DEF FlattenSeq, n
  <2>3. FlattenSeq(more) = e
    BY <1>1, <1>2, <1>3, <1>4
  <2>4. <<>> \o e = e
    BY ConcatEmptySeq
  <2> QED
    BY <2>2, <2>3, <2>4, Zenon DEF more
<1>5. CASE n # 0
  <2>1. PICK g : FlatTo(g, seqs, n) /\ FlattenSeq(seqs) = g[n]
    BY <1>5, FlattenIs
  <2>2. n + 1 # 1 /\ n + 1 - 1 = n /\ n \in 1..n /\ n + 1 \in Nat /\ n <= n + 1
    BY <1>1, <1>5
  <2>3. g[n] = h[n]
    <3> HIDE DEF n
    <3>1. SameFirst(seqs, more, n)
      BY <1>1 DEF SameFirst
    <3>2. \A k \in 1..n : g[k] = h[k]
      BY <1>1, <1>2, <2>1, <2>2, <3>1, FlatAgree
    <3> QED
      BY <2>2, <3>2
  <2> HIDE DEF n
  <2>4. h[n + 1] = h[n] \o e
    BY <1>1, <1>3, <2>2
  <2> QED
    BY <1>2, <2>1, <2>3, <2>4 DEF more
<1> QED
  BY <1>4, <1>5

\* The signals of a strategy.
Directions == {"Long", "Short", "Flat"}

\* What the mean reversion emits at a bar.
LEMMA ReversionAtType == ASSUME NEW s, NEW i PROVE ReversionAt(s, i) \in Seq(Directions)
<1>1. /\ <<"Short">> \in Seq(Directions) /\ <<"Long">> \in Seq(Directions)
      /\ <<"Flat">> \in Seq(Directions) /\ <<>> \in Seq(Directions)
  BY DEF Directions
<1>2. ASSUME NEW price, NEW n, NEW sum, NEW sum2
      PROVE  ZSignal(price, n, sum, sum2) \in {<<"Short">>, <<"Long">>, <<"Flat">>, <<>>}
  BY Zenon DEF ZSignal
<1> QED
  BY <1>1, <1>2 DEF ReversionAt

\* The signals of the mean reversion up to a bar are not touched by the next one.
LEMMA ReversionExpectedMore ==
    ASSUME NEW s \in Seq(Closes), NEW x \in Closes
    PROVE  ReversionExpected(Append(s, x)) =
             IF Len(s) + 1 >= z_lookback
             THEN ReversionExpected(s) \o ReversionAt(Append(s, x), Len(s) + 1)
             ELSE ReversionExpected(s)
<1> DEFINE t == Append(s, x)
           l == Len(s)
           n == l - z_lookback + 1
           At(z, k) == ReversionAt(z, k + z_lookback - 1)
           f == [k \in 1..n |-> At(s, k)]
           g == [k \in 1..(n + 1) |-> At(t, k)]
<1>1. /\ Len(t) = l + 1 /\ l \in Nat /\ z_lookback \in Nat \ {0}
      /\ \A i \in 1..l : t[i] = s[i]
  BY AppendProperties, LenProperties, StrategyAssumption
<1>2. ReversionExpected(s) = FlattenSeq(f) /\ ReversionExpected(t) = FlattenSeq(g)
  <2>1. ReversionExpected(t) = FlattenSeq([k \in 1..(Len(t) - z_lookback + 1) |-> At(t, k)])
    BY Zenon DEF ReversionExpected
  <2>2. ReversionExpected(s) = FlattenSeq(f)
    BY Zenon DEF ReversionExpected
  <2>3. 1..(Len(t) - z_lookback + 1) = 1..(n + 1)
    <3> HIDE DEF t, l
    <3> QED
      BY <1>1
  <2> HIDE DEF n, t, l, At
  <2>4. ReversionExpected(t) = FlattenSeq(g)
    BY <2>1, <2>3, Zenon
  <2> QED
    BY <2>2, <2>4
<1>3. \A z, k : At(z, k) \in Seq(Directions)
  BY ReversionAtType
<1>4. \A k \in 1..n : At(t, k) = At(s, k)
  <2> TAKE k \in 1..n
  <2> DEFINE i == k + z_lookback - 1
  <2>1. i \in 0..l /\ i \in 1..l
    <3> HIDE DEF l
    <3> QED
      BY <1>1
  <2> HIDE DEF i
  <2>2. t[i] = s[i]
    BY <1>1, <2>1
  <2>3. Recent(t, i, z_lookback) = Recent(s, i, z_lookback)
    BY <1>1, <2>1, RecentKept
  <2>4. ReversionAt(t, i) = ReversionAt(s, i)
    BY <2>2, <2>3, Zenon DEF ReversionAt
  <2> QED
    BY <2>4 DEF i
<1>5. At(t, n + 1) = ReversionAt(t, l + 1)
  <2>1. n + 1 + z_lookback - 1 = l + 1
    <3> HIDE DEF l
    <3> QED
      BY <1>1
  <2> HIDE DEF n, t
  <2> QED
    BY <2>1
<1> HIDE DEF t, At
<1>6. CASE l + 1 >= z_lookback
  <2>1. n \in Nat
    BY <1>1, <1>6
  <2> HIDE DEF n, l
  <2>2. Numbered(f, n) /\ Numbered(g, n + 1)
    BY DEF Numbered
  <2>3. \A k \in 1..n : g[k] = f[k]
    <3>1. \A k \in 1..n : k \in 1..(n + 1)
      BY <2>1
    <3> QED
      BY <1>4, <3>1
  <2>4. n + 1 \in 1..(n + 1) /\ g[n + 1] = At(t, n + 1)
    BY <2>1
  <2>5. f \in Seq(Seq(Directions))
    BY <1>3, <2>1
  <2> HIDE DEF f, g
  <2>6. g = f \o <<g[n + 1]>>
    BY <2>1, <2>2, <2>3, OneMore
  <2>7. g = Append(f, At(t, n + 1))
    BY <1>3, <2>4, <2>5, <2>6, AppendIsConcat
  <2>8. FlattenSeq(g) = FlattenSeq(f) \o At(t, n + 1)
    BY <1>3, <2>5, <2>7, FlattenMore
  <2> QED
    BY <1>2, <1>5, <1>6, <2>8 DEF t, l
<1>7. CASE ~(l + 1 >= z_lookback)
  <2>1. 1..n = {} /\ 1..(n + 1) = {}
    BY <1>1, <1>7
  <2> HIDE DEF n, l
  <2>2. f = g
    BY <2>1
  <2> HIDE DEF f, g
  <2> QED
    BY <1>2, <1>7, <2>2 DEF t, l
<1> QED
  BY <1>6, <1>7

-----------------------------------------------------------------------------
(* The strategies' state is what the bars since the last reset make it *)

SmaRecord(fw, sw, fs, ss, pf, ps) ==
    [fast_window |-> fw, slow_window |-> sw, fast_sum |-> fs, slow_sum |-> ss,
     prev_fast |-> pf, prev_slow |-> ps]

SmaOf(s) ==
    SmaRecord(Latest(s, fast_period), Latest(s, slow_period),
              SumOf(Latest(s, fast_period)), SumOf(Latest(s, slow_period)),
              MeanAt(s, Len(s), fast_period), MeanAt(s, Len(s), slow_period))

MomentumOf(s) ==
    [close_history |-> Latest(s, roc_lookback + 1),
     smoothed_roc  |-> IF Len(s) > roc_lookback THEN SmoothedRates(s)[Len(s) - roc_lookback]
                                                ELSE Frac(0, 1),
     ema_init      |-> Len(s) > roc_lookback /\ ema_alpha.n > 0]

ReversionOf(s) ==
    [window |-> Latest(s, z_lookback), sum |-> SumOf(Latest(s, z_lookback)),
     sum2   |-> SumOf(Squares(Latest(s, z_lookback)))]

SignalsOf(s) ==
    [sma |-> SmaExpected(s), momentum |-> MomentumExpected(s), reversion |-> ReversionExpected(s)]

\* The windows, sums, averages and rates are those of the bars since the last reset, and
\* so are the signals.
StrategyInv ==
    /\ closes    \in Seq(Closes)
    /\ sma       = SmaOf(closes)
    /\ momentum  = MomentumOf(closes)
    /\ reversion = ReversionOf(closes)
    /\ signals   = SignalsOf(closes)

\* A window slides with its sum.
LEMMA WindowSlides ==
    ASSUME NEW s \in Seq(Closes), NEW x \in Closes, NEW n \in Nat \ {0}
    PROVE  /\ Pushed(Latest(s, n), x, n) = Latest(Append(s, x), n)
           /\ SumOf(Latest(s, n)) + x - Evicted(Latest(s, n), n)
                = SumOf(Latest(Append(s, x), n))
           /\ SumOf(Squares(Latest(s, n))) + x * x
                - Evicted(Latest(s, n), n) * Evicted(Latest(s, n), n)
                = SumOf(Squares(Latest(Append(s, x), n)))
           /\ Len(Latest(Append(s, x), n)) >= n <=> Len(s) + 1 >= n
<1> DEFINE w == Latest(s, n)
           v == Latest(Append(s, x), n)
<1>1. x \in Int /\ x * x \in Int /\ Closes \subseteq Int
  BY StrategyAssumption
<1>2. w \in Seq(Int)
  <2>1. w \in Seq(Closes)
    BY LatestProperties
  <2> HIDE DEF w
  <2> QED
    BY <1>1, <2>1, SeqMonotonic
<1>3. v = Pushed(w, x, n)
  BY LatestPushed
<1>4. Len(v) = IF Len(s) + 1 < n THEN Len(s) + 1 ELSE n
  <2>1. Append(s, x) \in Seq(Closes) /\ Len(Append(s, x)) = Len(s) + 1
    BY AppendProperties
  <2>2. Len(v) = IF Len(Append(s, x)) < n THEN Len(Append(s, x)) ELSE n
    BY <2>1, LatestProperties
  <2> QED
    BY <2>1, <2>2, Zenon
<1>5. Len(s) \in Nat
  BY LenProperties
<1> HIDE DEF w, v
<1>6. SumOf(v) = SumOf(w) + x - Evicted(w, n)
  BY <1>1, <1>2, <1>3, SumPushed
<1>7. SumOf(Squares(v)) = SumOf(Squares(w)) + x * x - Evicted(w, n) * Evicted(w, n)
  <2>1. /\ Squares(w) \in Seq(Int) /\ Squares(v) = Pushed(Squares(w), x * x, n)
        /\ Evicted(Squares(w), n) = Evicted(w, n) * Evicted(w, n)
    BY <1>1, <1>2, <1>3, SquaresPushed
  <2>2. SumOf(Pushed(Squares(w), x * x, n)) =
          SumOf(Squares(w)) + x * x - Evicted(Squares(w), n)
    BY <1>1, <2>1, SumPushed
  <2> QED
    BY <2>1, <2>2, Zenon
<1>8. Len(v) >= n <=> Len(s) + 1 >= n
  BY <1>4, <1>5
<1> QED
  BY <1>3, <1>6, <1>7, <1>8 DEF w, v

\* Nothing comes of no bars.
LEMMA NoneExpected ==
    ASSUME NEW n \in Int, n <= 0, NEW f, Numbered(f, n)
    PROVE  f = <<>> /\ f \o <<>> = f
<1>1. 1..n = {} /\ 1..0 = {}
  OBVIOUS
<1>2. f \in [1..0 -> {}]
  BY <1>1 DEF Numbered
<1>3. f \in Seq({}) /\ Len(f) = 0
  BY <1>2
<1>4. f = <<>>
  BY <1>3, EmptySeq
<1> QED
  BY <1>3, <1>4, ConcatEmptySeq

\* A record with these parts is that state.
LEMMA SmaFields ==
    ASSUME NEW fw, NEW sw, NEW fs, NEW ss, NEW pf, NEW ps,
           NEW r \in [fast_window : {fw}, slow_window : {sw}, fast_sum : {fs}, slow_sum : {ss},
                      prev_fast : {pf}, prev_slow : {ps}]
    PROVE  r = SmaRecord(fw, sw, fs, ss, pf, ps)
BY DEF SmaRecord

\* What push leaves.
LEMMA SmaPushed ==
    ASSUME NEW fw, NEW sw, NEW fs, NEW ss, NEW pf, NEW ps, NEW price,
           NEW r, r = SmaRecord(fw, sw, fs, ss, pf, ps)
    PROVE  push(r, price) =
             SmaRecord(Pushed(fw, price, fast_period), Pushed(sw, price, slow_period),
                       fs + price - Evicted(fw, fast_period),
                       ss + price - Evicted(sw, slow_period), pf, ps)
<1>1. push(r, price) \in
        [fast_window : {Pushed(fw, price, fast_period)},
         slow_window : {Pushed(sw, price, slow_period)},
         fast_sum : {fs + price - Evicted(fw, fast_period)},
         slow_sum : {ss + price - Evicted(sw, slow_period)}, prev_fast : {pf}, prev_slow : {ps}]
  BY DEF push, SmaRecord
<1> QED
  BY <1>1, SmaFields

\* What on_bar leaves then.
LEMMA SmaAveraged ==
    ASSUME NEW fw, NEW sw, NEW fs, NEW ss, NEW pf, NEW ps,
           NEW r, r = SmaRecord(fw, sw, fs, ss, pf, ps)
    PROVE  SmaAfter(r) = SmaRecord(fw, sw, fs, ss, Average(fw, fs), Average(sw, ss))
<1>1. SmaAfter(r) \in
        [fast_window : {fw}, slow_window : {sw}, fast_sum : {fs}, slow_sum : {ss},
         prev_fast : {Average(fw, fs)}, prev_slow : {Average(sw, ss)}]
  BY DEF SmaAfter, SmaRecord, fast_sma, slow_sma
<1> QED
  BY <1>1, SmaFields

\* A bar moves the crossing averages to those of the bars and this one.
LEMMA SmaFollows ==
    ASSUME NEW s \in Seq(Closes), NEW x \in Closes
    PROVE  /\ SmaAfter(push(SmaOf(s), x)) = SmaOf(Append(s, x))
           /\ SmaExpected(s) \o SmaSignal(SmaOf(s), push(SmaOf(s), x))
                = SmaExpected(Append(s, x))
<1> DEFINE t == Append(s, x)
           pushed == push(SmaOf(s), x)
           l == Len(s)
<1>1. fast_period \in Nat \ {0} /\ slow_period \in Nat \ {0} /\ fast_period < slow_period
  BY StrategyAssumption
<1>2. Len(t) = l + 1 /\ l \in Nat
  BY AppendProperties, LenProperties
<1>3. pushed = SmaRecord(Latest(t, fast_period), Latest(t, slow_period),
                         SumOf(Latest(t, fast_period)), SumOf(Latest(t, slow_period)),
                         MeanAt(s, l, fast_period), MeanAt(s, l, slow_period))
  <2>1. ASSUME NEW n \in Nat \ {0}
        PROVE  /\ Pushed(Latest(s, n), x, n) = Latest(t, n)
               /\ SumOf(Latest(s, n)) + x - Evicted(Latest(s, n), n) = SumOf(Latest(t, n))
    BY WindowSlides
  <2>2. /\ Pushed(Latest(s, fast_period), x, fast_period) = Latest(t, fast_period)
        /\ SumOf(Latest(s, fast_period)) + x - Evicted(Latest(s, fast_period), fast_period)
             = SumOf(Latest(t, fast_period))
        /\ Pushed(Latest(s, slow_period), x, slow_period) = Latest(t, slow_period)
        /\ SumOf(Latest(s, slow_period)) + x - Evicted(Latest(s, slow_period), slow_period)
             = SumOf(Latest(t, slow_period))
    BY <1>1, <2>1
  <2>3. SmaOf(s) = SmaRecord(Latest(s, fast_period), Latest(s, slow_period),
                             SumOf(Latest(s, fast_period)), SumOf(Latest(s, slow_period)),
                             MeanAt(s, l, fast_period), MeanAt(s, l, slow_period))
    BY Zenon DEF SmaOf
  <2> HIDE DEF t, l
  <2>4. push(SmaOf(s), x) =
          SmaRecord(Pushed(Latest(s, fast_period), x, fast_period),
                    Pushed(Latest(s, slow_period), x, slow_period),
                    SumOf(Latest(s, fast_period)) + x - Evicted(Latest(s, fast_period), fast_period),
                    SumOf(Latest(s, slow_period)) + x - Evicted(Latest(s, slow_period), slow_period),
                    MeanAt(s, l, fast_period), MeanAt(s, l, slow_period))
    BY <2>3, SmaPushed
  <2> QED
    BY <2>2, <2>4, Zenon
<1>4. /\ Average(Latest(t, fast_period), SumOf(Latest(t, fast_period))) = MeanAt(t, l + 1, fast_period)
      /\ Average(Latest(t, slow_period), SumOf(Latest(t, slow_period))) = MeanAt(t, l + 1, slow_period)
  <2> HIDE DEF t, l
  <2>1. /\ Latest(t, fast_period) = Recent(t, l + 1, fast_period)
        /\ Latest(t, slow_period) = Recent(t, l + 1, slow_period)
    BY <1>2, Zenon DEF Latest
  <2> QED
    BY <2>1, Zenon DEF MeanAt
<1>5. SmaAfter(pushed) = SmaOf(t)
  <2> HIDE DEF t, l, pushed
  <2>1. SmaAfter(pushed) =
          SmaRecord(Latest(t, fast_period), Latest(t, slow_period),
                    SumOf(Latest(t, fast_period)), SumOf(Latest(t, slow_period)),
                    Average(Latest(t, fast_period), SumOf(Latest(t, fast_period))),
                    Average(Latest(t, slow_period), SumOf(Latest(t, slow_period))))
    BY <1>3, SmaAveraged
  <2> QED
    BY <1>2, <1>4, <2>1, Zenon DEF SmaOf
<1>6. /\ fast_sma(pushed) = MeanAt(t, l + 1, fast_period)
       /\ slow_sma(pushed) = MeanAt(t, l + 1, slow_period)
       /\ pushed.fast_window = Latest(t, fast_period)
       /\ pushed.slow_window = Latest(t, slow_period)
  <2> HIDE DEF t, l, pushed
  <2>1. /\ pushed.fast_window = Latest(t, fast_period)
        /\ pushed.fast_sum = SumOf(Latest(t, fast_period))
        /\ pushed.slow_window = Latest(t, slow_period)
        /\ pushed.slow_sum = SumOf(Latest(t, slow_period))
    BY <1>3 DEF SmaRecord
  <2> QED
    BY <1>4, <2>1, Zenon DEF fast_sma, slow_sma
<1>7. SmaWarm(pushed) <=> l + 1 >= slow_period
  <2>1. /\ Len(Latest(t, fast_period)) >= fast_period <=> l + 1 >= fast_period
        /\ Len(Latest(t, slow_period)) >= slow_period <=> l + 1 >= slow_period
    BY <1>1, WindowSlides
  <2> HIDE DEF t, l, pushed
  <2>2. SmaWarm(pushed) <=> l + 1 >= fast_period /\ l + 1 >= slow_period
    BY <1>6, <2>1 DEF SmaWarm
  <2> QED
    BY <1>1, <1>2, <2>2
<1>8. SmaOf(s).prev_fast = MeanAt(s, l, fast_period) /\ SmaOf(s).prev_slow = MeanAt(s, l, slow_period)
  BY DEF SmaOf, SmaRecord
<1>9. SmaExpected(t) =
        IF l + 1 >= slow_period
        THEN SmaExpected(s) \o <<Cross(Above(s, l), MeanAt(t, l + 1, fast_period),
                                       MeanAt(t, l + 1, slow_period))>>
        ELSE SmaExpected(s)
  BY SmaExpectedMore
<1>10. Above(s, l) = Less(SmaOf(s).prev_slow, SmaOf(s).prev_fast)
  BY <1>8, Zenon DEF Above
<1>11. ~(l + 1 >= slow_period) => SmaExpected(s) \o <<>> = SmaExpected(s)
  <2> HAVE ~(l + 1 >= slow_period)
  <2>1. l - slow_period + 1 \in Int /\ l - slow_period + 1 <= 0
    BY <1>1, <1>2
  <2>2. Numbered(SmaExpected(s), l - slow_period + 1)
    BY Zenon DEF SmaExpected, Numbered
  <2> QED
    BY <2>1, <2>2, NoneExpected
<1> HIDE DEF t, l, pushed
<1>12. SmaExpected(s) \o SmaSignal(SmaOf(s), pushed) = SmaExpected(t)
  <2>1. CASE l + 1 >= slow_period
    <3>1. SmaSignal(SmaOf(s), pushed) =
            <<Cross(Above(s, l), MeanAt(t, l + 1, fast_period), MeanAt(t, l + 1, slow_period))>>
      BY <1>6, <1>7, <1>10, <2>1, Zenon DEF SmaSignal
    <3> QED
      BY <1>9, <2>1, <3>1, Zenon
  <2>2. CASE ~(l + 1 >= slow_period)
    <3>1. SmaSignal(SmaOf(s), pushed) = <<>>
      BY <1>7, <2>2, Zenon DEF SmaSignal
    <3> QED
      BY <1>9, <1>11, <2>2, <3>1, Zenon
  <2> QED
    BY <2>1, <2>2
<1> QED
  BY <1>5, <1>12 DEF t, pushed

\* The state of MomentumStrategy after a bar.
LEMMA MomentumAssigned ==
    ASSUME NEW s \in Seq(Closes), NEW x \in Closes, NEW w,
           w = Pushed(MomentumOf(s).close_history, x, roc_lookback + 1),
           NEW roc, roc = RocOf(x, Head(w)),
           Len(w) >= roc_lookback + 1 => Head(w) # 0
    PROVE  MomentumAfter(MomentumOf(s), x) =
             IF Len(w) >= roc_lookback + 1
             THEN [close_history |-> w,
                   smoothed_roc  |-> IF ema_alpha.n > 0 /\ MomentumOf(s).ema_init
                                     THEN Smoothed(roc, MomentumOf(s).smoothed_roc) ELSE roc,
                   ema_init      |-> ema_alpha.n > 0]
             ELSE [close_history |-> w, smoothed_roc |-> MomentumOf(s).smoothed_roc,
                   ema_init |-> MomentumOf(s).ema_init]
<1> DEFINE m == MomentumOf(s)
           pushed == [m EXCEPT !.close_history = Pushed(@, x, roc_lookback + 1)]
           rate == IF ema_alpha.n > 0 /\ m.ema_init THEN Smoothed(roc, m.smoothed_roc) ELSE roc
           after == [pushed EXCEPT !.smoothed_roc = rate, !.ema_init = ema_alpha.n > 0]
<1>1. /\ m = [close_history |-> m.close_history, smoothed_roc |-> m.smoothed_roc,
              ema_init |-> m.ema_init]
  BY DEF MomentumOf
<1> HIDE DEF m
<1>2. pushed = [close_history |-> w, smoothed_roc |-> m.smoothed_roc, ema_init |-> m.ema_init]
  <2>1. pushed \in [close_history : {w}, smoothed_roc : {m.smoothed_roc}, ema_init : {m.ema_init}]
    BY <1>1 DEF m
  <2> HIDE DEF pushed
  <2> QED
    BY <2>1
<1>3. /\ pushed.close_history = w /\ pushed.smoothed_roc = m.smoothed_roc
      /\ pushed.ema_init = m.ema_init
  <2> HIDE DEF pushed
  <2> QED
    BY <1>2
<1>4. after = [close_history |-> w, smoothed_roc |-> rate, ema_init |-> ema_alpha.n > 0]
  <2> HIDE DEF pushed, rate
  <2>1. after \in [close_history : {w}, smoothed_roc : {rate}, ema_init : {ema_alpha.n > 0}]
    BY <1>2
  <2> HIDE DEF after
  <2> QED
    BY <2>1
<1>5. MomentumAfter(m, x) =
        LET rc == RocOf(x, Head(pushed.close_history))
        IN  IF ~(Len(pushed.close_history) >= roc_lookback + 1 /\ Head(pushed.close_history) # 0)
            THEN pushed
            ELSE [pushed EXCEPT !.smoothed_roc = IF ema_alpha.n > 0 /\ m.ema_init
                                                 THEN Smoothed(rc, @) ELSE rc,
                                !.ema_init = ema_alpha.n > 0]
  BY Zenon DEF MomentumAfter, HasRate, MomentumWarm
<1>6. MomentumAfter(m, x) = IF Len(w) >= roc_lookback + 1 THEN after ELSE pushed
  <2> HIDE DEF pushed
  <2> QED
    BY <1>3, <1>5, Zenon
<1> HIDE DEF pushed, after
<1>7. MomentumAfter(m, x) =
        IF Len(w) >= roc_lookback + 1
        THEN [close_history |-> w, smoothed_roc |-> rate, ema_init |-> ema_alpha.n > 0]
        ELSE [close_history |-> w, smoothed_roc |-> m.smoothed_roc, ema_init |-> m.ema_init]
  BY <1>2, <1>4, <1>6, Zenon
<1> QED
  BY <1>7, Zenon DEF m

\* A bar moves the smoothed rate of change to that of the bars and this one.
LEMMA MomentumFollows ==
    ASSUME NEW s \in Seq(Closes), NEW x \in Closes
    PROVE  /\ MomentumAfter(MomentumOf(s), x) = MomentumOf(Append(s, x))
           /\ MomentumExpected(s) \o MomentumSignal(MomentumOf(Append(s, x)))
                = MomentumExpected(Append(s, x))
<1> DEFINE t == Append(s, x)
           l == Len(s)
           n == l - roc_lookback
           w == Latest(t, roc_lookback + 1)
           roc == RocOf(x, Head(w))
<1>1. /\ t \in Seq(Closes) /\ Len(t) = l + 1 /\ l \in Nat /\ t[l + 1] = x
      /\ roc_lookback \in Nat \ {0}
  BY AppendProperties, LenProperties, StrategyAssumption
<1>2. w = Pushed(MomentumOf(s).close_history, x, roc_lookback + 1)
  <2>1. MomentumOf(s).close_history = Latest(s, roc_lookback + 1)
    BY DEF MomentumOf
  <2>2. roc_lookback + 1 \in Nat \ {0}
    BY <1>1
  <2>3. w = Pushed(Latest(s, roc_lookback + 1), x, roc_lookback + 1)
    BY <2>2, LatestPushed
  <2> QED
    BY <2>1, <2>3, Zenon
<1>3. Len(w) >= roc_lookback + 1 <=> l >= roc_lookback
  <2>1. roc_lookback + 1 \in Nat \ {0}
    BY <1>1
  <2>2. Len(w) >= roc_lookback + 1 <=> l + 1 >= roc_lookback + 1
    BY <2>1, WindowSlides
  <2> HIDE DEF t, l, w
  <2> QED
    BY <1>1, <2>2
<1>4. l >= roc_lookback => roc = RateAt(t, n + 1) /\ Head(w) # 0
  <2> HAVE l >= roc_lookback
  <2>1. roc_lookback + 1 \in Nat \ {0} /\ Len(t) >= roc_lookback + 1
    BY <1>1
  <2>2. Head(w) = t[Len(t) - (roc_lookback + 1) + 1]
    BY <1>1, <2>1, LatestProperties
  <2> HIDE DEF t, l, w
  <2>3. /\ Len(t) - (roc_lookback + 1) + 1 = n + 1 /\ n + 1 + roc_lookback = l + 1
        /\ n + 1 \in 1..Len(t)
    BY <1>1, <2>1
  <2> HIDE DEF n
  <2>4. t[n + 1] # 0
    BY <1>1, <2>3, StrategyAssumption
  <2> QED
    BY <1>1, <2>2, <2>3, <2>4 DEF RateAt
<1>5. /\ MomentumOf(s).smoothed_roc = IF l > roc_lookback THEN SmoothedRates(s)[n] ELSE Frac(0, 1)
      /\ MomentumOf(s).ema_init = (l > roc_lookback /\ ema_alpha.n > 0)
  BY DEF MomentumOf
<1>6. MomentumOf(t) =
        [close_history |-> w,
         smoothed_roc  |-> IF l >= roc_lookback THEN SmoothedRates(t)[n + 1] ELSE Frac(0, 1),
         ema_init      |-> l >= roc_lookback /\ ema_alpha.n > 0]
  <2> HIDE DEF t, l
  <2>1. (Len(t) > roc_lookback <=> l >= roc_lookback) /\ Len(t) - roc_lookback = n + 1
    BY <1>1
  <2> HIDE DEF n
  <2> QED
    BY <2>1 DEF MomentumOf
<1>7. MomentumAfter(MomentumOf(s), x) =
        IF Len(w) >= roc_lookback + 1
        THEN [close_history |-> w,
              smoothed_roc  |-> IF ema_alpha.n > 0 /\ MomentumOf(s).ema_init
                                THEN Smoothed(roc, MomentumOf(s).smoothed_roc) ELSE roc,
              ema_init      |-> ema_alpha.n > 0]
        ELSE [close_history |-> w, smoothed_roc |-> MomentumOf(s).smoothed_roc,
              ema_init |-> MomentumOf(s).ema_init]
  <2>1. roc = RocOf(x, Head(w))
    OBVIOUS
  <2> HIDE DEF w, roc, l
  <2>2. Len(w) >= roc_lookback + 1 => Head(w) # 0
    BY <1>3, <1>4
  <2> QED
    BY <1>2, <2>1, <2>2, MomentumAssigned
<1>8. l >= roc_lookback =>
        SmoothedRates(t)[n + 1] =
          IF ema_alpha.n > 0 /\ MomentumOf(s).ema_init
          THEN Smoothed(roc, MomentumOf(s).smoothed_roc) ELSE roc
  <2> HAVE l >= roc_lookback
  <2>1. n \in Nat /\ n = Len(s) - roc_lookback /\ (n + 1 = 1 <=> ~(l > roc_lookback))
    BY <1>1
  <2>2. SmoothedRates(t)[n + 1] = IF n + 1 = 1 \/ ~(ema_alpha.n > 0) THEN RateAt(t, n + 1)
                                  ELSE Smoothed(RateAt(t, n + 1), SmoothedRates(s)[n])
    <3> HIDE DEF n
    <3> QED
      BY <2>1, SmoothedRatesMore
  <2> HIDE DEF t, l, n, w, roc
  <2> QED
    BY <1>4, <1>5, <2>1, <2>2
<1> HIDE DEF t, l, n, w, roc
<1>9. MomentumAfter(MomentumOf(s), x) = MomentumOf(t)
  <2>1. CASE l >= roc_lookback
    BY <1>3, <1>6, <1>7, <1>8, <2>1
  <2>2. CASE ~(l >= roc_lookback)
    <3>1. ~(l > roc_lookback)
      BY <1>1, <2>2
    <3> QED
      BY <1>3, <1>5, <1>6, <1>7, <2>2, <3>1
  <2> QED
    BY <2>1, <2>2
<1>10. MomentumOf(t).close_history = w
       /\ (l >= roc_lookback => MomentumOf(t).smoothed_roc = SmoothedRates(t)[n + 1])
  BY <1>6
<1>11. MomentumSignal(MomentumOf(t)) =
         IF l >= roc_lookback THEN <<RocSignal(SmoothedRates(t)[n + 1])>> ELSE <<>>
  BY <1>3, <1>4, <1>10, Zenon DEF MomentumSignal, HasRate, MomentumWarm
<1>12. MomentumExpected(t) =
         IF l >= roc_lookback
         THEN MomentumExpected(s) \o <<RocSignal(SmoothedRates(t)[n + 1])>>
         ELSE MomentumExpected(s)
  BY MomentumExpectedMore DEF t, l, n
<1>13. ~(l >= roc_lookback) => MomentumExpected(s) \o <<>> = MomentumExpected(s)
  <2> HAVE ~(l >= roc_lookback)
  <2>1. n \in Int /\ n <= 0
    BY <1>1 DEF n
  <2>2. Numbered(MomentumExpected(s), n)
    BY Zenon DEF MomentumExpected, Numbered, n, l
  <2> QED
    BY <2>1, <2>2, NoneExpected
<1>14. MomentumExpected(s) \o MomentumSignal(MomentumOf(t)) = MomentumExpected(t)
  BY <1>11, <1>12, <1>13, Zenon
<1> QED
  BY <1>9, <1>14 DEF t

\* A bar moves the statistics of the window to those of the bars and this one.
LEMMA ReversionFollows ==
    ASSUME NEW s \in Seq(Closes), NEW x \in Closes
    PROVE  /\ update_stats(ReversionOf(s), x) = ReversionOf(Append(s, x))
           /\ ReversionExpected(s) \o ReversionSignal(ReversionOf(Append(s, x)))
                = ReversionExpected(Append(s, x))
<1> DEFINE t == Append(s, x)
           l == Len(s)
           w == Latest(t, z_lookback)
<1>1. /\ t \in Seq(Closes) /\ Len(t) = l + 1 /\ l \in Nat /\ t[l + 1] = x
      /\ z_lookback \in Nat \ {0}
  BY AppendProperties, LenProperties, StrategyAssumption
<1>2. /\ Pushed(Latest(s, z_lookback), x, z_lookback) = w
      /\ SumOf(Latest(s, z_lookback)) + x - Evicted(Latest(s, z_lookback), z_lookback) = SumOf(w)
      /\ SumOf(Squares(Latest(s, z_lookback))) + x * x
           - Evicted(Latest(s, z_lookback), z_lookback) * Evicted(Latest(s, z_lookback), z_lookback)
           = SumOf(Squares(w))
      /\ Len(w) >= z_lookback <=> l + 1 >= z_lookback
  BY <1>1, WindowSlides
<1>3. update_stats(ReversionOf(s), x) = ReversionOf(t)
  <2> HIDE DEF t, l
  <2>1. /\ ReversionOf(s).window = Latest(s, z_lookback)
        /\ ReversionOf(s).sum = SumOf(Latest(s, z_lookback))
        /\ ReversionOf(s).sum2 = SumOf(Squares(Latest(s, z_lookback)))
    BY DEF ReversionOf
  <2> HIDE DEF w
  <2>2. update_stats(ReversionOf(s), x) =
          [window |-> w, sum |-> SumOf(w), sum2 |-> SumOf(Squares(w))]
    BY <1>2, <2>1, Zenon DEF update_stats
  <2> QED
    BY <2>2, Zenon DEF ReversionOf, w
<1>4. l + 1 >= z_lookback => ReversionSignal(ReversionOf(t)) = ReversionAt(t, l + 1)
  <2> HAVE l + 1 >= z_lookback
  <2>1. Len(t) >= z_lookback /\ Len(t) >= 1
    <3> HIDE DEF t, l
    <3> QED
      BY <1>1
  <2>2. Len(w) = z_lookback /\ Last(w) = t[Len(t)]
    <3>1. /\ Len(w) = IF Len(t) < z_lookback THEN Len(t) ELSE z_lookback
          /\ Len(t) >= 1 => Last(w) = t[Len(t)]
      BY <1>1, LatestProperties
    <3> HIDE DEF t, l, w
    <3> QED
      BY <1>1, <2>1, <3>1
  <2>3. w = Recent(t, l + 1, z_lookback)
    <3> HIDE DEF t, l
    <3> QED
      BY <1>1, Zenon DEF Latest
  <2> HIDE DEF t, l
  <2>4. /\ ReversionOf(t).window = w /\ ReversionOf(t).sum = SumOf(w)
        /\ ReversionOf(t).sum2 = SumOf(Squares(w))
    BY DEF ReversionOf
  <2> HIDE DEF w
  <2>5. ReversionSignal(ReversionOf(t)) =
          ZSignal(t[l + 1], z_lookback, SumOf(w), SumOf(Squares(w)))
    <3>1. z_lookback >= z_lookback
      BY <1>1
    <3> QED
      BY <1>1, <2>2, <2>4, <3>1, Zenon DEF ReversionSignal
  <2> QED
    BY <2>3, <2>5, Zenon DEF ReversionAt
<1>5. ReversionExpected(t) = IF l + 1 >= z_lookback
                             THEN ReversionExpected(s) \o ReversionAt(t, l + 1)
                             ELSE ReversionExpected(s)
  BY ReversionExpectedMore
<1>6. ~(l + 1 >= z_lookback) => /\ ReversionSignal(ReversionOf(t)) = <<>>
                                /\ ReversionExpected(s) \o <<>> = ReversionExpected(s)
  <2> HAVE ~(l + 1 >= z_lookback)
  <2>1. ReversionOf(t).window = w
    BY DEF ReversionOf
  <2> HIDE DEF w
  <2>2. ReversionSignal(ReversionOf(t)) = <<>>
    BY <1>2, <2>1, Zenon DEF ReversionSignal
  <2> DEFINE n == l - z_lookback + 1
             f == [k \in 1..n |-> ReversionAt(s, k + z_lookback - 1)]
  <2>3. n \in Int /\ n <= 0
    <3> HIDE DEF t, l
    <3> QED
      BY <1>1
  <2>4. ReversionExpected(s) = FlattenSeq(f)
    BY Zenon DEF ReversionExpected
  <2> HIDE DEF n
  <2>5. Numbered(f, n)
    BY DEF Numbered
  <2> HIDE DEF f
  <2>6. f = <<>> /\ f \o <<>> = f
    BY <2>3, <2>5, NoneExpected
  <2>7. FlattenSeq(<<>>) = <<>>
    <3>1. Len(<<>>) = 0
      OBVIOUS
    <3> QED
      BY <3>1, Zenon DEF FlattenSeq
  <2> QED
    BY <2>2, <2>4, <2>6, <2>7, Zenon
<1> HIDE DEF t, l
<1>7. ReversionExpected(s) \o ReversionSignal(ReversionOf(t)) = ReversionExpected(t)
  BY <1>4, <1>5, <1>6, Zenon
<1> QED
  BY <1>3, <1>7 DEF t

\* No bar, no signal.
LEMMA StrategiesBegin ==
    /\ SmaOf(<<>>) = SmaInit /\ MomentumOf(<<>>) = MomentumInit /\ ReversionOf(<<>>) = ReversionInit
    /\ SignalsOf(<<>>) = [sma |-> <<>>, momentum |-> <<>>, reversion |-> <<>>]
<1>1. /\ fast_period \in Nat \ {0} /\ slow_period \in Nat \ {0} /\ roc_lookback \in Nat \ {0}
      /\ roc_lookback + 1 \in Nat \ {0} /\ z_lookback \in Nat \ {0}
      /\ slow_period >= 2 /\ z_lookback >= 2
  BY StrategyAssumption
<1>2. <<>> \in Seq(Int) /\ Len(<<>>) = 0
  OBVIOUS
<1>3. ASSUME NEW n \in Nat \ {0} PROVE Latest(<<>>, n) = <<>>
  <2>1. Latest(<<>>, n) \in Seq(Int)
        /\ Len(Latest(<<>>, n)) = IF Len(<<>>) < n THEN Len(<<>>) ELSE n
    BY <1>2, LatestProperties
  <2>2. Len(Latest(<<>>, n)) = 0
    BY <1>2, <2>1
  <2> QED
    BY <2>1, <2>2, EmptySeq
<1>4. SumOf(<<>>) = 0
  <2>1. PICK T : SumsOf(T, <<>>, Len(<<>>)) /\ SumOf(<<>>) = T[Len(<<>>)]
    BY <1>2, SumOfSums
  <2> QED
    BY <1>2, <2>1 DEF SumsOf
<1>5. Squares(<<>>) = <<>>
  <2>1. Squares(<<>>) \in Seq(Int) /\ Len(Squares(<<>>)) = Len(<<>>)
    BY <1>1, <1>2, 0 \in Int, SquaresPushed
  <2> QED
    BY <1>2, <2>1, EmptySeq
<1>6. ASSUME NEW n \in Nat \ {0} PROVE MeanAt(<<>>, Len(<<>>), n) = Frac(0, 1)
  <2>1. Recent(<<>>, Len(<<>>), n) = <<>>
    BY <1>3, Zenon DEF Latest
  <2> QED
    BY <2>1, Zenon DEF MeanAt, Average
<1>7. SmaOf(<<>>) = SmaInit
  <2>1. /\ Latest(<<>>, fast_period) = <<>> /\ Latest(<<>>, slow_period) = <<>>
        /\ MeanAt(<<>>, Len(<<>>), fast_period) = Frac(0, 1)
        /\ MeanAt(<<>>, Len(<<>>), slow_period) = Frac(0, 1)
    BY <1>1, <1>3, <1>6
  <2> QED
    BY <1>4, <2>1, Zenon DEF SmaOf, SmaRecord, SmaInit
<1>8. MomentumOf(<<>>) = MomentumInit
  <2>1. Latest(<<>>, roc_lookback + 1) = <<>> /\ ~(Len(<<>>) > roc_lookback)
    BY <1>1, <1>2, <1>3
  <2>2. (Len(<<>>) > roc_lookback /\ ema_alpha.n > 0) = FALSE
    BY <2>1
  <2> QED
    BY <2>1, <2>2, Zenon DEF MomentumOf, MomentumInit
<1>9. ReversionOf(<<>>) = ReversionInit
  <2>1. Latest(<<>>, z_lookback) = <<>>
    BY <1>1, <1>3
  <2> QED
    BY <1>4, <1>5, <2>1, Zenon DEF ReversionOf, ReversionInit
<1>10. SmaExpected(<<>>) = <<>>
  <2> DEFINE n == Len(<<>>) - slow_period + 1
  <2>1. n \in Int /\ n <= 0
    BY <1>1, <1>2
  <2>2. Numbered(SmaExpected(<<>>), n)
    BY Zenon DEF SmaExpected, Numbered
  <2> QED
    BY <2>1, <2>2, NoneExpected
<1>11. MomentumExpected(<<>>) = <<>>
  <2> DEFINE n == Len(<<>>) - roc_lookback
  <2>1. n \in Int /\ n <= 0
    BY <1>1, <1>2
  <2>2. Numbered(MomentumExpected(<<>>), n)
    BY Zenon DEF MomentumExpected, Numbered
  <2> QED
    BY <2>1, <2>2, NoneExpected
<1>12. ReversionExpected(<<>>) = <<>>
  <2> DEFINE n == Len(<<>>) - z_lookback + 1
             f == [k \in 1..n |-> ReversionAt(<<>>, k + z_lookback - 1)]
  <2>1. n \in Int /\ n <= 0
    BY <1>1, <1>2
  <2>2. ReversionExpected(<<>>) = FlattenSeq(f)
    BY Zenon DEF ReversionExpected
  <2> HIDE DEF n
  <2>3. Numbered(f, n)
    BY DEF Numbered
  <2> HIDE DEF f
  <2>4. f = <<>>
    BY <2>1, <2>3, NoneExpected
  <2> QED
    BY <1>2, <2>2, <2>4, Zenon DEF FlattenSeq
<1> QED
  BY <1>7, <1>8, <1>9, <1>10, <1>11, <1>12, Zenon DEF SignalsOf

\* Nothing has been seen, or all is forgotten.
LEMMA InitStrategyInv == StrategiesInit => StrategyInv
<1>1. <<>> \in Seq(Closes)
  OBVIOUS
<1> QED
  BY <1>1, StrategiesBegin, Zenon DEF StrategiesInit, StrategyInv

\* A reset keeps it: what the strategies forget, the bars since then do too.
LEMMA ResetStrategyInv == reset => StrategyInv'
<1>1. <<>> \in Seq(Closes)
  OBVIOUS
<1> QED
  BY <1>1, StrategiesBegin, Zenon DEF reset, StrategyInv

\* A bar moves the strategies to what the bars and this one call for.
LEMMA BarStrategyInv == ASSUME StrategyInv, NEW close \in Closes, on_bar(close) PROVE StrategyInv'
<1>1. /\ closes \in Seq(Closes) /\ closes' = Append(closes, close)
      /\ sma = SmaOf(closes) /\ sma' = SmaAfter(push(sma, close))
      /\ momentum = MomentumOf(closes) /\ momentum' = MomentumAfter(momentum, close)
      /\ reversion = ReversionOf(closes) /\ reversion' = update_stats(reversion, close)
      /\ signals = SignalsOf(closes)
  BY Zenon DEF StrategyInv, on_bar
<1>2. signals' = [sma       |-> signals.sma \o SmaSignal(sma, push(sma, close)),
                  momentum  |-> signals.momentum \o MomentumSignal(momentum'),
                  reversion |-> signals.reversion \o ReversionSignal(reversion')]
  BY Zenon DEF on_bar
<1>3. /\ signals.sma = SmaExpected(closes) /\ signals.momentum = MomentumExpected(closes)
      /\ signals.reversion = ReversionExpected(closes)
  BY <1>1 DEF SignalsOf
<1>4. closes' \in Seq(Closes)
  BY <1>1, AppendProperties
<1>5. /\ SmaAfter(push(SmaOf(closes), close)) = SmaOf(Append(closes, close))
      /\ SmaExpected(closes) \o SmaSignal(SmaOf(closes), push(SmaOf(closes), close))
           = SmaExpected(Append(closes, close))
  BY <1>1, SmaFollows
<1>6. /\ MomentumAfter(MomentumOf(closes), close) = MomentumOf(Append(closes, close))
      /\ MomentumExpected(closes) \o MomentumSignal(MomentumOf(Append(closes, close)))
           = MomentumExpected(Append(closes, close))
  BY <1>1, MomentumFollows
<1>7. /\ update_stats(ReversionOf(closes), close) = ReversionOf(Append(closes, close))
      /\ ReversionExpected(closes) \o ReversionSignal(ReversionOf(Append(closes, close)))
           = ReversionExpected(Append(closes, close))
  BY <1>1, ReversionFollows
<1>8. sma' = SmaOf(closes') /\ momentum' = MomentumOf(closes') /\ reversion' = ReversionOf(closes')
  BY <1>1, <1>5, <1>6, <1>7, Zenon
<1>9. signals' = [sma |-> SmaExpected(closes'), momentum |-> MomentumExpected(closes'),
                  reversion |-> ReversionExpected(closes')]
  BY <1>1, <1>2, <1>3, <1>5, <1>6, <1>7, <1>8, Zenon
<1> QED
  BY <1>4, <1>8, <1>9, Zenon DEF StrategyInv, SignalsOf

\* So every step does.
LEMMA NextStrategyInv == StrategyInv /\ [Next]_vars => StrategyInv'
<1> SUFFICES ASSUME StrategyInv, [Next]_vars PROVE StrategyInv'
  OBVIOUS
<1>1. CASE reset
  BY <1>1, ResetStrategyInv
<1>2. CASE \E close \in Closes : on_bar(close)
  BY <1>2, BarStrategyInv
<1>3. CASE UNCHANGED strategyVars
  BY <1>3 DEF StrategyInv, strategyVars, SmaOf
<1> QED
  BY <1>1, <1>2, <1>3, Zenon DEF Next, StrategiesNext, vars

\* The strategies' windows, sums, averages and rates are those of the bars since the last
\* reset alone (strategy_base.hpp:38, sma.cpp, momentum.cpp, mean_reversion.cpp).
THEOREM StrategyInvariant == Spec => []StrategyInv
<1>1. Init => StrategyInv
  BY InitStrategyInv DEF Init
<1> QED
  BY <1>1, NextStrategyInv, PTL DEF Spec

\* What a strategy emitted since the last reset is what the bars since then call for.
THEOREM SignalsAreBars == Spec => []SignalsFromScratch
<1>1. StrategyInv => SignalsFromScratch
  <2> SUFFICES ASSUME StrategyInv PROVE SignalsFromScratch
    OBVIOUS
  <2>1. signals = SignalsOf(closes)
    BY DEF StrategyInv
  <2> QED
    BY <2>1 DEF SignalsOf, SignalsFromScratch
<1> QED
  BY <1>1, StrategyInvariant, PTL

-----------------------------------------------------------------------------
(* The stitched curve *)

\* Where two points of fractions are the same.
LEMMA SameChange ==
    ASSUME NEW a \in Positive, NEW b \in Positive, NEW c \in Positive, NEW d \in Positive,
           NEW p \in Positive, NEW q \in Positive
    PROVE  /\ SameNav(Ratio(Times(<<a, b>>, <<p, q>>), Times(<<c, d>>, <<p, q>>)),
                      Ratio(<<a, b>>, <<c, d>>))
           /\ SameNav(Times(<<c, d>>, Ratio(<<p, q>>, <<c, d>>)), <<p, q>>)
<1>1. {a, b, c, d, p, q} \subseteq Int
  BY DEF Positive
<1>2. ((a * p) * (d * q)) * (b * c) = (a * d) * ((b * q) * (c * p))
  BY <1>1
<1>3. (c * (p * d)) * q = p * (d * (q * c))
  BY <1>1
<1> QED
  BY <1>2, <1>3 DEF SameNav, Ratio, Times

\* Products of fractions are fractions.
LEMMA Fractions ==
    ASSUME NEW x \in Positive \X Positive, NEW y \in Positive \X Positive
    PROVE  Times(x, y) \in Positive \X Positive /\ Ratio(x, y) \in Positive \X Positive
<1>1. PICK a \in Positive, b \in Positive : x = <<a, b>>
  OBVIOUS
<1>2. PICK c \in Positive, d \in Positive : y = <<c, d>>
  OBVIOUS
<1>3. \A m \in Positive, n \in Positive : m * n \in Positive
  BY DEF Positive
<1> QED
  BY <1>1, <1>2, <1>3 DEF Times, Ratio

\* One fold more.
LEMMA JoinsOn ==
    ASSUME NEW whole \in Curve, InTime(whole), NEW fold \in FoldCurves,
           NEW more, more = Stitched(whole, fold)
    PROVE  /\ more \in Curve /\ InTime(more) /\ Len(more) = Len(whole) + Len(fold)
           /\ \A i \in 1..Len(whole) : more[i] = whole[i]
           /\ fold # <<>> => Joins(more, Len(whole), fold)
<1> DEFINE Point == [timestamp : Nat, nav : Positive \X Positive]
           l == Len(whole)
           n == Len(fold)
<1>1. /\ fold \in Seq(Point) /\ InTime(fold) /\ whole \in Seq(Point)
  BY WalkForwardAssumption DEF Curve
<1>2. l \in Nat /\ n \in Nat /\ DOMAIN fold = 1..n
  BY <1>1, LenProperties
<1>3. CASE fold = <<>>
  <2>1. more = whole /\ n = 0
    BY <1>3 DEF Stitched
  <2> QED
    BY <1>2, <1>3, <2>1
<1>4. ASSUME NEW offset \in Nat, NEW scale \in Positive \X Positive, fold # <<>>,
             NEW part, part = Shifted(fold, offset, scale)
      PROVE  /\ part \in Seq(Point) /\ Len(part) = n
             /\ \A i \in 1..n : /\ part[i].nav = Times(fold[i].nav, scale)
                                /\ part[i].timestamp >= offset
             /\ InTime(part)
  <2>1. 1 \in 1..n /\ \A i \in 1..n : fold[i] \in Point
    <3>1. n # 0
      BY <1>1, <1>4, EmptySeq
    <3> HIDE DEF Point
    <3>2. \A i \in 1..Len(fold) : fold[i] \in Point
      BY <1>1, ElementOfSeq
    <3> QED
      BY <1>2, <3>1, <3>2
  <2>2. \A i \in 1..n : fold[i].timestamp \in Nat /\ fold[i].nav \in Positive \X Positive
    BY <2>1
  <2>3. \A i \in 1..n : fold[1].timestamp <= fold[i].timestamp
    <3> DEFINE Bad == {k \in Nat : k + 1 \in 1..n /\ ~(fold[1].timestamp <= fold[k + 1].timestamp)}
    <3>1. 0 \notin Bad
      BY <2>1, <2>2
    <3>2. ASSUME NEW k \in Nat, k \notin Bad PROVE k + 1 \notin Bad
      <4> SUFFICES ASSUME k + 1 + 1 \in 1..n
                   PROVE  fold[1].timestamp <= fold[k + 1 + 1].timestamp
        OBVIOUS
      <4>1. k + 1 \in 1..n /\ k + 1 \in 1..(n - 1)
        BY <1>2
      <4>2. fold[k + 1].timestamp < fold[k + 1 + 1].timestamp
        BY <1>1, <4>1 DEF InTime
      <4>3. fold[1].timestamp <= fold[k + 1].timestamp
        BY <3>2, <4>1
      <4> QED
        BY <2>1, <2>2, <4>1, <4>2, <4>3
    <3> HIDE DEF Bad
    <3>3. Bad = {}
      <4>1. Bad \subseteq Nat
        BY DEF Bad
      <4> QED
        BY <3>1, <3>2, <4>1, NoLeastExample
    <3> TAKE i \in 1..n
    <3>4. i - 1 \in Nat /\ i - 1 + 1 = i
      OBVIOUS
    <3> QED
      BY <3>3, <3>4 DEF Bad
  <2>4. ASSUME NEW i \in 1..n
        PROVE  /\ part[i] = [timestamp |-> fold[i].timestamp - fold[1].timestamp + offset,
                             nav       |-> Times(fold[i].nav, scale)]
               /\ fold[i].timestamp - fold[1].timestamp + offset \in Nat
               /\ fold[i].timestamp - fold[1].timestamp + offset >= offset
               /\ Times(fold[i].nav, scale) \in Positive \X Positive
    <3>1. part[i] = [timestamp |-> fold[i].timestamp - fold[1].timestamp + offset,
                     nav       |-> Times(fold[i].nav, scale)]
      BY <1>2, <1>4 DEF Shifted
    <3>2. Times(fold[i].nav, scale) \in Positive \X Positive
      BY <2>2, Fractions
    <3>3. /\ fold[i].timestamp \in Nat /\ fold[1].timestamp \in Nat
          /\ fold[1].timestamp <= fold[i].timestamp
      BY <2>1, <2>2, <2>3
    <3> QED
      BY <3>1, <3>2, <3>3
  <2>5. \A i \in 1..n : /\ part[i] \in Point
                        /\ part[i].timestamp = fold[i].timestamp - fold[1].timestamp + offset
                        /\ part[i].nav = Times(fold[i].nav, scale)
    <3> TAKE i \in 1..n
    <3> DEFINE t == fold[i].timestamp - fold[1].timestamp + offset
               v == Times(fold[i].nav, scale)
    <3>1. part[i] = [timestamp |-> t, nav |-> v] /\ t \in Nat /\ v \in Positive \X Positive
      BY <2>4
    <3> HIDE DEF t, v
    <3>2. part[i] \in Point /\ part[i].timestamp = t /\ part[i].nav = v
      BY <3>1
    <3> QED
      BY <3>2 DEF t, v
  <2>6. part \in Seq(Point) /\ Len(part) = n
    <3>1. part = [i \in 1..n |-> part[i]]
      BY <1>2, <1>4 DEF Shifted
    <3> HIDE DEF Point
    <3>2. part \in [1..n -> Point]
      BY <2>5, <3>1
    <3> QED
      BY <1>2, <3>2
  <2>7. InTime(part)
    <3> SUFFICES ASSUME NEW i \in 1..(n - 1) PROVE part[i].timestamp < part[i + 1].timestamp
      BY <2>6 DEF InTime
    <3>1. i \in 1..n /\ i + 1 \in 1..n
      BY <1>2
    <3>2. fold[i].timestamp < fold[i + 1].timestamp
      BY <1>1 DEF InTime
    <3>3. /\ fold[i].timestamp \in Nat /\ fold[i + 1].timestamp \in Nat
          /\ fold[1].timestamp \in Nat
      BY <2>1, <2>2, <3>1
    <3> QED
      BY <2>5, <3>1, <3>2, <3>3
  <2> QED
    BY <2>4, <2>5, <2>6, <2>7
<1>5. ASSUME fold # <<>>, NEW scale \in Positive \X Positive,
             NEW first \in Nat, \A i \in 1..n : more[first + i].nav = Times(fold[i].nav, scale)
      PROVE  \A i \in DOMAIN fold :
               SameNav(Ratio(more[first + i].nav, more[first + 1].nav),
                       Ratio(fold[i].nav, fold[1].nav))
  <2> SUFFICES ASSUME NEW i \in 1..n
               PROVE  SameNav(Ratio(more[first + i].nav, more[first + 1].nav),
                              Ratio(fold[i].nav, fold[1].nav))
    BY <1>2
  <2>1. 1 \in 1..n
    BY <1>2
  <2>2. fold[i].nav \in Positive \X Positive /\ fold[1].nav \in Positive \X Positive
    <3>1. fold[i] \in Point /\ fold[1] \in Point
      BY <1>1, <2>1, ElementOfSeq
    <3> QED
      BY <3>1
  <2>3. PICK a \in Positive, b \in Positive : fold[i].nav = <<a, b>>
    BY <2>2
  <2>4. PICK c \in Positive, d \in Positive : fold[1].nav = <<c, d>>
    BY <2>2
  <2>5. PICK p \in Positive, q \in Positive : scale = <<p, q>>
    OBVIOUS
  <2>6. /\ more[first + i].nav = Times(<<a, b>>, <<p, q>>)
        /\ more[first + 1].nav = Times(<<c, d>>, <<p, q>>)
    BY <1>5, <2>1, <2>3, <2>4, <2>5
  <2>7. SameNav(Ratio(Times(<<a, b>>, <<p, q>>), Times(<<c, d>>, <<p, q>>)),
                Ratio(<<a, b>>, <<c, d>>))
    BY SameChange
  <2> QED
    BY <2>3, <2>4, <2>6, <2>7, Zenon
<1>6. CASE fold # <<>> /\ whole = <<>>
  <2> DEFINE scale == <<1, 1>>
  <2>1. scale \in Positive \X Positive /\ 0 \in Nat
    BY DEF Positive
  <2>2. more = Shifted(fold, 0, scale)
    BY <1>6 DEF Stitched
  <2> HIDE DEF scale
  <2>3. /\ more \in Seq(Point) /\ Len(more) = n /\ InTime(more)
        /\ \A i \in 1..n : more[i].nav = Times(fold[i].nav, scale)
    BY <1>4, <1>6, <2>1, <2>2
  <2>4. l = 0 /\ \A i \in 1..n : 0 + i = i
    BY <1>6
  <2>5. Joins(more, l, fold)
    <3>1. \A i \in 1..n : more[0 + i].nav = Times(fold[i].nav, scale)
      BY <2>3, <2>4
    <3>2. \A i \in DOMAIN fold : SameNav(Ratio(more[0 + i].nav, more[0 + 1].nav),
                                         Ratio(fold[i].nav, fold[1].nav))
      BY <1>5, <1>6, <2>1, <3>1
    <3>3. ~(l > 0)
      BY <2>4
    <3> QED
      BY <2>4, <3>2, <3>3 DEF Joins
  <2> QED
    BY <1>2, <2>3, <2>4, <2>5 DEF Curve
<1>7. CASE fold # <<>> /\ whole # <<>>
  <2> DEFINE end == whole[l]
             offset == end.timestamp + 1
             scale == Ratio(end.nav, fold[1].nav)
             part == Shifted(fold, offset, scale)
  <2>1. l \in 1..l /\ 1 \in 1..n
    <3>1. l # 0 /\ n # 0
      BY <1>1, <1>7, EmptySeq
    <3> QED
      BY <1>2, <3>1
  <2>2. end \in Point /\ fold[1] \in Point
    BY <1>1, <2>1, ElementOfSeq
  <2>3. end.timestamp \in Nat /\ end.nav \in Positive \X Positive /\ fold[1].nav \in Positive \X Positive
    BY <2>2
  <2>4. more = whole \o part
    BY <1>7, Zenon DEF Stitched, Last
  <2> HIDE DEF end
  <2>5. offset \in Nat /\ scale \in Positive \X Positive
    BY <2>3, Fractions
  <2> HIDE DEF offset, scale
  <2>6. part = Shifted(fold, offset, scale)
    OBVIOUS
  <2> HIDE DEF part
  <2>7. /\ part \in Seq(Point) /\ Len(part) = n /\ InTime(part)
        /\ \A i \in 1..n : part[i].nav = Times(fold[i].nav, scale) /\ part[i].timestamp >= offset
    BY <1>4, <1>7, <2>5, <2>6
  <2> HIDE DEF Point
  <2>8. /\ more \in Seq(Point) /\ Len(more) = Len(whole) + Len(part)
        /\ \A i \in 1..(Len(whole) + Len(part)) :
             more[i] = IF i <= Len(whole) THEN whole[i] ELSE part[i - Len(whole)]
    <3>1. whole \in Seq(Point) /\ part \in Seq(Point)
      BY <1>1, <2>7
    <3> QED
      BY <2>4, <3>1, ConcatProperties
  <2>9. /\ Len(more) = l + n
        /\ \A i \in 1..l : more[i] = whole[i]
        /\ \A i \in 1..n : more[l + i] = part[i]
    <3>1. \A i \in 1..l : i \in 1..(l + n) /\ i <= l
      BY <1>2
    <3>2. \A i \in 1..n : l + i \in 1..(l + n) /\ ~(l + i <= l) /\ l + i - l = i
      BY <1>2
    <3> QED
      BY <2>7, <2>8, <3>1, <3>2
  <2>10. InTime(more)
    <3> SUFFICES ASSUME NEW i \in 1..(l + n - 1) PROVE more[i].timestamp < more[i + 1].timestamp
      BY <2>9 DEF InTime
    <3>1. CASE i < l
      <4>1. i \in 1..(l - 1) /\ i \in 1..l /\ i + 1 \in 1..l
        BY <1>2, <3>1
      <4>2. whole[i].timestamp < whole[i + 1].timestamp
        BY <4>1 DEF InTime
      <4> QED
        BY <2>9, <4>1, <4>2
    <3>2. CASE i = l
      <4>1. more[i] = end /\ more[i + 1] = part[1]
        BY <2>1, <2>9, <3>2 DEF end
      <4>2. part[1].timestamp >= end.timestamp + 1 /\ part[1].timestamp \in Nat
        <5>1. part[1] \in Point
          BY <2>1, <2>7, ElementOfSeq
        <5> QED
          BY <2>1, <2>7, <5>1 DEF offset, Point
      <4> QED
        BY <2>3, <4>1, <4>2
    <3>3. CASE i > l
      <4> DEFINE j == i - l
      <4>1. j \in 1..(n - 1) /\ j \in 1..n /\ j + 1 \in 1..n /\ i = l + j /\ i + 1 = l + (j + 1)
        BY <1>2, <3>3
      <4> HIDE DEF j
      <4>2. part[j].timestamp < part[j + 1].timestamp
        BY <2>7, <4>1 DEF InTime
      <4> QED
        BY <2>9, <4>1, <4>2
    <3> QED
      BY <1>2, <3>1, <3>2, <3>3
  <2>11. Joins(more, l, fold)
    <3>1. \A i \in 1..n : more[l + i].nav = Times(fold[i].nav, scale)
      BY <2>7, <2>9
    <3>2. \A i \in DOMAIN fold : SameNav(Ratio(more[l + i].nav, more[l + 1].nav),
                                         Ratio(fold[i].nav, fold[1].nav))
      BY <1>2, <1>5, <1>7, <2>5, <3>1
    <3>3. SameNav(more[l + 1].nav, more[l].nav)
      <4>1. PICK p \in Positive, q \in Positive : end.nav = <<p, q>>
        BY <2>3
      <4>2. PICK c \in Positive, d \in Positive : fold[1].nav = <<c, d>>
        BY <2>3
      <4>3. more[l + 1].nav = Times(<<c, d>>, Ratio(<<p, q>>, <<c, d>>))
        BY <2>1, <3>1, <4>1, <4>2 DEF scale
      <4>4. more[l].nav = <<p, q>>
        BY <2>1, <2>9, <4>1 DEF end
      <4>5. SameNav(Times(<<c, d>>, Ratio(<<p, q>>, <<c, d>>)), <<p, q>>)
        BY SameChange
      <4> QED
        BY <4>3, <4>4, <4>5, Zenon
    <3> QED
      BY <3>2, <3>3, Zenon DEF Joins
  <2> QED
    BY <2>8, <2>9, <2>10, <2>11 DEF Curve, Point
<1> QED
  BY <1>3, <1>6, <1>7

\* What may be stitched so far.
Timely == {c \in Curve : InTime(c)}

\* The folds, stitched one after the other.
Chains(g, folds) ==
    /\ g[0] = <<>>
    /\ \A n \in 1..Len(folds) : g[n] = Stitched(g[n - 1], folds[n])
    /\ FoldLeft(Stitched, <<>>, folds) = g[Len(folds)]

\* The stitched curve is the end of such a chain.
LEMMA StitchedChains ==
    ASSUME NEW folds \in Seq(FoldCurves)
    PROVE  \E g : Chains(g, folds)
<1> DEFINE S == DOMAIN folds
           Body(g) == [s \in SUBSET S |->
                         IF s = {} THEN <<>> ELSE Stitched(g[s \ {Max(s)}], folds[Max(s)])]
           pick == [s \in (SUBSET S) \ {{}} |-> Max(s)]
           link == [sb \in S \X Timely |-> Stitched(sb[2], folds[sb[1]])]
<1>1. FoldLeft(Stitched, <<>>, folds) = (CHOOSE g : g = Body(g))[S]
  BY Zenon DEF FoldLeft, MapThenFoldSet
<1>2. Len(folds) \in Nat /\ S = 1..Len(folds)
  BY LenProperties
<1>3. IsFiniteSet(S)
  BY <1>2, FS_Interval, 1 \in Int, Len(folds) \in Int
<1>4. Picks(pick, S)
  <2>1. \A s \in (SUBSET S) \ {{}} : Max(s) \in s
    BY <1>2, MaxOfFinite
  <2> QED
    BY <2>1 DEF Picks
<1>5. \A i \in S, c \in Timely : Stitched(c, folds[i]) \in Timely
  <2> TAKE i \in S, c \in Timely
  <2>1. folds[i] \in FoldCurves
    BY <1>2, ElementOfSeq
  <2>2. c \in Curve /\ InTime(c)
    BY DEF Timely
  <2>3. Stitched(c, folds[i]) \in Curve /\ InTime(Stitched(c, folds[i]))
    BY <2>1, <2>2, JoinsOn
  <2> QED
    BY <2>3 DEF Timely
<1>6. link \in [S \X Timely -> Timely]
  BY <1>5
<1>7. <<>> \in Timely
  <2>1. <<>> \in Curve /\ Len(<<>>) = 0
    BY EmptySeq DEF Curve
  <2>2. InTime(<<>>)
    BY <2>1 DEF InTime
  <2> QED
    BY <2>1, <2>2 DEF Timely
<1>8. PICK it : FoldsBy(it, S, Timely, <<>>, pick, link)
  <2> HIDE DEF S, pick, link
  <2> QED
    BY <1>3, <1>4, <1>6, <1>7, FoldExists
<1>9. it = Body(it)
  <2> HIDE DEF S
  <2>1. \A s \in (SUBSET S) \ {{}} : it[s] = Body(it)[s]
    <3> TAKE s \in (SUBSET S) \ {{}}
    <3>1. it[s] = link[<<pick[s], it[s \ {pick[s]}]>>]
      BY <1>8 DEF FoldsBy
    <3>2. pick[s] = Max(s) /\ Max(s) \in S /\ s \ {Max(s)} \in SUBSET S /\ s \in SUBSET S
      BY <1>4 DEF Picks
    <3>3. it[s \ {Max(s)}] \in Timely
      BY <1>8, <3>2 DEF FoldsBy
    <3> QED
      BY <3>1, <3>2, <3>3
  <2>2. it[{}] = Body(it)[{}]
    BY <1>8 DEF FoldsBy
  <2>3. it = [s \in SUBSET S |-> it[s]]
    BY <1>8 DEF FoldsBy
  <2> QED
    BY <2>1, <2>2, <2>3
<1> DEFINE f == CHOOSE g : g = Body(g)
<1>10. f = Body(f)
  <2> HIDE DEF Body
  <2> QED
    BY <1>9
<1>11. f[{}] = <<>>
  BY <1>10
<1>12. \A n \in 1..Len(folds) : f[1..n] = Stitched(f[1..(n - 1)], folds[n])
  <2> TAKE n \in 1..Len(folds)
  <2>3. 1..n \in SUBSET S => f[1..n] = Body(f)[1..n]
    BY <1>10
  <2> HIDE DEF S, f
  <2>1. 1..n \in SUBSET S /\ 1..n # {} /\ n \in Nat \ {0}
    <3>1. n \in Nat \ {0} /\ n <= Len(folds)
      BY <1>2
    <3>2. 1..n \subseteq 1..Len(folds) /\ n \in 1..n
      BY <1>2, <3>1
    <3>3. 1..n \in SUBSET S
      BY <1>2, <3>2
    <3> QED
      BY <3>1, <3>2, <3>3
  <2>2. Max(1..n) = n /\ (1..n) \ {n} = 1..(n - 1)
    BY <2>1, MaxOfInterval
  <2> QED
    BY <2>1, <2>2, <2>3
<1> DEFINE g == [n \in 0..Len(folds) |-> f[1..n]]
<1>13. \A n \in 1..Len(folds) : n \in 0..Len(folds) /\ n - 1 \in 0..Len(folds)
  BY <1>2
<1> HIDE DEF f, S, Body
<1>14. g[0] = <<>>
  <2>1. 1..0 = {} /\ 0 \in 0..Len(folds)
    BY <1>2
  <2> QED
    BY <1>11, <2>1
<1>15. \A n \in 1..Len(folds) : g[n] = Stitched(g[n - 1], folds[n])
  BY <1>12, <1>13
<1>16. FoldLeft(Stitched, <<>>, folds) = g[Len(folds)]
  <2>1. Len(folds) \in 0..Len(folds)
    BY <1>2
  <2> QED
    BY <1>1, <1>2, <2>1 DEF f
<1> HIDE DEF g
<1> QED
  BY <1>14, <1>15, <1>16 DEF Chains

\* What comes behind a fold does not change how it joins.
LEMMA JoinsStay ==
    ASSUME NEW whole, NEW more, NEW l \in Nat, NEW first \in Nat, NEW fold,
           NEW n \in Nat \ {0}, DOMAIN fold = 1..n, first + n <= l,
           \A i \in 1..l : more[i] = whole[i], Joins(whole, first, fold)
    PROVE  Joins(more, first, fold)
<1>1. \A i \in DOMAIN fold : more[first + i] = whole[first + i]
  <2> TAKE i \in 1..n
  <2>1. first + i \in 1..l
    OBVIOUS
  <2> QED
    BY <2>1
<1>2. more[first + 1] = whole[first + 1]
  <2>1. first + 1 \in 1..l
    OBVIOUS
  <2> QED
    BY <2>1
<1>3. first > 0 => more[first] = whole[first]
  <2>1. first > 0 => first \in 1..l
    OBVIOUS
  <2> QED
    BY <2>1
<1> QED
  BY <1>1, <1>2, <1>3, Zenon DEF Joins

\* Sequences one behind the other are a sequence.
LEMMA FlattenType ==
    ASSUME NEW V, NEW seqs \in Seq(Seq(V))
    PROVE  FlattenSeq(seqs) \in Seq(V)
<1>1. Len(seqs) \in Nat
  BY LenProperties
<1>2. CASE Len(seqs) = 0
  <2>1. seqs = <<>>
    BY <1>2, EmptySeq
  <2>2. FlattenSeq(seqs) = <<>>
    BY <1>2, <2>1, Zenon DEF FlattenSeq
  <2> QED
    BY <2>2, EmptySeq
<1>3. CASE Len(seqs) # 0
  <2>1. PICK g : /\ \A i \in 1..Len(seqs) : g[i] \in Seq(V)
                 /\ FlattenSeq(seqs) = g[Len(seqs)]
    BY <1>3, FlattenIs
  <2> QED
    BY <1>1, <1>3, <2>1
<1> QED
  BY <1>2, <1>3

\* The points before a fold are those of the folds before it.
LEMMA PointsBefore ==
    ASSUME WalkInv
    PROVE  /\ Before(1) = 0
           /\ \A n \in 1..Len(oos_results) : Before(n + 1) = Before(n) + Len(oos_results[n])
<1> DEFINE Point == [timestamp : Nat, nav : Positive \X Positive]
<1> HIDE DEF Point
<1>1. oos_results \in Seq(FoldCurves) /\ Len(oos_results) \in Nat
  BY LenProperties DEF WalkInv
<1>2. oos_results \in Seq(Seq(Point))
  <2>1. \A i \in 1..Len(oos_results) : oos_results[i] \in Seq(Point)
    <3> TAKE i \in 1..Len(oos_results)
    <3>1. oos_results[i] \in FoldCurves
      BY <1>1, ElementOfSeq
    <3> QED
      BY <3>1, WalkForwardAssumption DEF Curve, Point
  <2>2. oos_results = [i \in 1..Len(oos_results) |-> oos_results[i]]
    BY <1>1, LenProperties
  <2> QED
    BY <1>1, <2>1, <2>2
<1>3. Before(1) = 0
  <2>1. SubSeq(oos_results, 1, 1 - 1) = <<>>
    BY <1>2, SubSeqEmpty, 1 \in Int, 1 - 1 \in Int, 1 - 1 < 1
  <2>2. FlattenSeq(<<>>) = <<>>
    BY EmptySeq, Zenon DEF FlattenSeq
  <2> QED
    BY <2>1, <2>2, EmptySeq DEF Before
<1>4. ASSUME NEW n \in 1..Len(oos_results)
      PROVE  Before(n + 1) = Before(n) + Len(oos_results[n])
  <2>1. SubSeq(oos_results, 1, n) = Append(SubSeq(oos_results, 1, n - 1), oos_results[n])
    <3>1. 0 \in 0..(n - 1) /\ 0 + 1 = 1
      BY <1>1
    <3> QED
      BY <1>2, <3>1, SubSeqGrows
  <2>2. /\ SubSeq(oos_results, 1, n - 1) \in Seq(Seq(Point)) /\ oos_results[n] \in Seq(Point)
    <3>1. \A i \in 1..(n - 1) : oos_results[i] \in Seq(Point)
      BY <1>1, <1>2, ElementOfSeq
    <3> QED
      BY <1>1, <1>2, <3>1, SubSeqProperties, ElementOfSeq, 1 \in Int, n - 1 \in Int
  <2>3. FlattenSeq(SubSeq(oos_results, 1, n))
          = FlattenSeq(SubSeq(oos_results, 1, n - 1)) \o oos_results[n]
    BY <2>1, <2>2, FlattenMore
  <2>4. FlattenSeq(SubSeq(oos_results, 1, n - 1)) \in Seq(Point)
    BY <2>2, FlattenType
  <2>5. Len(FlattenSeq(SubSeq(oos_results, 1, n)))
          = Len(FlattenSeq(SubSeq(oos_results, 1, n - 1))) + Len(oos_results[n])
    BY <2>2, <2>3, <2>4, ConcatProperties
  <2>6. (n + 1) - 1 = n
    BY <1>1
  <2> QED
    BY <2>5, <2>6, Zenon DEF Before
<1> QED
  BY <1>3, <1>4

\* What the folds up to n make of the whole.
JoinedTo(whole, n) ==
    /\ whole \in Curve /\ InTime(whole) /\ Len(whole) = Before(n + 1)
    /\ \A k \in 1..n : /\ Before(k) \in Nat
                       /\ Before(k) + Len(oos_results[k]) <= Len(whole)
                       /\ oos_results[k] # <<>> => Joins(whole, Before(k), oos_results[k])

\* So the whole is joined, fold after fold.
LEMMA WholeContinues == WalkInv => StitchedContinues
<1> SUFFICES ASSUME WalkInv PROVE StitchedContinues
  OBVIOUS
<1> DEFINE count == Len(oos_results)
<1>1. /\ oos_results \in Seq(FoldCurves) /\ count \in Nat /\ DOMAIN oos_results = 1..count
      /\ Before(1) = 0 /\ \A n \in 1..count : Before(n + 1) = Before(n) + Len(oos_results[n])
  BY LenProperties, PointsBefore DEF WalkInv
<1>2. PICK g : Chains(g, oos_results)
  BY <1>1, StitchedChains
<1>3. \A n \in 1..count : oos_results[n] \in FoldCurves /\ oos_results[n] \in Curve
  BY <1>1, ElementOfSeq, WalkForwardAssumption
<1>4. JoinedTo(g[0], 0)
  <2>1. <<>> \in Curve /\ Len(<<>>) = 0
    BY EmptySeq DEF Curve
  <2>2. InTime(<<>>)
    BY <2>1 DEF InTime
  <2> QED
    BY <1>1, <1>2, <2>1, <2>2 DEF JoinedTo, Chains
<1>5. ASSUME NEW n \in Nat, n + 1 <= count, JoinedTo(g[n], n)
      PROVE  JoinedTo(g[n + 1], n + 1)
  <2> DEFINE m == n + 1
             fold == oos_results[m]
  <2>1. m \in 1..count /\ m - 1 = n
    BY <1>1, <1>5
  <2>2. g[m] = Stitched(g[n], fold) /\ fold \in FoldCurves /\ fold \in Curve
    BY <1>2, <1>3, <2>1 DEF Chains
  <2>3. g[n] \in Curve /\ InTime(g[n]) /\ Len(g[n]) = Before(m)
    BY <1>5 DEF JoinedTo
  <2>4. Len(g[n]) \in Nat /\ Len(fold) \in Nat /\ Before(m + 1) = Before(m) + Len(fold)
    BY <1>1, <2>1, <2>2, <2>3, LenProperties DEF Curve
  <2> HIDE DEF m, fold
  <2>5. /\ g[m] \in Curve /\ InTime(g[m]) /\ Len(g[m]) = Len(g[n]) + Len(fold)
        /\ \A i \in 1..Len(g[n]) : g[m][i] = g[n][i]
        /\ fold # <<>> => Joins(g[m], Len(g[n]), fold)
    BY <2>2, <2>3, JoinsOn
  <2>6. ASSUME NEW k \in 1..n
        PROVE  /\ Before(k) \in Nat
               /\ Before(k) + Len(oos_results[k]) <= Len(g[m])
               /\ oos_results[k] # <<>> => Joins(g[m], Before(k), oos_results[k])
    <3>1. /\ Before(k) \in Nat
          /\ Before(k) + Len(oos_results[k]) <= Len(g[n])
          /\ oos_results[k] # <<>> => Joins(g[n], Before(k), oos_results[k])
      BY <1>5 DEF JoinedTo
    <3>2. k \in 1..count
      BY <1>1, <2>1
    <3>3. Len(oos_results[k]) \in Nat /\ DOMAIN oos_results[k] = 1..Len(oos_results[k])
      BY <1>3, <3>2, LenProperties DEF Curve
    <3>4. ASSUME oos_results[k] # <<>> PROVE Joins(g[m], Before(k), oos_results[k])
      <4>1. Len(oos_results[k]) # 0
        BY <1>3, <3>2, <3>4, EmptySeq DEF Curve
      <4>2. Len(oos_results[k]) \in Nat \ {0}
        BY <3>3, <4>1
      <4> QED
        BY <2>4, <2>5, <3>1, <3>3, <3>4, <4>2, JoinsStay
    <3> QED
      BY <2>4, <2>5, <3>1, <3>3, <3>4
  <2>7. \A k \in 1..m : k \in 1..n \/ k = m
    BY DEF m
  <2>8. /\ Before(m) \in Nat
        /\ Before(m) + Len(oos_results[m]) <= Len(g[m])
        /\ oos_results[m] # <<>> => Joins(g[m], Before(m), oos_results[m])
    BY <2>3, <2>4, <2>5 DEF fold
  <2>9. \A k \in 1..m : /\ Before(k) \in Nat
                        /\ Before(k) + Len(oos_results[k]) <= Len(g[m])
                        /\ oos_results[k] # <<>> => Joins(g[m], Before(k), oos_results[k])
    <3> TAKE k \in 1..m
    <3>1. CASE k \in 1..n
      BY <3>1, <2>6
    <3>2. CASE k = m
      BY <3>2, <2>8, Zenon
    <3> QED
      BY <2>7, <3>1, <3>2
  <2>10. JoinedTo(g[m], m)
    BY <2>3, <2>4, <2>5, <2>9 DEF JoinedTo
  <2> QED
    BY <2>10 DEF m
<1>6. JoinedTo(g[count], count)
  <2> DEFINE Bad == {n \in Nat : n <= count /\ ~JoinedTo(g[n], n)}
  <2> HIDE DEF count
  <2>1. Bad \subseteq Nat /\ 0 \notin Bad
    BY <1>4
  <2>2. \A n \in Nat : n \notin Bad => n + 1 \notin Bad
    BY <1>1, <1>5
  <2> HIDE DEF Bad
  <2>3. Bad = {}
    BY <2>1, <2>2, NoLeastExample
  <2> QED
    BY <1>1, <2>3 DEF Bad
<1>7. stitched_equity = g[count]
  BY <1>2, Zenon DEF Chains, stitched_equity, count
<1> HIDE DEF count
<1>8. /\ Len(stitched_equity) = Before(count + 1)
      /\ InTime(stitched_equity)
      /\ \A k \in 1..count : oos_results[k] # <<>> =>
            Joins(stitched_equity, Before(k), oos_results[k])
  BY <1>6, <1>7, Zenon DEF JoinedTo
<1> QED
  BY <1>1, <1>8, Zenon DEF StitchedContinues, count

\* Whatever curves the folds return, empty ones too, the stitched curve goes on in time
\* and without a jump, and every fold keeps its changes (walk_forward.hpp, stitched_equity).
THEOREM CurveContinues == Spec => []StitchedContinues
<1>1. Spec => []WalkInv
  BY InitWalkInv, NextWalkInv, PTL DEF Spec
<1> QED
  BY <1>1, WholeContinues, PTL

-----------------------------------------------------------------------------
(* The order of the returns *)

\* The first m places of an order.
First(p, m) == {p[j] : j \in 1..m}

\* Of n numbers one is the greatest.
LEMMA GreatestExists ==
    ASSUME NEW n \in Nat \ {0}, NEW r, \A i \in 1..n : r[i] \in Int
    PROVE  \E m \in 1..n : \A i \in 1..n : r[i] <= r[m]
<1> DEFINE Bad == {k \in Nat : k + 1 <= n /\ ~\E m \in 1..(k + 1) : \A i \in 1..(k + 1) : r[i] <= r[m]}
<1>1. 0 \notin Bad
  <2>1. 1 \in 1..n /\ \A i \in 1..(0 + 1) : i = 1
    OBVIOUS
  <2>2. r[1] <= r[1]
    BY <2>1
  <2> QED
    BY <2>1, <2>2
<1>2. ASSUME NEW k \in Nat, k \notin Bad PROVE k + 1 \notin Bad
  <2> SUFFICES ASSUME k + 1 + 1 <= n
               PROVE  \E m \in 1..(k + 1 + 1) : \A i \in 1..(k + 1 + 1) : r[i] <= r[m]
    OBVIOUS
  <2> DEFINE l == k + 1
  <2>1. l \in Nat /\ l + 1 \in 1..n /\ l + 1 <= n /\ \A i \in 1..(l + 1) : i \in 1..n /\ (i \in 1..l \/ i = l + 1)
    OBVIOUS
  <2>2. PICK m \in 1..l : \A i \in 1..l : r[i] <= r[m]
    BY <1>2, <2>1
  <2> HIDE DEF l
  <2>3. m \in 1..(l + 1) /\ l + 1 \in 1..(l + 1) /\ r[m] \in Int /\ r[l + 1] \in Int
    BY <2>1
  <2>4. CASE r[l + 1] <= r[m]
    <3>1. \A i \in 1..(l + 1) : r[i] <= r[m]
      BY <2>1, <2>2, <2>4
    <3> QED
      BY <2>3, <3>1 DEF l
  <2>5. CASE ~(r[l + 1] <= r[m])
    <3>1. \A i \in 1..(l + 1) : r[i] <= r[l + 1]
      <4> TAKE i \in 1..(l + 1)
      <4>1. r[i] \in Int
        BY <2>1
      <4> QED
        BY <2>1, <2>2, <2>3, <2>5, <4>1
    <3> QED
      BY <2>3, <3>1 DEF l
  <2> QED
    BY <2>4, <2>5
<1> HIDE DEF Bad
<1>3. Bad = {}
  <2>1. Bad \subseteq Nat
    BY DEF Bad
  <2> QED
    BY <1>1, <1>2, <2>1, NoLeastExample
<1> DEFINE k == n - 1
<1>4. k \in Nat /\ k + 1 = n
  OBVIOUS
<1>5. k \notin Bad
  BY <1>3
<1> HIDE DEF k
<1>6. \E m \in 1..(k + 1) : \A i \in 1..(k + 1) : r[i] <= r[m]
  BY <1>4, <1>5 DEF Bad
<1> QED
  BY <1>4, <1>6

\* Numbers can be put in order: the greatest of them last.
LEMMA OrderExists ==
    ASSUME NEW n \in Nat, NEW r \in [1..n -> Int]
    PROVE  \E p \in Bijection(1..n, 1..n) : Ascends(r, p, n)
<1> DEFINE Can(k) == \A s \in [1..k -> Int] : \E p \in Bijection(1..k, 1..k) : Ascends(s, p, k)
           Bad == {k \in Nat : ~Can(k)}
<1>1. Can(0)
  <2> SUFFICES ASSUME NEW s \in [1..0 -> Int]
               PROVE  \E p \in Bijection(1..0, 1..0) : Ascends(s, p, 0)
    OBVIOUS
  <2> DEFINE p == [i \in 1..0 |-> i]
  <2>1. p \in Bijection(1..0, 1..0)
    BY DEF Bijection, Injection, Surjection, IsInjective
  <2>2. Ascends(s, p, 0)
    BY DEF Ascends
  <2> QED
    BY <2>1, <2>2
<1>2. ASSUME NEW k \in Nat, Can(k) PROVE Can(k + 1)
  <2> DEFINE l == k + 1
  <2> SUFFICES ASSUME NEW s \in [1..l -> Int]
               PROVE  \E p \in Bijection(1..l, 1..l) : Ascends(s, p, l)
    OBVIOUS
  <2>1. l \in Nat \ {0} /\ l \in 1..l /\ \A i \in 1..l : i \in 1..k \/ i = l
    OBVIOUS
  <2>2. \A i \in 1..k : i \in 1..l /\ i # l
    OBVIOUS
  <2> HIDE DEF l
  <2>3. PICK m \in 1..l : \A i \in 1..l : s[i] <= s[m]
    BY <2>1, GreatestExists
  <2> DEFINE Swap(i) == IF i = m THEN l ELSE i
             t == [i \in 1..k |-> s[Swap(i)]]
  <2>4. \A i \in 1..k : Swap(i) \in 1..l /\ Swap(i) # m
    BY <2>1, <2>2
  <2>5. t \in [1..k -> Int]
    BY <2>4
  <2> HIDE DEF t
  <2>6. PICK q \in Bijection(1..k, 1..k) : Ascends(t, q, k)
    BY <1>2, <2>5
  <2> DEFINE p == [i \in 1..l |-> IF i = l THEN m ELSE Swap(q[i])]
  <2>7. /\ q \in [1..k -> 1..k]
        /\ \A i \in 1..k, j \in 1..k : q[i] = q[j] => i = j
        /\ \A i \in 1..k : \E j \in 1..k : q[j] = i
    BY <2>6 DEF Bijection, Injection, Surjection, IsInjective
  <2>8. p[l] = m /\ \A i \in 1..k : p[i] = Swap(q[i]) /\ q[i] \in 1..k
    BY <2>1, <2>2, <2>7
  <2>9. p \in [1..l -> 1..l]
    BY <2>1, <2>4, <2>7
  <2> HIDE DEF p
  <2>10. \A i \in 1..l, j \in 1..l : p[i] = p[j] => i = j
    <3> SUFFICES ASSUME NEW i \in 1..l, NEW j \in 1..l, p[i] = p[j] PROVE i = j
      OBVIOUS
    <3>1. CASE i \in 1..k /\ j \in 1..k
      <4>1. q[i] = q[j]
        BY <2>2, <2>8, <3>1
      <4> QED
        BY <2>7, <3>1, <4>1
    <3>2. CASE i = l /\ j \in 1..k
      BY <2>4, <2>8, <3>2
    <3>3. CASE i \in 1..k /\ j = l
      BY <2>4, <2>8, <3>3
    <3> QED
      BY <2>1, <3>1, <3>2, <3>3
  <2>11. ASSUME NEW i \in 1..l PROVE \E j \in 1..l : p[j] = i
    <3>1. CASE i = m
      BY <2>1, <2>8, <3>1
    <3>2. CASE i # m /\ i = l
      <4>1. m \in 1..k /\ Swap(m) = i
        BY <2>1, <3>2
      <4>2. PICK j \in 1..k : q[j] = m
        BY <2>7, <4>1
      <4> QED
        BY <2>2, <2>8, <4>1, <4>2
    <3>3. CASE i # m /\ i # l
      <4>1. i \in 1..k /\ Swap(i) = i
        BY <2>1, <3>3
      <4>2. PICK j \in 1..k : q[j] = i
        BY <2>7, <4>1
      <4> QED
        BY <2>2, <2>8, <4>1, <4>2
    <3> QED
      BY <3>1, <3>2, <3>3
  <2>12. p \in Bijection(1..l, 1..l)
    BY <2>9, <2>10, <2>11 DEF Bijection, Injection, Surjection, IsInjective
  <2>13. ASSUME NEW i \in 1..l, NEW j \in i..l PROVE s[p[i]] <= s[p[j]]
    <3>1. j \in 1..l
      BY <2>1
    <3>2. CASE j = l
      <4>1. p[i] \in 1..l
        BY <2>9
      <4> QED
        BY <2>3, <2>8, <3>2, <4>1
    <3>3. CASE j # l
      <4>1. j \in 1..k /\ i \in 1..k /\ j \in i..k
        BY <2>1, <3>1, <3>3 DEF l
      <4>2. t[q[i]] <= t[q[j]]
        BY <2>6, <4>1 DEF Ascends
      <4>3. t[q[i]] = s[Swap(q[i])] /\ t[q[j]] = s[Swap(q[j])]
        BY <2>8, <4>1 DEF t
      <4> QED
        BY <2>8, <4>1, <4>2, <4>3
    <3> QED
      BY <3>2, <3>3
  <2> QED
    BY <2>12, <2>13 DEF Ascends
<1> HIDE DEF Can
<1>3. Bad = {}
  <2>1. Bad \subseteq Nat /\ 0 \notin Bad
    BY <1>1
  <2>2. \A k \in Nat : k \notin Bad => k + 1 \notin Bad
    BY <1>2
  <2> HIDE DEF Bad
  <2> QED
    BY <2>1, <2>2, NoLeastExample
<1>4. Can(n)
  BY <1>3
<1> QED
  BY <1>4 DEF Can

\* An order has as many places as numbers, and takes each number once.
LEMMA FirstPlaces ==
    ASSUME NEW n \in Nat, NEW p \in Bijection(1..n, 1..n), NEW m \in 0..n
    PROVE  /\ First(p, m) \subseteq 1..n /\ IsFiniteSet(First(p, m)) /\ Cardinality(First(p, m)) = m
           /\ m # n => /\ p[m + 1] \in 1..n /\ p[m + 1] \notin First(p, m)
                       /\ First(p, m + 1) = First(p, m) \cup {p[m + 1]}
<1>1. /\ p \in [1..n -> 1..n]
      /\ \A i \in 1..n, j \in 1..n : p[i] = p[j] => i = j
  BY DEF Bijection, Injection, Surjection, IsInjective
<1> DEFINE Fine(k) == IsFiniteSet(First(p, k)) /\ Cardinality(First(p, k)) = k
           Bad == {k \in Nat : k <= n /\ ~Fine(k)}
<1>2. ASSUME NEW k \in Nat, k < n
      PROVE  /\ p[k + 1] \in 1..n /\ p[k + 1] \notin First(p, k)
             /\ First(p, k + 1) = First(p, k) \cup {p[k + 1]}
  <2>1. k + 1 \in 1..n /\ \A j \in 1..k : j \in 1..n /\ j # k + 1
    BY <1>2
  <2>2. \A j \in 1..(k + 1) : j \in 1..k \/ j = k + 1
    OBVIOUS
  <2>3. \A j \in 1..k : j \in 1..(k + 1)
    OBVIOUS
  <2>4. k + 1 \in 1..(k + 1)
    OBVIOUS
  <2> QED
    BY <1>1, <2>1, <2>2, <2>3, <2>4 DEF First
<1>3. 0 \notin Bad
  <2>1. First(p, 0) = {}
    BY DEF First
  <2> QED
    BY <2>1, FS_EmptySet
<1>4. ASSUME NEW k \in Nat, k \notin Bad PROVE k + 1 \notin Bad
  <2> SUFFICES ASSUME k + 1 <= n PROVE Fine(k + 1)
    OBVIOUS
  <2>1. Fine(k) /\ k < n
    BY <1>4
  <2>2. p[k + 1] \notin First(p, k) /\ First(p, k + 1) = First(p, k) \cup {p[k + 1]}
    BY <1>2, <2>1
  <2> DEFINE F == First(p, k)
             x == p[k + 1]
  <2>3. IsFiniteSet(F) /\ Cardinality(F) = k /\ x \notin F /\ First(p, k + 1) = F \cup {x}
    BY <2>1, <2>2
  <2> HIDE DEF F, x
  <2>4. IsFiniteSet(F \cup {x}) /\ Cardinality(F \cup {x}) = k + 1
    BY <2>3, FS_AddElement
  <2> QED
    BY <2>3, <2>4
<1> HIDE DEF Fine
<1>5. Bad = {}
  <2>1. Bad \subseteq Nat
    OBVIOUS
  <2> HIDE DEF Bad
  <2> QED
    BY <1>3, <1>4, <2>1, NoLeastExample
<1>6. Fine(m)
  BY <1>5
<1>7. First(p, m) \subseteq 1..n
  <2>1. \A j \in 1..m : j \in 1..n
    OBVIOUS
  <2> QED
    BY <1>1, <2>1 DEF First
<1> QED
  BY <1>2, <1>6, <1>7 DEF Fine

\* Fewer numbers than m + 1 are below the one at place m + 1, and as many at least
\* are not above it.
LEMMA Ranked ==
    ASSUME NEW n \in Nat, NEW r \in [1..n -> Int], NEW p \in Bijection(1..n, 1..n),
           Ascends(r, p, n), NEW m \in 0..(n - 1)
    PROVE  /\ Cardinality({i \in 1..n : r[i] < r[p[m + 1]]}) <= m
           /\ m < Cardinality({i \in 1..n : r[i] <= r[p[m + 1]]})
<1> DEFINE below == {i \in 1..n : r[i] < r[p[m + 1]]}
           upto  == {i \in 1..n : r[i] <= r[p[m + 1]]}
<1>1. p \in [1..n -> 1..n] /\ \A i \in 1..n : \E j \in 1..n : p[j] = i
  BY DEF Bijection, Injection, Surjection
<1>2. m \in 0..n /\ m + 1 \in 0..n /\ m + 1 \in 1..n /\ m \in Nat
  OBVIOUS
<1>3. below \subseteq First(p, m)
  <2> SUFFICES ASSUME NEW i \in 1..n, r[i] < r[p[m + 1]] PROVE i \in First(p, m)
    OBVIOUS
  <2>1. PICK j \in 1..n : p[j] = i
    BY <1>1
  <2>2. CASE j <= m
    BY <2>1, <2>2 DEF First
  <2>3. CASE ~(j <= m)
    <3>1. j \in (m + 1)..n
      BY <2>3
    <3>2. r[p[m + 1]] <= r[p[j]]
      BY <1>2, <3>1 DEF Ascends
    <3>3. r[i] \in Int /\ r[p[m + 1]] \in Int
      BY <1>1, <1>2
    <3> QED
      BY <2>1, <3>2, <3>3
  <2> QED
    BY <2>2, <2>3
<1>4. First(p, m + 1) \subseteq upto
  <2> SUFFICES ASSUME NEW j \in 1..(m + 1) PROVE p[j] \in 1..n /\ r[p[j]] <= r[p[m + 1]]
    BY DEF First
  <2>1. j \in 1..n /\ m + 1 \in j..n
    BY <1>2
  <2> QED
    BY <1>1, <2>1 DEF Ascends
<1>5. IsFiniteSet(1..n) /\ upto \subseteq 1..n
  BY FS_Interval, 1 \in Int, n \in Int
<1> HIDE DEF below, upto
<1>6. /\ IsFiniteSet(First(p, m)) /\ Cardinality(First(p, m)) = m
      /\ IsFiniteSet(First(p, m + 1)) /\ Cardinality(First(p, m + 1)) = m + 1
  BY <1>2, FirstPlaces
<1>7. Cardinality(below) <= m
  BY <1>3, <1>6, FS_Subset
<1>8. IsFiniteSet(upto)
  BY <1>5, FS_Subset
<1>9. m + 1 <= Cardinality(upto) /\ Cardinality(upto) \in Nat
  BY <1>4, <1>6, <1>8, FS_Subset, FS_CardinalityType
<1> QED
  BY <1>2, <1>7, <1>9 DEF below, upto

\* Sums grow with their terms.
LEMMA TwoSums ==
  ASSUME NEW a \in Int, NEW b \in Int, NEW c \in Int, NEW d \in Int, a <= c, b <= d
  PROVE  c + d >= a + b
  OBVIOUS

\* The first m numbers of an order have the least total that m of the numbers have.
LEMMA LeastTotals ==
    ASSUME NEW n \in Nat, NEW r \in [1..n -> Int], NEW p \in Bijection(1..n, 1..n),
           Ascends(r, p, n), NEW T, TotalsOf(T, r, 1..n),
           NEW U, SumsOf(U, [i \in 1..n |-> r[p[i]]], n), NEW m \in 0..n
    PROVE  /\ T[First(p, m)] = U[m]
           /\ \A s \in SUBSET (1..n) : Cardinality(s) = m => T[s] >= U[m]
<1> DEFINE t == [i \in 1..n |-> r[p[i]]]
           Fine(k) == /\ T[First(p, k)] = U[k]
                      /\ \A s \in SUBSET (1..n) : Cardinality(s) = k => T[s] >= U[k]
           Bad == {k \in Nat : k <= n /\ ~Fine(k)}
<1>1. p \in [1..n -> 1..n] /\ \A i \in 1..n : \E j \in 1..n : p[j] = i
  BY DEF Bijection, Injection, Surjection
<1>2. IsFiniteSet(1..n) /\ \A s \in SUBSET (1..n) : IsFiniteSet(s)
  <2>1. IsFiniteSet(1..n)
    BY FS_Interval, 1 \in Int, n \in Int
  <2> QED
    BY <2>1, FS_Subset
<1>3. t \in [1..n -> Int] /\ SumsOf(U, t, n)
  BY <1>1
<1>4. \A i \in 1..n : t[i] = r[p[i]]
  OBVIOUS
<1>5. U[0] = 0 /\ T[{}] = 0 /\ T \in [SUBSET (1..n) -> Int]
  BY DEF SumsOf, TotalsOf
<1> HIDE DEF t
<1>11. U \in [0..n -> Int] /\ \A i \in 1..n : U[i] = U[i - 1] + t[i]
  BY <1>3 DEF SumsOf
<1>6. Fine(0)
  <2>1. First(p, 0) = {}
    BY DEF First
  <2>2. \A s \in SUBSET (1..n) : Cardinality(s) = 0 => s = {}
    BY <1>2, FS_EmptySet
  <2>3. 0 >= 0 /\ T[{}] = U[0] /\ U[0] = 0
    BY <1>5
  <2> QED
    BY <2>1, <2>2, <2>3, Zenon
<1>10. \A s \in SUBSET (1..n) : \A x \in s : T[s] = r[x] + T[s \ {x}]
  BY DEF TotalsOf
<1>7. ASSUME NEW k \in Nat, k + 1 <= n, Fine(k) PROVE Fine(k + 1)
  <2> DEFINE l == k + 1
  <2>1. l \in 1..n /\ k \in 0..n /\ k # n /\ l \in 0..n /\ l - 1 = k /\ l = k + 1 /\ l \in Nat
    BY <1>7
  <2>2. /\ First(p, k) \subseteq 1..n /\ p[l] \in 1..n /\ p[l] \notin First(p, k)
        /\ IsFiniteSet(First(p, k)) /\ Cardinality(First(p, k)) = k
        /\ First(p, l) = First(p, k) \cup {p[l]} /\ First(p, l) \subseteq 1..n
    <3>1. /\ First(p, k) \subseteq 1..n /\ p[k + 1] \in 1..n /\ p[k + 1] \notin First(p, k)
          /\ IsFiniteSet(First(p, k)) /\ Cardinality(First(p, k)) = k
          /\ First(p, k + 1) = First(p, k) \cup {p[k + 1]}
      BY <2>1, FirstPlaces
    <3> QED
      BY <3>1
  <2> HIDE DEF l
  <2>3. U[l] = U[k] + r[p[l]] /\ {U[l], U[k], r[p[l]]} \subseteq Int
    <3>1. U[l] = U[l - 1] + t[l] /\ t[l] = r[p[l]]
      BY <1>4, <1>11, <2>1
    <3>2. U[l] \in Int /\ U[k] \in Int /\ t[l] \in Int
      BY <1>3, <1>11, <2>1
    <3> QED
      BY <2>1, <3>1, <3>2
  <2>4. T[First(p, l)] = r[p[l]] + T[First(p, k)]
    <3>1. p[l] \in First(p, l) /\ First(p, l) \ {p[l]} = First(p, k)
      BY <2>2
    <3>2. First(p, l) \in SUBSET (1..n)
      BY <2>2
    <3>3. T[First(p, l)] = r[p[l]] + T[First(p, l) \ {p[l]}]
      BY <1>10, <3>1, <3>2
    <3> QED
      BY <3>1, <3>3
  <2>5. T[First(p, l)] = U[l]
    BY <1>7, <2>3, <2>4
  <2>6. ASSUME NEW s \in SUBSET (1..n), Cardinality(s) = l PROVE T[s] >= U[l]
    <3>1. PICK j \in 1..n : p[j] \in s /\ j >= l
      <4> SUFFICES ASSUME \A j \in 1..n : p[j] \in s => j < l PROVE FALSE
        BY <2>1
      <4>1. s \subseteq First(p, k)
        <5> SUFFICES ASSUME NEW i \in s PROVE i \in First(p, k)
          OBVIOUS
        <5>1. PICK j \in 1..n : p[j] = i
          BY <1>1
        <5>2. j \in 1..k
          BY <2>1, <5>1
        <5> QED
          BY <5>1, <5>2 DEF First
      <4>2. Cardinality(s) <= k
        <5>1. s \in SUBSET First(p, k)
          BY <4>1
        <5>2. PICK F : F = First(p, k)
          OBVIOUS
        <5>3. IsFiniteSet(F) /\ Cardinality(F) = k /\ s \in SUBSET F
          BY <2>2, <5>1, <5>2
        <5>4. Cardinality(s) <= Cardinality(F)
          BY <5>3, FS_Subset
        <5> QED
          BY <5>3, <5>4
      <4> QED
        BY <2>1, <2>6, <4>2
    <3>2. r[p[l]] <= r[p[j]] /\ r[p[j]] \in Int
      <4>1. j \in l..n
        BY <2>1, <3>1
      <4> QED
        BY <1>1, <2>1, <4>1 DEF Ascends
    <3>3. T[s] = r[p[j]] + T[s \ {p[j]}]
      BY <1>10, <3>1
    <3>4. s \ {p[j]} \in SUBSET (1..n) /\ Cardinality(s \ {p[j]}) = k
      <4>1. IsFiniteSet(s)
        BY <1>2
      <4>2. Cardinality(s \ {p[j]}) = Cardinality(s) - 1
        BY <3>1, <4>1, FS_RemoveElement
      <4> QED
        BY <2>1, <2>6, <4>2
    <3>5. T[s \ {p[j]}] >= U[k] /\ T[s \ {p[j]}] \in Int
      BY <1>5, <1>7, <3>4
    <3>6. PICK rest : rest = T[s \ {p[j]}]
      OBVIOUS
    <3>7. r[p[j]] + rest >= r[p[l]] + U[k]
      <4>1. r[p[l]] \in Int /\ U[k] \in Int /\ rest \in Int /\ rest >= U[k]
        BY <2>3, <3>5, <3>6
      <4> QED
        BY <3>2, <4>1, TwoSums
    <3>8. T[s] = r[p[j]] + rest /\ U[l] = U[k] + r[p[l]]
      BY <2>3, <3>3, <3>6, Zenon
    <3>9. U[k] + r[p[l]] = r[p[l]] + U[k]
      BY <2>3
    <3> QED
      BY <3>7, <3>8, <3>9, Zenon
  <2> QED
    BY <2>5, <2>6 DEF l
<1> HIDE DEF Fine
<1>8. Bad = {}
  <2>1. Bad \subseteq Nat /\ 0 \notin Bad
    BY <1>6
  <2>2. \A k \in Nat : k \notin Bad => k + 1 \notin Bad
    BY <1>7
  <2> HIDE DEF Bad
  <2> QED
    BY <2>1, <2>2, NoLeastExample
<1>9. Fine(m)
  BY <1>8
<1> QED
  BY <1>9 DEF Fine

-----------------------------------------------------------------------------
(* Value at risk *)

\* The tail is shorter than the window.
LEMMA TailWithin ==
    ASSUME NEW a \in Nat, NEW b \in Nat \ {0}, a < b, NEW n \in Nat \ {0}
    PROVE  (a * n) \div b \in 0..(n - 1)
<1> DEFINE q == (a * n) \div b
<1>1. a * n \in Nat
  OBVIOUS
<1>2. q \in Nat /\ b * q <= a * n
  BY <1>1
<1> HIDE DEF q
<1>3. a * n < b * n
  OBVIOUS
<1>4. q < n
  <2> SUFFICES ASSUME q >= n PROVE FALSE
    BY <1>2
  <2>1. b * q >= b * n
    BY <1>2
  <2>2. b * q \in Int /\ b * n \in Int /\ a * n \in Int
    BY <1>2
  <2> QED
    BY <1>2, <1>3, <2>1, <2>2
<1> QED
  BY <1>2, <1>4 DEF q

\* The element that is as great as all of them is the greatest.
LEMMA MaxIs ==
    ASSUME NEW S, NEW x \in S, \A y \in S : y \in Int /\ y <= x
    PROVE  Max(S) = x
<1>1. \E y \in S : \A z \in S : y >= z
  OBVIOUS
<1>2. Max(S) \in S /\ \A z \in S : Max(S) >= z
  BY <1>1 DEF Max
<1>3. Max(S) >= x /\ Max(S) <= x /\ Max(S) \in Int /\ x \in Int
  BY <1>2
<1> QED
  BY <1>3

\* The window holds the last returns since the reset.
VarInv == VarTypeOK /\ returns = Latest(observed, max_window)

\* Of no returns the last ones are none.
LEMMA LatestOfNone ==
    ASSUME NEW n \in Nat \ {0}
    PROVE  Latest(<<>>, n) = <<>>
<1>1. PICK e \in Seq(Int) : e = <<>> /\ Len(e) = 0
  BY EmptySeq
<1>2. Latest(e, n) \in Seq(Int) /\ Len(Latest(e, n)) = IF Len(e) < n THEN Len(e) ELSE n
  BY LatestProperties
<1>3. Len(Latest(e, n)) = 0
  BY <1>1, <1>2
<1>4. Latest(e, n) = <<>>
  BY <1>2, <1>3, EmptySeq
<1> QED
  BY <1>1, <1>4

\* It holds at the start.
LEMMA InitVarInv == Init => VarInv
<1> SUFFICES ASSUME Init PROVE VarInv
  OBVIOUS
<1>1. returns = <<>> /\ observed = <<>> /\ <<>> \in Seq(PeriodReturns) /\ Len(<<>>) = 0
  BY EmptySeq DEF Init, VarInit
<1>4. Latest(<<>>, max_window) = <<>>
  BY VarAssumption, LatestOfNone
<1> QED
  BY <1>1, <1>4 DEF VarInv, VarTypeOK

\* Every step keeps it: a return more, and the oldest goes when the window is full.
LEMMA NextVarInv == VarInv /\ [Next]_vars => VarInv'
<1> SUFFICES ASSUME VarInv, [Next]_vars PROVE VarInv'
  OBVIOUS
<1>1. VarTypeOK'
  BY VarTyped DEF VarInv
<1>2. max_window \in Nat \ {0}
  BY VarAssumption
<1>3. ASSUME NEW r \in PeriodReturns, update(r) PROVE VarInv'
  <2>1. observed \in Seq(PeriodReturns) /\ returns = Latest(observed, max_window)
    BY DEF VarInv, VarTypeOK
  <2>2. Latest(Append(observed, r), max_window) = Pushed(returns, r, max_window)
    BY <1>2, <2>1, LatestPushed
  <2>3. Len(returns) = (IF Len(observed) < max_window THEN Len(observed) ELSE max_window)
    BY <1>2, <2>1, LatestProperties
  <2>4. Len(observed) \in Nat /\ returns \in Seq(PeriodReturns)
    BY <2>1, LenProperties DEF VarInv, VarTypeOK
  <2>5. returns' = Pushed(returns, r, max_window)
    <3>1. CASE Len(returns) < max_window
      BY <1>2, <1>3, <2>3, <2>4, <3>1 DEF update, Pushed
    <3>2. CASE ~(Len(returns) < max_window)
      <4>1. Len(returns) >= max_window /\ returns # <<>>
        BY <1>2, <2>3, <2>4, <3>2, EmptySeq
      <4>2. Tail(Append(returns, r)) = Append(Tail(returns), r)
        BY <2>4, <4>1, HeadTailAppend
      <4> QED
        BY <1>3, <3>2, <4>1, <4>2 DEF update, Pushed
    <3> QED
      BY <3>1, <3>2
  <2>6. observed' = Append(observed, r)
    BY <1>3 DEF update
  <2> QED
    BY <1>1, <2>2, <2>5, <2>6 DEF VarInv, Latest
<1>4. CASE VarReset
  <2>1. returns' = <<>> /\ observed' = <<>> /\ <<>> \in Seq(PeriodReturns) /\ Len(<<>>) = 0
    BY <1>4, EmptySeq DEF VarReset
  <2>4. Latest(<<>>, max_window) = <<>>
    BY <1>2, LatestOfNone
  <2> QED
    BY <1>1, <2>1, <2>4 DEF VarInv, Latest
<1>5. CASE UNCHANGED varVars
  BY <1>5 DEF varVars, VarInv, VarTypeOK, Latest
<1> QED
  BY <1>3, <1>4, <1>5 DEF Next, vars, VarNext

\* The returns that the property looks at are those of the window.
LEMMA LastReturnsAre == VarInv => LastReturns = returns
<1> SUFFICES ASSUME VarInv PROVE LastReturns = returns
  OBVIOUS
<1> DEFINE l == Len(observed)
<1>1. l \in Nat /\ max_window \in Nat \ {0}
  BY LenProperties, VarAssumption DEF VarInv, VarTypeOK
<1>2. Max({1, l - max_window + 1}) = IF l > max_window THEN l - max_window + 1 ELSE 1
  <2> DEFINE a == l - max_window + 1
  <2>1. a \in Int /\ 1 \in Int
    BY <1>1
  <2> HIDE DEF a
  <2>2. Max({1, a}) \in {1, a} /\ Max({1, a}) >= 1 /\ Max({1, a}) >= a
    BY <2>1, MaxOfTwo
  <2>3. Max({1, a}) = IF a > 1 THEN a ELSE 1
    BY <2>1, <2>2
  <2> QED
    BY <1>1, <2>3 DEF a
<1> QED
  BY <1>2, Zenon DEF VarInv, LastReturns, Latest, Recent, l

\* The sorted copy is the returns in order.
LEMMA CopyInOrder ==
    ASSUME Len(returns) \in Nat, returns \in [1..Len(returns) -> Int]
    PROVE  \E p \in Bijection(1..Len(returns), 1..Len(returns)) :
               /\ Ascends(returns, p, Len(returns))
               /\ sorted_returns = [i \in 1..Len(returns) |-> returns[p[i]]]
<1> DEFINE p == CHOOSE p \in Bijection(1..Len(returns), 1..Len(returns)) :
                    Ascends(returns, p, Len(returns))
<1>1. p \in Bijection(1..Len(returns), 1..Len(returns)) /\ Ascends(returns, p, Len(returns))
  <2>1. \E q \in Bijection(1..Len(returns), 1..Len(returns)) : Ascends(returns, q, Len(returns))
    BY OrderExists
  <2> QED
    BY <2>1, Zenon
<1>2. sorted_returns = [i \in 1..Len(returns) |-> returns[p[i]]]
  BY Zenon DEF sorted_returns
<1> HIDE DEF p
<1> QED
  BY <1>1, <1>2

\* What some of the returns lose is their total.
LEMMA LossIsTotal ==
    ASSUME NEW n \in Nat, NEW r \in [1..n -> Int], r = LastReturns,
           NEW T, TotalsOf(T, r, 1..n), NEW I \in SUBSET (1..n)
    PROVE  LossOf(I) = -T[I]
<1> DEFINE L == LastReturns
           Body(g) == [s \in SUBSET I |->
                         IF s = {} THEN 0
                         ELSE L[CHOOSE x \in s : TRUE] + g[s \ {CHOOSE x \in s : TRUE}]]
           f == CHOOSE g : g = Body(g)
           it == [s \in SUBSET I |-> T[s]]
           pick == [s \in (SUBSET I) \ {{}} |-> CHOOSE x \in s : TRUE]
<1>1. LossOf(I) = -f[I]
  BY Zenon DEF LossOf, MapThenSumSet, MapThenFoldSet
<1>2. L = r
  OBVIOUS
<1> HIDE DEF L
<1>3. ASSUME NEW s \in (SUBSET I) \ {{}}
      PROVE  /\ (CHOOSE x \in s : TRUE) \in s
             /\ T[s] = L[CHOOSE x \in s : TRUE] + T[s \ {CHOOSE x \in s : TRUE}]
  <2>1. (CHOOSE x \in s : TRUE) \in s
    OBVIOUS
  <2>2. PICK x \in s : x = CHOOSE y \in s : TRUE
    BY <2>1
  <2>3. s \in SUBSET (1..n)
    OBVIOUS
  <2>4. T[s] = r[x] + T[s \ {x}]
    BY <2>3 DEF TotalsOf
  <2> QED
    BY <1>2, <2>1, <2>2, <2>4
<1>4. it = Body(it)
  <2>1. \A s \in SUBSET I : it[s] = Body(it)[s]
    <3> TAKE s \in SUBSET I
    <3>1. CASE s = {}
      BY <3>1 DEF TotalsOf
    <3>2. CASE s # {}
      BY <1>3, <3>2
    <3> QED
      BY <3>1, <3>2
  <2> QED
    BY <2>1
<1>5. f = Body(f)
  <2> HIDE DEF Body, it
  <2> QED
    BY <1>4
<1> HIDE DEF f
<1>6. Picks(pick, I)
  BY DEF Picks
<1>10. IsFiniteSet(I)
  <2>1. IsFiniteSet(1..n)
    BY FS_Interval, 1 \in Int, n \in Int
  <2> QED
    BY <2>1, FS_Subset
<1>7. \A s \in (SUBSET I) \ {{}} :
          f[s] = L[CHOOSE x \in s : TRUE] + f[s \ {CHOOSE x \in s : TRUE}]
  BY <1>5
<1>8. AgreeStepwise(f, T, I, pick)
  <2>1. f[{}] = T[{}]
    BY <1>5 DEF TotalsOf
  <2>2. ASSUME NEW s \in (SUBSET I) \ {{}}, f[s \ {pick[s]}] = T[s \ {pick[s]}]
        PROVE  f[s] = T[s]
    <3>1. pick[s] = CHOOSE x \in s : TRUE
      OBVIOUS
    <3>2. T[s] = L[pick[s]] + T[s \ {pick[s]}]
      BY Zenon, <1>3, <3>1
    <3>3. f[s] = L[pick[s]] + f[s \ {pick[s]}]
      BY Zenon, <1>7, <3>1
    <3> HIDE DEF pick
    <3> QED
      BY <2>2, <3>2, <3>3
  <2> HIDE DEF pick
  <2> QED
    BY <2>1, <2>2 DEF AgreeStepwise
<1> HIDE DEF pick, Body, it
<1>9. \A s \in SUBSET I : f[s] = T[s]
  <2>1. PICK J : J = I
    OBVIOUS
  <2>2. IsFiniteSet(J) /\ Picks(pick, J) /\ AgreeStepwise(f, T, J, pick)
    BY <1>6, <1>8, <1>10, <2>1
  <2>3. \A s \in SUBSET J : f[s] = T[s]
    BY <2>2, FoldUnique
  <2> QED
    BY <2>1, <2>3
<1>11. I \in SUBSET I
  OBVIOUS
<1> QED
  BY <1>1, <1>9, <1>11 DEF f, Body

\* The sum of the first places of an order.
LEMMA SumOfFirst ==
    ASSUME NEW n \in Nat, NEW t \in [1..n -> Int], NEW U, SumsOf(U, t, n), NEW k \in 1..n
    PROVE  Sum(SubSeq(t, 1, k)) = U[k]
<1> DEFINE w == SubSeq(t, 1, k)
           V == [i \in 0..k |-> U[i]]
<1>1. /\ w \in Seq(Int) /\ Len(w) = k /\ \A i \in 1..k : w[i] = t[i]
  <2>1. \A i \in 1..k : t[i] \in Int
    OBVIOUS
  <2>2. /\ w \in Seq(Int) /\ Len(w) = (IF 1 <= k THEN k - 1 + 1 ELSE 0)
        /\ \A i \in 1..(k - 1 + 1) : w[i] = t[1 + i - 1]
    BY <2>1, SubSeqProperties, 1 \in Int, k \in Int
  <2>3. \A i \in 1..k : i \in 1..(k - 1 + 1) /\ 1 + i - 1 = i
    OBVIOUS
  <2> HIDE DEF w
  <2> QED
    BY <2>2, <2>3
<1> HIDE DEF w
<1>2. Sum(w) = SumOf(w)
  BY Zenon DEF Sum, SumOf, FoldLeft, MapThenFoldSet
<1>3. PICK S : SumsOf(S, w, k) /\ SumOf(w) = S[k]
  BY <1>1, SumOfSums
<1>4. U \in [0..n -> Int] /\ U[0] = 0 /\ \A i \in 1..n : U[i] = U[i - 1] + t[i]
  BY DEF SumsOf
<1>5. SumsOf(V, w, k)
  <2>1. V \in [0..k -> Int] /\ V[0] = 0
    BY <1>4
  <2>2. ASSUME NEW i \in 1..k PROVE V[i] = V[i - 1] + w[i]
    <3>1. i \in 1..n /\ i \in 0..k /\ i - 1 \in 0..k
      OBVIOUS
    <3> QED
      BY <1>1, <1>4, <3>1
  <2> HIDE DEF V
  <2> QED
    BY <2>1, <2>2 DEF SumsOf
<1>6. V[k] = U[k]
  OBVIOUS
<1> HIDE DEF V
<1>7. k \in Nat /\ k \in 0..k
  OBVIOUS
<1>8. S[k] = V[k]
  BY <1>3, <1>5, <1>7, SumsUnique
<1> QED
  BY <1>2, <1>3, <1>6, <1>8 DEF w

\* From the window and the order of its copy both measures follow.
LEMMA MeasuresExact == VarInv => TailsExact
<1> SUFFICES ASSUME VarInv, observed # <<>>, NEW tail \in Tails,
                    NEW k \in TailSizes(tail)
             PROVE  LET loss == historical_var(k)
                        size == Max({1, k})
                        most == {LossOf(s) : s \in kSubset(size, DOMAIN LastReturns)}
                    IN  /\ Worse(loss) <= k /\ k < AtLeast(loss)
                        /\ expected_shortfall(k) = Max(most)
  BY Zenon DEF TailsExact
<1> DEFINE n == Len(returns)
           size == Max({1, k})
           loss == historical_var(k)
           most == {LossOf(s) : s \in kSubset(size, DOMAIN LastReturns)}
<1>1. LastReturns = returns
  BY LastReturnsAre
<1>2. /\ n \in Nat \ {0} /\ returns \in [1..n -> Int] /\ DOMAIN returns = 1..n /\ returns # <<>>
  <2>1. /\ observed \in Seq(PeriodReturns) /\ max_window \in Nat \ {0}
        /\ returns \in Seq(PeriodReturns) /\ returns = Latest(observed, max_window)
    BY VarAssumption DEF VarInv, VarTypeOK
  <2>2. Len(observed) \in Nat /\ Len(observed) # 0
    BY <2>1, EmptySeq, LenProperties
  <2>3. n = (IF Len(observed) < max_window THEN Len(observed) ELSE max_window)
    BY <2>1, LatestProperties
  <2>4. n \in Nat \ {0}
    BY <2>1, <2>2, <2>3
  <2>5. returns \in [1..n -> PeriodReturns] /\ PeriodReturns \subseteq Int
    BY <2>1, LenProperties, VarAssumption
  <2>6. returns # <<>>
    BY <2>4, EmptySeq
  <2> QED
    BY <2>4, <2>5, <2>6
<1>3. k \in 0..(n - 1)
  <2>1. tail[1] \in Nat /\ tail[2] \in Nat \ {0} /\ tail[1] < tail[2]
    BY VarAssumption
  <2> DEFINE whole == (tail[1] * n) \div tail[2]
  <2>2. k \in (IF whole * tail[2] = tail[1] * n /\ whole > 0 THEN {whole - 1, whole} ELSE {whole})
    BY Zenon DEF TailSizes
  <2> HIDE DEF n
  <2>3. whole \in 0..(n - 1)
    BY <1>2, <2>1, TailWithin
  <2> HIDE DEF whole
  <2> QED
    BY <1>2, <2>2, <2>3
<1>4. PICK p \in Bijection(1..n, 1..n) : /\ Ascends(returns, p, n)
                                        /\ sorted_returns = [i \in 1..n |-> returns[p[i]]]
  BY <1>2, CopyInOrder
<1> DEFINE t == [i \in 1..n |-> returns[p[i]]]
<1>5. p \in [1..n -> 1..n]
  BY <1>4 DEF Bijection, Injection
<1>6. t \in [1..n -> Int] /\ \A i \in 1..n : t[i] = returns[p[i]] /\ returns[p[i]] \in Int
  BY <1>2, <1>5
<1>7. PICK U : SumsOf(U, t, n)
  <2> HIDE DEF t, n
  <2> QED
    BY <1>2, <1>6, SumsExist
<1>8. PICK T : TotalsOf(T, returns, 1..n)
  <2>1. IsFiniteSet(1..n)
    BY <1>2, FS_Interval, 1 \in Int, n \in Int
  <2> HIDE DEF n
  <2> QED
    BY <1>2, <2>1, TotalsExist
<1>9. size = (IF k = 0 THEN 1 ELSE k) /\ size \in 1..n
  <2> HIDE DEF n
  <2>1. k \in Int /\ 1 \in Int
    BY <1>3
  <2>2. size \in {1, k} /\ size >= 1 /\ size >= k
    BY <2>1, MaxOfTwo
  <2> QED
    BY <1>2, <1>3, <2>2
<1>10. loss = -returns[p[k + 1]]
  <2>1. Min({k, n - 1}) = k
    <3> HIDE DEF n
    <3>1. k \in Int /\ n - 1 \in Int /\ k <= n - 1
      BY <1>2, <1>3
    <3>2. k \in {k, n - 1} /\ \A y \in {k, n - 1} : k <= y
      BY <3>1
    <3>3. /\ Min({k, n - 1}) \in {k, n - 1}
          /\ \A y \in {k, n - 1} : Min({k, n - 1}) <= y
      BY <3>2 DEF Min
    <3> QED
      BY <3>1, <3>3
  <2>2. loss = -sorted_returns[Min({k, n - 1}) + 1]
    BY <1>2, Zenon DEF historical_var
  <2>3. loss = -t[k + 1]
    BY <1>4, <2>1, <2>2, Zenon
  <2>4. k + 1 \in 1..n
    BY <1>2, <1>3
  <2> HIDE DEF t, loss
  <2> QED
    BY <1>6, <2>3, <2>4
<1>11. Worse(loss) <= k /\ k < AtLeast(loss)
  <2> DEFINE x == returns[p[k + 1]]
  <2>1. k + 1 \in 1..n /\ x \in Int /\ \A i \in 1..n : returns[i] \in Int
    <3>1. k + 1 \in 1..n
      BY <1>2, <1>3
    <3> HIDE DEF n
    <3> QED
      BY <1>2, <1>5, <3>1
  <2>2. /\ Worse(loss) = Cardinality({i \in 1..n : -returns[i] > loss})
        /\ AtLeast(loss) = Cardinality({i \in 1..n : -returns[i] >= loss})
    BY <1>1, <1>2 DEF Worse, AtLeast
  <2> HIDE DEF loss, n
  <2>3. {i \in 1..n : -returns[i] > loss} = {i \in 1..n : returns[i] < x}
    <3> HIDE DEF x
    <3> QED
      BY <1>10, <2>1 DEF x
  <2>4. {i \in 1..n : -returns[i] >= loss} = {i \in 1..n : returns[i] <= x}
    BY <1>10, <2>1
  <2>5. /\ Cardinality({i \in 1..n : returns[i] < x}) <= k
        /\ k < Cardinality({i \in 1..n : returns[i] <= x})
    BY <1>2, <1>3, <1>4, Ranked
  <2> QED
    BY <2>2, <2>3, <2>4, <2>5
<1>12. expected_shortfall(k) = -U[size]
  <2>1. CASE k = 0
    <3>1. expected_shortfall(k) = -sorted_returns[1]
      BY <1>2, <2>1, Zenon DEF expected_shortfall
    <3>2. sorted_returns[1] = t[1]
      BY <1>4
    <3> HIDE DEF t, n, size
    <3>3. U[1] = U[1 - 1] + t[1] /\ U[0] = 0 /\ 1 - 1 = 0 /\ t[1] \in Int
      <4>1. 1 \in 1..n
        BY <1>2
      <4> QED
        BY <1>6, <1>7, <4>1 DEF SumsOf
    <3> QED
      BY <1>9, <2>1, <3>1, <3>2, <3>3
  <2>2. CASE k # 0
    <3>1. expected_shortfall(k) = -Sum(SubSeq(t, 1, k))
      BY <1>2, <1>4, <2>2, Zenon DEF expected_shortfall
    <3> HIDE DEF t, n, size
    <3>2. k \in 1..n
      BY <1>2, <1>3, <2>2
    <3>3. Sum(SubSeq(t, 1, k)) = U[k]
      BY <1>2, <1>6, <1>7, <3>2, SumOfFirst
    <3> QED
      BY <1>9, <2>2, <3>1, <3>3
  <2> QED
    BY <2>1, <2>2
<1>13. Max(most) = -U[size]
  <2>1. most = {LossOf(s) : s \in kSubset(size, 1..n)}
    BY <1>1, <1>2
  <2> HIDE DEF most, n
  <2>2. \A s \in SUBSET (1..n) : LossOf(s) = -T[s]
    BY <1>1, <1>2, <1>8, LossIsTotal
  <2> HIDE DEF size
  <2>3. size \in 0..n
    BY <1>2, <1>9
  <2>4. /\ T[First(p, size)] = U[size]
        /\ \A s \in SUBSET (1..n) : Cardinality(s) = size => T[s] >= U[size]
    BY <1>2, <1>4, <1>7, <1>8, <2>3, LeastTotals DEF n
  <2>5. First(p, size) \in kSubset(size, 1..n)
    <3>1. First(p, size) \subseteq 1..n /\ Cardinality(First(p, size)) = size
      BY <1>2, <1>4, <2>3, FirstPlaces
    <3> QED
      BY <3>1 DEF kSubset
  <2>6. \A s \in kSubset(size, 1..n) : s \in SUBSET (1..n) /\ Cardinality(s) = size
    BY DEF kSubset
  <2>7. \A s \in SUBSET (1..n) : T[s] \in Int
    BY <1>8 DEF TotalsOf
  <2>8. -U[size] \in most
    <3>1. LossOf(First(p, size)) = -U[size]
      BY <2>2, <2>4, <2>5, <2>6
    <3> QED
      BY <2>1, <2>5, <3>1
  <2>9. U[size] \in Int
    BY <1>7, <2>3 DEF SumsOf
  <2>10. \A y \in most : y \in Int /\ y <= -U[size]
    <3> TAKE y \in most
    <3>1. PICK s \in kSubset(size, 1..n) : y = LossOf(s)
      BY <2>1
    <3>2. y = -T[s] /\ T[s] \in Int /\ T[s] >= U[size]
      BY <2>2, <2>4, <2>6, <2>7, <3>1
    <3> QED
      BY <2>9, <3>2
  <2> QED
    BY <2>8, <2>10, MaxIs
<1> QED
  BY <1>11, <1>12, <1>13

\* After any updates and resets, whatever the window, the historical VaR is the order
\* statistic of the last returns and the shortfall is the worst loss of that many of
\* them (var_engine.cpp).
THEOREM MeasuresOfTails == Spec => []TailsExact
<1>1. Spec => []VarInv
  BY InitVarInv, NextVarInv, PTL DEF Spec
<1> QED
  BY <1>1, MeasuresExact, PTL

-----------------------------------------------------------------------------
(* The bars of a query *)

\* The windows that bars are of begin at the multiples of their duration.
Multiples(dur) == {q * dur : q \in Nat}

\* A tick is in the window that its bar is of.
LEMMA InItsWindow ==
    ASSUME NEW ts \in Nat, NEW dur \in Nat \ {0}, NEW w, w = (ts \div dur) * dur
    PROVE  /\ w \in Multiples(dur) /\ w \in Nat
           /\ w <= ts /\ ts < w + dur
<1>1. PICK q \in Nat : q = ts \div dur
  OBVIOUS
<1>2. w = q * dur
  BY <1>1, Zenon
<1>3. q * dur <= ts /\ ts < q * dur + dur
  BY <1>1
<1> QED
  BY <1>2, <1>3 DEF Multiples

\* Windows do not overlap.
LEMMA WindowsApart ==
    ASSUME NEW dur \in Nat \ {0}, NEW v \in Multiples(dur), NEW w \in Multiples(dur), v < w
    PROVE  v + dur <= w
<1>1. PICK q \in Nat, r \in Nat : v = q * dur /\ w = r * dur
  BY DEF Multiples
<1>2. q < r
  <2> SUFFICES ASSUME r <= q PROVE FALSE
    BY <1>1
  <2>1. r * dur <= q * dur
    OBVIOUS
  <2> QED
    BY <1>1, <2>1
<1>3. (q + 1) * dur <= r * dur /\ (q + 1) * dur = q * dur + dur
  BY <1>2
<1> QED
  BY <1>1, <1>3

-----------------------------------------------------------------------------
(* Ticks of a time span, tick after tick *)

\* What a slot of a file holds are numbers.
LEMMA SlotFields == ASSUME NEW c \in Slot PROVE c.recv_ts \in Nat /\ c.px \in Int
<1>1. CASE c \in Record
  <2>1. c.recv_ts \in TickTimes /\ c.px \in Prices
    BY <1>1 DEF Record
  <2>2. (\A x \in TickTimes : x \in Nat) /\ (\A x \in Prices : x \in Int)
    BY StoreAssumption
  <2> QED
    BY <2>1, <2>2, Zenon
<1>2. CASE c = Zeroes
  BY <1>2 DEF Zeroes
<1> QED
  BY <1>1, <1>2, Zenon DEF Slot

\* What a time span holds of a sequence with one more tick.
LEMMA AmongMore ==
    ASSUME NEW C, NEW s \in Seq(C), NEW x \in C, NEW first_ts, NEW last_ts
    PROVE  Among(Append(s, x), first_ts, last_ts)
             = Kept(Among(s, first_ts, last_ts), x, first_ts, last_ts)
<1>1. PICK r \in Seq(C) : r = Append(s, x)
  BY AppendProperties
<1>2. /\ Len(s) \in Nat /\ Len(r) = Len(s) + 1
      /\ \A i \in 1..Len(s) : r[i] = s[i]
      /\ r[Len(s) + 1] = x
  BY <1>1, AppendProperties, LenProperties
<1>3. PICK g : Selects(g, s, first_ts, last_ts)
  BY AmongSelects
<1>4. PICK h : Selects(h, r, first_ts, last_ts)
  BY AmongSelects
<1> DEFINE Bad == {n \in Nat : n <= Len(s) /\ h[n] # g[n]}
<1>5. 0 \notin Bad
  BY <1>3, <1>4 DEF Selects
<1>6. ASSUME NEW m \in Nat, m \notin Bad PROVE m + 1 \notin Bad
  <2> SUFFICES ASSUME m + 1 <= Len(s) PROVE h[m + 1] = g[m + 1]
    OBVIOUS
  <2>1. h[m] = g[m]
    BY <1>2, <1>6
  <2>2. PICK n \in 1..Len(s) : n = m + 1 /\ n - 1 = m /\ n \in 1..Len(r)
    BY <1>2
  <2>3. g[n] = Kept(g[m], s[n], first_ts, last_ts)
    BY <1>3, <2>2 DEF Selects
  <2>4. h[n] = Kept(h[m], r[n], first_ts, last_ts)
    BY <1>4, <2>2 DEF Selects
  <2>5. r[n] = s[n]
    BY <1>2
  <2> QED
    BY <2>1, <2>2, <2>3, <2>4, <2>5
<1>7. Bad = {}
  <2>1. Bad \subseteq Nat
    OBVIOUS
  <2> HIDE DEF Bad
  <2> QED
    BY <1>5, <1>6, <2>1, NoLeastExample
<1>8. h[Len(s)] = g[Len(s)]
  BY <1>2, <1>7
<1>9. PICK n \in 1..Len(r) : n = Len(r) /\ n - 1 = Len(s) /\ r[n] = x
  BY <1>2
<1>10. h[n] = Kept(h[Len(s)], x, first_ts, last_ts)
  BY <1>4, <1>9 DEF Selects
<1>11. Among(s, first_ts, last_ts) = g[Len(s)] /\ Among(r, first_ts, last_ts) = h[n]
  BY <1>3, <1>4, <1>9 DEF Selects
<1> QED
  BY <1>1, <1>8, <1>10, <1>11, Zenon

\* No tick, none in any time span.
LEMMA AmongNothing ==
    ASSUME NEW first_ts, NEW last_ts
    PROVE  Among(<<>>, first_ts, last_ts) = <<>>
<1>1. <<>> \in Seq({}) /\ Len(<<>>) = 0
  BY EmptySeq
<1>2. PICK g : Selects(g, <<>>, first_ts, last_ts)
  BY <1>1, AmongSelects
<1> QED
  BY <1>1, <1>2 DEF Selects

\* None of the ticks is in a time span that all are outside of.
LEMMA AmongOutside ==
    ASSUME NEW C, NEW s \in Seq(C), NEW first_ts, NEW last_ts,
           \A i \in 1..Len(s) : ~(first_ts <= s[i].recv_ts /\ s[i].recv_ts <= last_ts)
    PROVE  Among(s, first_ts, last_ts) = <<>>
<1>1. PICK z \in Nat : z = 0 /\ z \in 0..Len(s) /\ z \in 0..z
  BY LenProperties
<1>2. Spans(s, first_ts, last_ts, z, z)
  BY <1>1 DEF Spans
<1>3. Among(s, first_ts, last_ts) = SubSeq(s, z + 1, z)
  BY <1>1, <1>2, AmongBetween
<1>4. SubSeq(s, z + 1, z) = <<>>
  BY <1>1, SubSeqEmpty, z + 1 \in Int
<1> QED
  BY <1>3, <1>4

\* It holds ticks of the sequence.
LEMMA AmongIn ==
    ASSUME NEW C, NEW s \in Seq(C), NEW first_ts, NEW last_ts
    PROVE  Among(s, first_ts, last_ts) \in Seq(C)
<1>1. PICK g : Selects(g, s, first_ts, last_ts)
  BY AmongSelects
<1>2. Len(s) \in Nat
  BY LenProperties
<1> DEFINE Bad == {n \in Nat : n <= Len(s) /\ g[n] \notin Seq(C)}
<1>3. 0 \notin Bad
  BY <1>1, EmptySeq DEF Selects
<1>4. ASSUME NEW m \in Nat, m \notin Bad PROVE m + 1 \notin Bad
  <2> SUFFICES ASSUME m + 1 <= Len(s) PROVE g[m + 1] \in Seq(C)
    OBVIOUS
  <2>1. g[m] \in Seq(C)
    BY <1>2, <1>4
  <2>2. PICK n \in 1..Len(s) : n = m + 1 /\ n - 1 = m
    BY <1>2
  <2>3. g[n] = Kept(g[m], s[n], first_ts, last_ts) /\ s[n] \in C
    BY <1>1, <2>2, ElementOfSeq DEF Selects
  <2>4. Append(g[m], s[n]) \in Seq(C)
    BY <2>1, <2>3, AppendProperties
  <2> QED
    BY <2>1, <2>2, <2>3, <2>4 DEF Kept
<1>5. Bad = {}
  <2>1. Bad \subseteq Nat
    OBVIOUS
  <2> HIDE DEF Bad
  <2> QED
    BY <1>3, <1>4, <2>1, NoLeastExample
<1> QED
  BY <1>1, <1>2, <1>5 DEF Selects

-----------------------------------------------------------------------------
(* What a bar says of its ticks *)

\* Of finitely many numbers one is the least.
LEMMA LeastExists ==
    ASSUME NEW n \in Nat \ {0}, NEW r, \A i \in 1..n : r[i] \in Int
    PROVE  \E m \in 1..n : \A i \in 1..n : r[m] <= r[i]
<1>1. PICK o : o = [i \in 1..n |-> 0 - r[i]]
  OBVIOUS
<1>2. \A i \in 1..n : o[i] = 0 - r[i] /\ o[i] \in Int
  BY <1>1
<1>3. PICK m \in 1..n : \A i \in 1..n : o[i] <= o[m]
  BY <1>2, GreatestExists
<1>4. ASSUME NEW i \in 1..n PROVE r[m] <= r[i]
  <2>1. o[i] <= o[m] /\ o[i] = 0 - r[i] /\ o[m] = 0 - r[m] /\ r[i] \in Int /\ r[m] \in Int
    BY <1>2, <1>3
  <2> QED
    BY <2>1
<1> QED
  BY <1>4

\* The least of some numbers is what is not above any of them.
LEMMA MinIs ==
    ASSUME NEW S, NEW x \in S, \A y \in S : y \in Int /\ x <= y
    PROVE  Min(S) = x
<1>1. \E y \in S : \A z \in S : y <= z
  OBVIOUS
<1>2. Min(S) \in S /\ \A z \in S : Min(S) <= z
  BY <1>1 DEF Min
<1>3. Min(S) >= x /\ Min(S) <= x /\ Min(S) \in Int /\ x \in Int
  BY <1>2
<1> QED
  BY <1>3

Greatest(m, S) == m \in S /\ \A y \in S : y \in Int /\ y <= m
Least(m, S)    == m \in S /\ \A y \in S : y \in Int /\ m <= y

\* What extremes of some numbers and of one more are.
LEMMA MaxOfMore ==
    ASSUME NEW S, NEW m, Greatest(m, S), NEW x \in Int
    PROVE  /\ Max(S) = m
           /\ Max(S \cup {x}) = Max({m, x})
           /\ Max({m, x}) \in Int
<1> USE DEF Greatest
<1>1. Max(S) = m
  BY MaxIs
<1>2. CASE x <= m
  <2>1. Max(S \cup {x}) = m
    <3>1. m \in S \cup {x} /\ \A y \in S \cup {x} : y \in Int /\ y <= m
      BY <1>2
    <3> QED
      BY <3>1, MaxIs
  <2>2. Max({m, x}) = m
    <3>1. m \in {m, x} /\ \A y \in {m, x} : y \in Int /\ y <= m
      BY <1>2
    <3> QED
      BY <3>1, MaxIs
  <2> QED
    BY <1>1, <2>1, <2>2
<1>3. CASE ~(x <= m)
  <2>1. Max(S \cup {x}) = x
    <3>1. x \in S \cup {x} /\ \A y \in S \cup {x} : y \in Int /\ y <= x
      BY <1>3
    <3> QED
      BY <3>1, MaxIs
  <2>2. Max({m, x}) = x
    <3>1. x \in {m, x} /\ \A y \in {m, x} : y \in Int /\ y <= x
      BY <1>3
    <3> QED
      BY <3>1, MaxIs
  <2> QED
    BY <1>1, <2>1, <2>2
<1> QED
  BY <1>2, <1>3

\* So with the least.
LEMMA MinOfMore ==
    ASSUME NEW S, NEW m, Least(m, S), NEW x \in Int
    PROVE  /\ Min(S) = m
           /\ Min(S \cup {x}) = Min({m, x})
           /\ Min({m, x}) \in Int
<1> USE DEF Least
<1>1. Min(S) = m
  BY MinIs
<1>2. CASE m <= x
  <2>1. Min(S \cup {x}) = m
    <3>1. m \in S \cup {x} /\ \A y \in S \cup {x} : y \in Int /\ m <= y
      BY <1>2
    <3> QED
      BY <3>1, MinIs
  <2>2. Min({m, x}) = m
    <3>1. m \in {m, x} /\ \A y \in {m, x} : y \in Int /\ m <= y
      BY <1>2
    <3> QED
      BY <3>1, MinIs
  <2> QED
    BY <1>1, <2>1, <2>2
<1>3. CASE ~(m <= x)
  <2>1. Min(S \cup {x}) = x
    <3>1. x \in S \cup {x} /\ \A y \in S \cup {x} : y \in Int /\ x <= y
      BY <1>3
    <3> QED
      BY <3>1, MinIs
  <2>2. Min({m, x}) = x
    <3>1. x \in {m, x} /\ \A y \in {m, x} : y \in Int /\ x <= y
      BY <1>3
    <3> QED
      BY <3>1, MinIs
  <2> QED
    BY <1>1, <2>1, <2>2
<1> QED
  BY <1>2, <1>3

Bar == [open_ts : Int, open : Int, high : Int, low : Int, close : Int, trade_count : Int]

\* A bar with a tick more, field by field.
LEMMA AddedToIs ==
    ASSUME NEW b \in Bar, NEW t \in Slot
    PROVE  AddedTo(b, t) =
             [open_ts |-> b.open_ts, open |-> b.open, high |-> Max({b.high, t.px}),
              low |-> Min({b.low, t.px}), close |-> t.px, trade_count |-> b.trade_count + 1]
<1> DEFINE hi == Max({b.high, t.px})
           lo == Min({b.low, t.px})
           px == t.px
           k  == b.trade_count + 1
           B1 == [b EXCEPT !.high = hi]
           B2 == [B1 EXCEPT !.low = lo]
           B3 == [B2 EXCEPT !.close = px]
           B4 == [B3 EXCEPT !.trade_count = k]
<1>1. AddedTo(b, t) = B4
  <2>1. B1.low = b.low /\ B3.trade_count = b.trade_count
    BY DEF Bar
  <2> QED
    BY <2>1, Zenon DEF AddedTo
<1>2. B4 = [open_ts |-> b.open_ts, open |-> b.open, high |-> hi, low |-> lo,
            close |-> px, trade_count |-> k]
  <2> HIDE DEF hi, lo, px, k
  <2>1. B1 = [open_ts |-> b.open_ts, open |-> b.open, high |-> hi, low |-> b.low,
              close |-> b.close, trade_count |-> b.trade_count]
    BY DEF Bar
  <2> HIDE DEF B1
  <2>2. B2 = [open_ts |-> b.open_ts, open |-> b.open, high |-> hi, low |-> lo,
              close |-> b.close, trade_count |-> b.trade_count]
    BY <2>1
  <2> HIDE DEF B2
  <2>3. B3 = [open_ts |-> b.open_ts, open |-> b.open, high |-> hi, low |-> lo,
              close |-> px, trade_count |-> b.trade_count]
    BY <2>2
  <2> HIDE DEF B3
  <2> QED
    BY <2>3
<1> QED
  BY <1>1, <1>2, Zenon

\* What the bar of the ticks so far says when a tick is added.
LEMMA SummaryMore ==
    ASSUME NEW q \in Seq(Slot), q # <<>>, NEW t \in Slot, NEW dur \in Nat \ {0}
    PROVE  /\ Summary(Append(q, t), dur) = AddedTo(Summary(q, dur), t)
           /\ Summary(q, dur) \in Bar
<1>1. PICK r \in Seq(Slot) : r = Append(q, t)
  BY AppendProperties
<1>2. /\ Len(q) \in Nat \ {0} /\ Len(r) = Len(q) + 1
      /\ \A i \in 1..Len(q) : r[i] = q[i]
      /\ r[Len(q) + 1] = t
  BY <1>1, AppendProperties, LenProperties, EmptySeq
<1>3. (\A i \in 1..Len(q) : q[i].px \in Int) /\ t.px \in Int
  BY ElementOfSeq, SlotFields
<1> DEFINE px == {q[i].px : i \in DOMAIN q}
<1>4. /\ DOMAIN q = 1..Len(q)
      /\ \A y \in px : \E i \in 1..Len(q) : y = q[i].px
      /\ \A i \in 1..Len(q) : q[i].px \in px
      /\ px \subseteq Int
  BY <1>3, LenProperties
<1>5. {r[i].px : i \in DOMAIN r} = px \cup {t.px}
  <2>1. DOMAIN r = 1..(Len(q) + 1)
    BY <1>2, LenProperties
  <2>2. DOMAIN r = (1..Len(q)) \cup {Len(q) + 1}
    BY <1>2, <2>1
  <2> QED
    BY <1>2, <1>4, <2>2
<1>6. PICK m : Greatest(m, px)
  <2> DEFINE at == [i \in 1..Len(q) |-> q[i].px]
  <2>1. \A i \in 1..Len(q) : at[i] = q[i].px
    OBVIOUS
  <2> HIDE DEF at
  <2>2. PICK k \in 1..Len(q) : \A i \in 1..Len(q) : at[i] <= at[k]
    BY <1>2, <1>3, <2>1, GreatestExists
  <2>3. \A i \in 1..Len(q) : q[i].px <= q[k].px
    BY <2>1, <2>2
  <2> HIDE DEF px
  <2>4. q[k].px \in px
    BY <1>4
  <2>5. \A y \in px : y \in Int /\ y <= q[k].px
    <3> TAKE y \in px
    <3>1. PICK i \in 1..Len(q) : y = q[i].px
      BY <1>4
    <3> QED
      BY <1>3, <2>3, <3>1
  <2> QED
    BY <2>4, <2>5, Zenon DEF Greatest
<1>7. PICK l : Least(l, px)
  <2> DEFINE at == [i \in 1..Len(q) |-> q[i].px]
  <2>1. \A i \in 1..Len(q) : at[i] = q[i].px
    OBVIOUS
  <2> HIDE DEF at
  <2>2. PICK k \in 1..Len(q) : \A i \in 1..Len(q) : at[k] <= at[i]
    BY <1>2, <1>3, <2>1, LeastExists
  <2>3. \A i \in 1..Len(q) : q[k].px <= q[i].px
    BY <2>1, <2>2
  <2> HIDE DEF px
  <2>4. q[k].px \in px
    BY <1>4
  <2>5. \A y \in px : y \in Int /\ q[k].px <= y
    <3> TAKE y \in px
    <3>1. PICK i \in 1..Len(q) : y = q[i].px
      BY <1>4
    <3> QED
      BY <1>3, <2>3, <3>1
  <2> QED
    BY <2>4, <2>5, Zenon DEF Least
<1> HIDE DEF px
<1>14. PICK x \in Int : x = t.px
  BY <1>3
<1>8. Max(px) = m /\ Max(px \cup {t.px}) = Max({m, t.px})
  <2>1. Max(px) = m /\ Max(px \cup {x}) = Max({m, x})
    BY <1>6, MaxOfMore
  <2> QED
    BY <1>14, <2>1, Zenon
<1>9. Min(px) = l /\ Min(px \cup {t.px}) = Min({l, t.px})
  <2>1. Min(px) = l /\ Min(px \cup {x}) = Min({l, x})
    BY <1>7, MinOfMore
  <2> QED
    BY <1>14, <2>1, Zenon
<1>10. r[1] = q[1] /\ Last(r) = t
  BY <1>2, <1>1, EmptySeq DEF Last
<1>11. Summary(r, dur) =
         [open_ts |-> BarOpen(q[1], dur), open |-> q[1].px,
          high |-> Max({m, t.px}), low |-> Min({l, t.px}), close |-> t.px, trade_count |-> Len(q) + 1]
  BY <1>2, <1>5, <1>8, <1>9, <1>10, Zenon DEF Summary
<1>12. Summary(q, dur) =
         [open_ts |-> BarOpen(q[1], dur), open |-> q[1].px,
          high |-> m, low |-> l, close |-> Last(q).px, trade_count |-> Len(q)]
  BY <1>8, <1>9, Zenon DEF Summary, px
<1>15. Summary(q, dur) \in Bar
  <2>1. BarOpen(q[1], dur) \in Int /\ q[1].px \in Int /\ Last(q).px \in Int /\ m \in Int
        /\ l \in Int /\ Len(q) \in Int
    <3>1. q[1] \in Slot /\ Last(q) \in Slot /\ Len(q) \in Int
      BY <1>2, ElementOfSeq DEF Last
    <3>2. q[1].px \in Int /\ q[1].recv_ts \in Nat /\ Last(q).px \in Int
      BY <3>1, SlotFields
    <3>3. (q[1].recv_ts \div dur) * dur \in Int
      BY <3>2
    <3> QED
      BY <1>6, <1>7, <3>1, <3>2, <3>3, Zenon DEF BarOpen, Greatest, Least
  <2> QED
    BY <1>12, <2>1 DEF Bar
<1>16. PICK b \in Bar : b = Summary(q, dur)
  BY <1>15
<1>17. b.open_ts = BarOpen(q[1], dur) /\ b.open = q[1].px /\ b.high = m /\ b.low = l
       /\ b.trade_count = Len(q)
  BY <1>12, <1>16
<1>13. AddedTo(Summary(q, dur), t) =
         [open_ts |-> BarOpen(q[1], dur), open |-> q[1].px,
          high |-> Max({m, t.px}), low |-> Min({l, t.px}), close |-> t.px, trade_count |-> Len(q) + 1]
  BY <1>16, <1>17, AddedToIs, Zenon
<1> QED
  BY <1>1, <1>11, <1>13, <1>15, Zenon

\* And of one tick.
LEMMA SummaryOne ==
    ASSUME NEW t \in Slot, NEW dur
    PROVE  Summary(Append(<<>>, t), dur) = NewBar(t, dur)
<1>1. PICK r : r = <<t>>
  OBVIOUS
<1>2. Len(r) = 1 /\ r[1] = t /\ DOMAIN r = {1} /\ Last(r) = t /\ Append(<<>>, t) = r
  BY <1>1 DEF Last
<1>3. {r[i].px : i \in DOMAIN r} = {t.px}
  BY <1>2
<1>4. t.px \in Int
  BY SlotFields
<1>5. Max({t.px}) = t.px /\ Min({t.px}) = t.px
  <2>1. t.px \in {t.px} /\ \A y \in {t.px} : y \in Int /\ y <= t.px /\ t.px <= y
    BY <1>4
  <2> QED
    BY <2>1, MaxIs, MinIs
<1>6. Summary(r, dur) = NewBar(t, dur)
  BY <1>2, <1>3, <1>5, Zenon DEF Summary, NewBar
<1> QED
  BY <1>2, <1>6, Zenon

\* A bar stays a bar.
LEMMA AddedToTyped ==
    ASSUME NEW b \in Bar, NEW t \in Slot
    PROVE  AddedTo(b, t) \in Bar /\ AddedTo(b, t).open_ts = b.open_ts
<1>1. b.open_ts \in Int /\ b.open \in Int /\ b.high \in Int /\ b.low \in Int /\ b.trade_count \in Int
  BY DEF Bar
<1>2. PICK x \in Int : x = t.px
  BY SlotFields
<1>3. Greatest(b.high, {b.high}) /\ Least(b.low, {b.low})
  BY <1>1 DEF Greatest, Least
<1>4. Max({b.high, x}) \in Int /\ Min({b.low, x}) \in Int
  BY <1>3, MaxOfMore, MinOfMore
<1>5. PICK hi \in Int, lo \in Int : hi = Max({b.high, t.px}) /\ lo = Min({b.low, t.px})
  BY <1>2, <1>4, Zenon
<1>6. AddedTo(b, t) = [open_ts |-> b.open_ts, open |-> b.open, high |-> hi, low |-> lo,
                       close |-> x, trade_count |-> b.trade_count + 1]
  BY <1>2, <1>5, AddedToIs, Zenon
<1> QED
  BY <1>1, <1>6 DEF Bar

\* A bar that begins is one.
LEMMA NewBarTyped ==
    ASSUME NEW t \in Slot, NEW dur \in Nat \ {0}
    PROVE  NewBar(t, dur) \in Bar /\ NewBar(t, dur).open_ts = BarOpen(t, dur)
<1>1. t.recv_ts \in Nat /\ t.px \in Int
  BY SlotFields
<1>2. (t.recv_ts \div dur) * dur \in Int
  BY <1>1
<1>3. BarOpen(t, dur) \in Int
  BY <1>2, Zenon DEF BarOpen
<1> QED
  BY <1>1, <1>3 DEF NewBar, Bar

\* Bars with a tick more are bars.
LEMMA WithTickTyped ==
    ASSUME NEW bars \in Seq(Bar), NEW t \in Slot, NEW dur \in Nat \ {0}
    PROVE  WithTick(bars, t, dur) \in Seq(Bar)
<1>1. Append(bars, NewBar(t, dur)) \in Seq(Bar)
  BY NewBarTyped, AppendProperties
<1>2. bars # <<>> => [bars EXCEPT ![Len(bars)] = AddedTo(@, t)] \in Seq(Bar)
  <2> SUFFICES ASSUME bars # <<>> PROVE [bars EXCEPT ![Len(bars)] = AddedTo(@, t)] \in Seq(Bar)
    OBVIOUS
  <2>1. Len(bars) \in 1..Len(bars)
    BY LenProperties, EmptySeq
  <2>2. bars[Len(bars)] \in Bar
    BY <2>1, ElementOfSeq
  <2>3. PICK x \in Bar : x = AddedTo(bars[Len(bars)], t)
    BY <2>2, AddedToTyped
  <2>4. [bars EXCEPT ![Len(bars)] = x] \in Seq(Bar)
    BY <2>1, ExceptSeq
  <2> QED
    BY <2>3, <2>4, Zenon
<1> QED
  BY <1>1, <1>2, Zenon DEF WithTick

\* The bars of a sequence of ticks, one tick after the other.
BarChain(g, ticks, dur) ==
    /\ g[0] = <<>>
    /\ \A n \in 1..Len(ticks) : g[n] = WithTick(g[n - 1], ticks[n], dur)
    /\ FoldLeft(LAMBDA acc, t : WithTick(acc, t, dur), <<>>, ticks) = g[Len(ticks)]

\* Building bars is such a chain.
LEMMA BarsChain ==
    ASSUME NEW ticks \in Seq(Slot), NEW dur \in Nat \ {0}
    PROVE  \E g : BarChain(g, ticks, dur)
<1> DEFINE S == DOMAIN ticks
           Body(g) == [s \in SUBSET S |->
                         IF s = {} THEN <<>> ELSE WithTick(g[s \ {Max(s)}], ticks[Max(s)], dur)]
           pick == [s \in (SUBSET S) \ {{}} |-> Max(s)]
           link == [sb \in S \X Seq(Bar) |-> WithTick(sb[2], ticks[sb[1]], dur)]
<1>1. FoldLeft(LAMBDA acc, t : WithTick(acc, t, dur), <<>>, ticks) = (CHOOSE g : g = Body(g))[S]
  BY Zenon DEF FoldLeft, MapThenFoldSet
<1>2. Len(ticks) \in Nat /\ S = 1..Len(ticks)
  BY LenProperties
<1>3. IsFiniteSet(S)
  BY <1>2, FS_Interval, 1 \in Int, Len(ticks) \in Int
<1>4. Picks(pick, S)
  <2>1. \A s \in (SUBSET S) \ {{}} : Max(s) \in s
    BY <1>2, MaxOfFinite
  <2> QED
    BY <2>1 DEF Picks
<1>5. \A i \in S, c \in Seq(Bar) : WithTick(c, ticks[i], dur) \in Seq(Bar)
  BY <1>2, ElementOfSeq, WithTickTyped
<1>6. link \in [S \X Seq(Bar) -> Seq(Bar)]
  BY <1>5
<1>7. <<>> \in Seq(Bar)
  BY EmptySeq
<1>8. PICK it : FoldsBy(it, S, Seq(Bar), <<>>, pick, link)
  <2> HIDE DEF S, pick, link
  <2> QED
    BY <1>3, <1>4, <1>6, <1>7, FoldExists
<1>9. it = Body(it)
  <2> HIDE DEF S
  <2>1. \A s \in (SUBSET S) \ {{}} : it[s] = Body(it)[s]
    <3> TAKE s \in (SUBSET S) \ {{}}
    <3>1. it[s] = link[<<pick[s], it[s \ {pick[s]}]>>]
      BY <1>8 DEF FoldsBy
    <3>2. pick[s] = Max(s) /\ Max(s) \in S /\ s \ {Max(s)} \in SUBSET S /\ s \in SUBSET S
      BY <1>4 DEF Picks
    <3>3. it[s \ {Max(s)}] \in Seq(Bar)
      BY <1>8, <3>2 DEF FoldsBy
    <3> QED
      BY <3>1, <3>2, <3>3
  <2>2. it[{}] = Body(it)[{}]
    BY <1>8 DEF FoldsBy
  <2>3. it = [s \in SUBSET S |-> it[s]]
    BY <1>8 DEF FoldsBy
  <2> QED
    BY <2>1, <2>2, <2>3
<1> DEFINE f == CHOOSE g : g = Body(g)
<1>10. f = Body(f)
  <2> HIDE DEF Body
  <2> QED
    BY <1>9
<1>11. f[{}] = <<>>
  BY <1>10
<1>12. \A n \in 1..Len(ticks) : f[1..n] = WithTick(f[1..(n - 1)], ticks[n], dur)
  <2> TAKE n \in 1..Len(ticks)
  <2>3. 1..n \in SUBSET S => f[1..n] = Body(f)[1..n]
    BY <1>10
  <2> HIDE DEF S, f
  <2>1. 1..n \in SUBSET S /\ 1..n # {} /\ n \in Nat \ {0}
    <3>1. n \in Nat \ {0} /\ n <= Len(ticks)
      BY <1>2
    <3>2. 1..n \subseteq 1..Len(ticks) /\ n \in 1..n
      BY <1>2, <3>1
    <3>3. 1..n \in SUBSET S
      BY <1>2, <3>2
    <3> QED
      BY <3>1, <3>2, <3>3
  <2>2. Max(1..n) = n /\ (1..n) \ {n} = 1..(n - 1)
    BY <2>1, MaxOfInterval
  <2> QED
    BY <2>1, <2>2, <2>3
<1> DEFINE g == [n \in 0..Len(ticks) |-> f[1..n]]
<1>13. \A n \in 1..Len(ticks) : n \in 0..Len(ticks) /\ n - 1 \in 0..Len(ticks)
  BY <1>2
<1> HIDE DEF f, S, Body
<1>14. g[0] = <<>>
  <2>1. 1..0 = {} /\ 0 \in 0..Len(ticks)
    BY <1>2
  <2> QED
    BY <1>11, <2>1
<1>15. \A n \in 1..Len(ticks) : g[n] = WithTick(g[n - 1], ticks[n], dur)
  BY <1>12, <1>13
<1>16. FoldLeft(LAMBDA acc, t : WithTick(acc, t, dur), <<>>, ticks) = g[Len(ticks)]
  <2>1. Len(ticks) \in 0..Len(ticks)
    BY <1>2
  <2>2. g[Len(ticks)] = f[1..Len(ticks)]
    BY <2>1 DEF g
  <2> QED
    BY <1>1, <1>2, <2>1, <2>2, Zenon DEF f, g
<1> HIDE DEF g
<1> QED
  BY <1>14, <1>15, <1>16, Zenon DEF BarChain


-----------------------------------------------------------------------------
(* Bars of a sequence of ticks *)

\* The ticks of a window.
WindowTicks(s, w, dur) == Among(s, w, w + dur - 1)

\* A bar of a window that has ticks says of them what it should.
BarAt(bar, s, dur) ==
    /\ bar.open_ts \in Opens(s, dur)
    /\ WindowTicks(s, bar.open_ts, dur) # <<>>
    /\ bar = Summary(WindowTicks(s, bar.open_ts, dur), dur)

Ascending(b) == \A i \in 1..Len(b) : \A j \in 1..(i - 1) : b[j].open_ts < b[i].open_ts

\* There is one for each of them, in order.
Barred(b, s, dur) ==
    /\ b \in Seq(Bar)
    /\ \A i \in 1..Len(b) : BarAt(b[i], s, dur)
    /\ Ascending(b)
    /\ \A w \in Opens(s, dur) : \E i \in 1..Len(b) : b[i].open_ts = w

\* The windows of ticks are multiples of the duration, each with a tick in it.
LEMMA OpensAre ==
    ASSUME NEW s \in Seq(Slot), NEW dur \in Nat \ {0}, NEW w \in Opens(s, dur)
    PROVE  /\ w \in Multiples(dur) /\ w \in Nat
           /\ \E i \in 1..Len(s) : /\ w = BarOpen(s[i], dur)
                                   /\ w <= s[i].recv_ts /\ s[i].recv_ts < w + dur
<1>1. PICK i \in 1..Len(s) : w = BarOpen(s[i], dur)
  BY LenProperties DEF Opens
<1>2. PICK ts \in Nat : ts = s[i].recv_ts
  BY ElementOfSeq, SlotFields
<1>3. w = (ts \div dur) * dur
  BY <1>1, <1>2, Zenon DEF BarOpen
<1>4. w \in Multiples(dur) /\ w \in Nat /\ w <= ts /\ ts < w + dur
  BY <1>3, InItsWindow
<1> QED
  BY <1>1, <1>2, <1>4

\* A tick is in its window and in no other.
LEMMA OneWindow ==
    ASSUME NEW t \in Slot, NEW dur \in Nat \ {0}, NEW w \in Multiples(dur)
    PROVE  /\ BarOpen(t, dur) \in Multiples(dur) /\ BarOpen(t, dur) \in Nat /\ w \in Nat
           /\ BarOpen(t, dur) <= t.recv_ts /\ t.recv_ts < BarOpen(t, dur) + dur
           /\ w <= t.recv_ts /\ t.recv_ts <= w + dur - 1 <=> w = BarOpen(t, dur)
<1>1. PICK ts \in Nat : ts = t.recv_ts
  BY SlotFields
<1>2. PICK v : v = BarOpen(t, dur)
  OBVIOUS
<1>3. v = (ts \div dur) * dur
  BY <1>1, <1>2, Zenon DEF BarOpen
<1>4. v \in Multiples(dur) /\ v \in Nat /\ v <= ts /\ ts < v + dur
  BY <1>3, InItsWindow
<1>5. w \in Nat
  BY DEF Multiples
<1>6. v < w => v + dur <= w
  BY <1>4, WindowsApart
<1>7. w < v => w + dur <= v
  BY <1>4, WindowsApart
<1>8. w <= ts /\ ts <= w + dur - 1 <=> w = v
  BY <1>4, <1>5, <1>6, <1>7
<1> QED
  BY <1>1, <1>2, <1>4, <1>5, <1>8, Zenon

\* The window of a tick is one of them.
LEMMA BarOpenIs ==
    ASSUME NEW t \in Slot, NEW dur \in Nat \ {0}
    PROVE  BarOpen(t, dur) \in Multiples(dur) /\ BarOpen(t, dur) \in Nat
<1>1. PICK w \in Multiples(dur) : w = 0 * dur
  BY DEF Multiples
<1> QED
  BY OneWindow

\* What a tick more means for the ticks of the windows.
LEMMA WindowMore ==
    ASSUME NEW s \in Seq(Slot), NEW t \in Slot, NEW dur \in Nat \ {0}
    PROVE  /\ Opens(Append(s, t), dur) = Opens(s, dur) \cup {BarOpen(t, dur)}
           /\ \A w \in Multiples(dur) :
                 WindowTicks(Append(s, t), w, dur) =
                     IF w = BarOpen(t, dur) THEN Append(WindowTicks(s, w, dur), t)
                     ELSE WindowTicks(s, w, dur)
<1>1. PICK r \in Seq(Slot) : r = Append(s, t)
  BY AppendProperties
<1>2. /\ Len(s) \in Nat /\ Len(r) = Len(s) + 1
      /\ \A i \in 1..Len(s) : r[i] = s[i]
      /\ r[Len(s) + 1] = t
      /\ DOMAIN s = 1..Len(s) /\ DOMAIN r = 1..Len(r)
  BY <1>1, AppendProperties, LenProperties
<1>3. Opens(r, dur) = Opens(s, dur) \cup {BarOpen(t, dur)}
  <2>1. DOMAIN r = DOMAIN s \cup {Len(s) + 1}
    BY <1>2
  <2> QED
    BY <1>2, <2>1 DEF Opens
<1>4. ASSUME NEW w \in Multiples(dur)
      PROVE  WindowTicks(Append(s, t), w, dur) =
                 IF w = BarOpen(t, dur) THEN Append(WindowTicks(s, w, dur), t)
                 ELSE WindowTicks(s, w, dur)
  <2>1. PICK l : l = w + dur - 1
    OBVIOUS
  <2>2. Among(Append(s, t), w, l) = Kept(Among(s, w, l), t, w, l)
    BY AmongMore
  <2>3. w <= t.recv_ts /\ t.recv_ts <= l <=> w = BarOpen(t, dur)
    BY <2>1, OneWindow
  <2> QED
    BY <2>1, <2>2, <2>3, Zenon DEF WindowTicks, Kept
<1> QED
  BY <1>1, <1>3, <1>4, Zenon

\* A tick whose window has no bar begins one, if the bars so far are earlier.
LEMMA BarBegins ==
    ASSUME NEW b, NEW s \in Seq(Slot), NEW dur \in Nat \ {0}, Barred(b, s, dur),
           NEW t \in Slot,
           \A i \in 1..Len(b) : b[i].open_ts < BarOpen(t, dur)
    PROVE  Barred(Append(b, NewBar(t, dur)), Append(s, t), dur)
<1>1. PICK r \in Seq(Slot) : r = Append(s, t)
  BY AppendProperties
<1>2. PICK w : w = BarOpen(t, dur)
  OBVIOUS
<1>3. PICK x \in Bar : x = NewBar(t, dur) /\ x.open_ts = w
  BY <1>2, NewBarTyped, Zenon
<1>4. b \in Seq(Bar) /\ Len(b) \in Nat /\ \A i \in 1..Len(b) : b[i] \in Bar
  BY LenProperties, ElementOfSeq DEF Barred
<1>5. PICK c \in Seq(Bar) : c = Append(b, x)
  BY <1>4, AppendProperties
<1>6. /\ Len(c) = Len(b) + 1
      /\ \A i \in 1..Len(b) : c[i] = b[i]
      /\ c[Len(b) + 1] = x
  BY <1>4, <1>5, AppendProperties
<1>7. /\ w \in Multiples(dur) /\ w \in Nat
      /\ Opens(r, dur) = Opens(s, dur) \cup {w}
      /\ \A v \in Multiples(dur) :
            WindowTicks(r, v, dur) = IF v = w THEN Append(WindowTicks(s, v, dur), t)
                                     ELSE WindowTicks(s, v, dur)
  <2>1. BarOpen(t, dur) \in Multiples(dur) /\ BarOpen(t, dur) \in Nat
    BY BarOpenIs
  <2>2. /\ Opens(Append(s, t), dur) = Opens(s, dur) \cup {BarOpen(t, dur)}
        /\ \A v \in Multiples(dur) :
              WindowTicks(Append(s, t), v, dur) =
                  IF v = BarOpen(t, dur) THEN Append(WindowTicks(s, v, dur), t)
                  ELSE WindowTicks(s, v, dur)
    BY WindowMore
  <2> QED
    BY <1>1, <1>2, <2>1, <2>2, Zenon
<1>8. \A i \in 1..Len(b) : b[i].open_ts # w /\ b[i].open_ts < w
  <2>1. \A i \in 1..Len(b) : b[i].open_ts < w
    BY <1>2, Zenon
  <2>2. \A i \in 1..Len(b) : b[i].open_ts \in Int
    BY <1>4 DEF Bar
  <2> QED
    BY <1>7, <2>1, <2>2
<1>9. w \notin Opens(s, dur)
  BY <1>8, Zenon DEF Barred
<1>10. WindowTicks(s, w, dur) = <<>>
  <2> SUFFICES ASSUME NEW i \in 1..Len(s), w <= s[i].recv_ts, s[i].recv_ts <= w + dur - 1
               PROVE  FALSE
    BY AmongOutside DEF WindowTicks
  <2>1. s[i] \in Slot /\ i \in DOMAIN s
    BY ElementOfSeq, LenProperties
  <2>2. w = BarOpen(s[i], dur)
    BY <1>7, <2>1, OneWindow
  <2> QED
    BY <1>9, <2>1, <2>2, Zenon DEF Opens
<1>11. BarAt(x, r, dur)
  <2>1. WindowTicks(r, w, dur) = Append(<<>>, t)
    BY <1>7, <1>10, Zenon
  <2>2. Append(<<>>, t) # <<>>
    OBVIOUS
  <2>3. Summary(Append(<<>>, t), dur) = NewBar(t, dur)
    BY SummaryOne
  <2>4. w \in Opens(r, dur)
    BY <1>7
  <2> QED
    BY <1>3, <2>1, <2>2, <2>3, <2>4, Zenon DEF BarAt
<1>12. ASSUME NEW i \in 1..Len(b) PROVE BarAt(b[i], r, dur)
  <2>1. BarAt(b[i], s, dur)
    BY DEF Barred
  <2>2. PICK v \in Opens(s, dur) : v = b[i].open_ts
    BY <2>1 DEF BarAt
  <2>3. v \in Multiples(dur) /\ v # w
    BY <1>8, <2>2, OpensAre
  <2>4. WindowTicks(r, v, dur) = WindowTicks(s, v, dur) /\ v \in Opens(r, dur)
    BY <1>7, <2>3
  <2> QED
    BY <2>1, <2>2, <2>4, Zenon DEF BarAt
<1>13. \A i \in 1..Len(c) : BarAt(c[i], r, dur)
  <2> TAKE i \in 1..Len(c)
  <2>1. i \in 1..Len(b) \/ i = Len(b) + 1
    BY <1>4, <1>6
  <2> QED
    BY <1>6, <1>11, <1>12, <2>1, Zenon
<1>14. Ascending(c)
  <2> SUFFICES ASSUME NEW i \in 1..Len(c), NEW j \in 1..(i - 1)
               PROVE  c[j].open_ts < c[i].open_ts
    BY DEF Ascending
  <2>1. j \in 1..Len(b) /\ c[j] = b[j]
    BY <1>4, <1>6
  <2>2. CASE i \in 1..Len(b)
    <3>1. b[j].open_ts < b[i].open_ts
      BY <2>2, Zenon DEF Barred, Ascending
    <3> QED
      BY <1>6, <2>1, <2>2, <3>1
  <2>3. CASE i \notin 1..Len(b)
    <3>1. i = Len(b) + 1
      BY <1>4, <1>6, <2>3
    <3>2. c[i] = x
      BY <1>6, <3>1
    <3> QED
      BY <1>3, <1>8, <2>1, <3>2, Zenon
  <2> QED
    BY <2>2, <2>3
<1>15. \A v \in Opens(r, dur) : \E i \in 1..Len(c) : c[i].open_ts = v
  <2> TAKE v \in Opens(r, dur)
  <2>1. CASE v \in Opens(s, dur)
    <3>1. PICK i \in 1..Len(b) : b[i].open_ts = v
      BY <2>1, Zenon DEF Barred
    <3>2. i \in 1..Len(c) /\ c[i].open_ts = v
      BY <1>4, <1>6, <3>1
    <3> QED
      BY <3>2
  <2>2. CASE v \notin Opens(s, dur)
    <3>1. v = w /\ Len(b) + 1 \in 1..Len(c) /\ c[Len(b) + 1] = x
      BY <1>4, <1>6, <1>7, <2>2
    <3> QED
      BY <1>3, <3>1, Zenon
  <2> QED
    BY <2>1, <2>2
<1>16. Barred(c, r, dur)
  BY <1>13, <1>14, <1>15, Zenon DEF Barred
<1> QED
  BY <1>1, <1>3, <1>5, <1>16, Zenon

\* A tick in the window of the last bar is added to that.
LEMMA BarGoesOn ==
    ASSUME NEW b, NEW s \in Seq(Slot), NEW dur \in Nat \ {0}, Barred(b, s, dur),
           NEW t \in Slot, b # <<>>, b[Len(b)].open_ts = BarOpen(t, dur)
    PROVE  Barred([b EXCEPT ![Len(b)] = AddedTo(@, t)], Append(s, t), dur)
<1>1. PICK r \in Seq(Slot) : r = Append(s, t)
  BY AppendProperties
<1>2. PICK w : w = BarOpen(t, dur)
  OBVIOUS
<1>4. b \in Seq(Bar) /\ Len(b) \in Nat /\ \A i \in 1..Len(b) : b[i] \in Bar
  BY LenProperties, ElementOfSeq DEF Barred
<1>5. PICK l \in 1..Len(b) : l = Len(b)
  BY <1>4, EmptySeq
<1>6. PICK x \in Bar : x = AddedTo(b[l], t) /\ x.open_ts = b[l].open_ts
  BY <1>4, AddedToTyped
<1>7. PICK c \in Seq(Bar) : c = [b EXCEPT ![l] = x]
  BY <1>4, ExceptSeq
<1>8. Len(c) = Len(b) /\ \A i \in 1..Len(b) : c[i] = IF i = l THEN x ELSE b[i]
  BY <1>4, <1>7, ExceptSeq
<1>9. /\ w \in Multiples(dur)
      /\ Opens(r, dur) = Opens(s, dur) \cup {w}
      /\ \A v \in Multiples(dur) :
            WindowTicks(r, v, dur) = IF v = w THEN Append(WindowTicks(s, v, dur), t)
                                     ELSE WindowTicks(s, v, dur)
  <2>1. BarOpen(t, dur) \in Multiples(dur) /\ BarOpen(t, dur) \in Nat
    BY BarOpenIs
  <2>2. /\ Opens(Append(s, t), dur) = Opens(s, dur) \cup {BarOpen(t, dur)}
        /\ \A v \in Multiples(dur) :
              WindowTicks(Append(s, t), v, dur) =
                  IF v = BarOpen(t, dur) THEN Append(WindowTicks(s, v, dur), t)
                  ELSE WindowTicks(s, v, dur)
    BY WindowMore
  <2> QED
    BY <1>1, <1>2, <2>1, <2>2, Zenon
<1>10. BarAt(b[l], s, dur) /\ b[l].open_ts = w
  BY <1>2, <1>5, Zenon DEF Barred
<1>11. \A i \in 1..Len(b) : c[i].open_ts = b[i].open_ts
  BY <1>6, <1>8
<1>12. BarAt(x, r, dur)
  <2>1. PICK q \in Seq(Slot) : q = WindowTicks(s, w, dur)
    BY AmongIn DEF WindowTicks
  <2>2. q # <<>> /\ b[l] = Summary(q, dur)
    BY <1>10, <2>1, Zenon DEF BarAt
  <2>3. Summary(Append(q, t), dur) = AddedTo(Summary(q, dur), t)
    BY <2>2, SummaryMore
  <2>4. WindowTicks(r, w, dur) = Append(q, t)
    BY <1>9, <2>1
  <2>5. Append(q, t) # <<>> /\ w \in Opens(r, dur)
    <3>1. Len(Append(q, t)) = Len(q) + 1 /\ Len(q) \in Nat /\ Len(<<>>) = 0
      BY AppendProperties, LenProperties
    <3>3. Len(q) + 1 # 0
      BY <3>1
    <3>2. Append(q, t) # <<>>
      BY <3>1, <3>3, Zenon
    <3> QED
      BY <1>9, <3>2
  <2>6. x.open_ts = w /\ x = Summary(WindowTicks(r, w, dur), dur)
    BY <1>6, <1>10, <2>2, <2>3, <2>4, Zenon
  <2> QED
    BY <2>4, <2>5, <2>6, Zenon DEF BarAt
<1>13. ASSUME NEW i \in 1..Len(b), i # l PROVE BarAt(b[i], r, dur)
  <2>1. BarAt(b[i], s, dur)
    BY DEF Barred
  <2>2. PICK v \in Opens(s, dur) : v = b[i].open_ts
    BY <2>1 DEF BarAt
  <2>3. v \in Multiples(dur) /\ v \in Nat
    BY OpensAre
  <2>4. i \in 1..(l - 1)
    BY <1>4, <1>5, <1>13
  <2>5. b[i].open_ts < b[l].open_ts
    BY <2>4, Zenon DEF Barred, Ascending
  <2>6. v # w
    BY <1>10, <2>2, <2>3, <2>5
  <2>7. WindowTicks(r, v, dur) = WindowTicks(s, v, dur) /\ v \in Opens(r, dur)
    BY <1>9, <2>3, <2>6
  <2> QED
    BY <2>1, <2>2, <2>7, Zenon DEF BarAt
<1>14. \A i \in 1..Len(c) : BarAt(c[i], r, dur)
  BY <1>8, <1>12, <1>13, Zenon
<1>15. Ascending(c)
  <2> SUFFICES ASSUME NEW i \in 1..Len(c), NEW j \in 1..(i - 1)
               PROVE  c[j].open_ts < c[i].open_ts
    BY DEF Ascending
  <2>1. i \in 1..Len(b) /\ j \in 1..Len(b)
    BY <1>4, <1>8
  <2>2. b[j].open_ts < b[i].open_ts
    BY <2>1, Zenon DEF Barred, Ascending
  <2> QED
    BY <1>11, <2>1, <2>2
<1>16. \A v \in Opens(r, dur) : \E i \in 1..Len(c) : c[i].open_ts = v
  <2> TAKE v \in Opens(r, dur)
  <2>1. v \in Opens(s, dur) \/ v = w
    BY <1>9
  <2>2. w \in Opens(s, dur)
    BY <1>10, Zenon DEF BarAt
  <2>3. PICK i \in 1..Len(b) : b[i].open_ts = v
    BY <2>1, <2>2, Zenon DEF Barred
  <2> QED
    BY <1>8, <1>11, <2>3
<1>17. Barred(c, r, dur)
  BY <1>14, <1>15, <1>16, Zenon DEF Barred
<1> QED
  BY <1>1, <1>5, <1>6, <1>7, <1>17, Zenon

\* A tick at the end of the ticks is either.
LEMMA BarsGoOn ==
    ASSUME NEW b, NEW s \in Seq(Slot), NEW dur \in Nat \ {0}, Barred(b, s, dur),
           NEW t \in Slot, \A i \in 1..Len(s) : s[i].recv_ts <= t.recv_ts
    PROVE  Barred(WithTick(b, t, dur), Append(s, t), dur)
<1>1. /\ b \in Seq(Bar) /\ Len(b) \in Nat
      /\ \A i \in 1..Len(b) : b[i] \in Bar /\ b[i].open_ts \in Int
  <2>1. b \in Seq(Bar) /\ Len(b) \in Nat /\ \A i \in 1..Len(b) : b[i] \in Bar
    BY LenProperties, ElementOfSeq DEF Barred
  <2> QED
    BY <2>1 DEF Bar
<1>2. PICK w \in Nat : w = BarOpen(t, dur) /\ w \in Multiples(dur)
  BY BarOpenIs
<1>3. PICK ts \in Nat : ts = t.recv_ts
  BY SlotFields
<1>4. w <= ts /\ ts < w + dur
  <2>1. w <= t.recv_ts /\ t.recv_ts < w + dur
    BY <1>2, OneWindow
  <2> QED
    BY <1>3, <2>1, Zenon
<1>5. CASE b = <<>>
  <2>1. \A i \in 1..Len(b) : b[i].open_ts < BarOpen(t, dur)
    BY <1>5
  <2>2. Barred(Append(b, NewBar(t, dur)), Append(s, t), dur)
    BY <2>1, BarBegins
  <2> QED
    BY <1>5, <2>2, Zenon DEF WithTick
<1>6. CASE b # <<>>
  <2>1. Len(b) \in 1..Len(b)
    BY <1>1, <1>6, EmptySeq
  <2>2. PICK v \in Int : v = b[Len(b)].open_ts
    BY <1>1, <2>1
  <2>3. v \in Opens(s, dur)
    <3>1. BarAt(b[Len(b)], s, dur)
      BY <2>1, Zenon DEF Barred
    <3> QED
      BY <2>2, <3>1, Zenon DEF BarAt
  <2>4. /\ v \in Multiples(dur) /\ v \in Nat
        /\ \E i \in 1..Len(s) : v <= s[i].recv_ts
    BY <2>3, OpensAre
  <2>5. v <= ts
    <3>1. PICK i \in 1..Len(s) : v <= s[i].recv_ts
      BY <2>4
    <3>2. s[i].recv_ts \in Nat /\ s[i].recv_ts <= ts
      BY <1>3, ElementOfSeq, SlotFields
    <3> QED
      BY <2>4, <3>1, <3>2
  <2>6. Last(b) = b[Len(b)]
    BY DEF Last
  <2>7. CASE ts >= v + dur
    <3>1. ASSUME NEW i \in 1..Len(b) PROVE b[i].open_ts < w
      <4>1. b[i].open_ts <= v
        <5>1. CASE i = Len(b)
          BY <2>2, <5>1
        <5>2. CASE i # Len(b)
          <6>1. i \in 1..(Len(b) - 1)
            BY <1>1, <5>2
          <6>2. b[i].open_ts < b[Len(b)].open_ts
            BY <2>1, <6>1, Zenon DEF Barred, Ascending
          <6> QED
            BY <1>1, <2>2, <6>2
        <5> QED
          BY <5>1, <5>2
      <4>2. b[i].open_ts \in Int
        BY <1>1
      <4> QED
        BY <1>4, <2>7, <4>1, <4>2
    <3>2. \A i \in 1..Len(b) : b[i].open_ts < BarOpen(t, dur)
      BY <1>2, <3>1, Zenon
    <3>3. Barred(Append(b, NewBar(t, dur)), Append(s, t), dur)
      BY <3>2, BarBegins
    <3>4. t.recv_ts >= Last(b).open_ts + dur
      BY <1>3, <2>2, <2>6, <2>7, Zenon
    <3> QED
      BY <3>3, <3>4, Zenon DEF WithTick
  <2>8. CASE ~(ts >= v + dur)
    <3>1. v = w
      <4>1. v <= ts /\ ts <= v + dur - 1
        BY <2>4, <2>5, <2>8
      <4>2. v <= t.recv_ts /\ t.recv_ts <= v + dur - 1 <=> v = BarOpen(t, dur)
        BY <2>4, OneWindow
      <4> QED
        BY <1>2, <1>3, <4>1, <4>2, Zenon
    <3>2. b[Len(b)].open_ts = BarOpen(t, dur)
      BY <1>2, <2>2, <3>1, Zenon
    <3>3. Barred([b EXCEPT ![Len(b)] = AddedTo(@, t)], Append(s, t), dur)
      BY <1>6, <3>2, BarGoesOn
    <3>4. ~(t.recv_ts >= Last(b).open_ts + dur)
      BY <1>3, <2>2, <2>6, <2>8, Zenon
    <3> QED
      BY <1>6, <3>3, <3>4, Zenon DEF WithTick
  <2> QED
    BY <2>7, <2>8
<1> QED
  BY <1>5, <1>6

\* So what building bars of ticks in order makes.
LEMMA BarsOfAll ==
    ASSUME NEW s \in Seq(Slot), NEW dur \in Nat \ {0},
           \A i \in 1..Len(s) : \A j \in 1..i : s[j].recv_ts <= s[i].recv_ts
    PROVE  Barred(FoldLeft(LAMBDA acc, t : WithTick(acc, t, dur), <<>>, s), s, dur)
<1>1. PICK g : BarChain(g, s, dur)
  BY BarsChain
<1>2. Len(s) \in Nat
  BY LenProperties
<1> DEFINE Bad == {n \in Nat : n <= Len(s) /\ ~Barred(g[n], SubSeq(s, 1, n), dur)}
<1>3. 0 \notin Bad
  <2>1. g[0] = <<>>
    BY <1>1, Zenon DEF BarChain
  <2>2. SubSeq(s, 1, 0) = <<>>
    BY SubSeqEmpty, 1 \in Int, 0 \in Int
  <2>3. Barred(<<>>, <<>>, dur)
    <3>1. <<>> \in Seq(Bar) /\ Len(<<>>) = 0 /\ DOMAIN <<>> = {} /\ 1..0 = {}
      BY EmptySeq
    <3>2. Opens(<<>>, dur) = {}
      BY <3>1 DEF Opens
    <3> QED
      BY <3>1, <3>2, Zenon DEF Barred, Ascending
  <2> QED
    BY <2>1, <2>2, <2>3
<1>4. ASSUME NEW m \in Nat, m \notin Bad PROVE m + 1 \notin Bad
  <2> SUFFICES ASSUME m + 1 <= Len(s) PROVE Barred(g[m + 1], SubSeq(s, 1, m + 1), dur)
    OBVIOUS
  <2>1. Barred(g[m], SubSeq(s, 1, m), dur)
    BY <1>2, <1>4
  <2>2. PICK n \in 1..Len(s) : n = m + 1 /\ n - 1 = m
    BY <1>2
  <2>3. g[n] = WithTick(g[m], s[n], dur) /\ s[n] \in Slot
    <3>1. g[n] = WithTick(g[n - 1], s[n], dur)
      BY <1>1, Zenon DEF BarChain
    <3>2. s[n] \in Slot
      BY ElementOfSeq
    <3> QED
      BY <2>2, <3>1, <3>2, Zenon
  <2> HIDE DEF Bad
  <2>4. SubSeq(s, 1, n) = Append(SubSeq(s, 1, m), s[n])
    <3>1. PICK z \in 0..(n - 1) : z = 0 /\ z + 1 = 1
      BY <1>2
    <3>2. SubSeq(s, z + 1, n) = Append(SubSeq(s, z + 1, n - 1), s[n])
      BY SubSeqGrows
    <3> QED
      BY <2>2, <3>1, <3>2, Zenon
  <2>5. PICK q \in Seq(Slot) : q = SubSeq(s, 1, m) /\ Len(q) = m /\ \A i \in 1..m : q[i] = s[i]
    <3>1. m \in 0..Len(s)
      BY <1>2, <2>2
    <3> QED
      BY <3>1, FirstSlots
  <2>6. \A i \in 1..Len(q) : q[i].recv_ts <= s[n].recv_ts
    <3> TAKE i \in 1..Len(q)
    <3>1. i \in 1..m /\ i \in 1..n
      BY <2>2, <2>5
    <3> QED
      BY <2>5, <3>1
  <2>7. Barred(g[m], q, dur)
    BY <2>1, <2>5
  <2>8. Barred(WithTick(g[m], s[n], dur), Append(q, s[n]), dur)
    BY <2>3, <2>6, <2>7, BarsGoOn
  <2> QED
    BY <2>2, <2>3, <2>4, <2>5, <2>8, Zenon
<1>5. Bad = {}
  <2>1. Bad \subseteq Nat
    OBVIOUS
  <2> HIDE DEF Bad
  <2> QED
    BY <1>3, <1>4, <2>1, NoLeastExample
<1>6. Barred(g[Len(s)], SubSeq(s, 1, Len(s)), dur)
  BY <1>2, <1>5
<1>7. SubSeq(s, 1, Len(s)) = s
  BY SubSeqFull
<1> QED
  BY <1>1, <1>6, <1>7, Zenon DEF BarChain

-----------------------------------------------------------------------------
(* The most recent ones *)

\* The windows of the ticks that are later than one of a bar are those of the
\* bars behind it.
LEMMA LaterWindows ==
    ASSUME NEW b, NEW s \in Seq(Slot), NEW dur \in Nat \ {0}, Barred(b, s, dur),
           NEW k \in 1..Len(b)
    PROVE  Cardinality({v \in Opens(s, dur) : v > b[k].open_ts}) = Len(b) - k
<1>1. Len(b) \in Nat /\ \A i \in 1..Len(b) : b[i] \in Bar
  BY LenProperties, ElementOfSeq DEF Barred
<1>2. \A i \in 1..Len(b) : b[i].open_ts \in Int /\ b[i].open_ts \in Opens(s, dur)
  <2> TAKE i \in 1..Len(b)
  <2>1. BarAt(b[i], s, dur) /\ b[i] \in Bar
    BY <1>1, Zenon DEF Barred
  <2> QED
    BY <2>1 DEF BarAt, Bar
<1>3. \A i \in 1..Len(b) : \A j \in 1..Len(b) : j < i => b[j].open_ts < b[i].open_ts
  <2> TAKE i \in 1..Len(b)
  <2> TAKE j \in 1..Len(b)
  <2>1. j < i => j \in 1..(i - 1)
    BY <1>1
  <2> QED
    BY <2>1, Zenon DEF Barred, Ascending
<1> DEFINE S == (k + 1)..Len(b)
           T == {v \in Opens(s, dur) : v > b[k].open_ts}
           f == [m \in S |-> b[m].open_ts]
<1>4. S \subseteq 1..Len(b) /\ \A m \in S : k < m
  BY <1>1
<1>5. \A m \in S : f[m] = b[m].open_ts /\ f[m] \in T
  <2> TAKE m \in S
  <2>1. b[m].open_ts > b[k].open_ts
    <3>1. m \in 1..Len(b) /\ k < m
      BY <1>4
    <3> QED
      BY <1>2, <1>3, <3>1
  <2> QED
    BY <1>2, <1>4, <2>1
<1>6. \A v \in T : \E m \in S : f[m] = v
  <2> TAKE v \in T
  <2>1. PICK m \in 1..Len(b) : b[m].open_ts = v
    BY Zenon DEF Barred
  <2>2. b[k].open_ts < b[m].open_ts
    BY <1>2, <2>1
  <2>3. ~(m <= k)
    BY <1>2, <1>3, <2>2
  <2> QED
    BY <1>1, <2>1, <2>3
<1>7. \A m1, m2 \in S : f[m1] = f[m2] => m1 = m2
  <2> TAKE m1, m2 \in S
  <2>1. m1 \in 1..Len(b) /\ m2 \in 1..Len(b) /\ f[m1] = b[m1].open_ts /\ f[m2] = b[m2].open_ts
    BY <1>4
  <2> QED
    BY <1>2, <1>3, <2>1
<1>8. f \in [S -> T]
  BY <1>5
<1> HIDE DEF S, T, f
<1>9. ExistsBijection(S, T)
  BY <1>6, <1>7, <1>8, Zenon DEF ExistsBijection, Bijection, Injection, Surjection, IsInjective
<1>10. IsFiniteSet(S) /\ Cardinality(S) = Len(b) - k
  <2>1. k + 1 \in Int /\ Len(b) \in Int
    BY <1>1
  <2>2. /\ IsFiniteSet((k + 1)..Len(b))
        /\ Cardinality((k + 1)..Len(b)) = IF k + 1 > Len(b) THEN 0 ELSE Len(b) - (k + 1) + 1
    BY <2>1, FS_Interval
  <2>3. (IF k + 1 > Len(b) THEN 0 ELSE Len(b) - (k + 1) + 1) = Len(b) - k
    BY <1>1
  <2>4. Cardinality((k + 1)..Len(b)) = Len(b) - k
    BY <2>2, <2>3
  <2> QED
    BY <2>2, <2>4, Zenon DEF S
<1>11. Cardinality(T) = Cardinality(S)
  BY <1>9, <1>10, FS_Bijection
<1> QED
  BY <1>10, <1>11 DEF T

\* The last bars are those of the most recent windows.
LEMMA LastBars ==
    ASSUME NEW b, NEW s \in Seq(Slot), NEW dur \in Nat \ {0}, Barred(b, s, dur),
           NEW n \in Nat \ {0}
    PROVE  BarsOf(SubSeq(b, Max({1, Len(b) - n + 1}), Len(b)), s,
                  MostRecent(Opens(s, dur), n), dur)
<1>1. b \in Seq(Bar) /\ Len(b) \in Nat /\ \A i \in 1..Len(b) : b[i] \in Bar
  BY LenProperties, ElementOfSeq DEF Barred
<1>2. \A i \in 1..Len(b) : BarAt(b[i], s, dur) /\ b[i].open_ts \in Opens(s, dur)
  BY Zenon DEF Barred, BarAt
<1>3. PICK l \in Nat : l = Len(b)
  BY <1>1
<1>4. PICK low \in Int : low = l - n + 1
  BY <1>3
<1>5. PICK first \in Nat \ {0} : first = Max({1, low}) /\ (first = 1 \/ first = low) /\ low <= first
  <2>1. Greatest(1, {1})
    BY DEF Greatest
  <2>2. CASE low <= 1
    <3>1. 1 \in {1, low} /\ \A y \in {1, low} : y \in Int /\ y <= 1
      BY <2>2
    <3>2. Max({1, low}) = 1
      BY <3>1, MaxIs
    <3> QED
      BY <2>2, <3>2
  <2>3. CASE ~(low <= 1)
    <3>1. low \in {1, low} /\ \A y \in {1, low} : y \in Int /\ y <= low
      BY <2>3
    <3>2. Max({1, low}) = low
      BY <3>1, MaxIs
    <3> QED
      BY <2>3, <3>2
  <2> QED
    BY <2>2, <2>3
<1>6. first <= l + 1
  BY <1>4, <1>5
<1>7. PICK kept : kept = SubSeq(b, first, l)
  OBVIOUS
<1>8. PICK len \in Nat : len = l - first + 1
  BY <1>6
<1>9. /\ kept \in Seq(Bar) /\ Len(kept) = len /\ DOMAIN kept = 1..len
      /\ \A i \in 1..len : kept[i] = b[first + i - 1]
  <2>1. \A i \in first..l : b[i] \in Bar
    BY <1>1, <1>3
  <2>2. first \in Int /\ l \in Int
    OBVIOUS
  <2>3. /\ kept \in Seq(Bar)
        /\ Len(kept) = IF first <= l THEN l - first + 1 ELSE 0
        /\ \A i \in 1..(l - first + 1) : kept[i] = b[first + i - 1]
    BY <1>7, <2>1, <2>2, SubSeqProperties
  <2>4. Len(kept) = len
    BY <1>6, <1>8, <2>3
  <2> QED
    BY <1>8, <2>3, <2>4, LenProperties
<1>10. \A i \in 1..len : \E k \in 1..l : k = first + i - 1 /\ first <= k /\ kept[i] = b[k]
  BY <1>8, <1>9
<1>11. \A k \in 1..l : first <= k => \E i \in 1..len : kept[i] = b[k]
  <2> SUFFICES ASSUME NEW k \in 1..l, first <= k PROVE \E i \in 1..len : kept[i] = b[k]
    OBVIOUS
  <2>1. PICK i \in 1..len : i = k - first + 1 /\ first + i - 1 = k
    BY <1>8
  <2> QED
    BY <1>9, <2>1
<1>12. ASSUME NEW i \in 1..len, NEW j \in 1..(i - 1) PROVE kept[j].open_ts < kept[i].open_ts
  <2>1. PICK p \in 1..l : p = first + i - 1 /\ kept[i] = b[p]
    BY <1>10
  <2>2. PICK q \in 1..l : q = first + j - 1 /\ kept[j] = b[q]
    <3>1. j \in 1..len
      OBVIOUS
    <3> QED
      BY <1>10, <3>1
  <2>3. q \in 1..(p - 1)
    BY <2>1, <2>2
  <2>4. b[q].open_ts < b[p].open_ts
    BY <1>3, <2>3, Zenon DEF Barred, Ascending
  <2> QED
    BY <2>1, <2>2, <2>4, Zenon
<1>13. ASSUME NEW k \in 1..l PROVE b[k].open_ts \in MostRecent(Opens(s, dur), n) <=> first <= k
  <2>1. Cardinality({v \in Opens(s, dur) : v > b[k].open_ts}) = l - k
    BY <1>3, LaterWindows
  <2>2. l - k < n <=> first <= k
    BY <1>4, <1>5
  <2>3. b[k].open_ts \in Opens(s, dur)
    BY <1>2, <1>3
  <2> QED
    BY <2>1, <2>2, <2>3, Zenon DEF MostRecent
<1>14. {kept[i].open_ts : i \in DOMAIN kept} = MostRecent(Opens(s, dur), n)
  <2>1. ASSUME NEW i \in 1..len PROVE kept[i].open_ts \in MostRecent(Opens(s, dur), n)
    <3>1. PICK k \in 1..l : first <= k /\ kept[i] = b[k]
      BY <1>10
    <3> QED
      BY <1>13, <3>1, Zenon
  <2>2. ASSUME NEW w \in MostRecent(Opens(s, dur), n) PROVE \E i \in 1..len : kept[i].open_ts = w
    <3>1. w \in Opens(s, dur)
      BY DEF MostRecent
    <3>2. PICK k \in 1..l : b[k].open_ts = w
      BY <1>3, <3>1, Zenon DEF Barred
    <3>3. first <= k
      BY <1>13, <3>2, Zenon
    <3>4. PICK i \in 1..len : kept[i] = b[k]
      BY <1>11, <3>3
    <3> QED
      BY <3>2, <3>4, Zenon
  <2>3. \A w : w \in {kept[i].open_ts : i \in DOMAIN kept} <=> \E i \in 1..len : kept[i].open_ts = w
    BY <1>9
  <2> QED
    BY <2>1, <2>2, <2>3, Zenon
<1>15. ASSUME NEW i \in 1..len
       PROVE  kept[i] = Summary(Among(s, kept[i].open_ts, kept[i].open_ts + dur - 1), dur)
  <2>1. PICK k \in 1..l : kept[i] = b[k]
    BY <1>10
  <2>2. BarAt(b[k], s, dur)
    BY <1>2, <1>3
  <2> QED
    BY <2>1, <2>2, Zenon DEF BarAt, WindowTicks
<1>16. BarsOf(kept, s, MostRecent(Opens(s, dur), n), dur)
  BY <1>9, <1>12, <1>14, <1>15, Zenon DEF BarsOf
<1> QED
  BY <1>3, <1>4, <1>5, <1>7, <1>16, Zenon

\* The ticks of a time span of a file in order are in order and in the span.
LEMMA AmongOrdered ==
    ASSUME NEW s \in Seq(Slot), Sorted(s),
           NEW first_ts \in Int, NEW last_ts \in Int, first_ts <= last_ts + 1,
           NEW k, k = Among(s, first_ts, last_ts)
    PROVE  /\ k \in Seq(Slot)
           /\ \A i \in 1..Len(k) : k[i].recv_ts <= last_ts
           /\ \A i \in 1..Len(k) : \A j \in 1..i : k[j].recv_ts <= k[i].recv_ts
<1>1. Len(s) \in Nat /\ Timed(s)
  BY SlotsTimed
<1>2. PICK b \in 0..Len(s) : \E a \in 0..b : Spans(s, first_ts, last_ts, a, b)
  BY <1>1, SpanFound
<1>3. PICK a \in 0..b : Spans(s, first_ts, last_ts, a, b)
  BY <1>2
<1>4. k = SubSeq(s, a + 1, b)
  BY <1>3, AmongBetween
<1>5. PICK p \in Nat \ {0} : p = a + 1 /\ p <= b + 1
  BY <1>1
<1>6. /\ k \in Seq(Slot)
      /\ \A i \in 1..Len(k) : p + i - 1 \in p..b /\ k[i] = s[p + i - 1]
  <2>1. \A i \in p..b : s[i] \in Slot
    BY <1>1, <1>5, ElementOfSeq
  <2>2. p \in Int /\ b \in Int
    BY <1>1
  <2>3. k = SubSeq(s, p, b)
    BY <1>4, <1>5
  <2>4. /\ k \in Seq(Slot)
        /\ Len(k) = IF p <= b THEN b - p + 1 ELSE 0
        /\ \A i \in 1..(b - p + 1) : k[i] = s[p + i - 1]
    BY <2>1, <2>2, <2>3, SubSeqProperties
  <2>5. b - p + 1 \in Nat /\ Len(k) = b - p + 1
    BY <1>1, <1>5, <2>4
  <2> QED
    BY <1>1, <1>5, <2>4, <2>5
<1>7. ASSUME NEW i \in 1..Len(k)
      PROVE  k[i].recv_ts <= last_ts /\ \A j \in 1..i : k[j].recv_ts <= k[i].recv_ts
  <2>1. PICK m \in 1..Len(s) : m = p + i - 1 /\ k[i] = s[m] /\ a < m /\ m <= b
    BY <1>1, <1>5, <1>6
  <2>2. s[m].recv_ts <= last_ts
    BY <2>1, <1>3, Zenon DEF Spans
  <2>3. ASSUME NEW j \in 1..i PROVE k[j].recv_ts <= k[i].recv_ts
    <3>1. j \in 1..Len(k)
      BY <1>6, LenProperties
    <3>2. PICK h \in 1..Len(s) : h = p + j - 1 /\ k[j] = s[h]
      BY <1>1, <1>5, <1>6, <3>1
    <3>3. m \in h..Len(s)
      BY <2>1, <3>2
    <3>4. s[h].recv_ts <= s[m].recv_ts
      BY <1>1, <3>3, SortedFar
    <3> QED
      BY <2>1, <3>2, <3>4, Zenon
  <2> QED
    BY <2>1, <2>2, <2>3, Zenon
<1> QED
  BY <1>6, <1>7, Zenon

\* Of ticks that are all known by now none is left out.
LEMMA AllVisible ==
    ASSUME NEW ticks, NEW now \in Int, Len(ticks) \in Nat,
           \A i \in 1..Len(ticks) : ticks[i].recv_ts \in Nat /\ ticks[i].recv_ts <= now
    PROVE  Visible(ticks, now) = 0
<1>1. {i \in 1..Len(ticks) : ticks[i].recv_ts > now} = {}
  <2> SUFFICES ASSUME NEW i \in 1..Len(ticks), ticks[i].recv_ts > now PROVE FALSE
    OBVIOUS
  <2>1. ticks[i].recv_ts \in Nat /\ ticks[i].recv_ts <= now
    OBVIOUS
  <2> QED
    BY <2>1
<1> QED
  BY <1>1, Zenon DEF Visible, SelectInSeq

\* In a file in order the bars of the lookback are those of its ticks.
LEMMA QueriesBars ==
    ASSUME NEW now \in Nat, NEW dur \in Nat \ {0}, NEW n \in Nat \ {0},
           view \in Seq(Slot), Sorted(view),
           NEW ticks, ticks = Among(view, now - (n + 1) * dur, now)
    PROVE  BarsOf(history_bars(now, dur, n), ticks, MostRecent(Opens(ticks, dur), n), dur)
<1>1. PICK lookback \in Nat : lookback = (n + 1) * dur
  OBVIOUS
<1>2. PICK since \in Int : since = now - lookback /\ since <= now + 1
  BY <1>1
<1>3. ticks = Among(view, since, now) /\ now \in Int
  BY <1>1, <1>2
<1>4. /\ ticks \in Seq(Slot)
      /\ \A i \in 1..Len(ticks) : ticks[i].recv_ts <= now
      /\ \A i \in 1..Len(ticks) : \A j \in 1..i : ticks[j].recv_ts <= ticks[i].recv_ts
  BY <1>2, <1>3, AmongOrdered
<1>5. history(now, (n + 1) * dur) = ticks
  <2>1. Timed(view)
    BY SlotsTimed
  <2>2. HistoryExact(now, dur, n)
    BY <2>1, QueriesHistory
  <2> QED
    BY <2>2, Zenon DEF HistoryExact
<1>6. Visible(ticks, now) = 0
  <2>1. Len(ticks) \in Nat /\ \A i \in 1..Len(ticks) : ticks[i].recv_ts \in Nat
    BY <1>4, SlotsTimed DEF Timed
  <2> QED
    BY <1>4, <2>1, AllVisible
<1>7. PICK b : b = FoldLeft(LAMBDA acc, t : WithTick(acc, t, dur), <<>>, ticks)
  BY Zenon
<1>8. Barred(b, ticks, dur)
  <2>1. Barred(FoldLeft(LAMBDA acc, t : WithTick(acc, t, dur), <<>>, ticks), ticks, dur)
    BY <1>4, BarsOfAll, Zenon
  <2> QED
    BY <1>7, <2>1, Zenon
<1>9. history_bars(now, dur, n) = SubSeq(b, Max({1, Len(b) - n + 1}), Len(b))
  BY <1>5, <1>6, <1>7, Zenon DEF history_bars, build_bars
<1>10. BarsOf(SubSeq(b, Max({1, Len(b) - n + 1}), Len(b)), ticks,
              MostRecent(Opens(ticks, dur), n), dur)
  BY <1>4, <1>8, LastBars
<1> QED
  BY <1>9, <1>10, Zenon

\* A query for bars gives those of the most recent windows that have ticks, each of
\* all its ticks of the lookback and of no other (data_portal.cpp build_bars).
THEOREM QueriesBarsExact == Spec => []BarsExact
<1>1. MarketInv => BarsExact
  <2> SUFFICES ASSUME ReplayInv, portal_ts \in Nat PROVE BarsExact
    BY DEF MarketInv
  <2>1. view \in Seq(Slot)
    BY WindowPlaces DEF ReplayInv
  <2>2. ASSUME Sorted(view), NEW dur \in BarDurations, NEW n \in BarCounts
        PROVE  LET ticks == Among(view, portal_ts - (n + 1) * dur, portal_ts)
               IN  BarsOf(history_bars(portal_ts, dur, n), ticks,
                          MostRecent(Opens(ticks, dur), n), dur)
    <3>1. dur \in Nat \ {0} /\ n \in Nat \ {0}
      BY PortalAssumption
    <3>2. PICK ticks : ticks = Among(view, portal_ts - (n + 1) * dur, portal_ts)
      OBVIOUS
    <3>3. BarsOf(history_bars(portal_ts, dur, n), ticks, MostRecent(Opens(ticks, dur), n), dur)
      BY <2>1, <2>2, <3>1, <3>2, QueriesBars
    <3> QED
      BY <3>2, <3>3, Zenon
  <2> QED
    BY <2>2, Zenon DEF BarsExact
<1> QED
  BY <1>1, MarketInvariant, PTL

-----------------------------------------------------------------------------
(* Types *)

\* Store, replay, portal, portfolio, risk engine, VaR window and folds keep the types
\* of their variables.
THEOREM Typed == Spec => []TypeOK
<1>1. MarketInv => MarketTypeOK
  BY DEF MarketInv, StoreInv, ReplayInv, MarketTypeOK
<1>3. Spec => []VarTypeOK
  <2>1. Init => VarTypeOK
    BY EmptySeq DEF Init, VarInit, VarTypeOK
  <2> QED
    BY <2>1, VarTyped, PTL DEF Spec
<1>4. Spec => []WalkInv
  BY InitWalkInv, NextWalkInv, PTL DEF Spec
<1>6. MarketTypeOK /\ TradingTypeOK /\ VarTypeOK /\ WalkTypeOK => TypeOK
  BY Zenon DEF TypeOK
<1> QED
  BY <1>1, <1>3, <1>4, <1>6, WalkInvTyped, MarketInvariant, TradingTypeCorrect, PTL
=============================================================================
