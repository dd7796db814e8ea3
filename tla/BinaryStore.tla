----------------------------- MODULE BinaryStore ----------------------------
(***************************************************************************)
(* BinaryStore<Tick> (market_data/binary_store.cpp): one file of ticks,    *)
(* mapped into memory, with one writer that may crash between any two      *)
(* writes and open the file again.                                         *)
(*                                                                         *)
(* What a process stored in the mapping stays in the page cache when the   *)
(* process dies.  A power failure keeps what close_store synced, and any   *)
(* part of what was written after that: a lost record reads as zeroes.     *)
(* The length of the file is taken to survive with its directory entry.    *)
(***************************************************************************)
EXTENDS Integers, Sequences, SequencesExt

CONSTANTS TickTimes, Prices,
          kInitialCapacity,   \* records that fit a new file, pages included
          MaxRecords,         \* bound: appends
          MaxPowerFailures    \* bound

ASSUME StoreAssumption ==
    /\ TickTimes \subseteq Nat \ {0}
    /\ Prices \subseteq Nat \ {0}
    /\ kInitialCapacity \in Nat \ {0}
    /\ MaxRecords \in Nat
    /\ MaxPowerFailures \in Nat

(* recv_ts, and the price that bars are built from: the last trade, or the *)
(* bid when there was none.                                                *)
Record  == [recv_ts : TickTimes, px : Prices]
Zeroes  == [recv_ts |-> 0, px |-> 0]

VARIABLES file,       \* whether it was created; magic, slots and record_count
          writer,     \* where the writing process stands
          appended,   \* what the file owes: finished appends
          durable,    \* the header and the records close_store synced last
          failures    \* power failures so far

storeVars == <<file, writer, appended, durable, failures>>

map_len == Len(file.slots)

(* records() *)
Records == SubSeq(file.slots, 1, file.record_count)

StoreInit ==
    /\ file     = [magic |-> FALSE, slots |-> <<>>, record_count |-> 0]
    /\ writer   = [at |-> "none"]
    /\ appended = <<>>
    /\ durable  = [header |-> FALSE, records |-> <<>>]
    /\ failures = 0

-----------------------------------------------------------------------------
(* open *)

(* O_TRUNC and ftruncate leave a file of zeroes; the header follows.  A    *)
(* recorder creates the file when there is none that opens.                *)
OpenCreate ==
    /\ writer.at = "none"
    /\ ~file.magic
    /\ file' = [magic |-> FALSE, record_count |-> 0,
                slots |-> [i \in 1..kInitialCapacity |-> Zeroes]]
    /\ writer'   = [at |-> "create"]
    /\ appended' = <<>>
    /\ UNCHANGED <<durable, failures>>

WriteHeader ==
    /\ writer.at = "create"
    /\ file'   = [file EXCEPT !.magic = TRUE, !.record_count = 0]
    /\ writer' = [at |-> "open"]
    /\ UNCHANGED <<appended, durable, failures>>

(* Without the magic number open throws, and there is no store.            *)
OpenReadWrite ==
    /\ writer.at = "none"
    /\ file.magic
    /\ writer' = [at |-> "open"]
    /\ UNCHANGED <<file, appended, durable, failures>>

-----------------------------------------------------------------------------
(* append: room, the record, its count *)

(* A recorder appends ticks as they arrive, so their times never decrease. *)
InOrder(r) == \A i \in DOMAIN appended : appended[i].recv_ts <= r.recv_ts

\* Mutant: growing starts a new file.
ExtendedFresh(slots, n) == [i \in 1..n |-> Zeroes]

Extended(slots, n) == slots \o [i \in 1..(n - Len(slots)) |-> Zeroes]

Grown(n) == Extended(file.slots, Max({n, 2 * map_len}))

\* Mutant: the record that is to come is not counted.
IsFullLate == file.record_count > map_len

IsFull == file.record_count + 1 > map_len

BeginAppend(r) ==
    /\ writer.at = "open"
    /\ Len(appended) < MaxRecords
    /\ InOrder(r)
    /\ writer' = [at |-> "store", record |-> r]
    /\ file'   = [file EXCEPT !.slots = IF IsFull THEN Grown(file.record_count + 1) ELSE @]
    /\ UNCHANGED <<appended, durable, failures>>

StoreRecord ==
    /\ writer.at = "store"
    /\ file'   = [file EXCEPT !.slots[file.record_count + 1] = writer.record]
    /\ writer' = [writer EXCEPT !.at = "count"]
    /\ UNCHANGED <<appended, durable, failures>>

CountRecord ==
    /\ writer.at = "count"
    /\ file'     = [file EXCEPT !.record_count = @ + 1]
    /\ appended' = Append(appended, writer.record)
    /\ writer'   = [at |-> "open"]
    /\ UNCHANGED <<durable, failures>>

-----------------------------------------------------------------------------
(* The end of a writer.  flush() only asks for write-back (MS_ASYNC), and  *)
(* promises nothing that the model could tell from its not being called.   *)

close_store ==
    /\ writer.at = "open"
    /\ writer'  = [at |-> "none"]
    /\ durable' = [header |-> TRUE, records |-> Records]
    /\ UNCHANGED <<file, appended, failures>>

ProcessCrash ==
    /\ writer.at # "none"
    /\ writer' = [at |-> "none"]
    /\ UNCHANGED <<file, appended, durable, failures>>

(* Of what was written since the last msync any part may be lost.          *)
PowerFailure ==
    /\ failures < MaxPowerFailures
    /\ failures' = failures + 1
    /\ writer'   = [at |-> "none"]
    /\ LET synced == Len(durable.records)
       IN \E header \in {TRUE, durable.header},
             n \in synced..file.record_count,
             kept \in SUBSET (synced + 1..file.record_count + 1) :
            file' = [magic        |-> file.magic /\ header,
                     record_count |-> n,
                     slots |-> [i \in 1..map_len |->
                                  IF i <= synced \/ i \in kept THEN file.slots[i] ELSE Zeroes]]
    /\ appended' = SubSeq(file'.slots, 1, file'.record_count)
    /\ UNCHANGED durable

StoreNext ==
    \/ OpenCreate \/ WriteHeader \/ OpenReadWrite
    \/ \E r \in Record : BeginAppend(r)
    \/ StoreRecord \/ CountRecord
    \/ close_store \/ ProcessCrash \/ PowerFailure

StoreTypeOK ==
    /\ file \in [magic : BOOLEAN, slots : Seq(Record \cup {Zeroes}), record_count : Nat]
    /\ file.record_count <= map_len
    /\ writer.at \in {"none", "create", "open", "store", "count"}
    /\ writer.at \in {"store", "count"} => /\ writer.record \in Record
                                          /\ file.record_count < map_len
    /\ appended \in Seq(Record \cup {Zeroes})
    /\ durable \in [header : BOOLEAN, records : Seq(Record \cup {Zeroes})]
    /\ failures \in 0..MaxPowerFailures

-----------------------------------------------------------------------------
(* A writer that crashes anywhere in append() (binary_store.cpp:147-160)   *)
(* loses no record that was appended before and adds none that was not: a  *)
(* reopened file holds exactly the finished appends.  A power failure may  *)
(* take, or zero, what was appended since the last close_store, and        *)
(* nothing that close_store synced.  binary_store.hpp:8 promises more, see *)
(* AppendsAreDurable in MarketData.                                        *)
StoreKeepsRecords ==
    /\ file.magic => Records = appended
    /\ durable.header => file.magic /\ IsPrefix(durable.records, Records)

-----------------------------------------------------------------------------
(* Lookup *)

(* The binary search of lower_bound (and of std::lower_bound) among the    *)
(* records first+1 .. last of a view: the index before the first one that  *)
(* is not earlier than ts, if the view is in order of time.                *)
lower_bound(view, first, last, ts) ==
    LET search[at \in Nat \X (0..Len(view))] ==
            LET lo    == at[1]
                count == at[2]
                half  == count \div 2
                mid   == lo + half
            IN  IF count = 0 THEN lo
                ELSE IF view[mid + 1].recv_ts < ts
                     THEN search[<<mid + 1, count - (half + 1)>>]
                     ELSE search[<<lo, half>>]
    IN  search[<<first, last - first>>]

(* last_at_or_before(ts): at most one record.                              *)
last_at_or_before(view, ts) ==
    LET n == lower_bound(view, 0, Len(view), ts + 1)
    IN  IF n = 0 THEN <<>> ELSE <<view[n]>>
=============================================================================
