------------------------------ MODULE DtcRecords ------------------------------
(***************************************************************************)
(* The fault records stored on the device (device.c).  A raw block is      *)
(*   [magic, key, dtcs], each of dtcs a <<code, offset, length>> of a text *)
(* somewhere in the block, the length counting its end.                    *)
(* A record has the number of its block, whether its list is allocated, and*)
(* its texts <<code, first, length>>.                                      *)
(***************************************************************************)
EXTENDS Integers, Sequences, FiniteSets, SequencesExt, Ledger

CONSTANT BlockSize     (* OBD_BLOCK_SIZE, also the range of an offset      *)

(* A length of 16 bits can say how long a whole block is.                  *)
ASSUME DtcAssumption == BlockSize \in Nat /\ 0 < BlockSize /\ BlockSize < 65536

RawBlocks == [magic : BOOLEAN, key : Nat, dtcs : Seq(Nat \X Nat \X Nat)]

TextLength(d) == (d[3] - 1) % 65536

(* Mutant: only what starts outside is cut.                                *)
Clamped_Start(off, tlen) == IF off < BlockSize THEN tlen ELSE 0
Clamped(off, tlen) ==
  IF off + tlen > BlockSize THEN IF off < BlockSize THEN BlockSize - off ELSE 0 ELSE tlen

StoredText(d) ==
  LET off == d[2] % BlockSize IN <<d[1], off, Clamped(off, TextLength(d))>>

(* The record of block i after n allocations.                              *)
Record(block, i, n) ==
  [sequence |-> i, key |-> block.key, listed |-> n > 0,
   texts |-> [j \in 1..(n - 1) |-> StoredText(block.dtcs[j])]]

(* What was allocated for a record.                                        *)
Parts(r) ==
  (IF r.listed THEN {<<"dtcs", r.sequence>>} ELSE {})
  \cup {<<"text", r.sequence, j>> : j \in DOMAIN r.texts}

obd_free_dtc_records(l, recs) ==
  Drop(l, {<<"recs">>} \cup UNION {Parts(recs[i]) : i \in DOMAIN recs})

(* Memory runs out in the last of recs, which is not finished.  Mutant: it *)
(* is not counted.                                                         *)
OutOfMemory_Finished(l, recs) == obd_free_dtc_records(l, Front(recs))
OutOfMemory(l, recs)          == obd_free_dtc_records(l, recs)

ByKey(x, y) == x.key < y.key \/ (x.key = y.key /\ x.sequence < y.sequence)

(* qsort: every record behind those that come before it.                   *)
Place(recs, i) == Cardinality({j \in DOMAIN recs : ByKey(recs[j], recs[i])}) + 1
Sorted(recs)   == [k \in DOMAIN recs |-> recs[CHOOSE i \in DOMAIN recs : Place(recs, i) = k]]
=============================================================================
