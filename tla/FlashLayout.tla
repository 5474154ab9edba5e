---------------------------- MODULE FlashLayout -----------------------------
(***************************************************************************)
(* Layout of the external flash, relative to its end, and the cells it     *)
(* consists of (openphix-tool/src/protocol.h).                             *)
(***************************************************************************)
EXTENDS Protocol, Sequences

CONSTANTS
  AddrMod,         (* 2^32 in the code: addresses are uint32_t             *)
  Candidates,      (* obd_flash_size_candidates, largest first             *)
  FeedbackOffset,  (* OBD_FEEDBACK_AREA_OFFSET, from the end of the flash  *)
  FeedbackBlocks,  (* OBD_FEEDBACK_BLOCKS                                  *)
  DtcOffset,       (* OBD_DTC_AREA_OFFSET                                  *)
  DtcBlocks        (* OBD_DTC_BLOCKS                                       *)

ASSUME CandidatesAssumption ==
  /\ AddrMod \in Nat \ {0}
  /\ Candidates \in Seq(Nat) /\ Len(Candidates) > 0
  /\ \A i \in 1..Len(Candidates) : Candidates[i] >= BlockSize /\ Candidates[i] < AddrMod
  /\ \A i, j \in 1..Len(Candidates) : i < j => Candidates[i] > Candidates[j]
ASSUME AreasAssumption ==
  /\ FeedbackBlocks \in Nat \ {0} /\ FeedbackOffset \in 0..(AddrMod - 1)
  /\ DtcBlocks \in Nat \ {0} /\ DtcOffset \in 0..(AddrMod - 1)
  /\ FeedbackBlocks * BlockSize <= FeedbackOffset
  /\ DtcBlocks * BlockSize <= DtcOffset

LE32(n) == n % AddrMod

(* A cell is known by its address and by whether it reads as erased.       *)
Cell(a, b) == [at |-> a, blank |-> b]
Zero       == Cell(-1, FALSE)  (* padding of a short block                 *)
Junk(b)    == Cell(-2, b)      (* what a bad packet carries                *)
=============================================================================
