---------------------------- MODULE UpdateImages ----------------------------
(***************************************************************************)
(* The images an update sends and the blocks obd_write_image cuts them     *)
(* into.  A block is known by the image it comes from, its number there    *)
(* and its length in bytes.                                                *)
(***************************************************************************)
EXTENDS Protocol, Sequences

CONSTANT Size  (* size of each image in bytes                              *)

Images == {"erase", "mcu", "ext"}

ASSUME SizeAssumption == Size \in [Images -> Nat]

Block(i, k) == [img |-> i, idx |-> k, len |-> BlockLen(Size[i], k)]
Blocks      == [img : Images, idx : Nat, len : 0..BlockSize]

NBlocks(i)   == obd_block_count(Size[i])
Prefix(i, n) == [k \in 1..n |-> Block(i, k - 1)]
Whole(i)     == Prefix(i, NBlocks(i))

(* Erase.bin travels as an MCU image.                                      *)
KindOf(i) == IF i = "ext" THEN BEGIN_DATA ELSE BEGIN_MCU
=============================================================================
