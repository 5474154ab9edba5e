------------------------------ MODULE Protocol ------------------------------
(***************************************************************************)
(* The wire format of the bootloader protocol, as far as the update and    *)
(* the flash readout depend on it (openphix-tool/src/protocol.c).  A       *)
(* packet is a record of the fields somebody looks at: the 55 AA header,   *)
(* the checksums and the zero padding are carried by the transport and do  *)
(* not appear.                                                             *)
(***************************************************************************)
EXTENDS Integers

CONSTANTS
  BlockSize,  (* OBD_BLOCK_SIZE, bytes in a full block                     *)
  MaxIndex    (* largest value of a 16 bit field, 0xFFFF in the code       *)

ASSUME BlockSizeAssumption == BlockSize \in Nat \ {0}
ASSUME MaxIndexAssumption  == MaxIndex \in Nat \ {0}

BEGIN_MCU   == "BEGIN_MCU"
BEGIN_DATA  == "BEGIN_DATA"
BLOCK       == "BLOCK"
FINISH      == "FINISH"
GET_VERSION == "GET_VERSION"
READ_FLASH  == "READ_FLASH"
GET_FLASH_SIZE == "GET_FLASH_SIZE"

Cmds == {BEGIN_MCU, BEGIN_DATA, BLOCK, FINISH, GET_VERSION, READ_FLASH,
         GET_FLASH_SIZE}
UploadKinds == {BEGIN_MCU, BEGIN_DATA}

BE16(n) == n % (MaxIndex + 1)

obd_block_count(len) == (len + BlockSize - 1) \div BlockSize

(* Length of block i of an image of len bytes: full, or what is left.      *)
BlockLen(len, i) ==
  IF len - i * BlockSize < BlockSize THEN len - i * BlockSize ELSE BlockSize

(* Commands.  arg is the block count of a BEGIN, the index of a BLOCK, the *)
(* address of a READ_FLASH.                                                *)
Command(c, arg, len) == [cmd |-> c, arg |-> arg, len |-> len]

TooManyBlocks(len)       == obd_block_count(len) > MaxIndex
obd_build_begin(c, len)  == Command(c, BE16(obd_block_count(len)), 0)
(* Mutant: blocks numbered from one.                                       *)
block_header_FromOne(len, i)   == Command(BLOCK, BE16(i + 1), len)
obd_build_block_header(len, i) == Command(BLOCK, BE16(i), len)

CommandSet == [cmd : Cmds, arg : 0..MaxIndex, len : 0..BlockSize]

(* A reply is known by the command it acknowledges; byte 2 is all the host *)
(* looks at, so there is no telling which of two commands with the same    *)
(* code a reply answers.  Nak stands for every 16 bytes with another byte  *)
(* 2 and for every shorter packet, Silence for a read that timed out.      *)
Ack(c, data) == [ack |-> c, data |-> data]
Nak          == [ack |-> "nak", data |-> 0]
Silence      == [ack |-> "silence", data |-> 0]

(* Mutant: any reply will do.                                              *)
is_ack_AnyReply(r, c) == r # Silence
obd_is_ack(r, c) == r.ack = c

(* Bootloader versions are ranked by strcmp; V126 is the rank of "1.26".   *)
V126     == 1
Versions == 0..2
obd_erase_required(v) == ~(v > V126)

ReplySet == [ack : Cmds \cup {"nak"}, data : Versions]
=============================================================================
