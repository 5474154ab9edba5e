---------------------------- MODULE FlashDevice -----------------------------
(***************************************************************************)
(* The half of the simulated device (openphix-tool/src/fake.c) that hands  *)
(* out its external flash.  All of the flash is programmed but the         *)
(* feedback area, which is erased from where the recording ends.           *)
(***************************************************************************)
EXTENDS FlashLayout

CONSTANTS
  FlashSizes,      (* sizes of the flash of the devices considered         *)
  KeepsReplies,    (* FALSE: fake.c, one slot for a reply and one for a    *)
                   (* read; TRUE: USB IN endpoints, which keep what was    *)
                   (* not read                                             *)
  Depth            (* how many packets such an endpoint keeps              *)

ASSUME FlashSizesAssumption == FlashSizes \subseteq 1..(AddrMod - 1)
ASSUME EndpointAssumption == KeepsReplies \in BOOLEAN /\ Depth \in Nat \ {0}

VARIABLES
  flash_size,
  supports_version_cmd,
  supports_size_cmd,
  recorded,        (* blocks of the feedback area that hold data           *)
  reply,           (* replies not read yet                                 *)
  pending_read     (* data packets not read yet                            *)

device  == <<flash_size, supports_version_cmd, supports_size_cmd, recorded>>
devVars == <<device, reply, pending_read>>

Feedback == flash_size - FeedbackOffset
Erased(a) ==
  /\ a >= Feedback + recorded * BlockSize
  /\ a < Feedback + FeedbackBlocks * BlockSize
flash(a) == Cell(a, Erased(a))

DevInit ==
  /\ flash_size \in FlashSizes
  /\ supports_version_cmd \in BOOLEAN
  /\ supports_size_cmd \in BOOLEAN
  /\ recorded \in 0..FeedbackBlocks
  /\ reply = <<>>
  /\ pending_read = <<>>

Slot(q, x) ==
  IF ~KeepsReplies THEN <<x>> ELSE IF Len(q) < Depth THEN Append(q, x) ELSE q

set_reply(r) == reply' = Slot(reply, r)
no_reply     == reply' = IF KeepsReplies THEN reply ELSE <<>>

DataPacket(addr, n) ==
  [k \in 1..BlockSize |-> IF k <= n THEN flash(addr + k - 1) ELSE Zero]

(* Read as a number, the text of a version is larger than any flash.       *)
VersionText == AddrMod - 1

get_version ==
  /\ IF supports_version_cmd THEN set_reply(Ack(GET_VERSION, VersionText)) ELSE no_reply
  /\ UNCHANGED pending_read

get_flash_size ==
  /\ IF supports_size_cmd THEN set_reply(Ack(GET_FLASH_SIZE, flash_size)) ELSE no_reply
  /\ UNCHANGED pending_read

(* A window that reaches past the end of the flash is not answered, and    *)
(* the data of an earlier read stays pending.                              *)
read_flash(c) ==
  IF c.len > 0 /\ c.arg + c.len <= flash_size
  THEN /\ pending_read' = Slot(pending_read, DataPacket(c.arg, c.len))
       /\ set_reply(Ack(READ_FLASH, 0))
  ELSE no_reply /\ UNCHANGED pending_read

fake_write_cmd(c) ==
  /\ \/ c.cmd = GET_VERSION    /\ get_version
     \/ c.cmd = GET_FLASH_SIZE /\ get_flash_size
     \/ c.cmd = READ_FLASH     /\ read_flash(c)
  /\ UNCHANGED device
=============================================================================
