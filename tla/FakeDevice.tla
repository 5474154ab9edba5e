----------------------------- MODULE FakeDevice -----------------------------
(***************************************************************************)
(* The scan tool at the other end of the cable, as the simulated device of *)
(* openphix-tool/src/fake.c implements it: it validates what it is sent,   *)
(* collects the blocks of one upload and commits the upload when the next  *)
(* one begins or when it is told to finish.                                *)
(***************************************************************************)
EXTENDS UpdateImages

CONSTANTS
  MaxImages,    (* OBD_FAKE_MAX_IMAGES                                     *)
  KeepsReplies, (* FALSE: fake.c, one reply slot that a command clears;    *)
                (* TRUE: a USB IN endpoint, which keeps what was not read  *)
  Depth         (* how many replies such an endpoint keeps                 *)

ASSUME MaxImagesAssumption == MaxImages \in Nat \ {0}
ASSUME EndpointAssumption  == KeepsReplies \in BOOLEAN /\ Depth \in Nat \ {0}

VARIABLES
  version,      (* rank of the bootloader version, NoVersion if the        *)
                (* command is not supported                                *)
  upload_kind,  (* BEGIN command of the running upload, or NoUpload        *)
  upload,       (* its blocks so far                                       *)
  upload_len,   (* their length in bytes                                   *)
  pending,      (* block announced by the last BLOCK command, or NoBlock   *)
  announced,    (* log: block count of the last BEGIN command              *)
  mcu_images,   (* committed MCU images, oldest first                      *)
  ext_image,    (* committed external flash image                          *)
  finished,     (* FINISH commands received                                *)
  error,        (* set when the host violates the protocol                 *)
  reply,        (* replies not read yet                                    *)
  installed,    (* history: whole images stored since the run began        *)
  dropped       (* history: whole images that found no slot since then     *)

devState == <<upload_kind, upload, upload_len, pending, announced,
              mcu_images, ext_image, finished, error, installed, dropped>>
devVars  == <<version, devState, reply>>

NoVersion == -1
NoUpload  == "none"
NoBlock   == [len |-> -1, index |-> -1]
Errors    == {"none", "no_begin", "no_block", "checksum", "order"}

DevInit ==
  /\ version \in Versions \cup {NoVersion}
  /\ upload_kind = NoUpload
  /\ upload = <<>>
  /\ upload_len = 0
  /\ pending = NoBlock
  /\ announced = 0
  /\ mcu_images = <<>>
  /\ ext_image = <<>>
  /\ finished = 0
  /\ error = "none"
  /\ reply = <<>>
  /\ installed = {} /\ dropped = {}

DevTypeOK ==
  /\ version \in Versions \cup {NoVersion}
  /\ upload_kind \in UploadKinds \cup {NoUpload}
  /\ upload \in Seq(Blocks)
  /\ upload_len \in Nat
  /\ pending \in [len : 0..BlockSize, index : 0..MaxIndex] \cup {NoBlock}
  /\ announced \in 0..MaxIndex
  /\ mcu_images \in Seq(Seq(Blocks)) /\ Len(mcu_images) <= MaxImages
  /\ ext_image \in Seq(Blocks)
  /\ finished \in Nat
  /\ error \in Errors
  /\ reply \in Seq(ReplySet)
  /\ installed \subseteq Images /\ dropped \subseteq Images

(* set_reply, and the clearing of the slot every command starts with.      *)
set_reply(r) ==
  reply' = IF ~KeepsReplies        THEN <<r>>
           ELSE IF Len(reply) < Depth THEN Append(reply, r) ELSE reply
no_reply == reply' = IF KeepsReplies THEN reply ELSE <<>>

(* The images whose blocks the running upload has, all of them.            *)
Uploaded == {i \in Images : upload_kind = KindOf(i) /\ upload = Whole(i)}

(* Mutant: the slots for MCU images are not counted.                       *)
commit_upload_NoLimit ==
  /\ mcu_images' = IF upload_kind = BEGIN_MCU
                   THEN Append(mcu_images, upload) ELSE mcu_images
  /\ ext_image' = IF upload_kind = BEGIN_DATA THEN upload ELSE ext_image
  /\ installed' = installed \cup Uploaded
  /\ UNCHANGED dropped
  /\ upload' = <<>>
  /\ upload_len' = 0

(* Take the running upload over as an image.  The block count announced by *)
(* its BEGIN is not compared with what arrived, and an MCU image that      *)
(* finds all slots taken is dropped, with the reply that it would have had.*)
NoSlot == upload_kind = BEGIN_MCU /\ Len(mcu_images) = MaxImages

commit_upload ==
  /\ mcu_images' = IF upload_kind = BEGIN_MCU /\ ~NoSlot
                   THEN Append(mcu_images, upload) ELSE mcu_images
  /\ ext_image' = IF upload_kind = BEGIN_DATA THEN upload ELSE ext_image
  /\ installed' = IF NoSlot THEN installed ELSE installed \cup Uploaded
  /\ dropped' = IF NoSlot THEN dropped \cup Uploaded ELSE dropped
  /\ upload' = <<>>
  /\ upload_len' = 0

get_version ==
  /\ IF version = NoVersion THEN no_reply ELSE set_reply(Ack(GET_VERSION, version))
  /\ UNCHANGED devState

(* Mutant: BEGIN goes on with whatever was there.                          *)
begin_KeepsUpload(c) ==
  /\ upload_kind' = c.cmd
  /\ announced' = c.arg
  /\ set_reply(Ack(c.cmd, 0))
  /\ UNCHANGED <<pending, finished, error, mcu_images, ext_image, installed,
                 dropped, upload, upload_len>>

begin(c) ==
  /\ commit_upload
  /\ upload_kind' = c.cmd
  /\ announced' = c.arg
  /\ set_reply(Ack(c.cmd, 0))
  /\ UNCHANGED <<pending, finished, error>>

block(c) ==
  /\ IF upload_kind = NoUpload
     THEN error' = "no_begin" /\ no_reply /\ UNCHANGED pending
     ELSE /\ pending' = [len |-> c.len, index |-> c.arg]
          /\ set_reply(Ack(BLOCK, 0))
          /\ UNCHANGED error
  /\ UNCHANGED <<upload_kind, upload, upload_len, announced, mcu_images,
                 ext_image, finished, installed, dropped>>

finish ==
  /\ finished' = finished + 1
  /\ commit_upload
  /\ upload_kind' = NoUpload
  /\ set_reply(Ack(FINISH, 0))
  /\ UNCHANGED <<pending, announced, error>>

fake_write_cmd(c) ==
  /\ \/ c.cmd = GET_VERSION /\ get_version
     \/ c.cmd \in UploadKinds /\ begin(c)
     \/ c.cmd = BLOCK /\ block(c)
     \/ c.cmd = FINISH /\ finish
  /\ UNCHANGED version

(* Mutant: the block index is not compared with what arrived.              *)
BulkError_AnyOrder(intact) ==
  IF pending = NoBlock THEN "no_block"
  ELSE IF ~intact THEN "checksum"
  ELSE "none"

(* What keeps the device from taking a data packet.                        *)
BulkError(intact) ==
  IF pending = NoBlock THEN "no_block"
  ELSE IF ~intact THEN "checksum"
  ELSE IF pending.index # upload_len \div BlockSize THEN "order"
  ELSE "none"

accept_bulk(b) ==
  /\ BulkError(TRUE) = "none"
  /\ upload' = Append(upload, [b EXCEPT !.len = pending.len])
  /\ upload_len' = upload_len + pending.len
  /\ pending' = NoBlock
  /\ set_reply(Ack(BLOCK, 0))
  /\ UNCHANGED <<version, upload_kind, announced, mcu_images, ext_image,
                 finished, error, installed, dropped>>

reject_bulk(intact) ==
  /\ BulkError(intact) # "none"
  /\ error' = BulkError(intact)
  /\ UNCHANGED <<version, upload_kind, upload, upload_len, pending, announced,
                 mcu_images, ext_image, finished, reply, installed, dropped>>
=============================================================================
