----------------------------- MODULE UpdateInv ------------------------------
(***************************************************************************)
(* The inductive invariant behind the safety of an update.  TLC checks it  *)
(* on small instances, UpdateProofs and UpdateStrictProofs prove it.       *)
(***************************************************************************)
EXTENDS Update

-----------------------------------------------------------------------------
(* Where the host can be, whatever the device does.                        *)
Sending == {"header", "header_ack", "bulk", "bulk_ack"}

ControlInv ==
  /\ stage \in Ended \cup {"sleep"} <=> step = "rest"
  /\ stage \in CmdStages => step \in {"cmd", "ack"}
  /\ step \in Sending =>
       stage \in Images /\ blk < NBlocks(stage) /\ ~TooManyBlocks(Size[stage])
  /\ stage \in Images /\ step = "ack" => ~TooManyBlocks(Size[stage])

TInv == TypeOK /\ ControlInv

-----------------------------------------------------------------------------
(* The safety of strict runs.  The argument: between the acknowledgement   *)
(* of a header and the data no reply is unread, so the reply the host      *)
(* takes for the answer to a data packet is that answer; hence the host's  *)
(* counter and the device's upload move together, an image is left only    *)
(* when the device has all of it, and the command after it makes the       *)
(* device commit it.  This needs Undisturbed.                              *)

(* The first reply to be read acknowledges no BEGIN.                       *)
Stale == reply # <<>> /\ Head(reply).ack \notin UploadKinds

(* A run that found no reply unread leaves at most one that it goes on     *)
(* without: to GET_VERSION or to the FINISH after Erase.bin.  It fails at  *)
(* the BEGIN that comes next, which reads that one.                        *)
FreshInv ==
  /\ stage \in CmdStages /\ step = "cmd" => reply = <<>>
  /\ stage \in CmdStages /\ step = "ack" => reply = <<>> \/ (Len(reply) = 1 /\ Stale)
  /\ stage = "sleep" \/ (stage \in Images /\ step = "cmd") => reply = <<>> \/ Stale
  /\ stage \in Images /\ step = "ack" => Len(reply) <= 1 \/ Stale
  /\ step \in {"header_ack", "bulk_ack"} => Len(reply) <= 1

(* An answer to GET_VERSION tells the version the device has.              *)
HonestReply(r) ==
  r.ack = GET_VERSION => r.data = version /\ version # NoVersion

QueueInv ==
  /\ OneReply => Len(reply) <= 1
  /\ \A n \in 1..Len(reply) : HonestReply(reply[n])

ReplyInv ==
  /\ QueueInv
  /\ fresh => FreshInv
  /\ Undisturbed /\ step \in {"header", "bulk"} => reply = <<>>

(* The device is collecting the image of the host's stage and has the      *)
(* first k blocks of it.                                                   *)
Has(k) ==
  /\ upload_kind = KindOf(stage)
  /\ announced = NBlocks(stage)
  /\ upload = Prefix(stage, k)
  /\ k < NBlocks(stage) => upload_len = k * BlockSize

UploadInv ==
  /\ stage \in Images /\ step = "ack" => Has(0)
  /\ step \in {"header", "header_ack", "bulk"} => Has(blk)
  /\ step \in {"header_ack", "bulk"} =>
       pending = [len |-> BlockLen(Size[stage], blk), index |-> blk]
  /\ step = "bulk_ack" => Has(blk + 1) \/ (Has(blk) /\ reply = <<Nak>>)

(* The device holds the whole of image i, not committed yet.               *)
Complete(i) ==
  /\ upload_kind = KindOf(i)
  /\ upload = Whole(i)
  /\ announced = NBlocks(i)

LastImage == IF opts.ext THEN "ext" ELSE "mcu"

(* What was committed whole, whether or not there was a slot for it.       *)
Given == installed \cup dropped

DeliveredInv ==
  /\ stage \in {"version", "erase", "erase_finish", "sleep", "mcu"} => opts.mcu
  /\ stage = "ext" => opts.ext
  /\ stage = "erase_finish" /\ step = "cmd" => Complete("erase")
  /\ stage = "erase_finish" /\ step = "ack" => "erase" \in Given
  /\ stage \in {"sleep", "mcu", "ext", "finish", "ok"} /\ MustErase(opts)
       => "erase" \in Given
  /\ stage = "ext" /\ step = "cmd" /\ opts.mcu => Complete("mcu")
  /\ stage = "ext" /\ step # "cmd" /\ opts.mcu => "mcu" \in Given
  /\ stage = "finish" /\ step = "cmd" =>
       Complete(LastImage) /\ (opts.ext /\ opts.mcu => "mcu" \in Given)
  /\ stage = "ok" \/ (stage = "finish" /\ step = "ack") =>
       /\ Wanted(opts) \subseteq Given
       /\ opts.ext => ext_image = Whole("ext")
       /\ upload_kind = NoUpload

StrictInv == opts.strict /\ Undisturbed => UploadInv /\ DeliveredInv

-----------------------------------------------------------------------------
(* All runs, over any transport.  Commands always reach the device when    *)
(* the host goes on, so the two agree on the image and on the block that   *)
(* is announced; only data can be missing, a block for each that was       *)
(* refused, and after the first of these the device takes no other.        *)
Spent == MaxFaults - faults

(* The device is collecting image i from its beginning.                    *)
Collects(i) ==
  /\ upload_kind = KindOf(i)
  /\ IsPartOf(upload, i)
  /\ Len(upload) < NBlocks(i) => upload_len = Len(upload) * BlockSize

(* It has the first n blocks, but for those that were refused.             *)
AllBut(u, n) == Len(u) <= n /\ n - Len(u) <= Spent

LooseInv ==
  /\ stage \in Images /\ step = "ack" => upload = <<>>
  /\ step \in Sending \/ (stage \in Images /\ step = "ack") =>
       Collects(stage) /\ announced = NBlocks(stage)
  /\ step \in {"header", "header_ack", "bulk"} => AllBut(upload, blk)
  /\ step = "bulk_ack" => AllBut(upload, blk + 1)
  /\ step \in {"header_ack", "bulk"} =>
       pending = [len |-> BlockLen(Size[stage], blk), index |-> blk]
  /\ stage = "finish" /\ step = "cmd" /\ opts.ext =>
       /\ upload_kind = BEGIN_DATA
       /\ IsPartOf(upload, "ext") /\ AllBut(upload, NBlocks("ext"))
  /\ stage = "ok" \/ (stage = "finish" /\ step = "ack") =>
       (opts.ext => IsPartOf(ext_image, "ext") /\ AllBut(ext_image, NBlocks("ext")))

(* The first run finds no upload that an earlier one left behind, so what  *)
(* the device commits is what this run has sent.                           *)
FirstRunInv ==
  MaxRuns = 1 =>
    /\ stage = "idle" <=> runs = 0
    /\ runs = 0 => reply = <<>>
    /\ fresh
    /\ stage \in {"version", "erase", "erase_finish", "sleep", "mcu"} => opts.mcu
    /\ stage \in {"idle", "version", "sleep"}
         \/ (stage \in {"erase", "mcu"} /\ step = "cmd")
         \/ (stage = "ext" /\ step = "cmd" /\ ~opts.mcu)
         \/ (stage = "erase_finish" /\ step = "ack")
         => upload_kind = NoUpload

(* How many slots the run has filled: no more than it has come to commit,  *)
(* so nothing is dropped in a run that began with room.                    *)
Filled(n) == Len(mcu_images) <= taken + n

SlotsInv ==
  /\ dropped # {} => ~HasRoom /\ Len(mcu_images) = MaxImages
  /\ "ext" \notin dropped
  /\ stage = "version" \/ (stage = "erase" /\ step = "cmd") => Filled(0)
  /\ stage = "erase" \/ (stage = "erase_finish" /\ step = "cmd") => Filled(1)
  /\ stage \in {"erase_finish", "sleep", "mcu"} \/ (stage = "ext" /\ step = "cmd") => Filled(2)
  /\ stage = "sleep" \/ (stage = "erase_finish" /\ step = "ack") => upload_kind = NoUpload
  /\ stage = "mcu" /\ step = "cmd" => Filled(0) \/ upload_kind = NoUpload
  /\ stage = "finish" /\ step = "cmd" => Filled(2) \/ upload_kind = BEGIN_DATA

IInv == TInv /\ ReplyInv /\ LooseInv /\ StrictInv /\ FirstRunInv /\ SlotsInv
=============================================================================
