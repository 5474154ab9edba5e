----------------------------- MODULE UpdateHost -----------------------------
(***************************************************************************)
(* obd_run_update, obd_write_image and obd_finish of                       *)
(* openphix-tool/src/device.c as a machine that stops at every call into   *)
(* the transport.  Its actions are the returns of those calls: the command *)
(* was written or not, the read brought a reply, silence or an error.      *)
(* What the device does is not its business; Update composes the two.      *)
(*                                                                         *)
(* stage is the position in obd_run_update, step the position in the       *)
(* exchange or the image upload that stage runs, blk the loop counter of   *)
(* obd_write_image.                                                        *)
(***************************************************************************)
EXTENDS UpdateImages

VARIABLES
  opts,   (* the run's flags and which images it was given                 *)
  stage,
  step,
  blk

hostVars == <<opts, stage, step, blk>>

CmdStages   == {"version", "erase_finish", "finish"}
Ended       == {"idle", "ok", "failed"}
Stages      == Images \cup CmdStages \cup Ended \cup {"sleep"}
Steps       == {"cmd", "ack", "header", "header_ack", "bulk", "bulk_ack", "rest"}

(* cmd_update refuses a package that holds neither image (main.c:258).     *)
Options ==
  {o \in [dm100 : BOOLEAN, skip : BOOLEAN, force : BOOLEAN, strict : BOOLEAN,
          mcu : BOOLEAN, ext : BOOLEAN, erase : BOOLEAN] : o.mcu \/ o.ext}

HostInit ==
  /\ opts \in Options
  /\ stage = "idle"
  /\ step = "rest"
  /\ blk = 0

HostTypeOK ==
  /\ opts \in Options
  /\ stage \in Stages
  /\ step \in Steps
  /\ blk \in Nat

-----------------------------------------------------------------------------
(* Control flow of obd_run_update.                                         *)

Goto(s) ==
  /\ stage' = s
  /\ step' = IF s \in Ended \cup {"sleep"} THEN "rest" ELSE "cmd"
  /\ blk' = 0
  /\ UNCHANGED opts

Fail == Goto("failed")

FirstStage(o) ==
  IF ~o.dm100 /\ o.mcu /\ ~o.skip THEN "version"
  ELSE IF o.mcu THEN "mcu" ELSE "ext"

(* Mutant: the external flash image is forgotten after the MCU's.          *)
AfterImage_NoExt ==
  [erase |-> "erase_finish", mcu |-> "finish", ext |-> "finish"][stage]

AfterImage ==
  [erase |-> "erase_finish",
   mcu   |-> IF opts.ext THEN "ext" ELSE "finish",
   ext   |-> "finish"][stage]

(* Mutant: a bootloader that does not answer is taken for a new one.       *)
EraseNeeded_OnlyIfAnswered(r) ==
  \/ opts.force
  \/ obd_is_ack(r, GET_VERSION) /\ obd_erase_required(r.data)

(* The bootloader rule: an unanswered or refused GET_VERSION counts as an  *)
(* old bootloader.                                                         *)
EraseNeeded(r) ==
  \/ opts.force
  \/ obd_is_ack(r, GET_VERSION) => obd_erase_required(r.data)

StartRun(o) ==
  /\ stage \in Ended
  /\ opts' = o
  /\ stage' = FirstStage(o)
  /\ step' = "cmd"
  /\ blk' = 0

AfterVersion(r) ==
  IF EraseNeeded(r)
  THEN Goto(IF opts.erase THEN "erase" ELSE "failed")
  ELSE Goto("mcu")

(* Mutant: the loop ends one block early.                                  *)
NextBlock_NotTheLast(k) ==
  IF k + 1 < NBlocks(stage)
  THEN step' = "header" /\ blk' = k /\ UNCHANGED <<opts, stage>>
  ELSE Goto(AfterImage)

NextBlock(k) ==
  IF k < NBlocks(stage)
  THEN step' = "header" /\ blk' = k /\ UNCHANGED <<opts, stage>>
  ELSE Goto(AfterImage)

-----------------------------------------------------------------------------
(* The command the host is about to write.                                 *)
HostCommand ==
  IF stage \notin Images
  THEN Command(IF stage = "version" THEN GET_VERSION ELSE FINISH, 0, 0)
  ELSE IF step = "cmd"
       THEN obd_build_begin(KindOf(stage), Size[stage])
       ELSE obd_build_block_header(BlockLen(Size[stage], blk), blk)

(* obd_build_begin refuses an image whose block count needs more than 16   *)
(* bits; nothing of that image has been sent then.                         *)
TooLarge ==
  /\ stage \in Images
  /\ step = "cmd"
  /\ TooManyBlocks(Size[stage])

AtWrite == step \in {"cmd", "header"} /\ ~TooLarge

ImageTooLarge == TooLarge /\ Fail

CommandWritten ==
  /\ AtWrite
  /\ step' = IF step = "cmd" THEN "ack" ELSE "header_ack"
  /\ UNCHANGED <<opts, stage, blk>>

CommandNotWritten == AtWrite /\ Fail

(* malloc of the packet buffer, after the BEGIN was acknowledged.          *)
NoPacketBuffer ==
  /\ step = "header"
  /\ blk = 0
  /\ Fail

DataWritten ==
  /\ step = "bulk"
  /\ step' = "bulk_ack"
  /\ UNCHANGED <<opts, stage, blk>>

DataNotWritten == step = "bulk" /\ Fail

AtRead == step \in {"ack", "header_ack", "bulk_ack"}

(* read_cmd returned r, which is Silence when it timed out.                *)
VersionRead(r) ==
  /\ stage = "version" /\ step = "ack"
  /\ AfterVersion(r)

BeginRead(r) ==
  /\ stage \in Images /\ step = "ack"
  /\ IF obd_is_ack(r, KindOf(stage)) THEN NextBlock(0) ELSE Fail

HeaderRead(r) ==
  /\ step = "header_ack"
  /\ IF obd_is_ack(r, BLOCK)
     THEN step' = "bulk" /\ UNCHANGED <<opts, stage, blk>>
     ELSE Fail

(* Mutants: no strict mode; a missing reply is no error.                   *)
DataRead_NeverStrict(r) ==
  /\ step = "bulk_ack"
  /\ IF r = Silence THEN Fail ELSE NextBlock(blk + 1)

DataRead_SilenceIsFine(r) ==
  /\ step = "bulk_ack"
  /\ IF r # Silence /\ opts.strict /\ ~obd_is_ack(r, BLOCK)
     THEN Fail
     ELSE NextBlock(blk + 1)

(* A wrong reply to the data itself is fatal in strict mode only, a        *)
(* missing one always.                                                     *)
DataRead(r) ==
  /\ step = "bulk_ack"
  /\ IF r = Silence \/ (opts.strict /\ ~obd_is_ack(r, BLOCK))
     THEN Fail
     ELSE NextBlock(blk + 1)

(* Mutant: the host reads on until FINISH is acknowledged.                 *)
FinishRead_UntilAck(r) ==
  /\ step = "ack"
  /\ IF ~obd_is_ack(r, FINISH)
     THEN stage \in {"erase_finish", "finish"} /\ UNCHANGED hostVars
     ELSE \/ stage = "erase_finish" /\ Goto("sleep")
          \/ stage = "finish" /\ Goto("ok")

(* The reply to FINISH is ignored, a timeout included.                     *)
FinishRead(r) ==
  /\ step = "ack"
  /\ \/ stage = "erase_finish" /\ Goto("sleep")
     \/ stage = "finish" /\ Goto("ok")

ReplyRead(r) ==
  VersionRead(r) \/ BeginRead(r) \/ HeaderRead(r) \/ DataRead(r) \/ FinishRead(r)

ReadFailed == AtRead /\ Fail

(* The five seconds the device is given to erase.                          *)
Slept == stage = "sleep" /\ Goto("mcu")
=============================================================================
