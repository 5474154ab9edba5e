---------------------------- MODULE UpdateProofs ----------------------------
(***************************************************************************)
(* Proofs about Update for every size of the images, every number of runs  *)
(* and every number of faults.                                             *)
(***************************************************************************)
EXTENDS UpdateInv, SequenceTheorems, TLAPS

-----------------------------------------------------------------------------
(* Arithmetic of cutting an image into blocks.                             *)

(* The number of blocks of an image is a natural number (obd_block_count). *)
LEMMA BlockCountNat ==
  ASSUME NEW len \in Nat PROVE obd_block_count(len) \in Nat
  BY BlockSizeAssumption, SMTT(20) DEF obd_block_count

(* Every block obd_write_image announces holds 1 to BlockSize bytes.       *)
LEMMA BlockLenRange ==
  ASSUME NEW len \in Nat, NEW k \in Nat, k < obd_block_count(len)
  PROVE  BlockLen(len, k) \in 1..BlockSize
<1>1. k * BlockSize < len
  BY BlockSizeAssumption, SMTT(20) DEF obd_block_count
<1>2. k * BlockSize \in Nat
  BY BlockSizeAssumption, SMTT(20)
<1> QED
  BY <1>1, <1>2, BlockSizeAssumption DEF BlockLen

(* Every block but the last is full, so the length of the upload tells the *)
(* device the index of the next one.                                       *)
LEMMA FullBlock ==
  ASSUME NEW len \in Nat, NEW k \in Nat, k + 1 < obd_block_count(len)
  PROVE  BlockLen(len, k) = BlockSize
<1>1. len - k * BlockSize >= BlockSize
  BY BlockSizeAssumption, SMTT(20) DEF obd_block_count
<1>2. k * BlockSize \in Nat
  BY BlockSizeAssumption, SMTT(20)
<1> QED
  BY <1>1, <1>2, BlockSizeAssumption DEF BlockLen

(* After k full blocks the device computes index k from the length of its  *)
(* upload (fake.c:145).                                                    *)
LEMMA IndexOfLength ==
  ASSUME NEW k \in Nat PROVE (k * BlockSize) \div BlockSize = k
  BY BlockSizeAssumption, SMTT(20)

(* A number sent in 16 bits arrives modulo 2^16, and unchanged if it fits  *)
(* (protocol.c:79-95).                                                     *)
LEMMA BE16Range ==
  ASSUME NEW n \in Nat
  PROVE  BE16(n) \in 0..MaxIndex /\ (n <= MaxIndex => BE16(n) = n)
  BY MaxIndexAssumption, SMTT(20) DEF BE16

(* Every image of a run has a natural number of blocks.                    *)
LEMMA NBlocksNat == ASSUME NEW i \in Images PROVE NBlocks(i) \in Nat
  BY BlockCountNat, SizeAssumption DEF NBlocks

(* An upload that is the first k blocks of an image becomes its first k+1  *)
(* when block k arrives.                                                   *)
LEMMA PrefixGrows ==
  ASSUME NEW i \in Images, NEW k \in Nat
  PROVE  /\ Append(Prefix(i, k), Block(i, k)) = Prefix(i, k + 1)
         /\ Len(Prefix(i, k)) = k
         /\ Prefix(i, 0) = <<>>
<1>1. Prefix(i, k) \in Seq({Block(i, j) : j \in Nat}) /\ Len(Prefix(i, k)) = k
  BY DEF Prefix
<1>2. Append(Prefix(i, k), Block(i, k)) = Prefix(i, k + 1)
  BY <1>1 DEF Prefix
<1>3. Prefix(i, 0) = <<>>
  BY DEF Prefix
<1> QED BY <1>1, <1>2, <1>3

-----------------------------------------------------------------------------
(* The host keeps its place in the protocol, whatever the device does.     *)
HostOK == HostTypeOK /\ ControlInv

(* Wherever obd_run_update goes next, the host's position there is a sound *)
(* one.                                                                    *)
LEMMA GotoOK ==
  ASSUME HostTypeOK, NEW s \in Stages, Goto(s)
  PROVE  HostOK'
  BY DEF HostOK, HostTypeOK, ControlInv, Goto, Stages, CmdStages, Ended, Images,
         Sending, Steps

(* A run that fails is over (device.c:10-17).                              *)
LEMMA FailOK == ASSUME HostTypeOK, Fail PROVE HostOK'
  BY GotoOK DEF Fail, Stages, Ended

(* The loop of obd_write_image stays below the number of blocks            *)
(* (device.c:166).                                                         *)
LEMMA NextBlockOK ==
  ASSUME HostOK, stage \in Images, NEW k \in Nat, NextBlock(k),
         ~TooManyBlocks(Size[stage])
  PROVE  HostOK'
<1>1. CASE k < NBlocks(stage)
  BY <1>1 DEF NextBlock, HostOK, HostTypeOK, ControlInv, Sending, Steps, Images,
              CmdStages, Ended
<1>2. CASE ~(k < NBlocks(stage))
  BY <1>2, GotoOK DEF NextBlock, HostOK, AfterImage, Images, Stages, CmdStages
<1> QED BY <1>1, <1>2

(* Whatever a read returns, the host's position stays sound.               *)
LEMMA ReplyReadOK ==
  ASSUME HostOK, NEW r, ReplyRead(r)
  PROVE  HostOK'
<1>1. CASE VersionRead(r)
  BY <1>1, GotoOK DEF VersionRead, AfterVersion, HostOK, Stages, Images, Ended
<1>2. CASE BeginRead(r)
  BY <1>2, NextBlockOK, FailOK DEF BeginRead, HostOK, ControlInv
<1>3. CASE HeaderRead(r)
  <2>1. CASE obd_is_ack(r, BLOCK)
    BY <1>3, <2>1 DEF HeaderRead, HostOK, HostTypeOK, ControlInv, Sending, Steps,
                      CmdStages, Ended, Images
  <2> QED BY <1>3, <2>1, FailOK DEF HeaderRead, HostOK
<1>4. CASE DataRead(r)
  BY <1>4, NextBlockOK, FailOK DEF DataRead, HostOK, HostTypeOK, ControlInv, Sending
<1>5. CASE FinishRead(r)
  BY <1>5, GotoOK DEF FinishRead, HostOK, Stages, Ended
<1> QED BY <1>1, <1>2, <1>3, <1>4, <1>5 DEF ReplyRead

(* After a command the host waits for its reply, and only if it could be   *)
(* built.                                                                  *)
LEMMA CommandWrittenOK ==
  ASSUME HostOK, CommandWritten
  PROVE  HostOK'
<1>1. CASE step = "cmd"
  BY <1>1 DEF CommandWritten, AtWrite, TooLarge, HostOK, HostTypeOK, ControlInv,
              Sending, Steps, Ended, CmdStages, Images, Stages
<1>2. CASE step = "header"
  BY <1>2 DEF CommandWritten, AtWrite, HostOK, HostTypeOK, ControlInv,
              Sending, Steps, Ended, CmdStages, Images
<1> QED BY <1>1, <1>2 DEF CommandWritten, AtWrite

(* After a data packet the host waits for its reply.                       *)
LEMMA DataWrittenOK ==
  ASSUME HostOK, DataWritten
  PROVE  HostOK'
  BY DEF DataWritten, HostOK, HostTypeOK, ControlInv, Sending, Steps, Ended,
         CmdStages, Images

(* A run starts with the version query or with its first image             *)
(* (device.c:331-346).                                                     *)
LEMMA StartRunOK ==
  ASSUME HostOK, NEW o \in Options, StartRun(o)
  PROVE  HostOK'
<1>1. FirstStage(o) \in {"version", "mcu", "ext"}
  BY DEF FirstStage
<1> QED
  BY <1>1 DEF StartRun, HostOK, HostTypeOK, ControlInv, Sending, Steps, Ended,
              Stages, CmdStages, Images

-----------------------------------------------------------------------------
(* What the device can be, whatever a well-formed host sends.              *)

(* Every command the host builds has fields that fit the packet.           *)
LEMMA HostCommandOK ==
  ASSUME HostOK, step \in {"cmd", "header"}
  PROVE  HostCommand \in CommandSet
<1>1. CASE stage \in Images /\ step = "cmd"
  <2>1. HostCommand = Command(KindOf(stage), BE16(obd_block_count(Size[stage])), 0)
    BY <1>1 DEF HostCommand, obd_build_begin
  <2>2. Size[stage] \in Nat
    BY <1>1, SizeAssumption
  <2> QED
    BY <2>1, <2>2, BlockCountNat, BE16Range, BlockSizeAssumption
       DEF Command, CommandSet, KindOf, Cmds
<1>2. CASE step = "header"
  <2>1. stage \in Images /\ blk < obd_block_count(Size[stage]) /\ blk \in Nat
    BY <1>2 DEF HostOK, HostTypeOK, ControlInv, Sending, NBlocks
  <2>2. HostCommand = Command(BLOCK, BE16(blk), BlockLen(Size[stage], blk))
    BY <1>2, <2>1 DEF HostCommand, obd_build_block_header
  <2>3. BlockLen(Size[stage], blk) \in 0..BlockSize
    BY <2>1, BlockLenRange, SizeAssumption, BlockSizeAssumption
  <2> QED
    BY <2>1, <2>2, <2>3, BE16Range DEF Command, CommandSet, Cmds
<1>3. CASE stage \notin Images /\ step = "cmd"
  <2>1. HostCommand \in {Command(GET_VERSION, 0, 0), Command(FINISH, 0, 0)}
    BY <1>3 DEF HostCommand
  <2> QED
    BY <2>1, MaxIndexAssumption, BlockSizeAssumption DEF Command, CommandSet, Cmds
<1> QED BY <1>1, <1>2, <1>3

(* The reply slot, or the endpoint, holds nothing but replies.             *)
LEMMA SetReplyOK ==
  ASSUME reply \in Seq(ReplySet), NEW r \in ReplySet, set_reply(r)
  PROVE  reply' \in Seq(ReplySet)
  BY DEF set_reply

(* Committing an upload yields images of blocks, never more than there are *)
(* slots (fake.c:32-53).                                                   *)
LEMMA CommitOK ==
  ASSUME DevTypeOK, commit_upload
  PROVE  /\ mcu_images' \in Seq(Seq(Blocks)) /\ Len(mcu_images') <= MaxImages
         /\ ext_image' \in Seq(Blocks)
         /\ installed' \subseteq Images /\ dropped' \subseteq Images
         /\ upload' \in Seq(Blocks)
         /\ upload_len' \in Nat
<1>0. Uploaded \subseteq Images
  BY DEF Uploaded
<1>1. /\ installed' \subseteq Images /\ dropped' \subseteq Images
      /\ upload' \in Seq(Blocks) /\ upload_len' \in Nat /\ ext_image' \in Seq(Blocks)
  BY <1>0 DEF commit_upload, DevTypeOK
<1>2. CASE upload_kind = BEGIN_MCU /\ ~NoSlot
  BY <1>1, <1>2, MaxImagesAssumption DEF commit_upload, NoSlot, DevTypeOK, BEGIN_MCU, BEGIN_DATA
<1>3. CASE ~(upload_kind = BEGIN_MCU /\ ~NoSlot)
  BY <1>1, <1>3 DEF commit_upload, DevTypeOK
<1> QED BY <1>2, <1>3

(* Every answer the device gives is a reply.                               *)
LEMMA AcksTyped ==
  /\ \A c \in Cmds : Ack(c, 0) \in ReplySet
  /\ \A v \in Versions : Ack(GET_VERSION, v) \in ReplySet
  /\ Nak \in ReplySet
  BY DEF Ack, Nak, ReplySet, Cmds, Versions

(* The device's state keeps its type under every command (fake.c:55-119).  *)
LEMMA WriteCmdOK ==
  ASSUME DevTypeOK, NEW c \in CommandSet, fake_write_cmd(c)
  PROVE  DevTypeOK'
<1>0. version' = version
  BY DEF fake_write_cmd
<1>r. reply' \in Seq(ReplySet)
  <2>1. CASE no_reply
    BY <2>1 DEF no_reply, DevTypeOK
  <2>2. ASSUME NEW r \in ReplySet, set_reply(r) PROVE reply' \in Seq(ReplySet)
    BY <2>2, SetReplyOK DEF DevTypeOK
  <2> QED
    BY <2>1, <2>2, AcksTyped
       DEF fake_write_cmd, get_version, begin, block, finish, DevTypeOK, Cmds,
           UploadKinds
<1>1. CASE c.cmd = GET_VERSION /\ get_version
  BY <1>1, <1>0, <1>r DEF get_version, devState, DevTypeOK
<1>2. CASE c.cmd \in UploadKinds /\ begin(c)
  BY <1>2, <1>0, <1>r, CommitOK DEF begin, DevTypeOK, CommandSet
<1>3. CASE c.cmd = BLOCK /\ block(c)
  BY <1>3, <1>0, <1>r DEF block, DevTypeOK, CommandSet, Errors
<1>4. CASE c.cmd = FINISH /\ finish
  BY <1>4, <1>0, <1>r, CommitOK DEF finish, DevTypeOK
<1> QED BY <1>1, <1>2, <1>3, <1>4 DEF fake_write_cmd

(* The device's state keeps its type when it takes a block                 *)
(* (fake.c:150-164).                                                       *)
LEMMA AcceptOK ==
  ASSUME DevTypeOK, HostOK, step = "bulk", accept_bulk(Block(stage, blk))
  PROVE  DevTypeOK'
<1>1. pending # NoBlock
  BY DEF accept_bulk, BulkError
<1>2. pending.len \in 0..BlockSize
  BY <1>1 DEF DevTypeOK
<1>3. [Block(stage, blk) EXCEPT !.len = pending.len] \in Blocks
  BY <1>2 DEF Block, Blocks, HostOK, HostTypeOK, ControlInv, Sending
<1>4. reply' \in Seq(ReplySet)
  BY SetReplyOK, AcksTyped DEF accept_bulk, DevTypeOK, Cmds
<1> QED
  BY <1>2, <1>3, <1>4, BlockSizeAssumption DEF accept_bulk, DevTypeOK

(* The device's state keeps its type when it refuses a block               *)
(* (fake.c:137-148).                                                       *)
LEMMA RejectOK ==
  ASSUME DevTypeOK, NEW intact \in BOOLEAN, reject_bulk(intact)
  PROVE  DevTypeOK'
  BY DEF reject_bulk, BulkError, DevTypeOK, Errors

(* Reading a reply leaves the device well typed and yields a reply.        *)
LEMMA TakeReplyOK ==
  ASSUME DevTypeOK, TakeReply
  PROVE  DevTypeOK' /\ Head(reply) \in ReplySet
  BY DEF TakeReply, DevTypeOK, devState

(* A step that does not touch the device leaves it well typed.             *)
LEMMA SameDevice == ASSUME DevTypeOK, UNCHANGED devVars PROVE DevTypeOK'
  BY DEF DevTypeOK, devVars, devState

-----------------------------------------------------------------------------
(* Type correctness, and with it the host's loop bounds: it never announces *)
(* a block past the end of an image, nor an index that does not fit.        *)
LEMMA BoundsOK ==
  ASSUME TypeOK
  PROVE  Fault \/ NoFault => runs' \in 0..MaxRuns /\ faults' \in 0..MaxFaults
                              /\ fresh' \in BOOLEAN /\ taken' \in 0..MaxImages
  BY BoundsAssumption DEF TypeOK, Fault, NoFault

(* Host and device are well typed, and the host's position sound, at the   *)
(* start.                                                                  *)
LEMMA TInvInit == Init => TInv
<1> SUFFICES ASSUME Init PROVE TInv
  OBVIOUS
<1>1. HostTypeOK /\ ControlInv
  BY DEF Init, HostInit, HostTypeOK, ControlInv, Stages, Steps, Ended, CmdStages,
         Images, Sending
<1>2. DevTypeOK
  BY MaxImagesAssumption, MaxIndexAssumption DEF Init, DevInit, DevTypeOK, Errors
<1>3. /\ runs \in 0..MaxRuns /\ faults \in 0..MaxFaults
      /\ fresh \in BOOLEAN /\ taken \in 0..MaxImages
  BY BoundsAssumption, MaxImagesAssumption DEF Init
<1> QED BY <1>1, <1>2, <1>3 DEF TInv, TypeOK

(* Every step keeps host and device well typed and the host's position     *)
(* sound: the induction step of TypeCorrect.                               *)
LEMMA TInvNext == TInv /\ [Next]_vars => TInv'
<1> SUFFICES ASSUME TInv, [Next]_vars PROVE TInv'
  OBVIOUS
<1> USE DEF HostOK
<1>t. HostOK /\ HostTypeOK /\ DevTypeOK
  BY DEF TInv, TypeOK
<1>q. ASSUME HostOK', DevTypeOK', Fault \/ NoFault
      PROVE  TInv'
  BY <1>q, BoundsOK DEF TInv, TypeOK
<1>0. CASE UNCHANGED vars
  BY <1>0 DEF vars, hostVars, devVars, devState, TInv, TypeOK, HostTypeOK,
              DevTypeOK, ControlInv
<1>1. CASE SendCommand
  BY <1>1, <1>t, <1>q, CommandWrittenOK, HostCommandOK, WriteCmdOK
     DEF SendCommand, CommandWritten, AtWrite
<1>2. CASE CommandFails
  BY <1>2, <1>t, <1>q, FailOK, HostCommandOK, WriteCmdOK, SameDevice
     DEF CommandFails, CommandNotWritten, AtWrite
<1>3. CASE ReceiveReply \/ ReplyGarbled \/ ReplyLost \/ ReplyLate \/ NoReply
  BY <1>3, <1>t, <1>q, ReplyReadOK, TakeReplyOK, SameDevice
     DEF ReceiveReply, ReplyGarbled, ReplyLost, ReplyLate, NoReply
<1>4. CASE ReplyFails
  BY <1>4, <1>t, <1>q, FailOK, TakeReplyOK, SameDevice DEF ReplyFails, ReadFailed
<1>5. CASE SendData
  BY <1>5, <1>t, <1>q, DataWrittenOK, AcceptOK DEF SendData, DataWritten
<1>6. CASE DataRejected \/ DataCorrupt
  BY <1>6, <1>t, <1>q, FailOK, RejectOK DEF DataRejected, DataCorrupt, DataNotWritten
<1>7. CASE DataFails
  BY <1>7, <1>t, <1>q, FailOK, AcceptOK, SameDevice DEF DataFails, DataNotWritten
<1>8. CASE DataRefused
  <2>1. DevTypeOK'
    BY <1>8, <1>t, SetReplyOK, AcksTyped DEF DataRefused, DevTypeOK
  <2> QED
    BY <1>8, <2>1, <1>t, <1>q, DataWrittenOK DEF DataRefused
<1>9. CASE OutOfMemory \/ RefuseImage
  BY <1>9, <1>t, <1>q, FailOK, SameDevice
     DEF OutOfMemory, RefuseImage, NoPacketBuffer, ImageTooLarge
<1>10. CASE Sleep
  BY <1>10, <1>t, <1>q, GotoOK, SameDevice DEF Sleep, Slept, Stages, Images
<1>11. ASSUME NEW o \in RunOptions, Start(o) PROVE TInv'
  <2>1. HostOK'
    BY <1>11, <1>t, StartRunOK, RunOptionsAssumption DEF Start
  <2>2. DevTypeOK'
    BY <1>11, <1>t DEF Start, DevTypeOK
  <2>3. /\ runs' \in 0..MaxRuns /\ faults' \in 0..MaxFaults
        /\ fresh' \in BOOLEAN /\ taken' \in 0..MaxImages
    BY <1>11, <1>t, BoundsAssumption, MaxImagesAssumption
       DEF Start, TInv, TypeOK, DevTypeOK
  <2> QED BY <2>1, <2>2, <2>3 DEF TInv, TypeOK
<1> QED
  BY <1>0, <1>1, <1>2, <1>3, <1>4, <1>5, <1>6, <1>7, <1>8, <1>9, <1>10, <1>11
     DEF Next, RunStep

(* The types of Update's variables, for every package, device and number   *)
(* of faults; in particular block counts and indexes fit their 16 bits.    *)
THEOREM TypeCorrect == Spec => []TypeOK
<1>1. TInv => TypeOK
  BY DEF TInv
<1> QED
  BY TInvInit, TInvNext, <1>1, PTL DEF Spec
-----------------------------------------------------------------------------
(* Beginnings of images.                                                   *)

(* The first blocks of an image, as many as are wanted.                    *)
LEMMA PartOfItself ==
  ASSUME NEW i \in Images, NEW n \in 0..NBlocks(i)
  PROVE  IsPartOf(Prefix(i, n), i) /\ Len(Prefix(i, n)) = n
<1>1. n \in Nat /\ NBlocks(i) \in Nat
  BY NBlocksNat
<1>2. Len(Prefix(i, n)) = n
  BY <1>1, PrefixGrows
<1> QED BY <1>1, <1>2 DEF IsPartOf

(* Faults are only ever spent (Update's bound).                            *)
LEMMA SpentGrows ==
  ASSUME TypeOK
  PROVE  /\ Spent \in Nat
         /\ Fault => Spent' = Spent + 1
         /\ NoFault => Spent' = Spent
  BY BoundsAssumption DEF TypeOK, Spent, Fault, NoFault

(* What is missing stays within what went wrong.                           *)
LEMMA AllButLater ==
  ASSUME TypeOK, Fault \/ NoFault, NEW u, NEW n \in Nat, Len(u) \in Nat, AllBut(u, n)
  PROVE  Len(u) <= n /\ n - Len(u) <= Spent'
  BY SpentGrows DEF AllBut

-----------------------------------------------------------------------------
(* One lemma per thing that happens to host and device.                    *)

(* A failed run promises nothing.                                          *)
LEMMA FailLoose == Fail => LooseInv'
  BY DEF Fail, Goto, Ended, LooseInv, Images, Sending

(* A command of which the host waits for the reply.                        *)
LEMMA WriteVersionLoose ==
  ASSUME TInv, LooseInv, stage = "version", CommandWritten, NoFault, UNCHANGED devState
  PROVE  LooseInv'
  BY DEF TInv, ControlInv, CmdStages, CommandWritten, AtWrite, LooseInv, Images, Sending

(* A BEGIN empties the upload and announces the image of the host's stage  *)
(* (fake.c:84-89).                                                         *)
LEMMA WriteBeginLoose ==
  ASSUME TInv, LooseInv, stage \in Images, step = "cmd", CommandWritten,
         begin(HostCommand), NoFault
  PROVE  LooseInv'
<1>1. step' = "ack" /\ UNCHANGED <<opts, stage, blk>>
  BY DEF CommandWritten
<1>2. announced' = NBlocks(stage) /\ upload_kind' = KindOf(stage)
  <2>1. HostCommand = Command(KindOf(stage), BE16(NBlocks(stage)), 0)
    BY DEF HostCommand, obd_build_begin, NBlocks
  <2>2. NBlocks(stage) \in Nat /\ NBlocks(stage) <= MaxIndex
    BY NBlocksNat, MaxIndexAssumption
       DEF CommandWritten, AtWrite, TooLarge, TooManyBlocks, NBlocks
  <2> QED BY <2>1, <2>2, BE16Range DEF begin, Command
<1>3. upload' = <<>> /\ upload_len' = 0
  BY DEF begin, commit_upload
<1>4. Collects(stage)'
  <2>1. NBlocks(stage) \in Nat /\ upload' = Prefix(stage, 0)
    BY <1>3, NBlocksNat, PrefixGrows
  <2>2. IsPartOf(upload', stage) /\ Len(upload') = 0
    BY <2>1, PartOfItself
  <2> QED BY <1>1, <1>2, <1>3, <2>2, BlockSizeAssumption DEF Collects
<1> QED BY <1>1, <1>2, <1>3, <1>4 DEF LooseInv, Sending, Images

(* A header announces the block the host is about to send, and the device  *)
(* takes it for one of its upload (fake.c:90-98).                          *)
LEMMA WriteHeaderLoose ==
  ASSUME TInv, LooseInv, step = "header", CommandWritten, block(HostCommand), NoFault
  PROVE  LooseInv'
<1>1. step' = "header_ack" /\ UNCHANGED <<opts, stage, blk>>
  BY DEF CommandWritten
<1>2. stage \in Images /\ blk \in Nat /\ blk < NBlocks(stage)
      /\ NBlocks(stage) <= MaxIndex
  BY NBlocksNat, MaxIndexAssumption
     DEF TInv, ControlInv, Sending, TypeOK, HostTypeOK, TooManyBlocks, NBlocks
<1>3. HostCommand = Command(BLOCK, blk, BlockLen(Size[stage], blk))
  <2>1. NBlocks(stage) \in Nat
    BY <1>2, NBlocksNat
  <2>2. BE16(blk) = blk
    BY <1>2, <2>1, BE16Range, MaxIndexAssumption
  <2> QED BY <1>2, <2>2 DEF HostCommand, obd_build_block_header
<1>4. Collects(stage) /\ announced = NBlocks(stage) /\ AllBut(upload, blk)
  BY DEF LooseInv, Sending
<1>5. UNCHANGED <<upload_kind, upload, upload_len, announced>>
  BY DEF block
<1>6. upload_kind # NoUpload
  BY <1>2, <1>4 DEF Collects, KindOf, BEGIN_MCU, BEGIN_DATA, NoUpload
<1>7. pending' = [len |-> BlockLen(Size[stage], blk), index |-> blk]
  BY <1>3, <1>6 DEF block, Command
<1>8. Collects(stage)' /\ AllBut(upload, blk)'
  BY <1>1, <1>4, <1>5 DEF Collects, AllBut, Spent, NoFault
<1> QED BY <1>1, <1>2, <1>4, <1>5, <1>7, <1>8 DEF LooseInv, Sending, Images

(* FINISH makes the external flash image of what was collected             *)
(* (fake.c:110-114).                                                       *)
LEMMA WriteFinishLoose ==
  ASSUME TInv, LooseInv, stage \in {"erase_finish", "finish"}, step = "cmd",
         CommandWritten, finish, NoFault
  PROVE  LooseInv'
<1>1. step' = "ack" /\ UNCHANGED <<opts, stage, blk>>
  BY DEF CommandWritten
<1>2. upload_kind = BEGIN_DATA => ext_image' = upload
  BY DEF finish, commit_upload
<1>3. stage = "finish" /\ opts.ext =>
        IsPartOf(ext_image', "ext") /\ AllBut(ext_image, NBlocks("ext"))'
  BY <1>1, <1>2 DEF LooseInv, AllBut, Spent, NoFault
<1> QED BY <1>1, <1>3 DEF LooseInv, Sending, Images

(* The host goes on to the next block, or to the next stage with nothing   *)
(* missing but what was refused.                                           *)
LEMMA NextBlockLoose ==
  ASSUME TInv, stage \in Images, Collects(stage), announced = NBlocks(stage),
         NEW k \in Nat, k <= NBlocks(stage), AllBut(upload, k), NextBlock(k),
         UNCHANGED devState, Fault \/ NoFault
  PROVE  LooseInv'
<1>0. NBlocks(stage) \in Nat /\ Len(upload) \in Nat /\ TypeOK
  BY NBlocksNat DEF TInv, TypeOK, DevTypeOK
<1>1. Len(upload) <= k /\ k - Len(upload) <= Spent'
  BY <1>0, AllButLater
<1>2. AllBut(upload, k)'
  BY <1>1 DEF AllBut, devState
<1>3. CASE k < NBlocks(stage)
  <2>1. step' = "header" /\ blk' = k /\ UNCHANGED <<opts, stage>>
    BY <1>3 DEF NextBlock
  <2>2. AllBut(upload, blk)'
    BY <1>1, <2>1 DEF AllBut, devState
  <2>3. Collects(stage)' /\ announced' = NBlocks(stage)'
    BY <2>1 DEF Collects, devState
  <2> QED BY <2>1, <2>2, <2>3 DEF LooseInv, Sending, Images
<1>4. CASE k = NBlocks(stage)
  <2>1. Goto(AfterImage)
    BY <1>0, <1>4 DEF NextBlock
  <2>2. stage' = AfterImage /\ step' = "cmd" /\ UNCHANGED opts
    BY <2>1 DEF Goto, AfterImage, Ended, Images
  <2>3. CASE stage = "ext"
    <3>1. stage' = "finish" /\ upload_kind' = BEGIN_DATA
      BY <2>2, <2>3 DEF AfterImage, Collects, KindOf, devState
    <3>2. IsPartOf(upload', "ext") /\ AllBut(upload, NBlocks("ext"))'
      BY <1>1, <1>4, <2>3 DEF Collects, AllBut, devState
    <3> QED BY <2>2, <3>1, <3>2 DEF LooseInv, Sending, Images
  <2>4. CASE stage # "ext"
    <3>1. stage' \in {"erase_finish", "ext", "finish"} /\ (stage' = "finish" => ~opts'.ext)
      BY <2>2, <2>4 DEF AfterImage, Images
    <3> QED BY <2>2, <3>1 DEF LooseInv, Sending, Images
  <2> QED BY <2>3, <2>4
<1> QED BY <1>0, <1>3, <1>4

(* Whatever the host makes of a reply, or of none, it goes on with what is *)
(* in the device: every command it is at has arrived there.                *)
LEMMA ReplyLoose ==
  ASSUME TInv, LooseInv, NEW r, ReplyRead(r), UNCHANGED devState, Fault \/ NoFault
  PROVE  LooseInv'
<1>t. TypeOK /\ blk \in Nat /\ Len(upload) \in Nat /\ Len(ext_image) \in Nat
  BY DEF TInv, TypeOK, HostTypeOK, DevTypeOK
<1>1. CASE VersionRead(r)
  <2>1. stage' \in {"erase", "failed", "mcu"} /\ step' \in {"cmd", "rest"}
    BY <1>1 DEF VersionRead, AfterVersion, Goto
  <2> QED BY <2>1 DEF LooseInv, Sending
<1>2. CASE BeginRead(r)
  <2>1. CASE obd_is_ack(r, KindOf(stage))
    <3>1. stage \in Images /\ NextBlock(0) /\ Collects(stage) /\ announced = NBlocks(stage)
          /\ upload = <<>>
      BY <1>2, <2>1 DEF BeginRead, LooseInv
    <3>2. NBlocks(stage) \in Nat /\ AllBut(upload, 0)
      BY <1>t, <3>1, NBlocksNat, SpentGrows DEF AllBut
    <3> QED BY <3>1, <3>2, NextBlockLoose
  <2> QED BY <1>2, <2>1, FailLoose DEF BeginRead
<1>3. CASE HeaderRead(r)
  <2>1. CASE obd_is_ack(r, BLOCK)
    <3>1. step = "header_ack" /\ step' = "bulk" /\ UNCHANGED <<opts, stage, blk>>
      BY <1>3, <2>1 DEF HeaderRead
    <3>2. Collects(stage)' /\ announced' = NBlocks(stage)'
      BY <3>1 DEF LooseInv, Sending, Collects, devState
    <3>3. AllBut(upload, blk)'
      BY <1>t, <3>1, AllButLater DEF LooseInv, AllBut, devState
    <3>4. stage \in Images
      BY <3>1 DEF TInv, ControlInv, Sending
    <3> QED BY <3>1, <3>2, <3>3, <3>4 DEF LooseInv, Sending, Images, devState
  <2> QED BY <1>3, <2>1, FailLoose DEF HeaderRead
<1>4. CASE DataRead(r)
  <2>1. CASE NextBlock(blk + 1)
    <3>1. step = "bulk_ack" /\ Collects(stage) /\ announced = NBlocks(stage)
          /\ AllBut(upload, blk + 1)
      BY <1>4 DEF DataRead, LooseInv, Sending
    <3>2. stage \in Images /\ blk < NBlocks(stage)
      BY <3>1 DEF TInv, ControlInv, Sending
    <3>3. blk + 1 \in Nat /\ blk + 1 <= NBlocks(stage)
      BY <1>t, <3>2, NBlocksNat
    <3> QED BY <2>1, <3>1, <3>2, <3>3, NextBlockLoose
  <2> QED BY <1>4, <2>1, FailLoose DEF DataRead
<1>5. CASE FinishRead(r)
  <2>1. CASE stage = "erase_finish" /\ Goto("sleep")
    BY <2>1 DEF Goto, Ended, LooseInv, Sending, Images
  <2>2. CASE stage = "finish" /\ Goto("ok")
    <3>1. step = "ack" /\ stage' = "ok" /\ step' = "rest" /\ UNCHANGED opts
      BY <1>5, <2>2 DEF FinishRead, Goto, Ended
    <3>2. NBlocks("ext") \in Nat
      BY NBlocksNat DEF Images
    <3>3. opts.ext => IsPartOf(ext_image, "ext") /\ AllBut(ext_image, NBlocks("ext"))'
      BY <1>t, <2>2, <3>1, <3>2, AllButLater DEF LooseInv, AllBut, devState
    <3> QED BY <3>1, <3>3 DEF LooseInv, Sending, Images, devState
  <2> QED BY <1>5, <2>1, <2>2 DEF FinishRead
<1> QED BY <1>1, <1>2, <1>3, <1>4, <1>5 DEF ReplyRead
(* A block the device takes is the next one of the host's image, and none  *)
(* before it was refused: the device takes no block after a hole           *)
(* (fake.c:144-164).                                                       *)
LEMMA AcceptLoose ==
  ASSUME TInv, LooseInv, DataWritten, accept_bulk(Block(stage, blk)), NoFault
  PROVE  LooseInv'
<1>1. step = "bulk" /\ step' = "bulk_ack" /\ UNCHANGED <<opts, stage, blk>>
  BY DEF DataWritten
<1>2. stage \in Images /\ blk \in Nat /\ blk < NBlocks(stage) /\ NBlocks(stage) \in Nat
  BY <1>1, NBlocksNat DEF TInv, ControlInv, Sending, TypeOK, HostTypeOK
<1>3. /\ Collects(stage) /\ announced = NBlocks(stage) /\ AllBut(upload, blk)
      /\ pending = [len |-> BlockLen(Size[stage], blk), index |-> blk]
  BY <1>1 DEF LooseInv, Sending
<1>4. Len(upload) = blk
  <2>1. Len(upload) \in Nat /\ Len(upload) <= blk
    BY <1>3 DEF AllBut, TInv, TypeOK, DevTypeOK
  <2>2. upload_len = Len(upload) * BlockSize
    BY <1>2, <1>3, <2>1 DEF Collects
  <2>3. upload_len \div BlockSize = Len(upload)
    BY <2>1, <2>2, IndexOfLength
  <2>4. pending.index = upload_len \div BlockSize
    BY DEF accept_bulk, BulkError
  <2> QED BY <1>3, <2>3, <2>4
<1>5. upload' = Prefix(stage, blk + 1)
  <2>1. [Block(stage, blk) EXCEPT !.len = pending.len] = Block(stage, blk)
    BY <1>3 DEF Block
  <2>2. upload = Prefix(stage, blk)
    BY <1>3, <1>4 DEF Collects, IsPartOf
  <2> QED BY <1>2, <2>1, <2>2, PrefixGrows DEF accept_bulk
<1>6. IsPartOf(upload', stage) /\ Len(upload') = blk + 1
  BY <1>2, <1>5, PartOfItself
<1>7. blk + 1 < NBlocks(stage) => upload_len' = (blk + 1) * BlockSize
  <2> SUFFICES ASSUME blk + 1 < NBlocks(stage)
               PROVE  upload_len' = (blk + 1) * BlockSize
    OBVIOUS
  <2>1. pending.len = BlockSize
    BY <1>2, <1>3, FullBlock, SizeAssumption DEF NBlocks
  <2>2. upload_len = blk * BlockSize
    BY <1>2, <1>3, <1>4 DEF Collects
  <2> QED BY <1>2, <2>1, <2>2, BlockSizeAssumption, SMTT(20) DEF accept_bulk
<1>8. Collects(stage)'
  BY <1>1, <1>3, <1>6, <1>7 DEF Collects, accept_bulk
<1>9. AllBut(upload, blk + 1)'
  <2>1. Spent' = Spent /\ Spent \in Nat
    BY SpentGrows DEF TInv
  <2> QED BY <1>1, <1>2, <1>6, <2>1 DEF AllBut
<1> QED BY <1>1, <1>2, <1>3, <1>8, <1>9 DEF LooseInv, Sending, Images, accept_bulk

(* A refused block is one fault more and one block less.                   *)
LEMMA RefusalLoose ==
  ASSUME TInv, LooseInv, DataRefused
  PROVE  LooseInv'
<1>1. step = "bulk" /\ step' = "bulk_ack" /\ UNCHANGED <<opts, stage, blk>>
  BY DEF DataRefused, DataWritten
<1>2. stage \in Images /\ blk \in Nat
  BY <1>1 DEF TInv, ControlInv, Sending, TypeOK, HostTypeOK
<1>3. Collects(stage) /\ announced = NBlocks(stage) /\ AllBut(upload, blk)
  BY <1>1 DEF LooseInv, Sending
<1>4. AllBut(upload, blk + 1)'
  <2>1. Spent' = Spent + 1 /\ Spent \in Nat /\ Len(upload) \in Nat
    BY SpentGrows DEF DataRefused, TInv, TypeOK, DevTypeOK
  <2> QED BY <1>1, <1>2, <1>3, <2>1 DEF AllBut, DataRefused
<1>5. Collects(stage)' /\ announced' = NBlocks(stage)'
  BY <1>1, <1>3 DEF Collects, DataRefused
<1> QED BY <1>1, <1>2, <1>4, <1>5 DEF LooseInv, Sending, Images

(* A run starts with a command.                                            *)
LEMMA StartLoose == ASSUME NEW o \in Options, Start(o) PROVE LooseInv'
<1>1. stage' \in {"version", "mcu", "ext"} /\ step' = "cmd"
  BY DEF Start, StartRun, FirstStage
<1> QED BY <1>1 DEF LooseInv, Sending

-----------------------------------------------------------------------------
(* Which command it is that the host writes, and what the device makes of  *)
(* it.                                                                     *)
LEMMA CommandArrives ==
  ASSUME TInv, AtWrite, fake_write_cmd(HostCommand)
  PROVE  \/ stage = "version" /\ step = "cmd" /\ get_version
         \/ stage \in Images /\ step = "cmd" /\ begin(HostCommand)
         \/ stage \in Images /\ step = "header" /\ block(HostCommand)
         \/ stage \in {"erase_finish", "finish"} /\ step = "cmd" /\ finish
<1>1. CASE step = "header"
  <2>1. stage \in Images
    BY <1>1 DEF TInv, ControlInv, Sending
  <2>2. HostCommand.cmd = BLOCK
    BY <1>1, <2>1 DEF HostCommand, Command, obd_build_block_header
  <2> QED
    BY <1>1, <2>1, <2>2 DEF fake_write_cmd, UploadKinds, BEGIN_MCU, BEGIN_DATA,
       BLOCK, FINISH, GET_VERSION
<1>2. CASE step = "cmd" /\ stage \in Images
  <2>1. HostCommand.cmd = KindOf(stage)
    BY <1>2 DEF HostCommand, Command, obd_build_begin
  <2> QED
    BY <1>2, <2>1 DEF fake_write_cmd, KindOf, UploadKinds, BEGIN_MCU, BEGIN_DATA,
       BLOCK, FINISH, GET_VERSION
<1>3. CASE step = "cmd" /\ stage \notin Images
  <2>1. stage \in CmdStages
    BY <1>3 DEF TInv, TypeOK, HostTypeOK, Stages, ControlInv
  <2>2. HostCommand.cmd = IF stage = "version" THEN GET_VERSION ELSE FINISH
    BY <1>3 DEF HostCommand, Command
  <2> QED
    BY <1>3, <2>1, <2>2 DEF fake_write_cmd, CmdStages, UploadKinds, BEGIN_MCU,
       BEGIN_DATA, BLOCK, FINISH, GET_VERSION
<1> QED BY <1>1, <1>2, <1>3 DEF AtWrite

(* Every step of the system keeps host and device together.                *)
LEMMA LooseNext == TInv /\ LooseInv /\ [Next]_vars => LooseInv'
<1> SUFFICES ASSUME TInv, LooseInv, [Next]_vars PROVE LooseInv'
  OBVIOUS
<1>0. CASE UNCHANGED vars
  BY <1>0 DEF vars, hostVars, devVars, devState, LooseInv, Collects, IsPartOf, AllBut,
     Spent
<1>1. CASE SendCommand
  <2>1. CommandWritten /\ AtWrite /\ fake_write_cmd(HostCommand) /\ NoFault
    BY <1>1 DEF SendCommand, CommandWritten
  <2>2. CASE stage = "version" /\ get_version
    BY <2>1, <2>2, WriteVersionLoose DEF get_version
  <2>3. CASE stage \in Images /\ step = "cmd" /\ begin(HostCommand)
    BY <2>1, <2>3, WriteBeginLoose
  <2>4. CASE step = "header" /\ block(HostCommand)
    BY <2>1, <2>4, WriteHeaderLoose
  <2>5. CASE stage \in {"erase_finish", "finish"} /\ step = "cmd" /\ finish
    BY <2>1, <2>5, WriteFinishLoose
  <2> QED BY <2>1, <2>2, <2>3, <2>4, <2>5, CommandArrives
<1>2. CASE CommandFails \/ ReplyFails \/ DataRejected \/ DataCorrupt \/ DataFails
           \/ OutOfMemory \/ RefuseImage
  BY <1>2, FailLoose DEF CommandFails, CommandNotWritten, ReplyFails, ReadFailed,
     DataRejected, DataCorrupt, DataFails, DataNotWritten, OutOfMemory,
     NoPacketBuffer, RefuseImage, ImageTooLarge
<1>3. CASE ReceiveReply \/ ReplyGarbled \/ ReplyLost \/ ReplyLate \/ NoReply
  <2>1. PICK r : ReplyRead(r)
    BY <1>3 DEF ReceiveReply, ReplyGarbled, ReplyLost, ReplyLate, NoReply
  <2>2. UNCHANGED devState /\ (Fault \/ NoFault)
    BY <1>3 DEF ReceiveReply, ReplyGarbled, ReplyLost, ReplyLate, NoReply, TakeReply,
       devVars
  <2> QED BY <2>1, <2>2, ReplyLoose
<1>4. CASE SendData
  BY <1>4, AcceptLoose DEF SendData
<1>5. CASE DataRefused
  BY <1>5, RefusalLoose
<1>6. CASE Sleep
  BY <1>6 DEF Sleep, Slept, Goto, Ended, LooseInv, Sending
<1>7. ASSUME NEW o \in RunOptions, Start(o) PROVE LooseInv'
  BY <1>7, StartLoose, RunOptionsAssumption
<1> QED
  BY <1>0, <1>1, <1>2, <1>3, <1>4, <1>5, <1>6, <1>7 DEF Next, RunStep

(* Nothing is being sent at the start.                                     *)
LEMMA LooseInit == Init => LooseInv
  BY DEF Init, HostInit, LooseInv, Sending, Images

(* A run that reports success has left in the device the beginning of the  *)
(* external flash image, short of no more blocks than were refused: none   *)
(* is missing from its middle, strict or not, over every transport         *)
(* (device.c:185-192 against fake.c:144-148).                              *)
THEOREM LosesOnlyTail == Spec => []OnlyTailLost
<1>1. TInv /\ LooseInv => OnlyTailLost
  BY DEF LooseInv, OnlyTailLost, AllBut, Spent
<1> QED BY TInvInit, TInvNext, LooseInit, LooseNext, <1>1, PTL DEF Spec
=============================================================================
