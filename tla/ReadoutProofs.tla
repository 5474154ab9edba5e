---------------------------- MODULE ReadoutProofs ----------------------------
(***************************************************************************)
(* Proofs about Readout for every layout and size of the flash, every      *)
(* command line, every number of runs and faults.                          *)
(***************************************************************************)
EXTENDS ReadoutInv, SequenceTheorems, TLAPS

-----------------------------------------------------------------------------
(* Arithmetic.                                                             *)

(* What a 32 bit variable keeps of a number fits it, and small numbers are *)
(* kept whole.                                                             *)
LEMMA LE32Range ==
  ASSUME NEW n \in Int
  PROVE  LE32(n) \in 0..(AddrMod - 1) /\ (n \in 0..(AddrMod - 1) => LE32(n) = n)
<1>1. AddrMod \in Nat \ {0}
  BY CandidatesAssumption
<1> QED BY <1>1, SMTT(20) DEF LE32

(* An area has a positive length.                                          *)
LEMMA AreaLength ==
  ASSUME NEW b \in Nat \ {0} PROVE b * BlockSize \in Nat \ {0}
  BY BlockSizeAssumption, SMTT(20)

(* The block a range asks for next is not empty and does not pass its end. *)
LEMMA ReadLenRange ==
  ASSUME HostInv
  PROVE  /\ ReadLen \in 1..BlockSize
         /\ stage = "range" => Len(buf) + ReadLen <= total
         /\ stage # "range" => ReadLen = BlockSize
<1>1. Len(buf) \in Nat /\ total \in Nat /\ (stage = "range" => Len(buf) < total)
  BY DEF HostInv
<1> QED BY <1>1, BlockSizeAssumption DEF ReadLen

(* The beginning of a packet is a sequence of cells of the length asked    *)
(* for.                                                                    *)
LEMMA PacketPart ==
  ASSUME NEW p \in Packets, NEW n \in 1..BlockSize
  PROVE  /\ SubSeq(p, 1, n) \in Seq(CellSet)
         /\ Len(SubSeq(p, 1, n)) = n
         /\ \A k \in 1..n : SubSeq(p, 1, n)[k] = p[k]
<1>1. p \in Seq(CellSet) /\ Len(p) = BlockSize
  BY BlockSizeAssumption DEF Packets
<1> QED BY <1>1, BlockSizeAssumption

-----------------------------------------------------------------------------
(* The host keeps its place and its types.                                 *)

(* Asking the next question before anything was read.                      *)
LEMMA AskOK ==
  ASSUME HostInv, NEW s \in {"size", "probe"}, Ask(s), stage \notin Ended \cup {"range"},
         cand' \in 1..Len(Candidates), UNCHANGED size
  PROVE  HostInv'
  BY DEF HostInv, Ask, Stages, Ended, Reading

(* A command that ends is over.                                            *)
LEMMA EndOK ==
  ASSUME HostInv, NEW s \in Ended, End(s)
  PROVE  HostInv'
  BY DEF HostInv, End, Stages, Ended, Reading

(* A range that begins is in 32 bits and has something to read, or is over *)
(* at once.                                                                *)
LEMMA ReadRangeOK ==
  ASSUME HostInv, NEW a \in 0..(AddrMod - 1), NEW n \in Nat, ReadRange(a, n),
         job' \in JobSet, cand' \in 1..Len(Candidates), size' \in 0..(AddrMod - 1)
  PROVE  HostInv'
<1>1. buf' \in Seq(CellSet) /\ Len(buf') = 0 /\ total' = n /\ base' = a
  BY DEF ReadRange
<1>2. CASE n = 0
  BY <1>1, <1>2 DEF ReadRange, HostInv, Stages, Ended, Reading
<1>3. CASE n # 0
  BY <1>1, <1>3 DEF ReadRange, HostInv, Stages, Ended, Reading
<1> QED BY <1>2, <1>3

(* A readout that cannot begin, or that only peeks, keeps its (empty)      *)
(* range.                                                                  *)
LEMMA NoRangeOK ==
  ASSUME HostInv, stage \notin Ended \cup {"range"}, UNCHANGED <<job, cand, base, total, buf>>,
         size' \in 0..(AddrMod - 1),
         \/ stage' \in {"failed", "refused"} /\ step' = "rest"
         \/ stage' = "peek" /\ step' = "cmd"
  PROVE  HostInv'
  BY DEF HostInv, Stages, Ended, Reading

(* A size found leads to a range inside it, or to an end (main.c:498-508,  *)
(* device.c:210-214).                                                      *)
LEMMA SizeKnownOK ==
  ASSUME HostInv, NEW s \in 0..(AddrMod - 1), SizeKnown(s), stage \notin Ended \cup {"range"}
  PROVE  HostInv'
<1>0. size' = s /\ UNCHANGED <<job, cand>> /\ job \in JobSet /\ cand \in 1..Len(Candidates)
  BY DEF SizeKnown, HostInv
<1>1. ASSUME NEW offset \in Nat, NEW blocks \in Nat \ {0}, Area(s, offset, blocks)
      PROVE  HostInv'
  <2>1. CASE s < offset
    BY <1>0, <1>1, <2>1, NoRangeOK DEF Area
  <2>2. CASE ~(s < offset)
    <3>1. s - offset \in 0..(AddrMod - 1)
      BY <2>2, CandidatesAssumption
    <3>2. ReadRange(s - offset, blocks * BlockSize) /\ blocks * BlockSize \in Nat
      BY <1>1, <2>2, AreaLength DEF Area
    <3> QED BY <1>0, <3>1, <3>2, ReadRangeOK
  <2> QED BY <2>1, <2>2
<1>2. CASE job.cmd = "info" /\ stage' = "peek" /\ step' = "cmd" /\ UNCHANGED <<base, total, buf>>
  BY <1>0, <1>2, NoRangeOK
<1>3. CASE job.cmd = "read-flash" /\ LE32(job.addr) >= s
  BY <1>0, <1>3, NoRangeOK DEF SizeKnown
<1>4. CASE job.cmd = "read-flash" /\ ~(LE32(job.addr) >= s)
  <2>1. LE32(job.addr) \in 0..(AddrMod - 1)
    BY <1>0, LE32Range DEF JobSet
  <2>2. s - LE32(job.addr) \in Nat
    BY <1>4, <2>1
  <2>3. ReadRange(LE32(job.addr), s - LE32(job.addr))
    BY <1>4 DEF SizeKnown
  <2> QED BY <1>0, <2>1, <2>2, <2>3, ReadRangeOK
<1> QED
  BY <1>1, <1>2, <1>3, <1>4, AreasAssumption DEF SizeKnown

(* A block not read moves probing on, ends a peek, abandons a range.       *)
LEMMA BlockNotReadOK ==
  ASSUME HostInv, BlockNotRead
  PROVE  HostInv'
<1>1. CASE stage = "probe" /\ cand < Len(Candidates)
  <2>1. Len(Candidates) \in Nat
    BY CandidatesAssumption
  <2>2. cand' \in 1..Len(Candidates) /\ UNCHANGED size /\ Ask("probe")
    BY <1>1, <2>1 DEF BlockNotRead, HostInv
  <2> QED BY <1>1, <2>2, AskOK DEF Ended
<1>2. CASE stage = "probe" /\ ~(cand < Len(Candidates))
  BY <1>2, EndOK DEF BlockNotRead, SizeUnknown, Ended
<1>3. CASE stage # "probe"
  BY <1>3, EndOK DEF BlockNotRead, Ended
<1> QED BY <1>1, <1>2, <1>3

(* A range grows by what was asked for.                                    *)
LEMMA RangeReadOK ==
  ASSUME HostInv, stage = "range", NEW cells \in Seq(CellSet), Len(cells) = ReadLen,
         RangeRead(cells)
  PROVE  HostInv' /\ Len(buf') = Len(buf) + ReadLen
<1>1. Len(buf) \in Nat /\ Len(buf) + ReadLen <= total /\ total \in Nat /\ ReadLen \in Nat
  BY ReadLenRange, BlockSizeAssumption DEF HostInv
<1>2. buf' = buf \o cells /\ buf \in Seq(CellSet)
  BY DEF RangeRead, HostInv
<1>3. buf' \in Seq(CellSet) /\ Len(buf') = Len(buf) + ReadLen
  BY <1>2
<1>4. UNCHANGED <<job, cand, size, base, total>>
  BY DEF RangeRead
<1>5. CASE Len(buf') < total
  BY <1>1, <1>3, <1>4, <1>5 DEF RangeRead, HostInv, Stages, Ended, Reading
<1>6. CASE ~(Len(buf') < total)
  <2>1. stage' \in {"ok", "empty"} /\ step' = "rest"
    BY <1>6 DEF RangeRead
  <2> QED BY <1>1, <1>3, <1>4, <2>1 DEF HostInv, Stages, Ended, Reading
<1> QED BY <1>3, <1>5, <1>6

(* Whatever a packet holds, the host takes the right number of cells.      *)
LEMMA DataReadOK ==
  ASSUME HostInv, NEW p \in Packets, NEW intact \in BOOLEAN, DataRead(p, intact)
  PROVE  HostInv'
<1>1. CASE BlockNotRead
  BY <1>1, BlockNotReadOK
<1>2. CASE BlockRead(SubSeq(p, 1, ReadLen))
  <2>1. CASE stage = "probe" /\ SizeKnown(Candidates[cand])
    <3>1. Candidates[cand] \in 0..(AddrMod - 1)
      BY CandidatesAssumption DEF HostInv
    <3> QED BY <2>1, <3>1, SizeKnownOK DEF Ended
  <2>2. CASE stage = "peek"
    BY <1>2, <2>2, EndOK DEF BlockRead, Ended
  <2>3. CASE stage = "range"
    <3>1. SubSeq(p, 1, ReadLen) \in Seq(CellSet) /\ Len(SubSeq(p, 1, ReadLen)) = ReadLen
      BY PacketPart, ReadLenRange
    <3> QED BY <1>2, <2>3, <3>1, RangeReadOK DEF BlockRead
  <2> QED BY <1>2, <2>1, <2>2, <2>3 DEF BlockRead
<1> QED BY <1>1, <1>2 DEF DataRead

(* Whatever reply is read, the host's position stays sound.                *)
LEMMA ReplyReadOK ==
  ASSUME HostInv, NEW r \in Replies \cup {Silence}, ReplyRead(r)
  PROVE  HostInv'
<1>1. CASE VersionRead(r)
  BY <1>1, AskOK DEF VersionRead, HostInv, Ended
<1>2. CASE SizeRead(r)
  <2>1. CASE obd_is_ack(r, GET_FLASH_SIZE)
    <3>1. r.data \in 0..(AddrMod - 1)
      BY <2>1 DEF obd_is_ack, Silence, GET_FLASH_SIZE, Replies
    <3> QED BY <1>2, <2>1, <3>1, SizeKnownOK DEF SizeRead, Ended
  <2>2. CASE ~obd_is_ack(r, GET_FLASH_SIZE)
    <3>1. 1 \in 1..Len(Candidates)
      BY CandidatesAssumption
    <3> QED BY <1>2, <2>2, <3>1, AskOK DEF SizeRead, Ended
  <2> QED BY <2>1, <2>2
<1>3. CASE ReadAcked(r)
  <2>1. CASE obd_is_ack(r, READ_FLASH)
    BY <1>3, <2>1 DEF ReadAcked, ReplyRead, HostInv, Ended, Reading
  <2> QED BY <1>3, <2>1, BlockNotReadOK DEF ReadAcked
<1> QED BY <1>1, <1>2, <1>3 DEF ReplyRead

(* A new run begins with a question, or with a range on the command line.  *)
LEMMA StartJobOK ==
  ASSUME HostInv, NEW j \in JobSet, StartJob(j)
  PROVE  HostInv'
<1>0. /\ job' = j /\ cand' = 1 /\ size' = 0
      /\ 1 \in 1..Len(Candidates) /\ 0 \in 0..(AddrMod - 1)
  BY CandidatesAssumption DEF StartJob
<1>1. CASE j.cmd = "read-flash" /\ j.len >= 0
  <2>1. LE32(j.addr) \in 0..(AddrMod - 1) /\ j.len \in Nat
    BY <1>1, LE32Range DEF JobSet
  <2> QED BY <1>0, <1>1, <2>1, ReadRangeOK DEF StartJob
<1>2. CASE ~(j.cmd = "read-flash" /\ j.len >= 0)
  <2>1. stage' \in {"version", "size"} /\ step' = "cmd" /\ base' = 0 /\ total' = 0 /\ buf' = <<>>
    BY <1>2 DEF StartJob
  <2>2. buf' \in Seq(CellSet) /\ Len(buf') = 0
    BY <2>1
  <2> QED BY <1>0, <2>1, <2>2 DEF HostInv, Stages, Ended, Reading
<1> QED BY <1>1, <1>2

-----------------------------------------------------------------------------
(* The device keeps its types under every command.                         *)

(* A slot, or an endpoint, holds nothing but what was put there.           *)
LEMMA SlotIn ==
  ASSUME NEW S, NEW q \in Seq(S), NEW x \in S
  PROVE  Slot(q, x) \in Seq(S)
  BY DEF Slot

(* A data packet is a block of cells.                                      *)
LEMMA PacketTyped ==
  ASSUME DevInv, NEW a \in Nat, NEW n \in Nat
  PROVE  DataPacket(a, n) \in Packets
<1>1. ASSUME NEW k \in 1..BlockSize PROVE flash(a + k - 1) \in CellSet
  <2>1. k \in Int /\ a + k - 1 \in Int
    BY BlockSizeAssumption
  <2>2. Erased(a + k - 1) \in BOOLEAN
    BY DEF Erased
  <2> QED BY <2>1, <2>2 DEF flash, Cell, CellSet
<1>2. Zero \in CellSet
  BY DEF Zero, Cell, CellSet
<1> QED BY <1>1, <1>2 DEF DataPacket, Packets

(* The host asks for blocks of the flash it may think it has.              *)
LEMMA ReadAddrNat ==
  ASSUME HostInv PROVE ReadAddr \in Nat
<1>1. CASE stage = "probe"
  <2>1. Candidates[cand] \in Nat /\ Candidates[cand] >= BlockSize
    BY CandidatesAssumption DEF HostInv
  <2> QED BY <1>1, <2>1, BlockSizeAssumption DEF ReadAddr
<1>2. CASE stage # "probe"
  <2>1. size - FeedbackOffset \in Int /\ base + Len(buf) \in Int
    BY AreasAssumption DEF HostInv
  <2> QED BY <1>2, <2>1, LE32Range, CandidatesAssumption DEF ReadAddr
<1> QED BY <1>1, <1>2

Acks == {Ack(GET_VERSION, VersionText), Ack(GET_FLASH_SIZE, flash_size), Ack(READ_FLASH, 0)}

(* Every answer of the device is a reply.                                  *)
LEMMA AcksTyped == ASSUME DevInv PROVE Acks \subseteq Replies /\ Nak \in Replies
<1>1. AddrMod \in Nat \ {0} /\ flash_size \in 1..(AddrMod - 1)
  BY CandidatesAssumption, FlashSizesAssumption DEF DevInv
<1> QED
  BY <1>1 DEF Acks, Ack, Nak, Replies, VersionText, Cmds

(* What a command can do to the reply slot.                                *)
LEMMA CommandReply ==
  ASSUME NEW c, fake_write_cmd(c)
  PROVE  /\ UNCHANGED device
         /\ no_reply \/ \E r \in Acks : set_reply(r)
         /\ c.cmd # READ_FLASH =>
              UNCHANGED pending_read
              /\ (no_reply \/ \E r \in Acks \ {Ack(READ_FLASH, 0)} : set_reply(r))
         /\ c.cmd = READ_FLASH => read_flash(c)
<1>1. /\ Ack(READ_FLASH, 0) # Ack(GET_VERSION, VersionText)
      /\ Ack(READ_FLASH, 0) # Ack(GET_FLASH_SIZE, flash_size)
  BY DEF Ack, READ_FLASH, GET_VERSION, GET_FLASH_SIZE
<1>2. READ_FLASH # GET_VERSION /\ READ_FLASH # GET_FLASH_SIZE
  BY DEF READ_FLASH, GET_VERSION, GET_FLASH_SIZE
<1> QED
  BY <1>1, <1>2 DEF fake_write_cmd, get_version, get_flash_size, read_flash, Acks

(* The device's state keeps its type under every command (fake.c:55-119).  *)
LEMMA WriteCmdOK ==
  ASSUME HostInv, DevInv, fake_write_cmd(HostCommand)
  PROVE  DevInv'
<1>1. UNCHANGED device
  BY CommandReply
<1>2. reply' \in Seq(Replies)
  <2>1. no_reply => reply' \in Seq(Replies)
    BY DEF no_reply, DevInv
  <2>2. \A r \in Acks : set_reply(r) => reply' \in Seq(Replies)
    BY SlotIn, AcksTyped DEF set_reply, DevInv
  <2> QED BY <2>1, <2>2, CommandReply
<1>3. pending_read' \in Seq(Packets)
  <2>1. CASE HostCommand.cmd # READ_FLASH
    BY <2>1, CommandReply DEF DevInv
  <2>2. CASE HostCommand.cmd = READ_FLASH
    <3>1. HostCommand = Command(READ_FLASH, ReadAddr, ReadLen)
      BY <2>2 DEF HostCommand, Command, READ_FLASH, GET_VERSION, GET_FLASH_SIZE
    <3>2. DataPacket(ReadAddr, ReadLen) \in Packets
      BY PacketTyped, ReadAddrNat, ReadLenRange, BlockSizeAssumption
    <3>3. read_flash(HostCommand)
      BY <2>2, CommandReply
    <3> QED BY <3>1, <3>2, <3>3, SlotIn DEF read_flash, Command, DevInv
  <2> QED BY <2>1, <2>2
<1> QED BY <1>1, <1>2, <1>3 DEF device, DevInv

(* Taking a reply or a packet yields one, and leaves the device well typed.*)
LEMMA TakeOK ==
  ASSUME DevInv
  PROVE  /\ TakeReply => DevInv' /\ Head(reply) \in Replies
         /\ TakeData => DevInv' /\ Head(pending_read) \in Packets
         /\ UNCHANGED devVars => DevInv'
  BY DEF DevInv, TakeReply, TakeData, devVars, device

(* Faults are counted down.                                                *)
LEMMA CountOK ==
  ASSUME CountInv, Fault \/ NoFault PROVE CountInv'
  BY BoundsAssumption DEF CountInv, Fault, NoFault

(* Host and device are well typed at the start.                            *)
LEMMA TInvInit == Init => TInv
<1> SUFFICES ASSUME Init PROVE TInv
  OBVIOUS
<1>1. HostInv
  <2>1. buf \in Seq(CellSet) /\ Len(buf) = 0
    BY DEF Init, HostInit
  <2>2. 1 \in 1..Len(Candidates) /\ 0 \in 0..(AddrMod - 1)
    BY CandidatesAssumption
  <2> QED BY <2>1, <2>2 DEF Init, HostInit, HostInv, Stages, Ended, Reading, JobSet, Commands
<1>2. DevInv
  BY DEF Init, DevInit, DevInv
<1>3. CountInv
  BY BoundsAssumption DEF Init, CountInv
<1> QED BY <1>1, <1>2, <1>3 DEF TInv

(* Every step keeps host and device well typed: the induction step.        *)
LEMMA TInvNext == TInv /\ [Next]_vars => TInv'
<1> SUFFICES ASSUME TInv, [Next]_vars PROVE TInv'
  OBVIOUS
<1>t. HostInv /\ DevInv /\ CountInv
  BY DEF TInv
<1>q. ASSUME HostInv', DevInv', Fault \/ NoFault PROVE TInv'
  BY <1>t, <1>q, CountOK DEF TInv
<1>n. Nak \in Replies
  BY <1>t, AcksTyped
<1>0. CASE UNCHANGED vars
  BY <1>0, <1>t, TakeOK DEF vars, hostVars, TInv, HostInv, CountInv
<1>1. CASE SendCommand
  <2>1. HostInv'
    BY <1>1, <1>t DEF SendCommand, CommandWritten, HostInv, Ended
  <2> QED BY <1>1, <2>1, <1>t, <1>q, WriteCmdOK DEF SendCommand
<1>2. CASE CommandFails
  <2>1. HostInv'
    BY <1>2, <1>t, BlockNotReadOK, EndOK DEF CommandFails, CommandNotWritten, Ended
  <2> QED BY <1>2, <2>1, <1>t, <1>q, WriteCmdOK, TakeOK DEF CommandFails
<1>3. CASE ReceiveReply \/ ReplyGarbled \/ ReplyLost \/ ReplyLate \/ NoReply
  BY <1>3, <1>t, <1>n, <1>q, ReplyReadOK, TakeOK
     DEF ReceiveReply, ReplyGarbled, ReplyLost, ReplyLate, NoReply
<1>4. CASE ReplyFails
  <2>1. HostInv'
    BY <1>4, <1>t, BlockNotReadOK, EndOK DEF ReplyFails, ReadFailed, Ended
  <2> QED BY <1>4, <2>1, <1>t, <1>q, TakeOK DEF ReplyFails
<1>5. CASE ReceiveData
  BY <1>5, <1>t, <1>q, DataReadOK, TakeOK DEF ReceiveData
<1>6. CASE DataCorrupt
  <2>1. \A b \in BOOLEAN : [k \in 1..BlockSize |-> Junk(b)] \in Packets
    BY DEF Junk, Cell, CellSet, Packets
  <2> QED BY <1>6, <2>1, <1>t, <1>q, DataReadOK, TakeOK DEF DataCorrupt
<1>7. CASE DataLost \/ DataLate
  BY <1>7, <1>t, <1>q, BlockNotReadOK, TakeOK DEF DataLost, DataLate, DataNotRead
<1>8. CASE OutOfMemory
  BY <1>8, <1>t, <1>q, EndOK, TakeOK DEF OutOfMemory, NoBuffer, Ended
<1>9. ASSUME NEW j \in Jobs, Start(j) PROVE TInv'
  <2>1. HostInv'
    BY <1>9, <1>t, StartJobOK, JobsAssumption DEF Start
  <2>2. DevInv'
    BY <1>9, <1>t, TakeOK DEF Start
  <2>3. CountInv'
    BY <1>9, <1>t, BoundsAssumption DEF Start, CountInv
  <2> QED BY <2>1, <2>2, <2>3 DEF TInv
<1> QED
  BY <1>0, <1>1, <1>2, <1>3, <1>4, <1>5, <1>6, <1>7, <1>8, <1>9 DEF Next, RunStep

(* Addresses, sizes and lengths of a readout keep their types, and no more *)
(* is ever read than there is room for in the buffer (main.c:510,          *)
(* device.c:132-145).                                                      *)
THEOREM TypeCorrect == Spec => []TypeOK
<1>1. TInv => TypeOK
  BY CandidatesAssumption DEF TInv, HostInv, DevInv, CountInv, TypeOK
<1> QED BY TInvInit, TInvNext, <1>1, PTL DEF Spec
=============================================================================
