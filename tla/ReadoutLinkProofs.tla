-------------------------- MODULE ReadoutLinkProofs --------------------------
(***************************************************************************)
(* What a readout makes of answers that come late, and where the cells of  *)
(* a dump come from.                                                       *)
(***************************************************************************)
EXTENDS ReadoutProofs

-----------------------------------------------------------------------------
(* Late answers.                                                           *)

(* Candidates are tried from the largest down (protocol.c:12).             *)
LEMMA Descending ==
  ASSUME HostInv, cand < Len(Candidates)
  PROVE  Candidates[cand + 1] < Candidates[cand] /\ Candidates[cand] \in Nat
         /\ Candidates[cand + 1] \in Nat
<1>1. cand \in 1..Len(Candidates) /\ cand + 1 \in 1..Len(Candidates)
  BY CandidatesAssumption DEF HostInv
<1> QED BY <1>1, CandidatesAssumption

(* Taking up where the invariant needs nothing but this.                   *)
LEMMA LateKept ==
  ASSUME LateInv, UNCHANGED device, size' <= flash_size, TooLargeYet' => TooLargeYet,
         reply' \in Seq(Honest), TooLargeYet => reply' \in Seq(Quiet),
         step' = "bulk" => ~TooLargeYet
  PROVE  LateInv'
<1>1. Honest' = Honest /\ Quiet' = Quiet /\ flash_size' = flash_size
  BY DEF Honest, Quiet, device
<1> QED BY <1>1 DEF LateInv

(* A question about flash that is not there gets no acknowledgement of a   *)
(* read (fake.c:99-109).                                                   *)
LEMMA CommandLate ==
  ASSUME TInv, LateInv, step = "cmd", fake_write_cmd(HostCommand)
  PROVE  reply' \in Seq(Honest) /\ (TooLargeYet => reply' \in Seq(Quiet))
<1>0. Acks \subseteq Honest /\ Acks \ {Ack(READ_FLASH, 0)} \subseteq Quiet
  <2>1. Acks \subseteq Replies
    BY AcksTyped DEF TInv
  <2> QED
    BY <2>1 DEF Acks, Ack, Honest, Quiet, READ_FLASH, GET_VERSION, GET_FLASH_SIZE
<1>1. no_reply => reply' \in Seq(Honest) /\ (TooLargeYet => reply' \in Seq(Quiet))
  BY DEF no_reply, LateInv
<1>2. reply' \in Seq(Honest)
  <2>1. \A r \in Acks : set_reply(r) => reply' \in Seq(Honest)
    BY <1>0, SlotIn DEF set_reply, LateInv
  <2> QED BY <1>1, <2>1, CommandReply
<1>3. ASSUME TooLargeYet PROVE reply' \in Seq(Quiet)
  <2>1. \A r \in Acks \ {Ack(READ_FLASH, 0)} : set_reply(r) => reply' \in Seq(Quiet)
    BY <1>0, <1>3, SlotIn DEF set_reply, LateInv
  <2>2. CASE HostCommand.cmd # READ_FLASH
    BY <1>1, <1>3, <2>1, <2>2, CommandReply
  <2>3. CASE HostCommand.cmd = READ_FLASH
    <3>1. stage = "probe" /\ Candidates[cand] > flash_size
      BY <1>3, <2>3 DEF TooLargeYet, HostCommand, Command, READ_FLASH, GET_VERSION,
         GET_FLASH_SIZE, TInv, HostInv, Ended
    <3>2. HostCommand = Command(READ_FLASH, Candidates[cand] - BlockSize, BlockSize)
      BY <3>1 DEF HostCommand, ReadAddr, ReadLen
    <3>3. Candidates[cand] \in Nat /\ flash_size \in Nat
      BY CandidatesAssumption, FlashSizesAssumption DEF TInv, HostInv, DevInv
    <3>4. no_reply
      BY <2>3, <3>1, <3>2, <3>3, CommandReply, BlockSizeAssumption DEF read_flash, Command
    <3> QED BY <1>1, <1>3, <3>4
  <2> QED BY <2>2, <2>3
<1> QED BY <1>2, <1>3

(* An end, and a candidate given up, leave the size alone and make no      *)
(* candidate too large that was not.                                       *)
LEMMA NotReadLate ==
  ASSUME TInv, LateInv, UNCHANGED device, BlockNotRead \/ End("failed")
  PROVE  size' <= flash_size /\ (TooLargeYet' => TooLargeYet) /\ step' # "bulk"
<1>1. ASSUME NEW s \in {"ok", "failed"}, End(s)
      PROVE  size' <= flash_size /\ (TooLargeYet' => TooLargeYet) /\ step' # "bulk"
  BY <1>1 DEF End, TooLargeYet, LateInv
<1>2. CASE stage = "probe" /\ BlockNotRead /\ cand < Len(Candidates)
  <2>1. stage' = "probe" /\ cand' = cand + 1 /\ size' = size /\ step' = "cmd"
    BY <1>2 DEF BlockNotRead, Ask
  <2>2. Candidates[cand + 1] < Candidates[cand] /\ Candidates[cand] \in Nat
        /\ Candidates[cand + 1] \in Nat
    BY <1>2, Descending DEF TInv
  <2>3. flash_size \in Nat /\ flash_size' = flash_size
    BY FlashSizesAssumption DEF TInv, DevInv, device
  <2> QED BY <1>2, <2>1, <2>2, <2>3 DEF TooLargeYet, LateInv
<1> QED BY <1>1, <1>2 DEF BlockNotRead, SizeUnknown

(* A size that is not too large ends the search.                           *)
LEMMA SizeLate ==
  ASSUME SizeKnown(Candidates[cand]) \/ SizeKnown(flash_size), UNCHANGED device,
         stage \in {"probe", "size"}, step \in {"ack", "bulk"}
  PROVE  size' \in {Candidates[cand], flash_size} /\ ~TooLargeYet' /\ step' # "bulk"
  BY DEF SizeKnown, Area, ReadRange, TooLargeYet

(* Reading a reply, whichever question it answers.                         *)
LEMMA ReplyLate2 ==
  ASSUME TInv, LateInv, UNCHANGED device, NEW r, ReplyRead(r),
         r \in Honest \cup {Silence}, TooLargeYet => r.ack # READ_FLASH
  PROVE  /\ size' <= flash_size
         /\ TooLargeYet' => TooLargeYet
         /\ step' = "bulk" => ~TooLargeYet
<1>1. CASE VersionRead(r)
  BY <1>1 DEF VersionRead, Ask, TooLargeYet, LateInv
<1>2. CASE SizeRead(r)
  <2>1. CASE obd_is_ack(r, GET_FLASH_SIZE)
    <3>1. r.data = flash_size
      BY <2>1 DEF obd_is_ack, Silence, Honest, GET_FLASH_SIZE
    <3>2. stage = "size" /\ SizeKnown(flash_size) /\ size' = flash_size
      BY <1>2, <2>1, <3>1 DEF SizeRead, SizeKnown
    <3>3. flash_size \in Nat
      BY FlashSizesAssumption DEF TInv, DevInv
    <3> QED BY <3>2, <3>3, SizeLate DEF ReplyRead
  <2>2. CASE ~obd_is_ack(r, GET_FLASH_SIZE)
    BY <1>2, <2>2 DEF SizeRead, Ask, TooLargeYet, LateInv
  <2> QED BY <2>1, <2>2
<1>3. CASE ReadAcked(r)
  <2>1. CASE obd_is_ack(r, READ_FLASH)
    BY <1>3, <2>1 DEF ReadAcked, obd_is_ack, LateInv, TooLargeYet, device
  <2>2. CASE ~obd_is_ack(r, READ_FLASH)
    BY <1>3, <2>2, NotReadLate DEF ReadAcked
  <2> QED BY <2>1, <2>2
<1> QED BY <1>1, <1>2, <1>3 DEF ReplyRead

(* Reading data: a block that was acknowledged is there.                   *)
LEMMA DataLate2 ==
  ASSUME TInv, LateInv, UNCHANGED device, NEW p, NEW intact, DataRead(p, intact)
  PROVE  size' <= flash_size /\ (TooLargeYet' => TooLargeYet) /\ step' # "bulk"
<1>1. CASE BlockNotRead
  BY <1>1, NotReadLate
<1>2. CASE stage = "probe" /\ SizeKnown(Candidates[cand])
  <2>1. Candidates[cand] <= flash_size
    BY <1>2, CandidatesAssumption, FlashSizesAssumption
       DEF DataRead, LateInv, TooLargeYet, TInv, HostInv, DevInv
  <2>2. size' = Candidates[cand]
    BY <1>2 DEF SizeKnown
  <2> QED BY <1>2, <2>1, <2>2, SizeLate DEF DataRead
<1>3. CASE stage \in {"peek", "range"} /\ BlockRead(SubSeq(p, 1, ReadLen))
  BY <1>3 DEF BlockRead, End, RangeRead, TooLargeYet, LateInv
<1> QED BY <1>1, <1>2, <1>3 DEF DataRead, BlockRead

(* Every step of the first run keeps the invariant about late answers.     *)
LEMMA LateNext == TInv /\ LateInv /\ RunStep => LateInv'
<1> SUFFICES ASSUME TInv, LateInv, RunStep PROVE LateInv'
  OBVIOUS
<1>d. UNCHANGED device
  BY CommandReply DEF RunStep, SendCommand, CommandFails, ReceiveReply, ReplyGarbled,
     ReplyLost, ReplyLate, NoReply, ReplyFails, ReceiveData, DataCorrupt, DataLost,
     DataLate, OutOfMemory, TakeReply, TakeData, devVars
<1>t. TakeReply => /\ reply' \in Seq(Honest) /\ Head(reply) \in Honest
                   /\ TooLargeYet => reply' \in Seq(Quiet) /\ Head(reply) \in Quiet
  BY DEF TakeReply, LateInv
<1>u. UNCHANGED reply => reply' \in Seq(Honest) /\ (TooLargeYet => reply' \in Seq(Quiet))
  BY DEF LateInv
<1>f. ASSUME BlockNotRead \/ End("failed"),
             reply' \in Seq(Honest), TooLargeYet => reply' \in Seq(Quiet)
      PROVE  LateInv'
  BY <1>d, <1>f, NotReadLate, LateKept
<1>r. ASSUME NEW r \in Honest \cup {Silence}, ReplyRead(r), TooLargeYet => r.ack # READ_FLASH,
             reply' \in Seq(Honest), TooLargeYet => reply' \in Seq(Quiet)
      PROVE  LateInv'
  BY <1>d, <1>r, ReplyLate2, LateKept
<1>p. ASSUME NEW p, NEW intact, DataRead(p, intact), UNCHANGED reply
      PROVE  LateInv'
  BY <1>d, <1>p, <1>u, DataLate2, LateKept
<1>1. CASE SendCommand
  <2>1. size' <= flash_size /\ (TooLargeYet' => TooLargeYet) /\ step' # "bulk"
    BY <1>1, <1>d DEF SendCommand, CommandWritten, TooLargeYet, LateInv, device
  <2> QED BY <1>1, <1>d, <2>1, CommandLate, LateKept DEF SendCommand, CommandWritten
<1>2. CASE CommandFails
  BY <1>2, <1>f, <1>u, CommandLate DEF CommandFails, CommandNotWritten, devVars
<1>3. CASE ReceiveReply
  BY <1>3, <1>r, <1>t DEF ReceiveReply, Quiet
<1>4. CASE ReplyGarbled \/ ReplyLost \/ ReplyLate \/ NoReply
  <2>1. Nak \in Honest /\ Nak.ack # READ_FLASH /\ Silence.ack # READ_FLASH
    BY AcksTyped DEF Nak, Silence, READ_FLASH, Honest, GET_FLASH_SIZE, TInv
  <2> QED
    BY <1>4, <1>r, <1>t, <1>u, <2>1 DEF ReplyGarbled, ReplyLost, ReplyLate, NoReply, devVars
<1>5. CASE ReplyFails
  BY <1>5, <1>f, <1>t, <1>u DEF ReplyFails, ReadFailed, devVars
<1>6. CASE ReceiveData \/ DataCorrupt
  BY <1>6, <1>p DEF ReceiveData, DataCorrupt, TakeData
<1>7. CASE DataLost \/ DataLate
  BY <1>7, <1>f, <1>u DEF DataLost, DataLate, DataNotRead, TakeData, devVars
<1>8. CASE OutOfMemory
  BY <1>8, <1>f, <1>u DEF OutOfMemory, NoBuffer, devVars
<1> QED
  BY <1>1, <1>2, <1>3, <1>4, <1>5, <1>6, <1>7, <1>8 DEF RunStep

-----------------------------------------------------------------------------
(* A range computed from the size ends where the flash does, or before.    *)

(* A size found leads to a range inside it (main.c:498-508,                *)
(* device.c:210-214).                                                      *)
LEMMA SizeKnownInside ==
  ASSUME TInv, NEW s \in 0..(AddrMod - 1), SizeKnown(s)
  PROVE  stage' = "range" => base' + total' <= size'
<1>1. ASSUME NEW offset \in Nat, NEW blocks \in Nat \ {0}, blocks * BlockSize <= offset,
             Area(s, offset, blocks), stage' = "range"
      PROVE  base' + total' <= s
  <2>1. ~(s < offset) /\ base' = s - offset /\ total' = blocks * BlockSize
    BY <1>1 DEF Area, ReadRange
  <2>2. blocks * BlockSize \in Nat
    BY AreaLength
  <2> QED BY <1>1, <2>1, <2>2
<1>2. CASE job.cmd = "read-flash" /\ ReadRange(LE32(job.addr), s - LE32(job.addr))
  <2>1. LE32(job.addr) \in 0..(AddrMod - 1)
    BY LE32Range DEF TInv, HostInv, JobSet
  <2> QED BY <1>2, <2>1 DEF ReadRange, SizeKnown
<1> QED BY <1>1, <1>2, AreasAssumption DEF SizeKnown

(* Every step keeps a range inside the size it was computed from.          *)
LEMMA InsideNext == TInv /\ InsideInv /\ [Next]_vars => InsideInv'
<1> SUFFICES ASSUME TInv, InsideInv, [Next]_vars PROVE InsideInv'
  OBVIOUS
<1>h. HostInv
  BY DEF TInv
<1>n. BlockNotRead \/ (\E s \in Ended : End(s)) => InsideInv'
  BY DEF BlockNotRead, Ask, End, SizeUnknown, Ended, InsideInv
<1>s. \A s \in 0..(AddrMod - 1) : SizeKnown(s) => InsideInv'
  BY SizeKnownInside DEF InsideInv
<1>k. UNCHANGED <<stage, size, base, total>> => InsideInv'
  BY DEF InsideInv
<1>r. ASSUME NEW r \in Replies \cup {Silence}, ReplyRead(r) PROVE InsideInv'
  <2>1. CASE VersionRead(r)
    BY <2>1 DEF VersionRead, Ask, InsideInv
  <2>2. CASE SizeRead(r) /\ obd_is_ack(r, GET_FLASH_SIZE)
    <3>1. r.data \in 0..(AddrMod - 1)
      BY <2>2 DEF obd_is_ack, Silence, GET_FLASH_SIZE, Replies
    <3> QED BY <2>2, <3>1, <1>s DEF SizeRead
  <2>3. CASE SizeRead(r) /\ ~obd_is_ack(r, GET_FLASH_SIZE)
    BY <2>3 DEF SizeRead, Ask, InsideInv
  <2>4. CASE ReadAcked(r)
    BY <2>4, <1>n, <1>k DEF ReadAcked
  <2> QED BY <1>r, <2>1, <2>2, <2>3, <2>4 DEF ReplyRead
<1>p. ASSUME NEW p, NEW intact, DataRead(p, intact) PROVE InsideInv'
  <2>1. CASE stage = "probe" /\ SizeKnown(Candidates[cand])
    <3>1. Candidates[cand] \in 0..(AddrMod - 1)
      BY <1>h, CandidatesAssumption DEF HostInv
    <3> QED BY <2>1, <3>1, <1>s
  <2>2. CASE stage = "range" /\ RangeRead(SubSeq(p, 1, ReadLen))
    BY <2>2 DEF RangeRead, InsideInv
  <2> QED BY <1>p, <1>n, <2>1, <2>2 DEF DataRead, BlockRead, Ended
<1>0. CASE UNCHANGED vars
  BY <1>0, <1>k DEF vars, hostVars
<1>1. CASE SendCommand
  BY <1>1, <1>k DEF SendCommand, CommandWritten
<1>2. CASE CommandFails \/ ReplyFails \/ DataLost \/ DataLate \/ OutOfMemory
  BY <1>2, <1>n DEF CommandFails, CommandNotWritten, ReplyFails, ReadFailed, DataLost,
     DataLate, DataNotRead, OutOfMemory, NoBuffer, Ended
<1>3. CASE ReceiveReply \/ ReplyGarbled \/ ReplyLost \/ ReplyLate \/ NoReply
  BY <1>3, <1>r, AcksTyped, TakeOK
     DEF ReceiveReply, ReplyGarbled, ReplyLost, ReplyLate, NoReply, TInv
<1>4. CASE ReceiveData \/ DataCorrupt
  BY <1>4, <1>p DEF ReceiveData, DataCorrupt
<1>5. ASSUME NEW j \in Jobs, Start(j) PROVE InsideInv'
  BY <1>5 DEF Start, StartJob, ReadRange, InsideInv
<1> QED
  BY <1>0, <1>1, <1>2, <1>3, <1>4, <1>5 DEF Next, RunStep

(* What is known before the first question.                                *)
LEMMA LInvInit == Init => LInv
<1> SUFFICES ASSUME Init PROVE LInv
  OBVIOUS
<1>1. TInv
  BY TInvInit
<1>2. flash_size \in Nat
  BY <1>1, FlashSizesAssumption DEF TInv, DevInv
<1> QED BY <1>1, <1>2 DEF LInv, FirstRun, InsideInv, LateInv, TooLargeYet, Init, HostInit, DevInit

(* Every step keeps it; a second run ends what is said of the first.       *)
LEMMA LInvNext == LInv /\ [Next]_vars => LInv'
<1> SUFFICES ASSUME LInv, [Next]_vars PROVE LInv'
  OBVIOUS
<1>t. TInv /\ TInv' /\ InsideInv' /\ FirstRun /\ runs \in Nat /\ (runs <= 1 => LateInv)
  BY TInvNext, InsideNext, BoundsAssumption DEF LInv, TInv, CountInv
<1>1. CASE UNCHANGED vars
  BY <1>1, <1>t DEF LInv, FirstRun, LateInv, TooLargeYet, Honest, Quiet, vars, hostVars,
     devVars, device
<1>2. CASE RunStep
  <2>1. UNCHANGED runs
    BY <1>2 DEF RunStep, SendCommand, CommandFails, ReceiveReply, ReplyGarbled, ReplyLost,
       ReplyLate, NoReply, ReplyFails, ReceiveData, DataCorrupt, DataLost, DataLate,
       OutOfMemory, Fault, NoFault
  <2>2. step # "rest"
    BY <1>2 DEF RunStep, SendCommand, CommandFails, ReceiveReply, ReplyGarbled, ReplyLost,
       ReplyLate, NoReply, ReplyFails, ReceiveData, DataCorrupt, DataLost, DataLate,
       OutOfMemory, CommandWritten, CommandNotWritten, ReplyRead, ReadFailed, DataRead,
       DataNotRead, NoBuffer
  <2>3. runs # 0
    BY <1>t, <2>2 DEF FirstRun, TInv, HostInv, Ended
  <2> QED BY <1>2, <1>t, <2>1, <2>3, LateNext DEF LInv, FirstRun
<1>3. ASSUME NEW j \in Jobs, Start(j) PROVE LInv'
  <2>1. runs' = runs + 1 /\ UNCHANGED devVars /\ size' = 0 /\ step' # "bulk"
    BY <1>3 DEF Start, StartJob, ReadRange
  <2>2. ASSUME runs' <= 1 PROVE LateInv'
    <3>1. reply = <<>> /\ flash_size \in Nat
      BY <1>t, <2>1, <2>2, FlashSizesAssumption DEF FirstRun, TInv, DevInv
    <3> QED BY <2>1, <3>1 DEF LateInv, devVars, device
  <2> QED BY <1>t, <2>1, <2>2 DEF LInv, FirstRun
<1> QED BY <1>1, <1>2, <1>3 DEF Next

(* Late and lost answers never make the flash look larger than it is:      *)
(* whatever the candidates, the depth of the endpoints and the number of   *)
(* faults (device.c:81-103).                                               *)
THEOREM NeverMore == Spec => []NeverTooLarge
<1>1. LInv => NeverTooLarge
  BY DEF LInv, LateInv, NeverTooLarge
<1> QED BY LInvInit, LInvNext, <1>1, PTL DEF Spec

(* So a range computed from the size is asked for inside the flash, down   *)
(* to its last block (device.c:135-148).                                   *)
THEOREM StaysInside == Spec => []AsksInside
<1>1. LInv => AsksInside
  <2> SUFFICES ASSUME LInv, runs <= 1, stage = "range", size # 0
               PROVE  ReadAddr + ReadLen <= flash_size
    BY DEF AsksInside
  <2>1. HostInv /\ DevInv /\ base + total <= size /\ size <= flash_size
    BY DEF LInv, TInv, InsideInv, LateInv
  <2>2. flash_size \in 1..(AddrMod - 1)
    BY <2>1, FlashSizesAssumption DEF DevInv
  <2>3. ReadLen \in Nat \ {0} /\ Len(buf) + ReadLen <= total /\ Len(buf) \in Nat
        /\ total \in Nat /\ base \in Nat /\ size \in Nat
    BY <2>1, ReadLenRange, BlockSizeAssumption DEF HostInv
  <2>4. base + Len(buf) \in 0..(AddrMod - 1)
    BY <2>1, <2>2, <2>3, CandidatesAssumption
  <2>5. ReadAddr = base + Len(buf)
    BY <2>4, LE32Range DEF ReadAddr
  <2> QED BY <2>1, <2>2, <2>3, <2>5
<1> QED BY LInvInit, LInvNext, <1>1, PTL DEF Spec

-----------------------------------------------------------------------------
(* The simulated link: every cell comes from the address asked for.        *)

(* Outcomes of a step of the host that reads no block of a range: the next *)
(* question, or an end.                                                    *)
Moved ==
  /\ step' \in {"cmd", "rest"}
  /\ \/ /\ UNCHANGED <<job, base, total, buf>>
        /\ stage' # "range"
        /\ stage' = "ok" => Len(buf) = total
     \/ buf' = <<>> /\ (stage' = "ok" => total' = 0)

(* A block not read, and a failed call, are followed by a question or an   *)
(* end.                                                                    *)
LEMMA NotReadMoves ==
  ASSUME HostInv, BlockNotRead \/ End("failed")
  PROVE  Moved
<1>1. stage \in {"probe", "peek"} => Len(buf) = total
  BY DEF HostInv, Stages, Reading, Ended
<1> QED
  BY <1>1 DEF BlockNotRead, SizeUnknown, Ask, End, Moved

(* So is a size found, whose range begins with nothing read.               *)
LEMMA SizeKnownMoves ==
  ASSUME HostInv, stage \in {"probe", "size"}, NEW s, SizeKnown(s)
  PROVE  Moved
<1>1. buf = <<>> /\ total = 0
  BY DEF HostInv, Stages, Reading, Ended
<1>2. ASSUME NEW a, NEW n, ReadRange(a, n) PROVE Moved
  BY <1>2 DEF ReadRange, Moved
<1>3. ASSUME stage' \in {"failed", "refused", "peek"}, step' \in {"cmd", "rest"},
             UNCHANGED <<base, total, buf>>
      PROVE  Moved
  BY <1>1, <1>3 DEF Moved
<1> QED BY <1>2, <1>3 DEF SizeKnown, Area

(* And so is every reply but the acknowledgement of a read.                *)
LEMMA ReplyMoves ==
  ASSUME HostInv, NEW r, ReplyRead(r)
  PROVE  \/ Moved
         \/ /\ stage \in Reading /\ step = "ack" /\ step' = "bulk"
            /\ obd_is_ack(r, READ_FLASH)
            /\ UNCHANGED <<job, stage, cand, size, base, total, buf>>
<1>1. CASE VersionRead(r)
  BY <1>1 DEF VersionRead, Ask, Moved
<1>2. CASE SizeRead(r)
  BY <1>2, SizeKnownMoves DEF SizeRead, Ask, Moved
<1>3. CASE ReadAcked(r)
  BY <1>3, NotReadMoves DEF ReadAcked, ReplyRead
<1> QED BY <1>1, <1>2, <1>3 DEF ReplyRead

(* After such an outcome the cells are where they were, or gone.           *)
LEMMA MovedPlace ==
  ASSUME TInv, PlaceInv, Moved, UNCHANGED device, Fault \/ NoFault
  PROVE  SlotInv' /\ PlaceInv'
<1>1. SlotInv'
  BY DEF Moved, SlotInv
<1>2. Met' \in Nat /\ Met \in Nat /\ Met' >= Met
  BY BoundsAssumption DEF TInv, CountInv, Fault, NoFault, Met
<1>3. PlaceInv'
  <2>1. CASE buf' = <<>> /\ (stage' = "ok" => total' = 0)
    BY <2>1 DEF PlaceInv, DumpInPlace
  <2>2. CASE /\ UNCHANGED <<job, base, total, buf>> /\ stage' # "range"
             /\ stage' = "ok" => Len(buf) = total
    BY <1>2, <2>2 DEF PlaceInv, DumpInPlace
  <2> QED BY <2>1, <2>2 DEF Moved
<1> QED BY <1>1, <1>3

(* Steps that leave the position and the range alone leave the cells in    *)
(* place.                                                                  *)
LEMMA PlaceKept ==
  ASSUME TInv, PlaceInv, UNCHANGED <<job, stage, base, total, buf, device>>, Fault \/ NoFault
  PROVE  PlaceInv'
<1>1. Met' \in Nat /\ Met \in Nat /\ Met' >= Met
  BY BoundsAssumption DEF TInv, CountInv, Fault, NoFault, Met
<1> QED BY <1>1 DEF PlaceInv, DumpInPlace, device

(* The next block begins where what was read ends: no address wraps.       *)
LEMMA NextAddr ==
  ASSUME TInv, PlaceInv, stage = "range"
  PROVE  ReadAddr = base + Len(buf)
<1>1. base \in 0..(AddrMod - 1) /\ Len(buf) \in Nat /\ flash_size \in 1..(AddrMod - 1)
      /\ AddrMod \in Nat \ {0}
  BY CandidatesAssumption, FlashSizesAssumption DEF TInv, HostInv, DevInv
<1>2. base + Len(buf) \in 0..(AddrMod - 1)
  <2>1. CASE buf = <<>>
    BY <1>1, <2>1
  <2>2. CASE buf # <<>>
    BY <1>1, <2>2 DEF PlaceInv
  <2> QED BY <2>1, <2>2
<1> QED BY <1>2, LE32Range DEF ReadAddr

(* A block read into a range: in place if it is the one asked for, junk if *)
(* it is a damaged one (device.c:135-148).                                 *)
LEMMA RangeReadPlace ==
  ASSUME TInv, PlaceInv, SlotInv, step = "bulk", stage = "range", UNCHANGED device,
         Fault \/ NoFault, NEW p \in Packets, RangeRead(SubSeq(p, 1, ReadLen)),
         \/ p = DataPacket(ReadAddr, ReadLen)
         \/ Fault /\ ~job.strict /\ \A k \in 1..BlockSize : p[k].at = -2
  PROVE  PlaceInv'
<1> DEFINE cells == SubSeq(p, 1, ReadLen)
           n     == ReadLen
<1>1. /\ HostInv /\ n \in 1..BlockSize /\ Len(buf) \in Nat /\ base \in Nat /\ buf \in Seq(CellSet)
      /\ total \in Nat /\ Len(buf) + n <= total /\ n \in Nat
  BY ReadLenRange, BlockSizeAssumption DEF TInv, HostInv
<1>2. ReadAddr = base + Len(buf) /\ ReadAddr + n <= flash_size /\ UNCHANGED flash_size
  BY NextAddr DEF SlotInv, Asked, device
<1>3. cells \in Seq(CellSet) /\ Len(cells) = n /\ \A k \in 1..n : cells[k] = p[k]
  BY <1>1, PacketPart
<1>4. buf' = buf \o cells /\ UNCHANGED <<job, base, total>>
  BY DEF RangeRead
<1>5. Len(buf') = Len(buf) + n
  BY <1>1, <1>3, <1>4
<1>6. Met' \in Nat /\ Met \in Nat /\ Met' >= Met /\ (Fault => Met' > 0)
  BY BoundsAssumption DEF TInv, CountInv, Fault, NoFault, Met
<1>7. ASSUME NEW k \in 1..Len(buf')
      PROVE  buf'[k].at = base' + k - 1 \/ (buf'[k].at = -2 /\ ~job'.strict /\ Met' > 0)
  <2>1. CASE k <= Len(buf)
    <3>1. buf'[k] = buf[k] /\ k \in 1..Len(buf)
      BY <1>1, <1>3, <1>4, <1>7, <2>1
    <3> QED BY <3>1, <1>4, <1>6 DEF PlaceInv, DumpInPlace
  <2>2. CASE k > Len(buf)
    <3>1. k - Len(buf) \in 1..n /\ k \in Int
      BY <1>1, <1>5, <1>7, <2>2
    <3>2. buf'[k] = p[k - Len(buf)]
      BY <1>1, <1>3, <1>4, <1>5, <1>7, <2>2, <3>1
    <3>3. CASE p = DataPacket(ReadAddr, ReadLen)
      <4>1. p[k - Len(buf)] = flash(ReadAddr + (k - Len(buf)) - 1)
        BY <1>1, <3>1, <3>3, BlockSizeAssumption DEF DataPacket
      <4>2. p[k - Len(buf)].at = base + k - 1
        BY <1>1, <1>2, <3>1, <4>1 DEF flash, Cell
      <4> QED BY <1>4, <3>2, <4>2
    <3>4. CASE Fault /\ ~job.strict /\ \A i \in 1..BlockSize : p[i].at = -2
      <4>1. k - Len(buf) \in 1..BlockSize
        BY <1>1, <3>1, BlockSizeAssumption
      <4> QED BY <1>4, <1>6, <3>2, <3>4, <4>1
    <3> QED BY <3>3, <3>4
  <2> QED BY <1>1, <1>5, <1>7, <2>1, <2>2
<1>8. stage' = "ok" => Len(buf') = total'
  <2>1. Len(buf') <= total /\ Len(buf') \in Nat
    BY <1>1, <1>5
  <2>2. stage' = "ok" => ~(Len(buf') < total)
    BY DEF RangeRead
  <2> QED BY <1>1, <1>4, <2>1, <2>2
<1>9. stage' = "range" /\ buf' # <<>> => base' + Len(buf') <= flash_size'
  BY <1>1, <1>2, <1>4, <1>5
<1> QED BY <1>7, <1>8, <1>9 DEF PlaceInv, DumpInPlace

(* What the device puts into its slots on a READ_FLASH is the block asked  *)
(* for, or no reply (fake.c:99-112).                                       *)
LEMMA CommandAsked ==
  ASSUME OneSlot, TInv, SendCommand PROVE SlotInv'
<1>1. /\ UNCHANGED <<job, stage, cand, size, base, total, buf>> /\ step' = "ack"
      /\ fake_write_cmd(HostCommand) /\ UNCHANGED device
  BY CommandReply DEF SendCommand, CommandWritten
<1>2. ReadAddr' = ReadAddr /\ ReadLen' = ReadLen
  BY <1>1 DEF ReadAddr, ReadLen
<1>3. DataPacket(ReadAddr, ReadLen)' = DataPacket(ReadAddr, ReadLen)
  BY <1>1, <1>2 DEF DataPacket, flash, Erased, Feedback, device
<1>4. ASSUME stage \in Reading, reply' # <<>> PROVE Asked'
  <2>1. HostCommand = Command(READ_FLASH, ReadAddr, ReadLen)
    BY <1>4 DEF HostCommand, Reading
  <2>2. read_flash(Command(READ_FLASH, ReadAddr, ReadLen))
    BY <1>1, <2>1, CommandReply DEF Command
  <2>3. /\ ReadAddr + ReadLen <= flash_size
        /\ pending_read' = <<DataPacket(ReadAddr, ReadLen)>>
    BY <2>2, <1>4 DEF read_flash, Command, no_reply, Slot, OneSlot
  <2> QED BY <2>3, <1>1, <1>2, <1>3 DEF Asked, device
<1> QED BY <1>1, <1>4 DEF SlotInv

(* The induction step.                                                     *)
LEMMA PlaceNext == OneSlot /\ SInv /\ [Next]_vars => SInv'
<1> SUFFICES ASSUME OneSlot, SInv, [Next]_vars PROVE SlotInv' /\ PlaceInv'
  BY TInvNext DEF SInv
<1>t. TInv /\ SlotInv /\ PlaceInv /\ HostInv /\ DevInv
  BY DEF SInv, TInv
<1>m. ASSUME Moved, UNCHANGED device, Fault \/ NoFault PROVE SlotInv' /\ PlaceInv'
  BY <1>t, <1>m, MovedPlace
<1>0. CASE UNCHANGED vars
  BY <1>0, <1>t DEF vars, hostVars, devVars, device, SlotInv, PlaceInv, DumpInPlace, Asked,
     ReadAddr, ReadLen, DataPacket, flash, Erased, Feedback, Met
<1>1. CASE SendCommand
  <2>1. UNCHANGED <<job, stage, base, total, buf, device>>
    BY <1>1, CommandReply DEF SendCommand, CommandWritten
  <2> QED BY <1>1, <1>t, <2>1, CommandAsked, PlaceKept DEF SendCommand
<1>2. CASE CommandFails
  <2>1. UNCHANGED device
    BY <1>2, CommandReply DEF CommandFails, devVars
  <2> QED BY <1>2, <2>1, <1>t, <1>m, NotReadMoves DEF CommandFails, CommandNotWritten
<1>3. CASE ReceiveReply
  <2>1. reply # <<>> /\ UNCHANGED <<device, pending_read>> /\ ReplyRead(Head(reply)) /\ NoFault
    BY <1>3 DEF ReceiveReply, TakeReply
  <2>2. ASSUME stage \in Reading, step = "ack", step' = "bulk",
               UNCHANGED <<job, stage, cand, size, base, total, buf>>
        PROVE  SlotInv' /\ PlaceInv'
    <3>1. Asked
      BY <1>t, <2>1, <2>2 DEF SlotInv
    <3>2. Asked'
      BY <2>1, <2>2, <3>1 DEF Asked, ReadAddr, ReadLen, DataPacket, flash, Erased, Feedback,
         device
    <3>3. PlaceInv'
      BY <1>t, <2>1, <2>2, PlaceKept
    <3> QED BY <3>2, <3>3 DEF SlotInv
  <2> QED BY <1>t, <1>m, <2>1, <2>2, ReplyMoves
<1>4. CASE ReplyGarbled \/ ReplyLost \/ ReplyLate \/ NoReply
  <2>1. UNCHANGED device /\ (Fault \/ NoFault) /\ (ReplyRead(Nak) \/ ReplyRead(Silence))
    BY <1>4 DEF ReplyGarbled, ReplyLost, ReplyLate, NoReply, TakeReply, devVars
  <2>2. ~obd_is_ack(Nak, READ_FLASH) /\ ~obd_is_ack(Silence, READ_FLASH)
    BY DEF obd_is_ack, Nak, Silence, READ_FLASH
  <2> QED BY <1>t, <1>m, <2>1, <2>2, ReplyMoves
<1>5. CASE ReplyFails \/ DataLost \/ DataLate \/ OutOfMemory
  <2>1. UNCHANGED device /\ Fault /\ (BlockNotRead \/ End("failed"))
    BY <1>5 DEF ReplyFails, ReadFailed, DataLost, DataLate, DataNotRead, OutOfMemory, NoBuffer,
       TakeReply, TakeData, devVars
  <2> QED BY <2>1, <1>t, <1>m, NotReadMoves
<1>6. CASE ReceiveData \/ DataCorrupt
  <2>1. /\ UNCHANGED device /\ step = "bulk" /\ (Fault \/ NoFault)
        /\ pending_read # <<>>
    BY <1>6 DEF ReceiveData, DataCorrupt, TakeData, DataRead
  <2>2. PICK p \in Packets, intact \in BOOLEAN :
          /\ DataRead(p, intact)
          /\ \/ p = DataPacket(ReadAddr, ReadLen)
             \/ Fault /\ ~intact /\ \A k \in 1..BlockSize : p[k].at = -2
    <3>1. CASE ReceiveData
      <4>1. pending_read = <<DataPacket(ReadAddr, ReadLen)>>
        BY <1>t, <2>1 DEF SlotInv, Asked
      <4>2. Head(pending_read) = DataPacket(ReadAddr, ReadLen)
        BY <4>1
      <4>3. Head(pending_read) \in Packets /\ DataRead(Head(pending_read), TRUE)
        BY <1>t, <3>1, TakeOK DEF ReceiveData
      <4> QED BY <4>2, <4>3
    <3>2. CASE DataCorrupt
      <4>1. PICK b \in BOOLEAN : DataRead([k \in 1..BlockSize |-> Junk(b)], FALSE)
        BY <3>2 DEF DataCorrupt
      <4>2. [k \in 1..BlockSize |-> Junk(b)] \in Packets
        BY DEF Junk, Cell, CellSet, Packets
      <4>3. \A k \in 1..BlockSize : [i \in 1..BlockSize |-> Junk(b)][k].at = -2
        BY DEF Junk, Cell
      <4> QED BY <3>2, <4>1, <4>2, <4>3 DEF DataCorrupt
    <3> QED BY <1>6, <3>1, <3>2
  <2>3. CASE BlockNotRead
    BY <2>1, <2>3, <1>t, <1>m, NotReadMoves
  <2>4. CASE ~(job.strict /\ ~intact) /\ BlockRead(SubSeq(p, 1, ReadLen))
    <3>1. CASE stage = "probe" /\ SizeKnown(Candidates[cand])
      BY <2>1, <3>1, <1>t, <1>m, SizeKnownMoves
    <3>2. CASE stage = "peek" /\ \E s \in {"ok", "empty"} : End(s)
      <4>1. buf = <<>> /\ total = 0
        BY <1>t, <3>2 DEF HostInv, Stages, Reading, Ended
      <4>2. Moved
        BY <3>2, <4>1 DEF End, Moved
      <4> QED BY <2>1, <4>2, <1>m
    <3>3. CASE stage = "range" /\ RangeRead(SubSeq(p, 1, ReadLen))
      <4>1. PlaceInv'
        BY <1>t, <2>1, <2>2, <2>4, <3>3, RangeReadPlace
      <4>2. SlotInv'
        BY <3>3 DEF RangeRead, SlotInv
      <4> QED BY <4>1, <4>2
    <3> QED BY <2>4, <3>1, <3>2, <3>3 DEF BlockRead
  <2> QED BY <2>2, <2>3, <2>4 DEF DataRead
<1>7. ASSUME NEW j \in Jobs, Start(j) PROVE SlotInv' /\ PlaceInv'
  BY <1>7 DEF Start, StartJob, ReadRange, SlotInv, PlaceInv, DumpInPlace
<1> QED
  BY <1>0, <1>1, <1>2, <1>3, <1>4, <1>5, <1>6, <1>7 DEF Next, RunStep

(* On the simulated link, whatever the layout and the faults, every cell   *)
(* of a dump is in its place and a dump reported as read is complete       *)
(* (device.c:124-148).                                                     *)
THEOREM InPlace == ASSUME OneSlot PROVE Spec => []DumpInPlace
<1>1. Init => SInv
  BY TInvInit DEF Init, HostInit, SInv, SlotInv, PlaceInv, DumpInPlace
<1>2. SInv /\ [Next]_vars => SInv'
  BY OneSlot, PlaceNext
<1>3. SInv => DumpInPlace
  BY DEF SInv, PlaceInv
<1> QED BY <1>1, <1>2, <1>3, PTL DEF Spec
-----------------------------------------------------------------------------
(* The size found.                                                         *)

(* Faults met in a run are counted up.                                     *)
LEMMA MetCounts ==
  ASSUME TInv
  PROVE  /\ Met \in Nat
         /\ NoFault => Met' = Met
         /\ Fault => Met' = Met + 1
  BY BoundsAssumption DEF TInv, CountInv, Fault, NoFault, Met

(* No step but the sending of a command leads to where a reply is awaited. *)
LEMMA NoAck ==
  /\ BlockNotRead \/ (\E s \in Ended : End(s)) => step' # "ack"
  /\ \A s : SizeKnown(s) => step' # "ack"
  /\ \A r : ReplyRead(r) => step' # "ack"
  /\ \A p, intact : DataRead(p, intact) => step' # "ack"
  /\ \A j : StartJob(j) => step' # "ack"
<1>1. BlockNotRead \/ (\E s \in Ended : End(s)) => step' # "ack"
  BY DEF BlockNotRead, Ask, SizeUnknown, End
<1>2. ASSUME NEW s, SizeKnown(s) PROVE step' # "ack"
  BY <1>2 DEF SizeKnown, Area, ReadRange
<1>3. ASSUME NEW r, ReplyRead(r) PROVE step' # "ack"
  BY <1>1, <1>2, <1>3 DEF ReplyRead, VersionRead, SizeRead, ReadAcked, Ask
<1>4. ASSUME NEW p, NEW intact, DataRead(p, intact) PROVE step' # "ack"
  BY <1>1, <1>2, <1>4 DEF DataRead, BlockRead, RangeRead, Ended, End
<1>5. ASSUME NEW j, StartJob(j) PROVE step' # "ack"
  BY <1>5 DEF StartJob, ReadRange
<1> QED BY <1>1, <1>2, <1>3, <1>4, <1>5

(* The answer to a command is in the slot when the host begins to wait for *)
(* it, and nothing is there if the device does not answer (fake.c:55-119). *)
LEMMA CommandAnswered ==
  ASSUME OneSlot, TInv, SendCommand PROVE AnswerInv'
<1>1. /\ UNCHANGED <<job, stage, cand, size, base, total, buf>> /\ step = "cmd"
      /\ fake_write_cmd(HostCommand) /\ UNCHANGED device
  BY CommandReply DEF SendCommand, CommandWritten
<1>2. ReadAddr' = ReadAddr /\ ReadLen' = ReadLen
  BY <1>1 DEF ReadAddr, ReadLen
<1>3. UNCHANGED <<flash_size, supports_version_cmd, supports_size_cmd>>
  BY <1>1 DEF device
<1>4. GET_VERSION # GET_FLASH_SIZE /\ GET_VERSION # READ_FLASH /\ READ_FLASH # GET_FLASH_SIZE
  BY DEF READ_FLASH, GET_VERSION, GET_FLASH_SIZE
<1>5. (\A r : set_reply(r) => reply' = <<r>>) /\ (no_reply => reply' = <<>>)
  BY DEF set_reply, no_reply, Slot, OneSlot
<1>6. CASE stage = "version"
  <2>1. get_version
    BY <1>1, <1>4, <1>6 DEF fake_write_cmd, HostCommand, Command
  <2> QED BY <1>1, <1>3, <1>5, <1>6, <2>1 DEF get_version, AnswerInv, VersionText
<1>7. CASE stage = "size"
  <2>1. get_flash_size
    BY <1>1, <1>4, <1>7 DEF fake_write_cmd, HostCommand, Command
  <2> QED BY <1>1, <1>3, <1>5, <1>7, <2>1 DEF get_flash_size, AnswerInv
<1>8. CASE stage \notin {"version", "size"}
  <2>1. read_flash(Command(READ_FLASH, ReadAddr, ReadLen))
    BY <1>1, <1>4, <1>8 DEF fake_write_cmd, HostCommand, Command
  <2>2. ReadLen > 0
    BY ReadLenRange, BlockSizeAssumption DEF TInv
  <2>3. IF ReadAddr + ReadLen <= flash_size THEN set_reply(Ack(READ_FLASH, 0)) ELSE no_reply
    BY <2>1, <2>2 DEF read_flash, Command
  <2> QED BY <1>1, <1>2, <1>3, <1>5, <1>8, <2>3 DEF AnswerInv
<1> QED BY <1>6, <1>7, <1>8

(* A candidate that is there, when all before it are not, is what probing  *)
(* finds (device.c:92-101).                                                *)
LEMMA ProbedIs ==
  ASSUME TInv, Candidates[cand] <= flash_size,
         \A i \in 1..(cand - 1) : Candidates[i] > flash_size
  PROVE  Probed = Candidates[cand]
<1> DEFINE there == {i \in 1..Len(Candidates) : Candidates[i] <= flash_size}
           first(i) == \A j \in there : i <= j
<1>1. /\ cand \in 1..Len(Candidates) /\ Len(Candidates) \in Nat /\ flash_size \in Nat
      /\ \A i \in 1..Len(Candidates) : Candidates[i] \in Nat
  <2>1. cand \in 1..Len(Candidates) /\ flash_size \in FlashSizes
    BY DEF TInv, HostInv, DevInv
  <2>2. Candidates \in Seq(Nat) /\ AddrMod \in Nat
    BY CandidatesAssumption
  <2>3. Len(Candidates) \in Nat /\ \A i \in 1..Len(Candidates) : Candidates[i] \in Nat
    BY <2>2
  <2>4. flash_size \in Nat
    BY <2>1, <2>2, FlashSizesAssumption
  <2> QED BY <2>1, <2>3, <2>4
<1>2. cand \in there
  BY <1>1
<1>3. first(cand)
  BY <1>1
<1>4. \A i \in there : first(i) => i = cand
  BY <1>1, <1>2, <1>3
<1>5. (CHOOSE i \in there : first(i)) = cand
  BY <1>2, <1>3, <1>4
<1> QED BY <1>2, <1>5 DEF Probed

(* A size that is settled stays right however many faults follow.          *)
LEMMA SizeRightKept ==
  ASSUME TInv, SizeRight, size' = size, UNCHANGED device, Fault \/ NoFault
  PROVE  SizeRight'
<1>1. Met \in Nat /\ Met' \in {Met, Met + 1}
  BY MetCounts
<1>2. Probed' = Probed /\ flash_size' = flash_size /\ supports_size_cmd' = supports_size_cmd
  BY DEF Probed, device
<1>3. supports_size_cmd \in BOOLEAN
  BY DEF TInv, DevInv
<1> QED BY <1>1, <1>2, <1>3 DEF SizeRight

(* A candidate passed over for a fault is one fault too many.              *)
LEMMA PassedForFault ==
  ASSUME TInv, ProbeInv, SizeRight, UNCHANGED device, Fault,
         BlockNotRead \/ End("failed")
  PROVE  ProbeInv' /\ SizeRight'
<1>1. size' = size /\ (stage' = "probe" => stage = "probe")
  BY DEF BlockNotRead, Ask, SizeUnknown, End
<1>2. SizeRight'
  BY <1>1, SizeRightKept
<1>3. ToProbe' = ToProbe /\ ToProbe \in Nat
  BY DEF ToProbe, device
<1>4. Met \in Nat /\ Met' = Met + 1
  BY MetCounts
<1> QED BY <1>1, <1>2, <1>3, <1>4 DEF ProbeInv

(* Without a fault it is passed over because it is too large.              *)
LEMMA PassedForSize ==
  ASSUME TInv, ProbeInv, SizeRight, UNCHANGED device, NoFault, BlockNotRead,
         ReadAddr + ReadLen > flash_size
  PROVE  ProbeInv' /\ SizeRight'
<1>1. size' = size /\ (stage' = "probe" => stage = "probe" /\ cand' = cand + 1)
  BY DEF BlockNotRead, Ask, SizeUnknown, End
<1>2. SizeRight'
  BY <1>1, SizeRightKept
<1>3. ToProbe' = ToProbe /\ Met' = Met /\ flash_size' = flash_size
  BY MetCounts DEF ToProbe, device
<1>4. ASSUME stage = "probe" PROVE Candidates[cand] > flash_size
  <2>1. ReadAddr = Candidates[cand] - BlockSize /\ ReadLen = BlockSize
    BY <1>4 DEF ReadAddr, ReadLen
  <2>2. Candidates[cand] \in Nat /\ flash_size \in Nat
    BY CandidatesAssumption, FlashSizesAssumption DEF TInv, HostInv, DevInv
  <2> QED BY <2>1, <2>2, BlockSizeAssumption
<1>5. ASSUME stage' = "probe", Met' = ToProbe', NEW i \in 1..(cand' - 1)
      PROVE  Candidates[i] > flash_size'
  <2>1. cand \in Nat
    BY DEF TInv, HostInv
  <2>2. i \in 1..(cand - 1) \/ i = cand
    BY <1>1, <1>5, <2>1
  <2> QED BY <1>1, <1>3, <1>4, <1>5, <2>2 DEF ProbeInv
<1>6. stage' = "probe" => Met' >= ToProbe'
  BY <1>1, <1>3 DEF ProbeInv
<1> QED BY <1>2, <1>5, <1>6 DEF ProbeInv

(* A block of a candidate that was read: it is there, and is the size      *)
(* probing finds if no more went wrong than the question for the size.     *)
LEMMA CandidateRead ==
  ASSUME TInv, ProbeInv, Asked, stage = "probe", UNCHANGED device, Fault \/ NoFault,
         SizeKnown(Candidates[cand])
  PROVE  ProbeInv' /\ SizeRight'
<1>1. size' = Candidates[cand] /\ stage' # "probe"
  BY DEF SizeKnown, Area, ReadRange
<1>2. Candidates[cand] <= flash_size
  <2>1. ReadAddr = Candidates[cand] - BlockSize /\ ReadLen = BlockSize
    BY DEF ReadAddr, ReadLen
  <2>2. Candidates[cand] \in Nat /\ flash_size \in Nat
    BY CandidatesAssumption, FlashSizesAssumption DEF TInv, HostInv, DevInv
  <2> QED BY <2>1, <2>2, BlockSizeAssumption DEF Asked
<1>3. Met = ToProbe => Probed = Candidates[cand]
  BY <1>2, ProbedIs DEF ProbeInv
<1>4. Met \in Nat /\ Met' \in {Met, Met + 1} /\ Met >= ToProbe
  BY MetCounts DEF ProbeInv
<1>5. Probed' = Probed /\ flash_size' = flash_size /\ supports_size_cmd' = supports_size_cmd
  BY DEF Probed, device
<1>6. supports_size_cmd \in BOOLEAN
  BY DEF TInv, DevInv
<1>7. SizeRight'
  BY <1>1, <1>3, <1>4, <1>5, <1>6 DEF ToProbe, SizeRight
<1> QED BY <1>1, <1>7 DEF ProbeInv

(* A reply that is no acknowledgement of what was asked.                   *)
LEMMA AnswerMissed ==
  ASSUME TInv, ProbeInv, SizeRight, UNCHANGED device, NEW r, ReplyRead(r),
         ~obd_is_ack(r, GET_FLASH_SIZE), ~obd_is_ack(r, READ_FLASH),
         \/ Fault
         \/ NoFault /\ AnswerInv /\ reply = <<>>
  PROVE  ProbeInv' /\ SizeRight'
<1>1. CASE VersionRead(r)
  BY <1>1, SizeRightKept DEF VersionRead, Ask, ProbeInv
<1>2. CASE SizeRead(r)
  <2>1. stage = "size" /\ stage' = "probe" /\ cand' = 1 /\ size' = size /\ step = "ack"
    BY <1>2 DEF SizeRead, Ask, ReplyRead
  <2>2. Met' \in Nat /\ (Fault => Met' >= 1)
    BY MetCounts
  <2>3. supports_size_cmd => Fault
    BY <2>1 DEF AnswerInv
  <2>4. Met' >= ToProbe'
    BY <2>2, <2>3 DEF ToProbe, device
  <2>5. \A i \in 1..(cand' - 1) : Candidates[i] > flash_size'
    BY <2>1
  <2> QED BY <2>1, <2>4, <2>5, SizeRightKept DEF ProbeInv
<1>3. CASE ReadAcked(r)
  <2>1. BlockNotRead /\ stage \in Reading /\ step = "ack"
    BY <1>3 DEF ReadAcked, ReplyRead
  <2>2. CASE Fault
    BY <2>1, <2>2, PassedForFault
  <2>3. CASE NoFault /\ AnswerInv /\ reply = <<>>
    <3>1. ~(ReadAddr + ReadLen <= flash_size)
      BY <2>1, <2>3 DEF AnswerInv, Reading
    <3>2. ReadAddr \in Nat /\ ReadLen \in Nat /\ flash_size \in Nat
      BY ReadAddrNat, ReadLenRange, BlockSizeAssumption, FlashSizesAssumption
         DEF TInv, DevInv
    <3> QED BY <2>1, <2>3, <3>1, <3>2, PassedForSize
  <2> QED BY <2>2, <2>3
<1> QED BY <1>1, <1>2, <1>3 DEF ReplyRead

(* The induction step.                                                     *)
LEMMA SizeNext == OneSlot /\ SizeInv /\ [Next]_vars => SizeInv'
<1> SUFFICES ASSUME OneSlot, SizeInv, [Next]_vars
             PROVE  AnswerInv' /\ ProbeInv' /\ SizeRight'
  BY PlaceNext DEF SizeInv
<1>t. TInv /\ SlotInv /\ AnswerInv /\ ProbeInv /\ SizeRight /\ DevInv
  BY DEF SizeInv, SInv, TInv
<1>a. step' # "ack" => AnswerInv'
  BY DEF AnswerInv
<1>n. ASSUME BlockNotRead \/ End("failed"), UNCHANGED device, Fault
      PROVE  AnswerInv' /\ ProbeInv' /\ SizeRight'
  BY <1>n, <1>t, <1>a, NoAck, PassedForFault DEF Ended
<1>k. ASSUME UNCHANGED <<stage, cand, size, device>>, NoFault
      PROVE  ProbeInv' /\ SizeRight'
  <2>1. ToProbe' = ToProbe /\ Met' = Met /\ flash_size' = flash_size
    BY <1>k, <1>t, MetCounts DEF ToProbe, device
  <2> QED BY <1>k, <1>t, <2>1, SizeRightKept DEF ProbeInv
<1>0. CASE UNCHANGED vars
  <2>1. UNCHANGED <<stage, step, cand, size, base, total, buf, device, reply>> /\ NoFault
    BY <1>0 DEF vars, hostVars, devVars, NoFault
  <2>2. AnswerInv'
    BY <2>1, <1>t DEF AnswerInv, ReadAddr, ReadLen, device
  <2> QED BY <2>1, <2>2, <1>k
<1>1. CASE SendCommand
  <2>1. UNCHANGED <<stage, cand, size, device>> /\ NoFault
    BY <1>1, CommandReply DEF SendCommand, CommandWritten
  <2> QED BY <1>1, <1>t, <1>k, <2>1, CommandAnswered
<1>2. CASE CommandFails
  <2>1. UNCHANGED device
    BY <1>2, CommandReply DEF CommandFails, devVars
  <2> QED BY <1>2, <2>1, <1>n DEF CommandFails, CommandNotWritten
<1>3. CASE ReceiveReply
  <2>1. reply # <<>> /\ UNCHANGED device /\ ReplyRead(Head(reply)) /\ NoFault /\ step = "ack"
    BY <1>3 DEF ReceiveReply, TakeReply, ReplyRead
  <2>2. AnswerInv'
    BY <2>1, <1>a, NoAck
  <2>3. CASE stage = "version"
    <3>1. size' = size /\ stage' = "size"
      BY <2>1, <2>3 DEF ReplyRead, VersionRead, SizeRead, ReadAcked, Reading, Ask
    <3> QED BY <1>t, <2>1, <2>2, <3>1, SizeRightKept DEF ProbeInv
  <2>4. CASE stage = "size"
    <3>1. supports_size_cmd /\ Head(reply) = Ack(GET_FLASH_SIZE, flash_size)
      BY <1>t, <2>1, <2>4 DEF AnswerInv
    <3>2. SizeKnown(flash_size)
      BY <2>1, <2>4, <3>1
         DEF ReplyRead, VersionRead, SizeRead, ReadAcked, Reading, obd_is_ack, Ack
    <3>3. size' = flash_size /\ stage' # "probe" /\ supports_size_cmd' /\ flash_size' = flash_size
      BY <3>1, <3>2, <2>1 DEF SizeKnown, Area, ReadRange, device
    <3>4. ProbeInv' /\ SizeRight'
      BY <3>3 DEF ProbeInv, SizeRight
    <3> QED BY <2>2, <3>4
  <2>5. CASE stage \in Reading
    <3>1. Head(reply) = Ack(READ_FLASH, 0)
      BY <1>t, <2>1, <2>5 DEF AnswerInv, Reading
    <3>2. UNCHANGED <<stage, cand, size>>
      BY <2>1, <2>5, <3>1
         DEF ReplyRead, VersionRead, SizeRead, ReadAcked, Reading, obd_is_ack, Ack
    <3> QED BY <2>1, <2>2, <3>2, <1>k
  <2> QED BY <2>1, <2>2, <2>3, <2>4, <2>5 DEF ReplyRead, VersionRead, SizeRead, ReadAcked
<1>4. CASE ReplyGarbled \/ ReplyLost \/ ReplyLate \/ NoReply
  <2>1. /\ ~obd_is_ack(Nak, READ_FLASH) /\ ~obd_is_ack(Silence, READ_FLASH)
        /\ ~obd_is_ack(Nak, GET_FLASH_SIZE) /\ ~obd_is_ack(Silence, GET_FLASH_SIZE)
    BY DEF obd_is_ack, Nak, Silence, READ_FLASH, GET_FLASH_SIZE
  <2>2. UNCHANGED device /\ (Fault \/ (NoFault /\ reply = <<>>))
        /\ (ReplyRead(Nak) \/ ReplyRead(Silence))
    BY <1>4 DEF ReplyGarbled, ReplyLost, ReplyLate, NoReply, TakeReply, devVars
  <2>3. AnswerInv'
    BY <2>2, <1>a, NoAck
  <2>4. ProbeInv' /\ SizeRight'
    BY <2>1, <2>2, <1>t, AnswerMissed
  <2> QED BY <2>3, <2>4
<1>5. CASE ReplyFails \/ DataLost \/ DataLate \/ OutOfMemory
  <2>1. UNCHANGED device /\ Fault /\ (BlockNotRead \/ End("failed"))
    BY <1>5 DEF ReplyFails, ReadFailed, DataLost, DataLate, DataNotRead, OutOfMemory, NoBuffer,
       TakeReply, TakeData, devVars
  <2> QED BY <2>1, <1>n
<1>6. CASE ReceiveData \/ DataCorrupt
  <2>1. /\ UNCHANGED device
        /\ \E p, intact : DataRead(p, intact) /\ ((NoFault /\ intact = TRUE) \/ Fault)
    BY <1>6 DEF ReceiveData, DataCorrupt, TakeData
  <2>2. PICK p, intact : DataRead(p, intact) /\ ((NoFault /\ intact = TRUE) \/ Fault)
    BY <2>1
  <2>3. AnswerInv' /\ step = "bulk" /\ Asked
    BY <2>2, <1>a, <1>t, NoAck DEF DataRead, SlotInv
  <2>4. CASE job.strict /\ ~intact
    BY <2>1, <2>2, <2>4, <1>n DEF DataRead
  <2>5. CASE BlockRead(SubSeq(p, 1, ReadLen))
    <3>1. CASE stage = "probe" /\ SizeKnown(Candidates[cand])
      BY <2>1, <2>2, <2>3, <3>1, <1>t, CandidateRead
    <3>2. CASE stage # "probe"
      <4>1. size' = size /\ stage' # "probe"
        BY <2>5, <3>2 DEF BlockRead, End, RangeRead
      <4> QED BY <2>1, <2>2, <2>3, <4>1, <1>t, SizeRightKept DEF ProbeInv
    <3> QED BY <2>5, <3>1, <3>2 DEF BlockRead
  <2> QED BY <2>2, <2>4, <2>5 DEF DataRead
<1>7. ASSUME NEW j \in Jobs, Start(j) PROVE AnswerInv' /\ ProbeInv' /\ SizeRight'
  <2>1. size' = 0 /\ stage' # "probe"
    BY <1>7 DEF Start, StartJob, ReadRange
  <2>2. AnswerInv'
    BY <1>7, <1>a, NoAck DEF Start
  <2> QED BY <2>1, <2>2 DEF ProbeInv, SizeRight
<1> QED
  BY <1>0, <1>1, <1>2, <1>3, <1>4, <1>5, <1>6, <1>7 DEF Next, RunStep

(* On the simulated link the size found is the device's own if one answer  *)
(* arrived, and what probing finds where no more went wrong than it takes  *)
(* to start probing, whatever the candidates and whatever earlier runs     *)
(* left behind (device.c:81-103).                                          *)
THEOREM FindsTheSize == ASSUME OneSlot PROVE Spec => []SizeRight
<1>1. Init => SizeInv
  BY TInvInit DEF Init, HostInit, SizeInv, SInv, SlotInv, PlaceInv, DumpInPlace, AnswerInv,
     ProbeInv, SizeRight
<1>2. SizeInv /\ [Next]_vars => SizeInv'
  BY OneSlot, SizeNext
<1>3. SizeInv => SizeRight
  BY DEF SizeInv
<1> QED BY <1>1, <1>2, <1>3, PTL DEF Spec

-----------------------------------------------------------------------------
(* The verdict about the feedback log.                                     *)

(* The first cell of the feedback area is erased if nothing was recorded,  *)
(* and only then.                                                          *)
LEMMA BlankStart ==
  ASSUME DevInv PROVE flash(Feedback).blank <=> recorded = 0
<1>1. /\ Feedback \in Int /\ recorded \in Nat
      /\ FeedbackBlocks * BlockSize \in Nat \ {0}
  BY AreasAssumption, FlashSizesAssumption, CandidatesAssumption, AreaLength
     DEF DevInv, Feedback
<1>2. recorded # 0 => recorded * BlockSize \in Nat \ {0}
  BY <1>1, AreaLength
<1>3. recorded = 0 => recorded * BlockSize = 0
  BY BlockSizeAssumption
<1>4. Feedback < Feedback + FeedbackBlocks * BlockSize
  BY <1>1
<1>5. Erased(Feedback) <=> Feedback >= Feedback + recorded * BlockSize
  BY <1>4 DEF Erased
<1>6. recorded = 0 <=> Feedback >= Feedback + recorded * BlockSize
  BY <1>1, <1>2, <1>3
<1> QED BY <1>5, <1>6 DEF flash, Cell

(* Steps that read no block of a range nor of the feedback area give no    *)
(* verdict about it.                                                       *)
NoVerdict ==
  /\ UNCHANGED <<job, base, total, buf>> \/ buf' = <<>>
  /\ stage' # "empty"
  /\ stage' = "ok" => job'.cmd # "feedback"
  /\ FeedbackRange'

LEMMA NoVerdictKept ==
  ASSUME VInv, NoVerdict, UNCHANGED device
  PROVE  RealInv' /\ FeedbackRange' /\ VerdictRight'
<1>1. \A a : flash(a)' = flash(a)
  BY DEF flash, Erased, Feedback, device
<1>2. RealInv'
  <2>1. CASE UNCHANGED <<job, base, total, buf>>
    BY <1>1, <2>1 DEF VInv, RealInv, flash, Erased, Feedback, device
  <2>2. CASE buf' = <<>>
    BY <2>2 DEF RealInv
  <2> QED BY <2>1, <2>2 DEF NoVerdict
<1> QED BY <1>2 DEF NoVerdict, VerdictRight

(* A block not read, and a failed call, give none.                         *)
LEMMA NotReadVerdict ==
  ASSUME FeedbackRange, BlockNotRead \/ End("failed")
  PROVE  NoVerdict
<1>1. ASSUME NEW s \in {"ok", "failed"}, End(s), s = "ok" => job.cmd = "info"
      PROVE  NoVerdict
  BY <1>1 DEF End, NoVerdict, FeedbackRange
<1>2. CASE stage = "probe" /\ BlockNotRead /\ cand < Len(Candidates)
  BY <1>2 DEF BlockNotRead, Ask, NoVerdict, FeedbackRange
<1>3. CASE stage = "probe" /\ BlockNotRead /\ ~(cand < Len(Candidates))
  BY <1>1, <1>3 DEF BlockNotRead, SizeUnknown
<1>4. CASE stage = "peek" /\ BlockNotRead
  BY <1>1, <1>4 DEF BlockNotRead, FeedbackRange
<1>5. CASE End("failed") \/ (stage = "range" /\ BlockNotRead)
  BY <1>1, <1>5 DEF BlockNotRead
<1> QED BY <1>2, <1>3, <1>4, <1>5 DEF BlockNotRead

(* A size found gives none, and the range for the feedback log begins      *)
(* where the log does (device.c:210-214).                                  *)
LEMMA SizeKnownVerdict ==
  ASSUME HostInv, stage \in {"probe", "size"}, NEW s \in Nat, SizeKnown(s)
  PROVE  NoVerdict
<1>1. size' = s /\ UNCHANGED job
  BY DEF SizeKnown
<1>2. CASE job.cmd = "info" /\ stage' = "peek" /\ step' = "cmd" /\ UNCHANGED <<base, total, buf>>
  BY <1>1, <1>2 DEF NoVerdict, FeedbackRange
<1>3. CASE job.cmd = "feedback" /\ Area(s, FeedbackOffset, FeedbackBlocks)
  <2>1. CASE s < FeedbackOffset
    BY <1>1, <1>3, <2>1 DEF Area, NoVerdict, FeedbackRange
  <2>2. CASE ~(s < FeedbackOffset)
    <3>1. FeedbackBlocks * BlockSize # 0
      BY AreasAssumption, AreaLength
    <3>2. stage' = "range" /\ base' = s - FeedbackOffset /\ buf' = <<>>
      BY <1>3, <2>2, <3>1 DEF Area, ReadRange
    <3>3. s >= FeedbackOffset
      BY <2>2, AreasAssumption
    <3> QED BY <1>1, <3>2, <3>3 DEF NoVerdict, FeedbackRange
  <2> QED BY <2>1, <2>2
<1>4. CASE job.cmd = "dtc-review" /\ Area(s, DtcOffset, DtcBlocks)
  BY <1>1, <1>4 DEF Area, ReadRange, NoVerdict, FeedbackRange
<1>5. CASE /\ job.cmd = "read-flash"
           /\ IF LE32(job.addr) >= s
              THEN stage' = "refused" /\ step' = "rest" /\ UNCHANGED <<base, total, buf>>
              ELSE ReadRange(LE32(job.addr), s - LE32(job.addr))
  BY <1>1, <1>5 DEF ReadRange, NoVerdict, FeedbackRange
<1> QED BY <1>2, <1>3, <1>4, <1>5 DEF SizeKnown

(* No reply gives one: where a block is read, the data is still to come.   *)
LEMMA ReplyVerdict ==
  ASSUME HostInv, FeedbackRange, NEW r \in Replies \cup {Silence}, ReplyRead(r)
  PROVE  NoVerdict
<1>1. CASE VersionRead(r)
  BY <1>1 DEF VersionRead, Ask, NoVerdict, FeedbackRange
<1>2. CASE SizeRead(r)
  <2>1. CASE obd_is_ack(r, GET_FLASH_SIZE)
    <3>1. r.data \in Nat
      BY <2>1, CandidatesAssumption DEF obd_is_ack, Silence, GET_FLASH_SIZE, Replies
    <3> QED BY <1>2, <2>1, <3>1, SizeKnownVerdict DEF SizeRead
  <2>2. CASE ~obd_is_ack(r, GET_FLASH_SIZE)
    BY <1>2, <2>2 DEF SizeRead, Ask, NoVerdict, FeedbackRange
  <2> QED BY <2>1, <2>2
<1>3. CASE ReadAcked(r)
  <2>1. CASE obd_is_ack(r, READ_FLASH)
    BY <1>3, <2>1 DEF ReadAcked, NoVerdict, FeedbackRange, Reading
  <2> QED BY <1>3, <2>1, NotReadVerdict DEF ReadAcked
<1> QED BY <1>1, <1>2, <1>3 DEF ReplyRead

(* Taking a little from a small number wraps around once.                  *)
LEMMA WrapOnce ==
  ASSUME NEW m \in Nat \ {0}, NEW n \in Int, n + m \in 0..(m - 1)
  PROVE  n % m = n + m
  BY SMTT(20)

(* What info peeks at is the first block of the log, if the size is right: *)
(* an address that wraps around is not answered for (main.c:183-187).      *)
LEMMA PeekVerdict ==
  ASSUME VInv, UNCHANGED device, stage = "peek", Asked,
         BlockRead(SubSeq(DataPacket(ReadAddr, ReadLen), 1, ReadLen))
  PROVE  RealInv' /\ FeedbackRange' /\ VerdictRight'
<1> DEFINE p == DataPacket(ReadAddr, ReadLen)
<1>1. TInv /\ HostInv /\ DevInv /\ ReadLen = BlockSize /\ ReadLen \in 1..BlockSize
  BY ReadLenRange DEF VInv, SInv, TInv
<1>2. PICK v \in {"ok", "empty"} :
        End(v) /\ (v = "empty" => SubSeq(p, 1, ReadLen)[1].blank)
  BY DEF BlockRead
<1>3. /\ UNCHANGED <<job, base, total, buf, size>> /\ stage' = v /\ job.cmd = "info"
      /\ flash_size' = flash_size /\ recorded' = recorded
  BY <1>2 DEF End, VInv, FeedbackRange, device
<1>4. RealInv' /\ FeedbackRange'
  BY <1>3 DEF VInv, RealInv, FeedbackRange, flash, Erased, Feedback, device
<1>5. ASSUME size = flash_size, v = "empty" PROVE recorded = 0
  <2>1. /\ size \in 1..(AddrMod - 1) /\ FeedbackOffset \in Nat /\ AddrMod \in Nat \ {0}
        /\ BlockSize \in Nat \ {0} /\ BlockSize <= FeedbackOffset
    <3>1. FeedbackBlocks * BlockSize >= BlockSize
      BY AreasAssumption, BlockSizeAssumption, SMTT(20)
    <3>2. FeedbackBlocks * BlockSize \in Nat
      BY AreasAssumption, AreaLength
    <3>3. AddrMod \in Nat \ {0} /\ BlockSize \in Nat \ {0}
      BY CandidatesAssumption, BlockSizeAssumption
    <3>4. size \in 1..(AddrMod - 1)
      BY <1>1, <1>5, FlashSizesAssumption DEF DevInv
    <3>5. FeedbackOffset \in Nat /\ FeedbackBlocks * BlockSize <= FeedbackOffset
      BY AreasAssumption, <3>3
    <3> HIDE DEF p
    <3> QED BY <3>1, <3>2, <3>3, <3>4, <3>5
  <2>2. ReadAddr = (size - FeedbackOffset) % AddrMod /\ ReadAddr + BlockSize <= size
    BY <1>1, <1>5 DEF ReadAddr, Asked, LE32
  <2>3. p[1] = flash(ReadAddr)
    <3>1. ReadAddr \in Nat
      BY <1>1, ReadAddrNat
    <3>2. p[1] = flash(ReadAddr + 1 - 1)
      BY <1>1, BlockSizeAssumption DEF DataPacket
    <3>3. ReadAddr + 1 - 1 = ReadAddr
      BY <3>1
    <3> QED BY <3>2, <3>3
  <2>4. p[1].blank
    <3>1. p \in Packets
      BY <1>1, PacketTyped, ReadAddrNat, BlockSizeAssumption
    <3>2. SubSeq(p, 1, ReadLen)[1] = p[1]
      BY <1>1, <3>1, PacketPart
    <3> QED BY <1>2, <1>5, <3>2
  <2>5. CASE size >= FeedbackOffset
    <3>1. ReadAddr = size - FeedbackOffset
      BY <2>1, <2>5, <1>5, <1>1, LE32Range DEF ReadAddr
    <3>2. ReadAddr = Feedback
      BY <3>1, <1>5 DEF Feedback
    <3> QED BY <2>3, <2>4, <3>2, <1>1, BlankStart
  <2>6. CASE size < FeedbackOffset
    <3>1. ReadAddr = size - FeedbackOffset + AddrMod
      <4>1. /\ size - FeedbackOffset \in Int /\ size - FeedbackOffset + AddrMod \in 0..(AddrMod - 1)
            /\ FeedbackOffset < AddrMod
        BY <2>1, <2>6, AreasAssumption
      <4> QED BY <2>1, <2>2, <4>1, WrapOnce
    <3>2. FeedbackOffset < AddrMod
      BY <2>1, AreasAssumption
    <3> QED BY <2>1, <2>2, <3>1, <3>2
  <2> QED BY <2>1, <2>5, <2>6
<1>6. VerdictRight'
  BY <1>3, <1>5 DEF VerdictRight
<1> QED BY <1>4, <1>6

(* A block of the range: what a strict run reads is what the flash holds,  *)
(* and the verdict is taken from the first cell of the log                 *)
(* (device.c:215-220).                                                     *)
LEMMA RangeVerdict ==
  ASSUME VInv, UNCHANGED device, stage = "range", Asked, NEW p \in Packets,
         RangeRead(SubSeq(p, 1, ReadLen)),
         job.strict => p = DataPacket(ReadAddr, ReadLen)
  PROVE  RealInv' /\ FeedbackRange' /\ VerdictRight'
<1> DEFINE cells == SubSeq(p, 1, ReadLen)
           n     == ReadLen
<1>1. /\ TInv /\ HostInv /\ DevInv /\ PlaceInv /\ n \in 1..BlockSize /\ Len(buf) \in Nat
      /\ base \in Nat /\ buf \in Seq(CellSet) /\ n \in Nat
  BY ReadLenRange, BlockSizeAssumption DEF VInv, SInv, TInv, HostInv
<1>2. ReadAddr = base + Len(buf)
  BY <1>1, NextAddr
<1>3. cells \in Seq(CellSet) /\ Len(cells) = n /\ \A k \in 1..n : cells[k] = p[k]
  BY <1>1, PacketPart
<1>4. buf' = buf \o cells /\ UNCHANGED <<job, size, base, total>>
  BY DEF RangeRead
<1>5. Len(buf') = Len(buf) + n
  BY <1>1, <1>3, <1>4
<1>6. ASSUME job.strict, NEW k \in 1..Len(buf') PROVE buf'[k] = flash(base + k - 1)
  <2>1. CASE k <= Len(buf)
    <3>1. buf'[k] = buf[k] /\ k \in 1..Len(buf)
      BY <1>1, <1>3, <1>4, <1>6, <2>1
    <3> QED BY <3>1, <1>6 DEF VInv, RealInv
  <2>2. CASE k > Len(buf)
    <3>1. k - Len(buf) \in 1..n /\ k \in Int
      BY <1>1, <1>5, <1>6, <2>2
    <3>2. buf'[k] = p[k - Len(buf)]
      BY <1>1, <1>3, <1>4, <1>5, <1>6, <2>2, <3>1
    <3>3. p[k - Len(buf)] = flash(ReadAddr + (k - Len(buf)) - 1)
      BY <1>1, <1>6, <3>1, BlockSizeAssumption DEF DataPacket
    <3>4. ReadAddr + (k - Len(buf)) - 1 = base + k - 1
      BY <1>1, <1>2, <3>1
    <3> QED BY <3>2, <3>3, <3>4
  <2> QED BY <1>1, <1>5, <1>6, <2>1, <2>2
<1>7. RealInv'
  BY <1>4, <1>6 DEF RealInv, flash, Erased, Feedback, device
<1>8. FeedbackRange'
  BY <1>4 DEF RangeRead, VInv, FeedbackRange
<1>9. ASSUME size = flash_size, job.strict, job.cmd = "feedback"
      PROVE  buf'[1].blank <=> recorded = 0
  <2>1. base = Feedback
    BY <1>9 DEF VInv, FeedbackRange, Feedback
  <2>2. 1 \in 1..Len(buf')
    BY <1>1, <1>5
  <2>3. buf'[1] = flash(base + 1 - 1) /\ base + 1 - 1 = base
    BY <1>1, <1>6, <1>9, <2>2
  <2> QED BY <1>1, <2>1, <2>3, BlankStart
<1>10. VerdictRight'
  <2>1. flash_size' = flash_size /\ recorded' = recorded /\ recorded \in Nat
    BY <1>1 DEF device, DevInv
  <2>2. /\ stage' = "empty" => job.cmd = "feedback" /\ buf'[1].blank
        /\ stage' = "ok" /\ job.cmd = "feedback" => ~buf'[1].blank
    BY DEF RangeRead
  <2>3. ASSUME size' = flash_size', job'.strict
        PROVE  /\ stage' = "empty" => recorded' = 0
               /\ stage' = "ok" /\ job'.cmd = "feedback" => recorded' > 0
    <3>1. job.cmd = "feedback" => (buf'[1].blank <=> recorded = 0)
      BY <1>4, <1>9, <2>1, <2>3
    <3>2. job'.cmd = job.cmd
      BY <1>4
    <3> QED BY <2>1, <2>2, <3>1, <3>2
  <2> QED BY <2>3 DEF VerdictRight
<1> QED BY <1>7, <1>8, <1>10

(* The induction step.                                                     *)
LEMMA VerdictNext == OneSlot /\ VInv /\ [Next]_vars => VInv'
<1> SUFFICES ASSUME OneSlot, VInv, [Next]_vars
             PROVE  RealInv' /\ FeedbackRange' /\ VerdictRight'
  BY PlaceNext DEF VInv
<1>t. TInv /\ SlotInv /\ FeedbackRange /\ HostInv /\ DevInv
  BY DEF VInv, SInv, TInv
<1>n. ASSUME BlockNotRead \/ End("failed"), UNCHANGED device
      PROVE  RealInv' /\ FeedbackRange' /\ VerdictRight'
  BY <1>n, <1>t, NotReadVerdict, NoVerdictKept
<1>r. ASSUME NEW r \in Replies \cup {Silence}, ReplyRead(r), UNCHANGED device
      PROVE  RealInv' /\ FeedbackRange' /\ VerdictRight'
  BY <1>r, <1>t, ReplyVerdict, NoVerdictKept
<1>0. CASE UNCHANGED vars \/ SendCommand
  <2>1. UNCHANGED <<job, stage, size, base, buf, device>>
    BY <1>0, CommandReply
       DEF vars, hostVars, devVars, SendCommand, CommandWritten
  <2>2. UNCHANGED <<flash_size, recorded>>
    BY <2>1 DEF device
  <2> QED BY <2>1, <2>2 DEF VInv, RealInv, FeedbackRange, VerdictRight, flash, Erased, Feedback
<1>2. CASE CommandFails
  <2>1. UNCHANGED device
    BY <1>2, CommandReply DEF CommandFails, devVars
  <2> QED BY <1>2, <2>1, <1>n DEF CommandFails, CommandNotWritten
<1>3. CASE ReceiveReply
  BY <1>3, <1>r, <1>t, TakeOK DEF ReceiveReply, TakeReply
<1>4. CASE ReplyGarbled \/ ReplyLost \/ ReplyLate \/ NoReply
  <2>1. Nak \in Replies
    BY <1>t, AcksTyped
  <2>2. UNCHANGED device /\ (ReplyRead(Nak) \/ ReplyRead(Silence))
    BY <1>4 DEF ReplyGarbled, ReplyLost, ReplyLate, NoReply, TakeReply, devVars
  <2> QED BY <2>1, <2>2, <1>r
<1>5. CASE ReplyFails \/ DataLost \/ DataLate \/ OutOfMemory
  <2>1. UNCHANGED device /\ (BlockNotRead \/ End("failed"))
    BY <1>5 DEF ReplyFails, ReadFailed, DataLost, DataLate, DataNotRead, OutOfMemory, NoBuffer,
       TakeReply, TakeData, devVars
  <2> QED BY <2>1, <1>n
<1>6. CASE ReceiveData \/ DataCorrupt
  <2>1. /\ UNCHANGED device /\ step = "bulk" /\ pending_read # <<>>
    BY <1>6 DEF ReceiveData, DataCorrupt, TakeData, DataRead
  <2>2. Asked
    BY <2>1, <1>t DEF SlotInv
  <2>3. PICK p \in Packets, intact \in BOOLEAN :
          DataRead(p, intact) /\ (intact => p = DataPacket(ReadAddr, ReadLen))
    <3>1. CASE ReceiveData
      <4>1. Head(pending_read) = DataPacket(ReadAddr, ReadLen)
        BY <2>2 DEF Asked
      <4>2. Head(pending_read) \in Packets /\ DataRead(Head(pending_read), TRUE)
        BY <1>t, <3>1, TakeOK DEF ReceiveData
      <4> QED BY <4>1, <4>2
    <3>2. CASE DataCorrupt
      <4>1. PICK b \in BOOLEAN : DataRead([k \in 1..BlockSize |-> Junk(b)], FALSE)
        BY <3>2 DEF DataCorrupt
      <4>2. [k \in 1..BlockSize |-> Junk(b)] \in Packets
        BY DEF Junk, Cell, CellSet, Packets
      <4> QED BY <4>1, <4>2
    <3> QED BY <1>6, <3>1, <3>2
  <2>4. CASE job.strict /\ ~intact
    BY <2>1, <2>3, <2>4, <1>n DEF DataRead
  <2>5. CASE ~(job.strict /\ ~intact)
    <3>0. BlockRead(SubSeq(p, 1, ReadLen)) /\ (job.strict => p = DataPacket(ReadAddr, ReadLen))
      BY <2>3, <2>5 DEF DataRead
    <3>1. CASE stage = "probe" /\ SizeKnown(Candidates[cand])
      <4>1. Candidates[cand] \in Nat
        BY <1>t, CandidatesAssumption DEF HostInv
      <4> QED BY <4>1, <2>1, <3>1, <1>t, SizeKnownVerdict, NoVerdictKept
    <3>2. CASE stage = "peek" /\ job.strict
      BY <2>1, <2>2, <3>0, <3>2, PeekVerdict
    <3>3. CASE stage = "peek" /\ ~job.strict
      <4>1. PICK v \in {"ok", "empty"} : End(v)
        BY <3>0, <3>3 DEF BlockRead
      <4> QED BY <4>1, <3>3, <2>1 DEF End, VInv, RealInv, FeedbackRange, VerdictRight
    <3>4. CASE stage = "range"
      BY <2>1, <2>2, <3>0, <3>4, RangeVerdict DEF BlockRead
    <3> QED BY <3>0, <3>1, <3>2, <3>3, <3>4 DEF BlockRead
  <2> QED BY <2>4, <2>5
<1>7. ASSUME NEW j \in Jobs, Start(j) PROVE RealInv' /\ FeedbackRange' /\ VerdictRight'
  <2>1. NoVerdict /\ UNCHANGED device
    BY <1>7, JobsAssumption
       DEF Start, StartJob, ReadRange, NoVerdict, FeedbackRange, devVars, JobSet
  <2> QED BY <2>1, NoVerdictKept
<1> QED
  BY <1>0, <1>2, <1>3, <1>4, <1>5, <1>6, <1>7 DEF Next, RunStep

(* On the simulated link a strict run that knows the size says "no         *)
(* feedback data" exactly when nothing was recorded, whatever the layout   *)
(* and the faults (device.c:210-220).                                      *)
THEOREM VerdictIsTrue == ASSUME OneSlot PROVE Spec => []VerdictRight
<1>1. Init => VInv
  BY TInvInit DEF Init, HostInit, VInv, SInv, SlotInv, PlaceInv, DumpInPlace, RealInv,
     FeedbackRange, VerdictRight
<1>2. VInv /\ [Next]_vars => VInv'
  BY OneSlot, VerdictNext
<1>3. VInv => VerdictRight
  BY DEF VInv
<1> QED BY <1>1, <1>2, <1>3, PTL DEF Spec
=============================================================================
