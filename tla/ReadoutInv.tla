----------------------------- MODULE ReadoutInv -----------------------------
(***************************************************************************)
(* The inductive invariants behind the safety of a readout, proved in      *)
(* ReadoutProofs.                                                          *)
(***************************************************************************)
EXTENDS Readout

Replies == [ack : Cmds \cup {"nak"}, data : 0..(AddrMod - 1)]
CellSet == [at : Int, blank : BOOLEAN]
Packets == [1..BlockSize -> CellSet]

(* The host's variables have their types and agree on where it is.         *)
HostInv ==
  /\ job \in JobSet
  /\ stage \in Stages
  /\ step \in {"cmd", "ack", "bulk", "rest"}
  /\ cand \in 1..Len(Candidates)
  /\ size \in 0..(AddrMod - 1)
  /\ base \in 0..(AddrMod - 1)
  /\ total \in Nat
  /\ buf \in Seq(CellSet)
  /\ stage \in Ended <=> step = "rest"
  /\ step = "bulk" => stage \in Reading
  /\ Len(buf) <= total
  /\ stage = "range" => Len(buf) < total
  /\ stage \in Stages \ (Ended \cup {"range"}) => buf = <<>> /\ total = 0

DevInv ==
  /\ flash_size \in FlashSizes
  /\ supports_version_cmd \in BOOLEAN
  /\ supports_size_cmd \in BOOLEAN
  /\ recorded \in 0..FeedbackBlocks
  /\ reply \in Seq(Replies)
  /\ pending_read \in Seq(Packets)

CountInv ==
  /\ runs \in 0..MaxRuns
  /\ faults \in 0..MaxFaults
  /\ before \in faults..MaxFaults

TInv == HostInv /\ DevInv /\ CountInv

-----------------------------------------------------------------------------
(* Late answers.  A block is acknowledged only where there is flash, so as *)
(* long as the candidate tried is too large no acknowledgement of a read   *)
(* is under way; and candidates only get smaller.                          *)
Honest == {r \in Replies : r.ack = GET_FLASH_SIZE => r.data = flash_size}
Quiet  == {r \in Honest : r.ack # READ_FLASH}

TooLargeYet ==
  \/ stage \in {"idle", "version", "size"}
  \/ stage = "probe" /\ Candidates[cand] > flash_size

LateInv ==
  /\ size <= flash_size
  /\ reply \in Seq(Honest)
  /\ TooLargeYet => reply \in Seq(Quiet)
  /\ step = "bulk" => ~TooLargeYet

FirstRun == runs = 0 => stage = "idle" /\ reply = <<>>

InsideInv == stage = "range" /\ size # 0 => base + total <= size

LInv == TInv /\ FirstRun /\ InsideInv /\ (runs <= 1 => LateInv)

-----------------------------------------------------------------------------
(* The simulated link, with its one slot for a read: while the host waits  *)
(* for a block and can still get it, the slot holds the block it asked for.*)
OneSlot == ~KeepsReplies

Asked ==
  /\ ReadAddr + ReadLen <= flash_size
  /\ pending_read = <<DataPacket(ReadAddr, ReadLen)>>

SlotInv ==
  step = "bulk" \/ (step = "ack" /\ stage \in Reading /\ reply # <<>>) => Asked

PlaceInv ==
  /\ DumpInPlace
  /\ stage = "range" /\ buf # <<>> => base + Len(buf) <= flash_size

SInv == TInv /\ SlotInv /\ PlaceInv

-----------------------------------------------------------------------------
(* On that link a reply that waits answers the question under way.  So an  *)
(* answer missed is a fault met, and each candidate passed over was too    *)
(* large as long as no more faults were met than it took to start probing. *)
AnswerInv ==
  step = "ack" =>
    reply =
      IF stage = "version"
        THEN IF supports_version_cmd THEN <<Ack(GET_VERSION, VersionText)>> ELSE <<>>
      ELSE IF stage = "size"
        THEN IF supports_size_cmd THEN <<Ack(GET_FLASH_SIZE, flash_size)>> ELSE <<>>
      ELSE IF ReadAddr + ReadLen <= flash_size THEN <<Ack(READ_FLASH, 0)>> ELSE <<>>

ToProbe == IF supports_size_cmd THEN 1 ELSE 0

ProbeInv ==
  stage = "probe" =>
    /\ Met >= ToProbe
    /\ Met = ToProbe => \A i \in 1..(cand - 1) : Candidates[i] > flash_size

SizeInv == SInv /\ AnswerInv /\ ProbeInv /\ SizeRight

(* What a strict run read is what the flash holds, and the feedback range  *)
(* begins where the log does.                                              *)
RealInv ==
  job.strict => \A k \in 1..Len(buf) : buf[k] = flash(base + k - 1)

FeedbackRange ==
  /\ stage = "peek" => job.cmd = "info"
  /\ stage = "range" /\ job.cmd = "feedback" =>
       size >= FeedbackOffset /\ base = size - FeedbackOffset

VInv == SInv /\ RealInv /\ FeedbackRange /\ VerdictRight
=============================================================================
