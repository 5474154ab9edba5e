---------------------------- MODULE ReadoutHost -----------------------------
(***************************************************************************)
(* The commands info, feedback, dtc-review and read-flash of openphix-tool *)
(* (main.c, on top of obd_get_flash_size, obd_read_flash and               *)
(* obd_read_flash_range of device.c) as a machine that stops at every call *)
(* into the transport.  stage is what is being asked for, step the         *)
(* position in the exchange that asks for it.                              *)
(***************************************************************************)
EXTENDS FlashLayout

VARIABLES
  job,     (* the command line: command, -a, -l (-1: to the end), --strict *)
  stage,
  step,
  cand,    (* probe: index of the candidate being tried                    *)
  size,    (* flash size found, 0 if not known                             *)
  base,    (* range: where it begins                                       *)
  total,   (* range: how long it is                                        *)
  buf      (* range: the cells read so far                                 *)

hostVars == <<job, stage, step, cand, size, base, total, buf>>

Commands == {"info", "feedback", "dtc-review", "read-flash"}
Ended    == {"idle", "ok", "empty", "refused", "failed"}
Reading  == {"probe", "peek", "range"}
Stages   == Ended \cup Reading \cup {"version", "size"}

HostInit ==
  /\ job = [cmd |-> "info", addr |-> 0, len |-> -1, strict |-> FALSE]
  /\ stage = "idle"
  /\ step = "rest"
  /\ cand = 1
  /\ size = 0
  /\ base = 0
  /\ total = 0
  /\ buf = <<>>

-----------------------------------------------------------------------------
(* Control flow of the commands.                                           *)

Ask(s) == stage' = s /\ step' = "cmd" /\ UNCHANGED <<job, base, total, buf>>
End(s) == stage' = s /\ step' = "rest" /\ UNCHANGED <<job, cand, size, base, total, buf>>

ReadRange(a, n) ==
  /\ base' = a
  /\ total' = n
  /\ buf' = <<>>
  /\ stage' = IF n = 0 THEN "ok" ELSE "range"
  /\ step' = IF n = 0 THEN "rest" ELSE "cmd"

(* read-flash with a length asks nobody for the size of the flash.         *)
StartJob(j) ==
  /\ stage \in Ended
  /\ job' = j
  /\ cand' = 1
  /\ size' = 0
  /\ IF j.cmd = "read-flash" /\ j.len >= 0
     THEN ReadRange(LE32(j.addr), j.len)
     ELSE /\ stage' = IF j.cmd = "info" THEN "version" ELSE "size"
          /\ step' = "cmd"
          /\ base' = 0 /\ total' = 0 /\ buf' = <<>>

Area(s, offset, blocks) ==
  IF s < offset
  THEN stage' = "failed" /\ step' = "rest" /\ UNCHANGED <<base, total, buf>>
  ELSE ReadRange(s - offset, blocks * BlockSize)

(* Mutant: the length of the rest does not leave out what is before -a.    *)
SizeKnown_WholeSize(s) ==
  /\ size' = s
  /\ \/ job.cmd = "info" /\ stage' = "peek" /\ step' = "cmd" /\ UNCHANGED <<base, total, buf>>
     \/ job.cmd = "feedback" /\ Area(s, FeedbackOffset, FeedbackBlocks)
     \/ job.cmd = "dtc-review" /\ Area(s, DtcOffset, DtcBlocks)
     \/ /\ job.cmd = "read-flash"
        /\ IF LE32(job.addr) >= s
           THEN stage' = "refused" /\ step' = "rest" /\ UNCHANGED <<base, total, buf>>
           ELSE ReadRange(LE32(job.addr), s)
  /\ UNCHANGED <<job, cand>>

SizeKnown(s) ==
  /\ size' = s
  /\ \/ job.cmd = "info" /\ stage' = "peek" /\ step' = "cmd" /\ UNCHANGED <<base, total, buf>>
     \/ job.cmd = "feedback" /\ Area(s, FeedbackOffset, FeedbackBlocks)
     \/ job.cmd = "dtc-review" /\ Area(s, DtcOffset, DtcBlocks)
     \/ /\ job.cmd = "read-flash"
        /\ IF LE32(job.addr) >= s
           THEN stage' = "refused" /\ step' = "rest" /\ UNCHANGED <<base, total, buf>>
           ELSE ReadRange(LE32(job.addr), s - LE32(job.addr))
  /\ UNCHANGED <<job, cand>>

(* info says "unknown" and is content.                                     *)
SizeUnknown == End(IF job.cmd = "info" THEN "ok" ELSE "failed")

-----------------------------------------------------------------------------
(* obd_read_flash: what it asks for, and its two ways to return.           *)

(* Mutant: the probe reads where every flash has a block.                  *)
ReadAddr_FirstBlock ==
  IF stage = "probe" THEN 0
  ELSE IF stage = "peek" THEN LE32(size - FeedbackOffset)
  ELSE LE32(base + Len(buf))

ReadAddr ==
  IF stage = "probe" THEN Candidates[cand] - BlockSize
  ELSE IF stage = "peek" THEN LE32(size - FeedbackOffset)
  ELSE LE32(base + Len(buf))

(* Mutant: the last block of a range is asked for in full.                 *)
ReadLen_AlwaysFull == BlockSize

ReadLen ==
  IF stage = "range" /\ total - Len(buf) < BlockSize THEN total - Len(buf) ELSE BlockSize

(* Mutant: the verdict is taken from the block read last.                  *)
RangeRead_LastBlock(cells) ==
  /\ buf' = buf \o cells
  /\ IF Len(buf') < total
     THEN stage' = "range" /\ step' = "cmd"
     ELSE /\ stage' = IF job.cmd = "feedback" /\ cells[1].blank THEN "empty" ELSE "ok"
          /\ step' = "rest"
  /\ UNCHANGED <<job, cand, size, base, total>>

(* Erased flash where the feedback log begins means there is none.         *)
RangeRead(cells) ==
  /\ buf' = buf \o cells
  /\ IF Len(buf') < total
     THEN stage' = "range" /\ step' = "cmd"
     ELSE /\ stage' = IF job.cmd = "feedback" /\ buf'[1].blank THEN "empty" ELSE "ok"
          /\ step' = "rest"
  /\ UNCHANGED <<job, cand, size, base, total>>

BlockRead(cells) ==
  \/ stage = "probe" /\ SizeKnown(Candidates[cand])
  \/ stage = "peek" /\ End(IF cells[1].blank THEN "empty" ELSE "ok")
  \/ stage = "range" /\ RangeRead(cells)

(* Mutant: a candidate that cannot be read is tried for ever.              *)
BlockNotRead_Again ==
  \/ stage = "probe" /\ Ask("probe") /\ UNCHANGED <<cand, size>>
  \/ stage = "peek" /\ End("ok")
  \/ stage = "range" /\ End("failed")

(* A candidate that cannot be read is too large, whatever the reason; info *)
(* does without the feedback area; a range is abandoned.                   *)
BlockNotRead ==
  \/ /\ stage = "probe"
     /\ IF cand < Len(Candidates)
        THEN Ask("probe") /\ cand' = cand + 1 /\ UNCHANGED size
        ELSE SizeUnknown
  \/ stage = "peek" /\ End("ok")
  \/ stage = "range" /\ End("failed")

-----------------------------------------------------------------------------
(* Returns of the transport calls.                                         *)

HostCommand ==
  IF stage = "version" THEN Command(GET_VERSION, 0, 0)
  ELSE IF stage = "size" THEN Command(GET_FLASH_SIZE, 0, 0)
  ELSE Command(READ_FLASH, ReadAddr, ReadLen)

CommandWritten ==
  /\ step = "cmd"
  /\ step' = "ack"
  /\ UNCHANGED <<job, stage, cand, size, base, total, buf>>

CommandNotWritten ==
  /\ step = "cmd"
  /\ IF stage \in Reading THEN BlockNotRead ELSE End("failed")

(* read_cmd returned r, Silence when it timed out.                         *)
VersionRead(r) ==
  stage = "version" /\ Ask("size") /\ UNCHANGED <<cand, size>>

(* Mutants: any reply is taken for the size; an old device has none.       *)
SizeRead_AnyReply(r) ==
  /\ stage = "size"
  /\ IF r # Silence
     THEN SizeKnown(r.data)
     ELSE Ask("probe") /\ cand' = 1 /\ UNCHANGED size

SizeRead_NoProbe(r) ==
  /\ stage = "size"
  /\ IF obd_is_ack(r, GET_FLASH_SIZE) THEN SizeKnown(r.data) ELSE SizeUnknown

SizeRead(r) ==
  /\ stage = "size"
  /\ IF obd_is_ack(r, GET_FLASH_SIZE)
     THEN SizeKnown(r.data)
     ELSE Ask("probe") /\ cand' = 1 /\ UNCHANGED size

ReadAcked(r) ==
  /\ stage \in Reading
  /\ IF obd_is_ack(r, READ_FLASH)
     THEN step' = "bulk" /\ UNCHANGED <<job, stage, cand, size, base, total, buf>>
     ELSE BlockNotRead

ReplyRead(r) ==
  step = "ack" /\ (VersionRead(r) \/ SizeRead(r) \/ ReadAcked(r))

ReadFailed ==
  /\ step = "ack"
  /\ IF stage \in Reading THEN BlockNotRead ELSE End("failed")

(* Mutant: only the length of a data packet is checked.                    *)
DataRead_NoChecksum(pkt, intact) ==
  step = "bulk" /\ BlockRead(SubSeq(pkt, 1, ReadLen))

(* read_bulk returned a whole packet.  Its checksum matters in strict mode *)
(* only, and nothing in it says which address it is from.                  *)
DataRead(pkt, intact) ==
  /\ step = "bulk"
  /\ IF job.strict /\ ~intact THEN BlockNotRead ELSE BlockRead(SubSeq(pkt, 1, ReadLen))

DataNotRead == step = "bulk" /\ BlockNotRead

(* malloc of the buffer a range is read into.                              *)
NoBuffer ==
  /\ stage = "range" /\ step = "cmd" /\ buf = <<>>
  /\ End("failed")
=============================================================================
