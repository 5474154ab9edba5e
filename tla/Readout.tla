------------------------------ MODULE Readout -------------------------------
(***************************************************************************)
(* Reading the scan tool's external flash: ReadoutHost and FlashDevice     *)
(* joined by a transport that may fail at every transfer.                  *)
(***************************************************************************)
EXTENDS ReadoutHost, FlashDevice

CONSTANTS
  Jobs,         (* command lines the tool may be started with              *)
  MaxRuns,      (* bound: runs of the tool against this device             *)
  MaxFaults     (* bound: transfers that go wrong over all runs            *)

JobSet == [cmd : Commands, addr : Nat, len : Nat \cup {-1}, strict : BOOLEAN]

ASSUME JobsAssumption   == Jobs \subseteq JobSet
ASSUME BoundsAssumption == MaxRuns \in Nat /\ MaxFaults \in Nat

VARIABLES
  runs,         (* runs started so far                                     *)
  faults,       (* transfers that may still go wrong                       *)
  before        (* history: the faults left when the run began             *)

vars == <<hostVars, devVars, runs, faults, before>>

Init ==
  /\ HostInit
  /\ DevInit
  /\ runs = 0
  /\ faults = MaxFaults
  /\ before = MaxFaults

Fault   == faults > 0 /\ faults' = faults - 1 /\ UNCHANGED <<runs, before>>
NoFault == UNCHANGED <<runs, faults, before>>

Start(j) ==
  /\ runs < MaxRuns
  /\ StartJob(j)
  /\ runs' = runs + 1
  /\ before' = faults
  /\ UNCHANGED <<devVars, faults>>

SendCommand  == CommandWritten /\ fake_write_cmd(HostCommand) /\ NoFault
CommandFails ==
  /\ CommandNotWritten
  /\ fake_write_cmd(HostCommand) \/ UNCHANGED devVars
  /\ Fault

TakeReply == reply # <<>> /\ reply' = Tail(reply) /\ UNCHANGED <<device, pending_read>>

ReceiveReply == TakeReply /\ ReplyRead(Head(reply)) /\ NoFault
ReplyGarbled == TakeReply /\ ReplyRead(Nak) /\ Fault
ReplyLost    == TakeReply /\ ReplyRead(Silence) /\ Fault
ReplyLate    == reply # <<>> /\ ReplyRead(Silence) /\ UNCHANGED devVars /\ Fault
NoReply      == reply = <<>> /\ ReplyRead(Silence) /\ UNCHANGED devVars /\ NoFault
ReplyFails   == ReadFailed /\ (TakeReply \/ UNCHANGED devVars) /\ Fault

(* Data packets on the bulk IN endpoint.  An acknowledged READ_FLASH has   *)
(* put one there; ReadoutEnds would fail if the host could wait for none.  *)
TakeData ==
  pending_read # <<>> /\ pending_read' = Tail(pending_read) /\ UNCHANGED <<device, reply>>

ReceiveData == TakeData /\ DataRead(Head(pending_read), TRUE) /\ NoFault
DataCorrupt ==
  /\ TakeData
  /\ \E b \in BOOLEAN : DataRead([k \in 1..BlockSize |-> Junk(b)], FALSE)
  /\ Fault
DataLost    == TakeData /\ DataNotRead /\ Fault
DataLate    == pending_read # <<>> /\ DataNotRead /\ UNCHANGED devVars /\ Fault

OutOfMemory == NoBuffer /\ UNCHANGED devVars /\ Fault

RunStep ==
  \/ SendCommand  \/ CommandFails
  \/ ReceiveReply \/ ReplyGarbled \/ ReplyLost \/ ReplyLate \/ NoReply \/ ReplyFails
  \/ ReceiveData  \/ DataCorrupt  \/ DataLost  \/ DataLate
  \/ OutOfMemory

Next == RunStep \/ \E j \in Jobs : Start(j)

Spec == Init /\ [][Next]_vars

(* Every call into the transport has a timeout.                            *)
FairSpec == Spec /\ WF_vars(RunStep)

-----------------------------------------------------------------------------
TypeOK ==
  /\ job \in JobSet
  /\ stage \in Stages
  /\ step \in {"cmd", "ack", "bulk", "rest"}
  /\ cand \in 1..Len(Candidates)
  /\ size \in Nat
  /\ base \in Nat
  /\ total \in Nat
  /\ Len(buf) <= total
  /\ flash_size \in FlashSizes
  /\ runs \in 0..MaxRuns
  /\ faults \in 0..MaxFaults

Met == before - faults   (* what went wrong in this run                    *)

(* What probing finds on an undisturbed link: the largest candidate that   *)
(* is there, 0 if even the smallest is not.                                *)
Probed ==
  LET there == {i \in 1..Len(Candidates) : Candidates[i] <= flash_size}
  IN  IF there = {} THEN 0
      ELSE Candidates[CHOOSE i \in there : \A j \in there : i <= j]

(* The flash is never thought larger than it is (device.c:81-103), even    *)
(* when replies and data arrive after their timeout and are taken for      *)
(* answers to later questions: candidates are tried from the largest down, *)
(* so an answer that comes late is about a larger one.  Holds for the      *)
(* first run; a later one may meet answers to the earlier.                 *)
NeverTooLarge == runs <= 1 => size <= flash_size

(* The size found is the device's own, or where that cannot be asked for,  *)
(* what probing finds on an undisturbed link.  If the device answers the   *)
(* size command one transfer may go wrong; probing takes every failure for *)
(* "too large" and must not meet any (device.c:81-103).                    *)
SizeRight ==
  size # 0 =>
    /\ supports_size_cmd /\ Met = 0 => size = flash_size
    /\ supports_size_cmd /\ Met = 1 => size \in {flash_size, Probed}
    /\ ~supports_size_cmd /\ Met = 0 => size = Probed

(* A range computed from the size lies inside the flash down to its last,  *)
(* short block, so the device answers for all of it (device.c:135-148).    *)
AsksInside ==
  runs <= 1 /\ stage = "range" /\ size # 0 => ReadAddr + ReadLen <= flash_size

(* Every cell of a range is in its place, whatever earlier reads and runs  *)
(* left undelivered, and a range reported as read is complete.  Only       *)
(* without --strict, and only where a packet arrived damaged, a cell may   *)
(* hold junk instead (device.c:124-148).                                   *)
DumpInPlace ==
  /\ \A k \in 1..Len(buf) :
       buf[k].at = base + k - 1 \/ (buf[k].at = -2 /\ ~job.strict /\ Met > 0)
  /\ stage = "ok" => Len(buf) = total

(* "no feedback data" and its opposite are true, if the size was right and *)
(* no damaged packet was let through (device.c:210-220).                   *)
VerdictRight ==
  size = flash_size /\ job.strict =>
    /\ stage = "empty" => recorded = 0
    /\ stage = "ok" /\ job.cmd = "feedback" => recorded > 0

(* Every readout comes to an end, probing included.                        *)
ReadoutEnds == (stage \notin Ended) ~> (stage \in Ended)

Feasible(j) ==
  LET s == IF supports_size_cmd THEN flash_size ELSE Probed
  IN  CASE j.cmd = "info"       -> TRUE
        [] j.cmd = "feedback"   -> s >= FeedbackOffset
        [] j.cmd = "dtc-review" -> s >= DtcOffset
        [] j.cmd = "read-flash" -> IF j.len < 0 THEN LE32(j.addr) < s
                                   ELSE LE32(j.addr) + j.len <= flash_size

(* A readout that meets no fault gives what was asked for if it is there,  *)
(* whatever the runs before it left behind and whether or not the device   *)
(* can tell its size (device.c:81-148).                                    *)
CleanReadSucceeds ==
  (stage \notin Ended /\ before = 0 /\ Feasible(job)) ~> (stage \in {"ok", "empty"})

(* What main.c:523 reports, "wrote %ld bytes from 0x%lx", and what -a asks *)
(* for: the data written begins at the address given.                      *)
DumpFromAddress ==
  stage = "ok" /\ job.cmd = "read-flash" /\ total > 0 => base = job.addr
=============================================================================
