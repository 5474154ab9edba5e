------------------------------- MODULE Update -------------------------------
(***************************************************************************)
(* A firmware update: the host of UpdateHost and the device of FakeDevice  *)
(* joined by a transport that may fail.  Every transfer is an action of    *)
(* its own, so a fault can fall between any two of them.  The same device  *)
(* sees several runs of the tool one after the other, each with its own    *)
(* options, as when a user tries again after a failure.                    *)
(***************************************************************************)
EXTENDS UpdateHost, FakeDevice

CONSTANTS
  RunOptions,   (* the options a run may be started with                   *)
  MaxRuns,      (* bound: runs of the tool against this device             *)
  MaxFaults     (* bound: transfers that go wrong over all runs            *)

ASSUME RunOptionsAssumption == RunOptions \subseteq Options
ASSUME BoundsAssumption     == MaxRuns \in Nat /\ MaxFaults \in Nat

VARIABLES
  runs,         (* runs started so far                                     *)
  faults,       (* transfers that may still go wrong                       *)
  fresh,        (* history: no reply was unread when the run began         *)
  taken         (* history: slots that were taken when the run began       *)

vars == <<hostVars, devVars, runs, faults, fresh, taken>>

Init ==
  /\ HostInit
  /\ DevInit
  /\ runs = 0
  /\ faults = MaxFaults
  /\ fresh = TRUE
  /\ taken = 0

Fault   == faults > 0 /\ faults' = faults - 1 /\ UNCHANGED <<runs, fresh, taken>>
NoFault == UNCHANGED <<runs, faults, fresh, taken>>

(* The user starts the tool; replies left from an earlier run are still    *)
(* there.                                                                  *)
Start(o) ==
  /\ runs < MaxRuns
  /\ StartRun(o)
  /\ runs' = runs + 1
  /\ installed' = {} /\ dropped' = {}
  /\ fresh' = (reply = <<>>)
  /\ taken' = Len(mcu_images)
  /\ UNCHANGED <<version, upload_kind, upload, upload_len, pending, announced,
                 mcu_images, ext_image, finished, error, reply, faults>>

-----------------------------------------------------------------------------
(* Commands on the interrupt OUT endpoint.                                 *)
SendCommand == CommandWritten /\ fake_write_cmd(HostCommand) /\ NoFault

(* A short or failed write, whether or not the device got the packet.      *)
CommandFails ==
  /\ CommandNotWritten
  /\ fake_write_cmd(HostCommand) \/ UNCHANGED devVars
  /\ Fault

(* Replies on the interrupt IN endpoint.                                   *)
TakeReply == reply # <<>> /\ reply' = Tail(reply) /\ UNCHANGED <<version, devState>>

ReceiveReply == TakeReply /\ ReplyRead(Head(reply)) /\ NoFault
ReplyGarbled == TakeReply /\ ReplyRead(Nak) /\ Fault
ReplyLost    == TakeReply /\ ReplyRead(Silence) /\ Fault
ReplyLate    == reply # <<>> /\ ReplyRead(Silence) /\ UNCHANGED devVars /\ Fault
NoReply      == reply = <<>> /\ ReplyRead(Silence) /\ UNCHANGED devVars /\ NoFault
ReplyFails   == ReadFailed /\ (TakeReply \/ UNCHANGED devVars) /\ Fault

(* Data packets on the bulk OUT endpoint.  The simulated device fails the  *)
(* transfer of a packet it does not take; a device may also take the       *)
(* transfer, drop the data and say so in its reply, which is what the      *)
(* host's check of that reply is for.                                      *)
SendData     == DataWritten /\ accept_bulk(Block(stage, blk)) /\ NoFault
DataRejected == DataNotWritten /\ reject_bulk(TRUE) /\ NoFault
DataCorrupt  == DataNotWritten /\ reject_bulk(FALSE) /\ Fault
DataFails ==
  /\ DataNotWritten
  /\ accept_bulk(Block(stage, blk)) \/ UNCHANGED devVars
  /\ Fault
DataRefused ==
  /\ DataWritten
  /\ pending' = NoBlock
  /\ set_reply(Nak)
  /\ UNCHANGED <<version, upload_kind, upload, upload_len, announced,
                 mcu_images, ext_image, finished, error, installed, dropped>>
  /\ Fault

(* Steps of the host that involve no transfer.                             *)
OutOfMemory == NoPacketBuffer /\ UNCHANGED devVars /\ Fault
RefuseImage == ImageTooLarge /\ UNCHANGED devVars /\ NoFault
Sleep       == Slept /\ UNCHANGED devVars /\ NoFault

RunStep ==
  \/ SendCommand  \/ CommandFails
  \/ ReceiveReply \/ ReplyGarbled \/ ReplyLost \/ ReplyLate \/ NoReply \/ ReplyFails
  \/ SendData     \/ DataRejected \/ DataCorrupt \/ DataFails \/ DataRefused
  \/ OutOfMemory  \/ RefuseImage  \/ Sleep

Next == RunStep \/ \E o \in RunOptions : Start(o)

Spec == Init /\ [][Next]_vars

(* Every call into the transport has a timeout and a run consists of       *)
(* nothing else, so a started run keeps moving; nobody has to start one.   *)
FairSpec == Spec /\ WF_vars(RunStep)

-----------------------------------------------------------------------------
TypeOK ==
  /\ HostTypeOK /\ DevTypeOK
  /\ runs \in 0..MaxRuns /\ faults \in 0..MaxFaults
  /\ fresh \in BOOLEAN /\ taken \in 0..MaxImages

(* Must the bootloader rule make this run send Erase.bin first?            *)
MustErase(o) ==
  /\ ~o.dm100 /\ o.mcu /\ ~o.skip
  /\ o.force \/ version = NoVersion \/ obd_erase_required(version)

Wanted(o) == {i \in {"mcu", "ext"} : o[i]} \cup
             (IF MustErase(o) THEN {"erase"} ELSE {})

(* A reply says which command it is for, not which block or which run, so  *)
(* it can be taken for the reply to a later command (device.c:157-190).    *)
(* That cannot happen where at most one reply is unread at any time (the   *)
(* simulated link), nor in a run that finds none unread.  What strict runs *)
(* promise they promise then: of three runs that meet three faults, over   *)
(* an endpoint that keeps two replies, the last may call a refused block   *)
(* written.                                                                *)
OneReply    == KeepsReplies => Depth = 1
Undisturbed == OneReply \/ fresh

(* The device has a limited number of slots for MCU images and drops, with *)
(* the usual reply, what finds none (fake.c:34).  A run commits three at   *)
(* most: what an earlier run left behind, Erase.bin and its MCU image.     *)
HasRoom == taken + 3 <= MaxImages

IsPartOf(u, i) == Len(u) <= NBlocks(i) /\ u = Prefix(i, Len(u))

(* While an image is being sent, what the device has collected is the      *)
(* beginning of that very image, in order and under the right kind, and    *)
(* the host's block counter is right about how much of it: exactly in      *)
(* strict mode, and otherwise short of one block for each that was refused *)
(* (the device takes none after a hole).  Whatever an earlier, aborted run *)
(* left behind is gone.  device.c:161-195 against fake.c:132-165.          *)
UploadAgrees ==
  step \in {"header", "header_ack", "bulk", "bulk_ack"} =>
    /\ upload_kind = KindOf(stage)
    /\ announced = NBlocks(stage)
    /\ IsPartOf(upload, stage)
    /\ Len(upload) - blk <= (IF step = "bulk_ack" THEN 1 ELSE 0)
    /\ blk - Len(upload) <= (IF opts.strict /\ Undisturbed THEN 0 ELSE MaxFaults - faults)

(* A strict, undisturbed run does not get to the MCU image of a unit whose *)
(* bootloader wants the flash erased first unless the whole of Erase.bin   *)
(* was committed earlier in the same run, whatever happened to the reply   *)
(* to GET_VERSION (device.c:331); and stored, if the run began with room.  *)
EraseFirst ==
  /\ stage \in {"sleep", "mcu", "ext", "finish", "ok"}
  /\ opts.strict /\ Undisturbed /\ MustErase(opts)
  => "erase" \in (IF HasRoom THEN installed ELSE installed \cup dropped)

(* "update successful" is true: every image the run was asked to send is   *)
(* in the device whole, and the external flash holds the new one, if the   *)
(* run began with room; a run that did not may lack what was dropped, and  *)
(* nothing else, and only when all slots are taken.  Holds for strict runs *)
(* that are undisturbed; see OnlyTailLost for the others.                  *)
(* device.c:323-372 against fake.c:32-53.                                  *)
SuccessMeansInstalled ==
  stage = "ok" /\ opts.strict /\ Undisturbed =>
    /\ HasRoom => Wanted(opts) \subseteq installed
    /\ Wanted(opts) \ installed \subseteq dropped \ {"ext"}
    /\ dropped # {} => Len(mcu_images) = MaxImages
    /\ opts.ext => ext_image = Whole("ext")
    /\ upload_kind = NoUpload

(* Without --strict a run may report success although blocks were refused  *)
(* (device.c:185-192).  Then the image is short of its tail and never of   *)
(* its middle, and each missing block was refused: a run that meets no     *)
(* fault needs no --strict.                                                *)
OnlyTailLost ==
  stage = "ok" /\ opts.ext =>
    /\ IsPartOf(ext_image, "ext")
    /\ NBlocks("ext") - Len(ext_image) <= MaxFaults - faults

(* FINISH makes the device apply the upload: no strict run sends it with   *)
(* anything but a whole image, as long as announced, in the device.  In    *)
(* particular a run that failed half way does not finish (device.c:346-372). *)
FinishOnlyWhole ==
  [][finished' # finished /\ opts.strict /\ Undisturbed =>
       \E i \in Images : /\ upload_kind = KindOf(i)
                         /\ upload = Whole(i)
                         /\ announced = Len(upload)]_vars

(* The device never has to complain about the host: fake.c:55-165 sets     *)
(* error for what the transport corrupted, and for a block index out of    *)
(* order only when a run went on after a refused block.                    *)
HostKeepsProtocol ==
  [][error' # error =>
       \/ error' = "checksum"
       \/ error' = "order" /\ ~(opts.strict /\ Undisturbed)]_vars

(* Every run comes to an end: there is no wait without a timeout.          *)
RunEnds == (stage \notin Ended) ~> (stage \in Ended)

Feasible(o) ==
  /\ MustErase(o) => o.erase
  /\ \A i \in Wanted(o) : ~TooManyBlocks(Size[i])

(* Starting over is a cure: whatever state earlier runs left the device    *)
(* in, a run that meets no fault and is given what it needs succeeds.      *)
(* There is no resume; BEGIN discards the rest (fake.c:84-89).             *)
CleanRunSucceeds ==
  (stage = FirstStage(opts) /\ step = "cmd" /\ faults = 0 /\ Feasible(opts))
     ~> (stage = "ok")

(* A single run implements the abstract update: images enter the device    *)
(* whole and in order, and success is reported for all of them or not at   *)
(* all.  A run that is not strict owes nothing (OnlyTailLost is what it    *)
(* still guarantees), nor does one with a device that has no room.         *)
Abs == INSTANCE Install WITH
  status <- IF stage \in Ended THEN stage ELSE "running",
  owed   <- IF opts.strict /\ HasRoom THEN Wanted(opts) ELSE {},
  held   <- installed

ImplementsInstall == Abs!Spec

(* What device.h:17 and README.md:28 say of --strict, that it turns the    *)
(* mismatches the vendor tool ignores into errors: a reply that does not   *)
(* acknowledge what was sent ends the run.  (GET_VERSION is left out: its  *)
(* refusal is an answer, "not supported".)                                 *)
StrictFailsOnMismatch ==
  [][opts.strict /\ stage # "version" /\ ReplyGarbled => stage' = "failed"]_vars
=============================================================================
