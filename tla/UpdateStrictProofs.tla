------------------------- MODULE UpdateStrictProofs --------------------------
(***************************************************************************)
(* The safety of strict runs, for every image, every history of runs and   *)
(* faults and every endpoint: in a run that begins with no reply unread,   *)
(* and in every run where the endpoint keeps at most one.  At the end: a   *)
(* single run implements the abstract update.                              *)
(***************************************************************************)
EXTENDS UpdateProofs

-----------------------------------------------------------------------------
(* The replies that wait to be read.                                       *)

(* A number of replies that is at most one is zero or one (a fact the SMT  *)
(* encoding of sequences needs spelled out).                               *)
LEMMA OneIsOne == \A n \in Nat : n <= 1 => n = 0 \/ n = 1
  OBVIOUS

(* The head of a sequence of at most one element is that element, and      *)
(* nothing follows it.                                                     *)
LEMMA AtMostOne ==
  ASSUME NEW S, NEW s \in Seq(S), s # <<>>, Len(s) <= 1
  PROVE  Len(s) = 1 /\ Head(s) = s[1] /\ Tail(s) = <<>>
<1>1. Len(s) \in Nat \ {0}
  BY EmptySeq
<1>2. Len(s) = 1
  BY <1>1, OneIsOne
<1>3. Tail(s) \in Seq(S) /\ Len(Tail(s)) = 0
  BY <1>2
<1>4. Tail(s) = <<>>
  BY <1>3, EmptySeq
<1>5. Head(s) = s[1]
  BY <1>2
<1> QED BY <1>2, <1>4, <1>5

(* The device's answer replaces what was unread, queues up behind it, or   *)
(* is dropped because the endpoint is full (fake.c:9-19).                  *)
LEMMA SetReplyIs ==
  ASSUME reply \in Seq(ReplySet), NEW r \in ReplySet, set_reply(r)
  PROVE  /\ reply' \in {<<r>>, Append(reply, r), reply}
         /\ reply = <<>> => reply' = <<r>>
         /\ reply # <<>> => reply' = <<r>> \/ (reply' # <<>> /\ Head(reply') = Head(reply))
<1>1. CASE reply = <<>>
  BY <1>1, EndpointAssumption DEF set_reply
<1>2. CASE reply # <<>>
  <2>1. reply' \in {<<r>>, Append(reply, r), reply}
    BY DEF set_reply
  <2>2. Append(reply, r) # <<>> /\ Head(Append(reply, r)) = Head(reply)
    <3>1. Len(reply) >= 1
      BY <1>2, EmptySeq
    <3>2. Append(reply, r) \in Seq(ReplySet) /\ Append(reply, r) # <<>>
          /\ Append(reply, r)[1] = reply[1]
      BY <3>1, AppendProperties
    <3> QED BY <3>2, <1>2
  <2> QED BY <1>2, <2>1, <2>2
<1> QED BY <1>1, <1>2

(* An honest answer keeps the unread replies honest, and one of them one.  *)
LEMMA SetReplyQueue ==
  ASSUME reply \in Seq(ReplySet), QueueInv, NEW r \in ReplySet, set_reply(r),
         HonestReply(r), UNCHANGED version
  PROVE  QueueInv'
<1>1. CASE reply' = <<r>>
  <2>1. Len(<<r>>) = 1 /\ <<r>>[1] = r
    OBVIOUS
  <2> QED BY <1>1, <2>1 DEF QueueInv, HonestReply
<1>2. CASE reply' = reply
  BY <1>2 DEF QueueInv, HonestReply
<1>3. CASE reply' = Append(reply, r) /\ reply' # <<r>> /\ reply' # reply
  <2>1. /\ Len(reply') = Len(reply) + 1
        /\ \A n \in 1..Len(reply) : reply'[n] = reply[n]
        /\ reply'[Len(reply) + 1] = r
    BY <1>3, AppendProperties
  <2>2. Len(reply) \in Nat
    OBVIOUS
  <2>3. \A n \in 1..Len(reply') : n \in 1..Len(reply) \/ n = Len(reply) + 1
    BY <2>1, <2>2
  <2>4. (\A n \in 1..Len(reply) : HonestReply(reply[n]))'
    BY <2>1, <2>3 DEF QueueInv, HonestReply
  <2>5. KeepsReplies /\ Len(reply) < Depth
    BY <1>3 DEF set_reply
  <2>6. OneReply => Len(reply') <= 1
    BY <2>1, <2>2, <2>5 DEF OneReply
  <2> QED BY <2>4, <2>6 DEF QueueInv, OneReply
<1> QED BY <1>1, <1>2, <1>3, SetReplyIs

(* Reading a reply keeps the others honest, and leaves none if there was   *)
(* one.                                                                    *)
LEMMA TakeReplyQueue ==
  ASSUME reply \in Seq(ReplySet), QueueInv, TakeReply
  PROVE  /\ QueueInv'
         /\ Len(reply) <= 1 => reply' = <<>>
         /\ HonestReply(Head(reply))
<1>1. reply # <<>> /\ reply' = Tail(reply) /\ version' = version
  BY DEF TakeReply
<1>2. /\ Len(reply) >= 1
      /\ Len(reply') = Len(reply) - 1
      /\ \A n \in 1..Len(reply') : reply'[n] = reply[n + 1]
  BY <1>1, HeadTailProperties, EmptySeq
<1>3. Len(reply) \in Nat
  OBVIOUS
<1>4. (\A n \in 1..Len(reply) : HonestReply(reply[n]))'
  <2>1. \A n \in 1..Len(reply') : n + 1 \in 1..Len(reply)
    BY <1>2, <1>3
  <2> QED BY <1>1, <1>2, <2>1 DEF QueueInv, HonestReply
<1>5. OneReply => Len(reply') <= 1
  BY <1>2, <1>3 DEF QueueInv
<1>6. HonestReply(Head(reply))
  BY <1>1, <1>2 DEF QueueInv
<1>7. Len(reply) <= 1 => reply' = <<>>
  BY <1>1, AtMostOne
<1> QED BY <1>4, <1>5, <1>6, <1>7 DEF QueueInv, OneReply

(* No command makes the replies dishonest, or two of one: the device       *)
(* answers with the command's own acknowledgement, or not (fake.c:55-119). *)
LEMMA WriteCmdQueue ==
  ASSUME DevTypeOK, QueueInv, NEW c \in CommandSet, fake_write_cmd(c)
  PROVE  QueueInv'
<1>0. version' = version /\ reply \in Seq(ReplySet)
  BY DEF fake_write_cmd, DevTypeOK
<1>1. CASE no_reply
  <2>1. reply' = reply \/ reply' = <<>>
    BY <1>1 DEF no_reply
  <2> QED BY <1>0, <2>1 DEF QueueInv, HonestReply
<1>2. ASSUME NEW r \in ReplySet, HonestReply(r), set_reply(r) PROVE QueueInv'
  BY <1>0, <1>2, SetReplyQueue
<1>3. CASE c.cmd = GET_VERSION /\ get_version /\ version # NoVersion
  <2>1. Ack(GET_VERSION, version) \in ReplySet /\ HonestReply(Ack(GET_VERSION, version))
    BY <1>3, AcksTyped DEF HonestReply, Ack, DevTypeOK
  <2> QED BY <1>2, <1>3, <2>1 DEF get_version
<1>4. ASSUME NEW d \in {BEGIN_MCU, BEGIN_DATA, BLOCK, FINISH}, set_reply(Ack(d, 0))
      PROVE  QueueInv'
  <2>1. Ack(d, 0) \in ReplySet /\ HonestReply(Ack(d, 0))
    BY AcksTyped DEF HonestReply, Ack, Cmds, BEGIN_MCU, BEGIN_DATA, BLOCK, FINISH,
                     GET_VERSION
  <2> QED BY <1>2, <1>4, <2>1
<1> QED
  BY <1>1, <1>3, <1>4 DEF fake_write_cmd, get_version, begin, block, finish, UploadKinds

(* Nor does the answer to a data packet (fake.c:132-165).                  *)
LEMMA DataQueue ==
  ASSUME DevTypeOK, QueueInv, NEW r \in {Ack(BLOCK, 0), Nak},
         set_reply(r), UNCHANGED version
  PROVE  QueueInv' /\ (reply = <<>> => reply' = <<r>>)
<1>1. r \in ReplySet /\ HonestReply(r)
  BY AcksTyped DEF HonestReply, Ack, Nak, Cmds, BLOCK, GET_VERSION
<1>2. reply \in Seq(ReplySet)
  BY DEF DevTypeOK
<1> QED BY <1>1, <1>2, SetReplyQueue, SetReplyIs

(* Every step keeps the unread replies honest, and one of them one where   *)
(* the transport keeps no more.                                            *)
LEMMA QueueNext == TInv /\ QueueInv /\ [Next]_vars => QueueInv'
<1> SUFFICES ASSUME TInv, QueueInv, [Next]_vars PROVE QueueInv'
  OBVIOUS
<1>t. HostOK /\ DevTypeOK /\ reply \in Seq(ReplySet)
  BY DEF TInv, TypeOK, HostOK, DevTypeOK
<1>same. ASSUME UNCHANGED <<version, reply>> PROVE QueueInv'
  BY <1>same DEF QueueInv, HonestReply
<1>1. CASE SendCommand \/ CommandFails
  BY <1>1, <1>t, <1>same, HostCommandOK, WriteCmdQueue
     DEF SendCommand, CommandFails, CommandWritten, CommandNotWritten, AtWrite, devVars
<1>2. CASE ReceiveReply \/ ReplyGarbled \/ ReplyLost \/ ReplyLate \/ NoReply \/ ReplyFails
  BY <1>2, <1>t, <1>same, TakeReplyQueue
     DEF ReceiveReply, ReplyGarbled, ReplyLost, ReplyLate, NoReply, ReplyFails, devVars
<1>3. CASE SendData \/ DataFails \/ DataRefused
  BY <1>3, <1>t, <1>same, DataQueue
     DEF SendData, DataFails, DataRefused, accept_bulk, devVars
<1>4. CASE DataRejected \/ DataCorrupt \/ OutOfMemory \/ RefuseImage \/ Sleep
  BY <1>4, <1>same DEF DataRejected, DataCorrupt, reject_bulk, OutOfMemory, RefuseImage,
     Sleep, devVars
<1>5. CASE UNCHANGED vars \/ \E o \in RunOptions : Start(o)
  BY <1>5, <1>same DEF Start, vars, devVars
<1> QED BY <1>1, <1>2, <1>3, <1>4, <1>5 DEF Next, RunStep

-----------------------------------------------------------------------------
(* A run that found no reply unread.                                       *)

(* What ReplyInv says beyond the queue.                                    *)
FreshOnly == /\ fresh => FreshInv
             /\ Undisturbed /\ step \in {"header", "bulk"} => reply = <<>>

(* With nothing to read there is nothing to show.                          *)
LEMMA EmptyFresh == ASSUME reply' = <<>> PROVE FreshOnly'
  BY DEF FreshOnly, FreshInv

(* Nor in a run that is over.                                              *)
LEMMA FailFresh == Fail => FreshOnly'
  BY DEF Fail, Goto, Ended, FreshOnly, FreshInv, Images, CmdStages

(* Where the host goes on after an acknowledgement it read, nothing is     *)
(* left to read: not in a run that found nothing, because an older reply   *)
(* would have been read here and taken for a refusal (device.c:157-190).   *)
LEMMA AckEmpties ==
  ASSUME TInv, ReplyInv, Undisturbed, TakeReply, NEW r, r # Silence,
         \/ step \in {"header_ack", "bulk_ack"}
         \/ stage \in Images /\ step = "ack" /\ obd_is_ack(r, KindOf(stage))
              /\ r \in {Head(reply), Nak}
  PROVE  reply' = <<>>
<1>0. reply \in Seq(ReplySet) /\ QueueInv
  BY DEF TInv, TypeOK, DevTypeOK, ReplyInv
<1>1. Len(reply) <= 1
  <2>1. CASE OneReply
    BY <1>0, <2>1 DEF QueueInv
  <2>2. CASE ~OneReply /\ step \in {"header_ack", "bulk_ack"}
    BY <2>2 DEF ReplyInv, FreshInv, Undisturbed
  <2>3. CASE ~OneReply /\ step \notin {"header_ack", "bulk_ack"}
    <3>1. Head(reply).ack \in UploadKinds
      BY <2>3 DEF obd_is_ack, Nak, KindOf, UploadKinds, BEGIN_MCU, BEGIN_DATA
    <3>2. ~Stale /\ (Len(reply) <= 1 \/ Stale)
      BY <2>3, <3>1 DEF Stale, ReplyInv, FreshInv, Undisturbed
    <3> QED BY <3>2
  <2> QED BY <2>1, <2>2, <2>3
<1> QED BY <1>0, <1>1, TakeReplyQueue

(* Whatever the host makes of a reply, or of none, it is not behind with   *)
(* reading afterwards.                                                     *)
LEMMA ReplyFresh ==
  ASSUME TInv, ReplyInv, UNCHANGED fresh, NEW r, ReplyRead(r),
         \/ TakeReply /\ r \in {Head(reply), Nak, Silence}
         \/ r = Silence /\ UNCHANGED reply
  PROVE  FreshOnly'
<1>0. reply \in Seq(ReplySet) /\ QueueInv
  BY DEF TInv, TypeOK, DevTypeOK, ReplyInv
<1>1. CASE VersionRead(r) \/ FinishRead(r)
  <2>1. /\ \/ stage' \in {"erase", "mcu"} /\ step' = "cmd"
           \/ stage' = "sleep" /\ step' = "rest"
           \/ stage' \in {"ok", "failed"} /\ step' = "rest"
        /\ stage \in CmdStages /\ step = "ack"
    BY <1>1 DEF VersionRead, AfterVersion, FinishRead, Goto, Ended, CmdStages
  <2>2. fresh => reply = <<>> \/ (Len(reply) = 1 /\ Stale)
    BY <2>1 DEF ReplyInv, FreshInv
  <2>3. fresh => reply' = <<>> \/ Stale'
    <3>1. CASE UNCHANGED reply
      BY <2>2, <3>1 DEF Stale
    <3>2. CASE TakeReply
      BY <1>0, <2>2, <3>2, TakeReplyQueue DEF TakeReply
    <3> QED BY <3>1, <3>2
  <2> QED BY <2>1, <2>3 DEF FreshOnly, FreshInv, Images, CmdStages
<1>2. CASE Fail
  BY <1>2, FailFresh
<1>3. CASE BeginRead(r) /\ ~Fail
  <2>1. r # Silence /\ r \in {Head(reply), Nak} /\ TakeReply /\ stage \in Images
        /\ step = "ack" /\ obd_is_ack(r, KindOf(stage))
    BY <1>3 DEF BeginRead, obd_is_ack, Silence, KindOf, BEGIN_MCU, BEGIN_DATA
  <2>2. CASE Undisturbed
    BY <2>1, <2>2, AckEmpties, EmptyFresh
  <2>3. CASE ~Undisturbed
    BY <2>3 DEF FreshOnly, Undisturbed, OneReply
  <2> QED BY <2>2, <2>3
<1>4. CASE (HeaderRead(r) \/ DataRead(r)) /\ ~Fail
  <2>1. r # Silence /\ TakeReply /\ step \in {"header_ack", "bulk_ack"}
    BY <1>4 DEF HeaderRead, DataRead, obd_is_ack, Silence, BLOCK
  <2>2. CASE Undisturbed
    BY <2>1, <2>2, AckEmpties, EmptyFresh
  <2>3. CASE ~Undisturbed
    BY <2>3 DEF FreshOnly, Undisturbed, OneReply
  <2> QED BY <2>2, <2>3
<1> QED BY <1>1, <1>2, <1>3, <1>4 DEF ReplyRead

(* A command is answered by its own acknowledgement: before it there was   *)
(* nothing to read, or before a BEGIN something that is not one            *)
(* (fake.c:55-119).                                                        *)
LEMMA CommandFresh ==
  ASSUME TInv, ReplyInv, UNCHANGED fresh, CommandWritten, fake_write_cmd(HostCommand)
  PROVE  FreshOnly'
<1>0. reply \in Seq(ReplySet) /\ AtWrite /\ UNCHANGED stage
  BY DEF TInv, TypeOK, DevTypeOK, CommandWritten
<1>f. ASSUME step' \notin {"header", "bulk"}, ~fresh PROVE FreshOnly'
  BY <1>f DEF FreshOnly
<1>e. no_reply /\ reply = <<>> => reply' = <<>>
  BY DEF no_reply
<1>1. CASE stage = "version" /\ step = "cmd" /\ get_version
  <2>1. step' = "ack" /\ (fresh => reply = <<>>)
    BY <1>1 DEF CommandWritten, ReplyInv, FreshInv, CmdStages
  <2>2. CASE version = NoVersion
    BY <1>f, <1>e, <1>1, <2>1, <2>2, EmptyFresh DEF get_version
  <2>3. CASE version # NoVersion /\ fresh
    <3>1. Ack(GET_VERSION, version) \in ReplySet
      BY <2>3, AcksTyped DEF TInv, TypeOK, DevTypeOK
    <3>2. reply' = <<Ack(GET_VERSION, version)>>
      BY <1>0, <1>1, <2>1, <2>3, <3>1, SetReplyIs DEF get_version
    <3>3. Len(reply') = 1 /\ Stale'
      BY <3>2 DEF Stale, Ack, UploadKinds, GET_VERSION, BEGIN_MCU, BEGIN_DATA
    <3> QED BY <1>0, <1>1, <2>1, <3>3 DEF FreshOnly, FreshInv, Images, CmdStages
  <2> QED BY <1>f, <2>1, <2>2, <2>3
<1>2. CASE stage \in Images /\ step = "cmd" /\ begin(HostCommand)
  <2>1. step' = "ack" /\ (fresh => reply = <<>> \/ Stale)
    BY <1>2 DEF CommandWritten, ReplyInv, FreshInv
  <2>2. PICK r \in ReplySet : set_reply(r)
    <3>1. HostCommand.cmd \in Cmds
      BY <1>2 DEF HostCommand, obd_build_begin, Command, KindOf, Cmds
    <3> QED BY <1>2, <3>1, AcksTyped DEF begin
  <2>3. fresh => Len(reply') <= 1 \/ Stale'
    <3>1. Len(<<r>>) = 1
      OBVIOUS
    <3> QED BY <1>0, <2>1, <2>2, <3>1, SetReplyIs DEF Stale
  <2> QED BY <1>0, <1>2, <2>1, <2>3 DEF FreshOnly, FreshInv, Images, CmdStages
<1>3. CASE stage \in Images /\ step = "header" /\ block(HostCommand)
  <2>1. step' = "header_ack" /\ (fresh => reply = <<>>)
    BY <1>3 DEF CommandWritten, ReplyInv, Undisturbed
  <2>2. CASE no_reply
    BY <1>f, <1>e, <2>1, <2>2, EmptyFresh
  <2>3. CASE set_reply(Ack(BLOCK, 0)) /\ fresh
    <3>1. reply' = <<Ack(BLOCK, 0)>>
      BY <1>0, <2>1, <2>3, SetReplyIs, AcksTyped DEF Cmds
    <3>2. Len(reply') <= 1
      BY <3>1
    <3> QED BY <1>0, <1>3, <2>1, <3>2 DEF FreshOnly, FreshInv, Images, CmdStages
  <2> QED BY <1>f, <1>3, <2>1, <2>2, <2>3 DEF block
<1>4. CASE stage \in {"erase_finish", "finish"} /\ step = "cmd" /\ finish
  <2>1. step' = "ack" /\ (fresh => reply = <<>>)
    BY <1>4 DEF CommandWritten, ReplyInv, FreshInv, CmdStages
  <2>2. CASE fresh
    <3>1. reply' = <<Ack(FINISH, 0)>>
      BY <1>0, <1>4, <2>1, <2>2, SetReplyIs, AcksTyped DEF finish, Cmds
    <3>2. Len(reply') = 1 /\ Stale'
      BY <3>1 DEF Stale, Ack, UploadKinds, FINISH, BEGIN_MCU, BEGIN_DATA
    <3> QED BY <1>0, <1>4, <2>1, <3>2 DEF FreshOnly, FreshInv, Images, CmdStages
  <2> QED BY <1>f, <2>1, <2>2
<1> QED BY <1>0, <1>1, <1>2, <1>3, <1>4, CommandArrives

(* The answer to a data packet is the only one to read.                    *)
LEMMA DataFresh ==
  ASSUME TInv, ReplyInv, UNCHANGED <<fresh, version>>, DataWritten,
         NEW r \in {Ack(BLOCK, 0), Nak}, set_reply(r)
  PROVE  FreshOnly'
<1>1. step = "bulk" /\ step' = "bulk_ack" /\ UNCHANGED stage /\ stage \in Images
  BY DEF DataWritten, TInv, ControlInv, Sending
<1>2. CASE fresh
  <2>1. reply = <<>>
    BY <1>1, <1>2 DEF ReplyInv, Undisturbed
  <2>2. reply' = <<r>>
    BY <2>1, DataQueue DEF ReplyInv, TInv, TypeOK
  <2>3. Len(reply') <= 1
    BY <2>2
  <2> QED BY <1>1, <2>3 DEF FreshOnly, FreshInv, Images, CmdStages
<1> QED BY <1>1, <1>2 DEF FreshOnly

(* Every step keeps the invariant about unread replies.                    *)
LEMMA ReplyNext == TInv /\ ReplyInv /\ [Next]_vars => ReplyInv'
<1> SUFFICES ASSUME TInv, ReplyInv, [Next]_vars PROVE FreshOnly'
  BY QueueNext DEF ReplyInv, FreshOnly
<1>0. CASE UNCHANGED vars
  BY <1>0 DEF vars, hostVars, devVars, ReplyInv, FreshOnly, FreshInv, Stale, Undisturbed,
     OneReply
<1>1. CASE SendCommand
  BY <1>1, CommandFresh DEF SendCommand, NoFault
<1>2. CASE CommandFails \/ ReplyFails \/ DataRejected \/ DataCorrupt \/ DataFails
           \/ OutOfMemory \/ RefuseImage
  BY <1>2, FailFresh DEF CommandFails, CommandNotWritten, ReplyFails, ReadFailed,
     DataRejected, DataCorrupt, DataFails, DataNotWritten, OutOfMemory,
     NoPacketBuffer, RefuseImage, ImageTooLarge
<1>3. CASE ReceiveReply \/ ReplyGarbled \/ ReplyLost
  BY <1>3, ReplyFresh DEF ReceiveReply, ReplyGarbled, ReplyLost, Fault, NoFault
<1>4. CASE ReplyLate \/ NoReply
  BY <1>4, ReplyFresh DEF ReplyLate, NoReply, devVars, Fault, NoFault
<1>5. CASE SendData \/ DataRefused
  BY <1>5, DataFresh DEF SendData, DataRefused, accept_bulk, Fault, NoFault
<1>6. CASE Sleep
  <2>1. stage = "sleep" /\ stage' = "mcu" /\ step' = "cmd" /\ UNCHANGED <<reply, fresh>>
    BY <1>6 DEF Sleep, Slept, Goto, Ended, devVars, NoFault
  <2>2. fresh' => reply' = <<>> \/ Stale'
    BY <2>1 DEF ReplyInv, FreshInv, Stale
  <2> QED BY <2>1, <2>2 DEF FreshOnly, FreshInv, Images, CmdStages
<1>7. ASSUME NEW o \in RunOptions, Start(o) PROVE FreshOnly'
  <2>1. step' = "cmd" /\ fresh' = (reply = <<>>) /\ UNCHANGED reply
    BY <1>7 DEF Start, StartRun
  <2>2. CASE reply = <<>>
    BY <2>1, <2>2, EmptyFresh
  <2>3. CASE reply # <<>>
    BY <2>1, <2>3 DEF FreshOnly
  <2> QED BY <2>2, <2>3
<1> QED BY <1>0, <1>1, <1>2, <1>3, <1>4, <1>5, <1>6, <1>7 DEF Next, RunStep

-----------------------------------------------------------------------------
(* Strict runs, one lemma per thing that happens to host and device.       *)

Strict == opts.strict /\ UploadInv /\ DeliveredInv

Kept == UploadInv' /\ DeliveredInv'

(* A failed run owes nothing.                                              *)
LEMMA FailKeeps == Fail => Kept
  BY DEF Kept, Fail, Goto, Ended, UploadInv, DeliveredInv, Given, Images

(* Erase.bin and the MCU image travel as BEGIN_MCU, the external flash     *)
(* image as BEGIN_DATA (device.c:346-363).                                 *)
LEMMA Kinds == /\ KindOf("erase") = BEGIN_MCU /\ KindOf("mcu") = BEGIN_MCU
               /\ KindOf("ext") = BEGIN_DATA /\ BEGIN_MCU # BEGIN_DATA
               /\ \A i \in Images : KindOf(i) # NoUpload
  BY DEF KindOf, BEGIN_MCU, BEGIN_DATA, NoUpload

(* A whole image in the device is given to it when it is committed, be it  *)
(* stored or dropped (fake.c:32-53).                                       *)
LEMMA CommitInstalls ==
  ASSUME commit_upload
  PROVE  /\ Given \subseteq Given'
         /\ \A i \in Images : Complete(i) => i \in Given'
<1>1. Given' = Given \cup Uploaded
  BY DEF commit_upload, Given
<1> QED BY <1>1 DEF Complete, Uploaded

(* Asking for the version changes nothing in the device.                   *)
LEMMA WriteVersion ==
  ASSUME Strict, stage = "version", CommandWritten, step = "cmd",
         UNCHANGED <<version, devState>>
  PROVE  Kept
  BY DEF Kept, Strict, CommandWritten, UploadInv, DeliveredInv, Given, Images, devState

(* A BEGIN commits what was there, empties the upload and announces the    *)
(* image of the host's stage (fake.c:84-89).                               *)
LEMMA WriteBegin ==
  ASSUME TInv, Strict, stage \in Images, step = "cmd", CommandWritten,
         begin(HostCommand), UNCHANGED version
  PROVE  Kept
<1>1. step' = "ack" /\ UNCHANGED <<opts, stage, blk>>
  BY DEF CommandWritten
<1>2. announced' = NBlocks(stage) /\ upload_kind' = KindOf(stage)
  <2>1. HostCommand = Command(KindOf(stage), BE16(NBlocks(stage)), 0)
    BY DEF HostCommand, obd_build_begin, NBlocks
  <2>2. NBlocks(stage) \in Nat /\ NBlocks(stage) <= MaxIndex
    BY NBlocksNat, MaxIndexAssumption
       DEF CommandWritten, AtWrite, TooLarge, TooManyBlocks, NBlocks
  <2> QED BY <2>1, <2>2, BE16Range DEF begin, Command
<1>3. upload' = Prefix(stage, 0) /\ upload_len' = 0
  BY PrefixGrows DEF begin, commit_upload
<1>4. UploadInv'
  <2>1. Has(0)'
    BY <1>1, <1>2, <1>3, BlockSizeAssumption DEF Has
  <2> QED BY <1>1, <2>1 DEF UploadInv
<1>5. /\ Given \subseteq Given'
      /\ Complete("mcu") => "mcu" \in Given'
  BY CommitInstalls DEF begin, Images
<1>6. MustErase(opts)' <=> MustErase(opts)
  BY <1>1 DEF MustErase
<1>7. DeliveredInv'
  BY <1>1, <1>5, <1>6 DEF Strict, DeliveredInv, Images
<1> QED BY <1>4, <1>7 DEF Kept

(* A block header makes the device expect exactly the block the host is    *)
(* about to send (fake.c:90-98).                                           *)
LEMMA WriteHeader ==
  ASSUME TInv, Strict, step = "header", CommandWritten, block(HostCommand),
         UNCHANGED version
  PROVE  Kept
<1>1. step' = "header_ack" /\ UNCHANGED <<opts, stage, blk>>
  BY DEF CommandWritten
<1>2. stage \in Images /\ blk \in Nat /\ blk < NBlocks(stage)
      /\ NBlocks(stage) <= MaxIndex
  BY NBlocksNat, MaxIndexAssumption
     DEF TInv, ControlInv, Sending, TypeOK, HostTypeOK, TooManyBlocks, NBlocks
<1>3. HostCommand = Command(BLOCK, blk, BlockLen(Size[stage], blk))
  <2>1. NBlocks(stage) \in Nat
    BY <1>2, NBlocksNat
  <2>2. BE16(blk) = blk
    BY <1>2, <2>1, BE16Range, MaxIndexAssumption
  <2> QED BY <1>2, <2>2 DEF HostCommand, obd_build_block_header
<1>4. Has(blk)
  BY DEF Strict, UploadInv
<1>5. UNCHANGED <<upload_kind, upload, upload_len, announced, ext_image, installed, dropped>>
  BY DEF block
<1>6. pending' = [len |-> BlockLen(Size[stage], blk), index |-> blk]
  BY <1>2, <1>3, <1>4, Kinds DEF block, Has, Command
<1>7. Has(blk)'
  BY <1>1, <1>4, <1>5 DEF Has
<1>8. UploadInv'
  BY <1>1, <1>6, <1>7 DEF UploadInv
<1>9. DeliveredInv'
  BY <1>1, <1>2, <1>5 DEF Strict, DeliveredInv, Given, MustErase, Images
<1> QED BY <1>8, <1>9 DEF Kept

(* FINISH commits the whole image the host has just sent (fake.c:110-114). *)
LEMMA WriteFinish ==
  ASSUME TInv, Strict, stage \in {"erase_finish", "finish"}, step = "cmd",
         CommandWritten, finish, UNCHANGED version
  PROVE  Kept
<1>1. step' = "ack" /\ UNCHANGED <<opts, stage, blk>>
  BY DEF CommandWritten
<1>2. UploadInv'
  BY <1>1 DEF UploadInv, Images
<1>3. /\ Given \subseteq Given'
      /\ \A i \in Images : Complete(i) => i \in Given'
      /\ upload_kind' = NoUpload
      /\ upload_kind = BEGIN_DATA => ext_image' = upload
  BY CommitInstalls DEF finish, commit_upload
<1>4. MustErase(opts)' <=> MustErase(opts)
  BY <1>1 DEF MustErase
<1>5. CASE stage = "erase_finish"
  BY <1>1, <1>2, <1>3, <1>4, <1>5 DEF Kept, Strict, DeliveredInv, Images
<1>6. CASE stage = "finish"
  <2>1. Complete(LastImage) /\ (opts.ext /\ opts.mcu => "mcu" \in Given)
        /\ (MustErase(opts) => "erase" \in Given)
    BY <1>6 DEF Strict, DeliveredInv
  <2>2. LastImage \in Given'
    BY <1>3, <2>1 DEF LastImage, Images
  <2>3. opts.ext => ext_image' = Whole("ext")
    BY <1>3, <2>1, Kinds DEF LastImage, Complete
  <2>4. opts.mcu \/ opts.ext
    BY DEF TInv, TypeOK, HostTypeOK, Options
  <2>5. Wanted(opts) \subseteq Given'
    <3>1. opts["mcu"] = opts.mcu /\ opts["ext"] = opts.ext
      OBVIOUS
    <3> QED BY <1>3, <2>1, <2>2, <2>4, <3>1 DEF Wanted, LastImage
  <2>6. Wanted(opts)' = Wanted(opts)
    BY <1>1, <1>4 DEF Wanted
  <2>7. DeliveredInv'
    BY <1>1, <1>3, <1>4, <1>6, <2>1, <2>3, <2>5, <2>6 DEF DeliveredInv
  <2> QED BY <1>2, <2>7 DEF Kept
<1> QED BY <1>5, <1>6

(* The host goes on to the next block with all blocks before it in the     *)
(* device, or to the next image with the whole of this one there.          *)
LEMMA NextBlockKeeps ==
  ASSUME TInv, Strict, stage \in Images, step \in {"ack", "bulk_ack"},
         NEW k \in Nat, k <= NBlocks(stage), Has(k), NextBlock(k),
         UNCHANGED <<version, devState>>
  PROVE  Kept
<1>0. NBlocks(stage) \in Nat
  BY NBlocksNat
<1>1. CASE k < NBlocks(stage)
  <2>1. step' = "header" /\ blk' = k /\ UNCHANGED <<opts, stage>>
    BY <1>1 DEF NextBlock
  <2>2. UploadInv'
    <3>1. Has(blk)'
      BY <2>1 DEF Has, devState
    <3> QED BY <2>1, <3>1 DEF UploadInv
  <2>3. DeliveredInv'
    BY <2>1 DEF Strict, DeliveredInv, Given, MustErase, Images, devState
  <2> QED BY <2>2, <2>3 DEF Kept
<1>2. CASE k = NBlocks(stage)
  <2>1. Complete(stage)
    BY <1>2 DEF Has, Complete, Whole
  <2>2. Goto(AfterImage)
    BY <1>0, <1>2 DEF NextBlock
  <2>3. stage' = AfterImage /\ step' = "cmd" /\ UNCHANGED opts
    BY <2>2 DEF Goto, AfterImage, Ended, Images
  <2>4. UploadInv'
    BY <2>3 DEF UploadInv
  <2>5. \A i \in Images : Complete(i) => Complete(i)'
    BY DEF Complete, devState
  <2>6. MustErase(opts)' <=> MustErase(opts)
    BY <2>3 DEF MustErase
  <2>7. Given' = Given
    BY DEF Given, devState
  <2>8. DeliveredInv'
    <3>1. CASE stage = "erase"
      BY <2>1, <2>3, <2>5, <3>1 DEF Strict, DeliveredInv, AfterImage, Images
    <3>2. CASE stage = "mcu"
      BY <2>1, <2>3, <2>5, <2>6, <2>7, <3>2
         DEF Strict, DeliveredInv, AfterImage, Images, LastImage
    <3>3. CASE stage = "ext"
      BY <2>1, <2>3, <2>5, <2>6, <2>7, <3>3
         DEF Strict, DeliveredInv, AfterImage, Images, LastImage
    <3> QED BY <3>1, <3>2, <3>3 DEF Images
  <2> QED BY <2>4, <2>8 DEF Kept
<1> QED BY <1>0, <1>1, <1>2

(* What the host may take for a reply.                                     *)
Believable(r) ==
  /\ HonestReply(r)
  /\ r.ack = BLOCK => reply # <<>> /\ r = Head(reply)

(* Whatever the host does with a reply, it stays in step with the device:  *)
(* it goes on only after the acknowledgement of the packet it sent.        *)
LEMMA ReplyKeeps ==
  ASSUME TInv, ReplyInv, Strict, NEW r, Believable(r), ReplyRead(r),
         UNCHANGED <<version, devState>>
  PROVE  Kept
<1>1. CASE VersionRead(r)
  <2>1. CASE EraseNeeded(r) /\ ~opts.erase
    BY <1>1, <2>1, FailKeeps DEF VersionRead, AfterVersion, Fail
  <2>2. CASE EraseNeeded(r) /\ opts.erase
    BY <1>1, <2>2 DEF VersionRead, AfterVersion, Goto, Ended, Kept, Strict,
                      UploadInv, DeliveredInv, Given, Images
  <2>3. CASE ~EraseNeeded(r)
    <3>1. ~MustErase(opts)
      BY <2>3 DEF EraseNeeded, obd_is_ack, MustErase, Believable, HonestReply
    <3>2. stage' = "mcu" /\ step' = "cmd" /\ UNCHANGED opts /\ opts.mcu
      BY <1>1, <2>3 DEF VersionRead, AfterVersion, Goto, Ended, Strict, DeliveredInv, Given
    <3>3. ~MustErase(opts)'
      BY <3>1, <3>2 DEF MustErase
    <3> QED BY <3>2, <3>3 DEF Kept, UploadInv, DeliveredInv, Given
  <2> QED BY <2>1, <2>2, <2>3
<1>2. CASE BeginRead(r)
  <2>1. CASE obd_is_ack(r, KindOf(stage))
    <3>1. NBlocks(stage) \in Nat
      BY <1>2, NBlocksNat DEF BeginRead
    <3>2. Has(0)
      BY <1>2 DEF BeginRead, Strict, UploadInv
    <3> QED BY <1>2, <2>1, <3>1, <3>2, NextBlockKeeps DEF BeginRead
  <2> QED BY <1>2, <2>1, FailKeeps DEF BeginRead
<1>3. CASE HeaderRead(r)
  <2>1. CASE obd_is_ack(r, BLOCK)
    <3>1. step = "header_ack" /\ step' = "bulk" /\ UNCHANGED <<opts, stage, blk>>
      BY <1>3, <2>1 DEF HeaderRead
    <3>2. stage \in Images
      BY <3>1 DEF TInv, ControlInv, Sending
    <3>3. UploadInv'
      <4>1. Has(blk)'
        BY <3>1 DEF Strict, UploadInv, Has, devState
      <4> QED BY <3>1, <4>1 DEF Strict, UploadInv, devState
    <3>4. DeliveredInv'
      BY <3>1, <3>2 DEF Strict, DeliveredInv, Given, MustErase, Images, devState
    <3> QED BY <3>3, <3>4 DEF Kept
  <2> QED BY <1>3, <2>1, FailKeeps DEF HeaderRead
<1>4. CASE DataRead(r)
  <2>1. CASE r # Silence /\ obd_is_ack(r, BLOCK)
    <3>1. step = "bulk_ack" /\ NextBlock(blk + 1)
      BY <1>4, <2>1 DEF DataRead
    <3>2. stage \in Images /\ blk \in Nat /\ blk < NBlocks(stage)
      BY <3>1 DEF TInv, ControlInv, Sending, TypeOK, HostTypeOK
    <3>3. reply # <<>> /\ Head(reply) = r /\ r # Nak
      BY <2>1 DEF Believable, obd_is_ack, Nak, BLOCK
    <3>4. Has(blk + 1)
      <4>1. reply # <<Nak>>
        BY <3>3
      <4> QED BY <3>1, <4>1 DEF Strict, UploadInv
    <3>5. NBlocks(stage) \in Nat
      BY <3>2, NBlocksNat
    <3> QED BY <3>1, <3>2, <3>4, <3>5, NextBlockKeeps
  <2>2. CASE ~(r # Silence /\ obd_is_ack(r, BLOCK))
    BY <1>4, <2>2, FailKeeps DEF DataRead, Strict
  <2> QED BY <2>1, <2>2
<1>5. CASE FinishRead(r)
  <2>1. CASE stage = "erase_finish" /\ Goto("sleep")
    BY <1>5, <2>1 DEF FinishRead, Goto, Ended, Kept, Strict, UploadInv, DeliveredInv, Given,
                      Images, devState
  <2>2. CASE stage = "finish" /\ Goto("ok")
    <3>1. stage' = "ok" /\ step' = "rest" /\ UNCHANGED opts
      BY <2>2 DEF Goto, Ended
    <3>2. MustErase(opts)' <=> MustErase(opts)
      BY <3>1 DEF MustErase
    <3>3. Wanted(opts)' = Wanted(opts)
      BY <3>1, <3>2 DEF Wanted
    <3>4. UploadInv'
      BY <3>1 DEF UploadInv, Images
    <3>5. DeliveredInv'
      BY <1>5, <2>2, <3>1, <3>2, <3>3 DEF FinishRead, Strict, DeliveredInv, Given, devState
    <3> QED BY <3>4, <3>5 DEF Kept
  <2> QED BY <1>5, <2>1, <2>2 DEF FinishRead
<1> QED BY <1>1, <1>2, <1>3, <1>4, <1>5 DEF ReplyRead

(* A block the device takes is the next one of the host's image            *)
(* (fake.c:150-164).                                                       *)
LEMMA AcceptKeeps ==
  ASSUME TInv, Strict, DataWritten, accept_bulk(Block(stage, blk))
  PROVE  Kept
<1>1. step = "bulk" /\ step' = "bulk_ack" /\ UNCHANGED <<opts, stage, blk>>
  BY DEF DataWritten
<1>2. stage \in Images /\ blk \in Nat /\ blk < NBlocks(stage)
  BY <1>1 DEF TInv, ControlInv, Sending, TypeOK, HostTypeOK
<1>3. Has(blk) /\ pending = [len |-> BlockLen(Size[stage], blk), index |-> blk]
  BY <1>1 DEF Strict, UploadInv
<1>4. upload' = Prefix(stage, blk + 1)
  <2>1. [Block(stage, blk) EXCEPT !.len = pending.len] = Block(stage, blk)
    BY <1>3 DEF Block
  <2> QED BY <1>2, <1>3, <2>1, PrefixGrows DEF accept_bulk, Has
<1>5. blk + 1 < NBlocks(stage) => upload_len' = (blk + 1) * BlockSize
  <2> SUFFICES ASSUME blk + 1 < NBlocks(stage)
               PROVE  upload_len' = (blk + 1) * BlockSize
    OBVIOUS
  <2>1. pending.len = BlockSize
    BY <1>2, <1>3, FullBlock, SizeAssumption DEF NBlocks
  <2>2. upload_len = blk * BlockSize
    BY <1>2, <1>3 DEF Has
  <2> QED BY <1>2, <2>1, <2>2, BlockSizeAssumption, SMTT(20) DEF accept_bulk
<1>6. Has(blk + 1)'
  BY <1>1, <1>3, <1>4, <1>5 DEF Has, accept_bulk
<1>7. UploadInv'
  BY <1>1, <1>6 DEF UploadInv
<1>8. DeliveredInv'
  BY <1>1, <1>2 DEF Strict, DeliveredInv, Given, MustErase, Images, accept_bulk
<1> QED BY <1>7, <1>8 DEF Kept

(* A block the device refuses leaves the upload as it was, with the        *)
(* refusal as the only reply to read.                                      *)
LEMMA RefusalKeeps ==
  ASSUME TInv, ReplyInv, Undisturbed, Strict, DataRefused
  PROVE  Kept
<1>1. step = "bulk" /\ step' = "bulk_ack" /\ UNCHANGED <<opts, stage, blk>>
  BY DEF DataRefused, DataWritten
<1>2. stage \in Images
  BY <1>1 DEF TInv, ControlInv, Sending
<1>3. reply' = <<Nak>>
  <2>1. reply = <<>>
    BY <1>1 DEF ReplyInv
  <2> QED BY <2>1, DataQueue DEF DataRefused, ReplyInv, TInv, TypeOK
<1>4. Has(blk)'
  BY <1>1 DEF Strict, UploadInv, Has, DataRefused
<1>5. DeliveredInv'
  BY <1>1, <1>2 DEF Strict, DeliveredInv, Given, MustErase, Images, DataRefused
<1> QED BY <1>1, <1>3, <1>4, <1>5 DEF Kept, UploadInv

(* A new run starts with no obligation met and none claimed.               *)
LEMMA StartKeeps ==
  ASSUME NEW o \in Options, Start(o)
  PROVE  Kept
<1>1. opts' = o /\ stage' = FirstStage(o) /\ step' = "cmd" /\ version' = version
  BY DEF Start, StartRun
<1>2. o.mcu \/ o.ext
  BY DEF Options
<1>3. UploadInv'
  BY <1>1 DEF UploadInv
<1>4. DeliveredInv'
  BY <1>1, <1>2 DEF DeliveredInv, Given, FirstStage, MustErase
<1> QED BY <1>3, <1>4 DEF Kept

-----------------------------------------------------------------------------
(* Every step of the system is one of those things.                        *)

(* The reply at hand is honest about the version.                          *)
LEMMA HeadBelievable ==
  ASSUME TInv, ReplyInv, TakeReply
  PROVE  Believable(Head(reply))
<1>1. HonestReply(Head(reply)) /\ reply # <<>>
  BY TakeReplyQueue DEF TakeReply, ReplyInv, TInv, TypeOK, DevTypeOK
<1> QED BY <1>1 DEF Believable

(* A garbled reply and a timeout claim nothing.                            *)
LEMMA NoNews == Believable(Nak) /\ Believable(Silence)
  BY DEF Believable, HonestReply, Nak, Silence, GET_VERSION, BLOCK

(* Every step of the system keeps host and device of a strict run          *)
(* together.                                                               *)
LEMMA StrictNext ==
  TInv /\ ReplyInv /\ StrictInv /\ [Next]_vars => StrictInv'
<1> SUFFICES ASSUME TInv, ReplyInv, StrictInv, [Next]_vars, opts'.strict, Undisturbed'
             PROVE  Kept
  BY DEF StrictInv, Kept
<1>1. ASSUME NEW o \in RunOptions, Start(o) PROVE Kept
  BY <1>1, StartKeeps, RunOptionsAssumption
<1>2. CASE UNCHANGED vars
  BY <1>2 DEF vars, hostVars, devVars, devState, StrictInv, Undisturbed, OneReply, Kept,
     UploadInv, DeliveredInv, Given, Has, Complete, MustErase, Wanted, LastImage
<1>3. CASE RunStep
  <2>1. UNCHANGED opts
    BY <1>3 DEF RunStep, SendCommand, CommandFails, ReceiveReply, ReplyGarbled,
       ReplyLost, ReplyLate, NoReply, ReplyFails, SendData, DataRejected,
       DataCorrupt, DataFails, DataRefused, OutOfMemory, RefuseImage, Sleep,
       CommandWritten, CommandNotWritten, ReplyRead, VersionRead, AfterVersion,
       BeginRead, HeaderRead, DataRead, FinishRead, NextBlock, ReadFailed,
       DataWritten, DataNotWritten, NoPacketBuffer, ImageTooLarge, Slept, Fail, Goto
  <2>2. Strict /\ Undisturbed
    <3>1. UNCHANGED fresh
      BY <1>3 DEF RunStep, SendCommand, CommandFails, ReceiveReply, ReplyGarbled,
         ReplyLost, ReplyLate, NoReply, ReplyFails, SendData, DataRejected,
         DataCorrupt, DataFails, DataRefused, OutOfMemory, RefuseImage, Sleep,
         Fault, NoFault
    <3>2. Undisturbed
      BY <3>1 DEF Undisturbed, OneReply
    <3> QED BY <2>1, <3>2 DEF Strict, StrictInv
  <2>3. CASE SendCommand
    <3>1. step = "cmd" /\ HostCommand.cmd = GET_VERSION => stage = "version"
      BY DEF HostCommand, Command, obd_build_begin, KindOf, BEGIN_MCU, BEGIN_DATA,
             FINISH, GET_VERSION
    <3>2. stage \in Images =>
            HostCommand.cmd = IF step = "cmd" THEN KindOf(stage) ELSE BLOCK
      BY DEF HostCommand, Command, obd_build_begin, obd_build_block_header
    <3>3. stage \notin Images =>
            HostCommand.cmd = IF stage = "version" THEN GET_VERSION ELSE FINISH
      BY DEF HostCommand, Command
    <3>4. CommandWritten /\ fake_write_cmd(HostCommand) /\ UNCHANGED version
          /\ step \in {"cmd", "header"}
      BY <2>3 DEF SendCommand, fake_write_cmd, CommandWritten, AtWrite
    <3>5. CASE step = "header"
      <4>1. stage \in Images
        BY <3>5 DEF TInv, ControlInv, Sending
      <4>2. block(HostCommand)
        BY <3>2, <3>4, <3>5, <4>1 DEF fake_write_cmd, UploadKinds, BEGIN_MCU,
           BEGIN_DATA, BLOCK, FINISH, GET_VERSION
      <4> QED BY <2>2, <3>4, <3>5, <4>2, WriteHeader
    <3>6. CASE step = "cmd" /\ stage \in Images
      <4>1. begin(HostCommand)
        BY <3>2, <3>4, <3>6 DEF fake_write_cmd, KindOf, BEGIN_MCU,
           BEGIN_DATA, BLOCK, FINISH, GET_VERSION
      <4> QED BY <2>2, <3>4, <3>6, <4>1, WriteBegin
    <3>7. CASE step = "cmd" /\ stage = "version"
      <4>1. get_version
        BY <3>3, <3>4, <3>7 DEF fake_write_cmd, UploadKinds, BEGIN_MCU, BEGIN_DATA,
           BLOCK, FINISH, GET_VERSION, Images
      <4> QED BY <2>2, <3>4, <3>7, <4>1, WriteVersion DEF get_version
    <3>8. CASE step = "cmd" /\ stage \in {"erase_finish", "finish"}
      <4>1. finish
        BY <3>3, <3>4, <3>8 DEF fake_write_cmd, UploadKinds, BEGIN_MCU, BEGIN_DATA,
           BLOCK, FINISH, GET_VERSION, Images
      <4> QED BY <2>2, <3>4, <3>8, <4>1, WriteFinish
    <3> QED
      BY <3>4, <3>5, <3>6, <3>7, <3>8
         DEF TInv, TypeOK, HostTypeOK, Stages, CmdStages, ControlInv, Images
  <2>4. CASE CommandFails \/ ReplyFails \/ DataRejected \/ DataCorrupt \/ DataFails
             \/ OutOfMemory \/ RefuseImage
    BY <2>4, FailKeeps DEF CommandFails, CommandNotWritten, ReplyFails, ReadFailed,
       DataRejected, DataCorrupt, DataFails, DataNotWritten, OutOfMemory,
       NoPacketBuffer, RefuseImage, ImageTooLarge
  <2>5. CASE ReceiveReply
    BY <2>2, <2>5, HeadBelievable, ReplyKeeps DEF ReceiveReply, TakeReply
  <2>6. CASE ReplyGarbled \/ ReplyLost
    BY <2>2, <2>6, NoNews, ReplyKeeps DEF ReplyGarbled, ReplyLost, TakeReply
  <2>7. CASE ReplyLate \/ NoReply
    BY <2>2, <2>7, NoNews, ReplyKeeps DEF ReplyLate, NoReply, devVars
  <2>8. CASE SendData
    BY <2>2, <2>8, AcceptKeeps DEF SendData
  <2>9. CASE DataRefused
    BY <2>2, <2>9, RefusalKeeps
  <2>10. CASE Sleep
    BY <2>2, <2>10 DEF Sleep, Slept, Goto, Ended, Strict, Kept, UploadInv,
       DeliveredInv, Given, MustErase, Images, devVars, devState
  <2> QED
    BY <1>3, <2>3, <2>4, <2>5, <2>6, <2>7, <2>8, <2>9, <2>10 DEF RunStep
<1> QED BY <1>1, <1>2, <1>3 DEF Next

-----------------------------------------------------------------------------
(* The first run finds a device that has collected nothing.                *)

(* Only the Start of a run ends that there is none, and nothing but a      *)
(* BEGIN makes the device collect.                                         *)
LEMMA FirstRunNext == TInv /\ FirstRunInv /\ [Next]_vars => FirstRunInv'
<1> SUFFICES ASSUME TInv, FirstRunInv, [Next]_vars, MaxRuns = 1
             PROVE  FirstRunInv'
  BY DEF FirstRunInv
<1>r. runs \in 0..1
  BY DEF TInv, TypeOK
<1>fail. Fail => stage' = "failed"
  BY DEF Fail, Goto
<1>p. fresh' /\ (runs' = 0 => reply' = <<>>)
  <2>1. CASE RunStep
    <3>1. UNCHANGED <<runs, fresh>>
      BY <2>1 DEF RunStep, SendCommand, CommandFails, ReceiveReply, ReplyGarbled,
         ReplyLost, ReplyLate, NoReply, ReplyFails, SendData, DataRejected,
         DataCorrupt, DataFails, DataRefused, OutOfMemory, RefuseImage, Sleep,
         Fault, NoFault
    <3>2. step # "rest" \/ stage = "sleep"
      BY <2>1 DEF RunStep, SendCommand, CommandFails, ReceiveReply, ReplyGarbled,
         ReplyLost, ReplyLate, NoReply, ReplyFails, SendData, DataRejected,
         DataCorrupt, DataFails, DataRefused, OutOfMemory, RefuseImage, Sleep,
         CommandWritten, CommandNotWritten, AtWrite, ReplyRead, VersionRead, BeginRead,
         HeaderRead, DataRead, FinishRead, ReadFailed, AtRead, DataWritten,
         DataNotWritten, NoPacketBuffer, ImageTooLarge, TooLarge, Slept
    <3>3. runs # 0
      BY <3>2 DEF FirstRunInv, TInv, ControlInv, Ended
    <3> QED BY <3>1, <3>3 DEF FirstRunInv
  <2>2. ASSUME NEW o \in RunOptions, Start(o) PROVE fresh' /\ runs' # 0
    <3>1. runs = 0 /\ runs' = 1
      BY <1>r, <2>2 DEF Start
    <3>2. reply = <<>>
      BY <3>1 DEF FirstRunInv
    <3>3. fresh' = (reply = <<>>)
      BY <2>2 DEF Start
    <3>4. fresh'
      BY <3>2, <3>3
    <3> QED BY <3>1, <3>4
  <2>3. CASE UNCHANGED vars
    BY <2>3 DEF vars, devVars, FirstRunInv
  <2> QED BY <2>1, <2>2, <2>3 DEF Next
<1>0. CASE UNCHANGED vars
  BY <1>0, <1>p DEF vars, hostVars, devVars, devState, FirstRunInv
<1>1. CASE SendCommand
  <2>1. CommandWritten /\ AtWrite /\ fake_write_cmd(HostCommand) /\ UNCHANGED runs
    BY <1>1 DEF SendCommand, CommandWritten, NoFault
  <2>2. step' # "cmd" /\ UNCHANGED <<opts, stage>>
    BY <2>1 DEF CommandWritten
  <2>3. CASE stage \in {"version", "erase_finish", "finish"}
    <3>1. upload_kind' \in {upload_kind, NoUpload}
      BY <2>1, <2>3, CommandArrives DEF Images, get_version, finish, devState
    <3>2. stage = "erase_finish" => upload_kind' = NoUpload
      BY <2>1, CommandArrives DEF Images, finish
    <3> QED BY <2>1, <2>2, <2>3, <3>1, <3>2, <1>p DEF FirstRunInv
  <2>4. CASE stage \in Images
    BY <2>1, <2>2, <2>4, <1>p DEF FirstRunInv, Images
  <2>5. stage \in Images \cup {"version", "erase_finish", "finish"}
    BY <2>1, CommandArrives
  <2> QED BY <2>3, <2>4, <2>5
<1>2. CASE CommandFails \/ ReplyFails \/ DataRejected \/ DataCorrupt \/ DataFails
           \/ OutOfMemory \/ RefuseImage
  <2>1. Fail /\ UNCHANGED runs /\ step # "rest"
    BY <1>2 DEF CommandFails, CommandNotWritten, AtWrite, ReplyFails, ReadFailed, AtRead,
       DataRejected, DataCorrupt, DataFails, DataNotWritten, OutOfMemory,
       NoPacketBuffer, RefuseImage, ImageTooLarge, TooLarge, Fault, NoFault
  <2> QED BY <2>1, <1>fail, <1>p DEF FirstRunInv, TInv, ControlInv, Ended
<1>3. CASE ReceiveReply \/ ReplyGarbled \/ ReplyLost \/ ReplyLate \/ NoReply
  <2>1. PICK r : ReplyRead(r)
    BY <1>3 DEF ReceiveReply, ReplyGarbled, ReplyLost, ReplyLate, NoReply
  <2>2. UNCHANGED <<devState, runs>>
    BY <1>3 DEF ReceiveReply, ReplyGarbled, ReplyLost, ReplyLate, NoReply, TakeReply,
       devVars, Fault, NoFault
  <2>n. ASSUME NEW k, stage \in Images, NextBlock(k)
        PROVE  \/ step' = "header" /\ stage' = stage
               \/ stage' \in {"erase_finish", "finish", "ext"} /\ step' = "cmd"
                  /\ (stage' = "ext" => stage = "mcu")
                  /\ (stage' = "erase_finish" => stage = "erase")
    BY <2>n DEF NextBlock, Goto, AfterImage, Images, Ended
  <2>3. CASE VersionRead(r)
    BY <2>2, <2>3, <1>p DEF VersionRead, AfterVersion, Goto, Ended, FirstRunInv, devState
  <2>o. UNCHANGED opts
    BY <2>1 DEF ReplyRead, VersionRead, AfterVersion, BeginRead, HeaderRead, DataRead,
       FinishRead, NextBlock, Fail, Goto
  <2>4. CASE BeginRead(r)
    BY <2>2, <2>4, <2>n, <2>o, <1>fail, <1>p DEF BeginRead, FirstRunInv, devState, Images
  <2>5. CASE HeaderRead(r)
    <3>1. stage' = "failed" \/ (stage' = stage /\ step' = "bulk")
      BY <2>5, <1>fail DEF HeaderRead
    <3>2. stage # "idle"
      BY <2>5 DEF HeaderRead, TInv, ControlInv, Ended
    <3> QED BY <2>2, <2>o, <3>1, <3>2, <1>p DEF FirstRunInv, devState
  <2>6. CASE DataRead(r)
    BY <2>2, <2>6, <2>n, <2>o, <1>fail, <1>p DEF DataRead, FirstRunInv, devState, Images, TInv, ControlInv, Sending
  <2>7. CASE FinishRead(r)
    BY <2>2, <2>7, <1>p DEF FinishRead, Goto, Ended, FirstRunInv, devState
  <2> QED BY <2>1, <2>3, <2>4, <2>5, <2>6, <2>7 DEF ReplyRead
<1>4. CASE SendData \/ DataRefused
  <2>1. step' = "bulk_ack" /\ UNCHANGED <<opts, stage, runs, upload_kind>> /\ step = "bulk"
    BY <1>4 DEF SendData, DataRefused, DataWritten, accept_bulk, Fault, NoFault
  <2> QED BY <2>1, <1>p DEF FirstRunInv
<1>5. CASE Sleep
  BY <1>5, <1>p DEF Sleep, Slept, Goto, Ended, FirstRunInv, NoFault, devVars, devState
<1>6. ASSUME NEW o \in RunOptions, Start(o) PROVE FirstRunInv'
  <2>1. runs' = 1 /\ stage = "idle" /\ upload_kind' = NoUpload
    BY <1>r, <1>6, <1>p DEF Start, FirstRunInv
  <2>2. stage' # "idle" /\ (stage' \in {"version", "mcu"} <=> opts'.mcu)
    BY <1>6 DEF Start, StartRun, FirstStage
  <2>3. stage' \in {"version", "mcu", "ext"}
    BY <1>6 DEF Start, StartRun, FirstStage
  <2> QED BY <2>1, <2>2, <2>3, <1>p DEF FirstRunInv
<1> QED
  BY <1>0, <1>1, <1>2, <1>3, <1>4, <1>5, <1>6 DEF Next, RunStep

-----------------------------------------------------------------------------
(* The slots for MCU images.  A run commits at most three uploads: what it *)
(* found in the device, Erase.bin and its own MCU image.                   *)

(* What SlotsInv says of the device, and of the host's place.              *)
Drops == /\ dropped # {} => ~HasRoom /\ Len(mcu_images) = MaxImages
         /\ "ext" \notin dropped
Fill  == /\ stage = "version" \/ (stage = "erase" /\ step = "cmd") => Filled(0)
         /\ stage = "erase" \/ (stage = "erase_finish" /\ step = "cmd") => Filled(1)
         /\ stage \in {"erase_finish", "sleep", "mcu"} \/ (stage = "ext" /\ step = "cmd")
              => Filled(2)
         /\ stage = "sleep" \/ (stage = "erase_finish" /\ step = "ack")
              => upload_kind = NoUpload
         /\ stage = "mcu" /\ step = "cmd" => Filled(0) \/ upload_kind = NoUpload
         /\ stage = "finish" /\ step = "cmd" => Filled(2) \/ upload_kind = BEGIN_DATA

(* A run that fails has no place to account for.                           *)
LEMMA FailFills == Fail => Fill'
  BY DEF Fail, Goto, Ended, Fill

(* Nor does a step that leaves the slots alone lose or gain anything.      *)
LEMMA SameDrops ==
  ASSUME Drops, UNCHANGED <<mcu_images, dropped, taken>> PROVE Drops'
  BY DEF Drops, HasRoom

(* A commit fills at most one slot, and drops an image only when all are   *)
(* taken: not in a run that began with room (fake.c:32-53).                *)
LEMMA CommitFills ==
  ASSUME TInv, SlotsInv, AtWrite, step = "cmd", stage # "version", commit_upload,
         UNCHANGED taken
  PROVE  /\ Drops'
         /\ NoSlot => ~HasRoom
         /\ \A n \in Nat : Filled(n) => Filled(n + 1)'
         /\ \A n \in Nat : upload_kind # BEGIN_MCU /\ Filled(n) => Filled(n)'
<1>1. /\ mcu_images \in Seq(Seq(Blocks)) /\ upload \in Seq(Blocks)
      /\ Len(mcu_images) \in Nat /\ Len(mcu_images) <= MaxImages
      /\ taken \in Nat /\ MaxImages \in Nat
  BY MaxImagesAssumption DEF TInv, TypeOK, DevTypeOK
<1>2. NoSlot => ~HasRoom
  <2>1. stage \in Images \cup {"erase_finish", "finish"}
    BY DEF AtWrite, TInv, ControlInv, TypeOK, HostTypeOK, Stages, CmdStages, Ended
  <2>2. Filled(2) \/ upload_kind = BEGIN_DATA
    BY <1>1, <2>1 DEF SlotsInv, Images, Filled
  <2> QED BY <1>1, <2>2 DEF NoSlot, HasRoom, Filled, BEGIN_MCU, BEGIN_DATA
<1>3. \/ mcu_images' = mcu_images
      \/ upload_kind = BEGIN_MCU /\ ~NoSlot /\ Len(mcu_images') = Len(mcu_images) + 1
  <2>1. CASE upload_kind = BEGIN_MCU /\ ~NoSlot
    BY <1>1, <2>1 DEF commit_upload
  <2>2. CASE ~(upload_kind = BEGIN_MCU /\ ~NoSlot)
    BY <2>2 DEF commit_upload
  <2> QED BY <2>1, <2>2
<1>4. Drops'
  <2>1. CASE NoSlot
    <3>1. mcu_images' = mcu_images /\ Len(mcu_images) = MaxImages
      BY <2>1 DEF commit_upload, NoSlot
    <3>2. "ext" \notin Uploaded
      BY <2>1, Kinds DEF NoSlot, Uploaded
    <3>3. dropped' = dropped \cup Uploaded
      BY <2>1 DEF commit_upload
    <3> QED BY <1>2, <2>1, <3>1, <3>2, <3>3 DEF Drops, SlotsInv, HasRoom
  <2>2. CASE ~NoSlot
    <3>1. dropped' = dropped
      BY <2>2 DEF commit_upload
    <3>2. CASE mcu_images' = mcu_images
      BY <3>1, <3>2 DEF Drops, SlotsInv, HasRoom
    <3>3. CASE upload_kind = BEGIN_MCU
      <4>1. dropped = {}
        BY <2>2, <3>3 DEF SlotsInv, NoSlot
      <4> QED BY <3>1, <4>1 DEF Drops
    <3> QED BY <1>3, <3>2, <3>3
  <2> QED BY <2>1, <2>2
<1>5. \A n \in Nat : Filled(n) => Filled(n + 1)'
  BY <1>1, <1>3 DEF Filled
<1>6. \A n \in Nat : upload_kind # BEGIN_MCU /\ Filled(n) => Filled(n)'
  BY <1>3 DEF Filled
<1> QED BY <1>2, <1>4, <1>5, <1>6

(* Whatever command arrives, what is dropped finds all slots taken.        *)
LEMMA CommandDrops ==
  ASSUME TInv, SlotsInv, AtWrite, fake_write_cmd(HostCommand), UNCHANGED taken
  PROVE  Drops'
<1>0. Drops
  BY DEF Drops, SlotsInv
<1>1. CASE (stage = "version" /\ get_version) \/ block(HostCommand)
  BY <1>0, <1>1, SameDrops DEF get_version, block, devState
<1>2. CASE (stage \in Images /\ step = "cmd" /\ begin(HostCommand))
           \/ (stage \in {"erase_finish", "finish"} /\ step = "cmd" /\ finish)
  BY <1>2, CommitFills DEF begin, finish, Images
<1> QED BY <1>1, <1>2, CommandArrives

(* The host goes on with as many slots filled as it has committed uploads. *)
LEMMA CommandFills ==
  ASSUME TInv, SlotsInv, CommandWritten, fake_write_cmd(HostCommand), UNCHANGED taken
  PROVE  Fill'
<1>0. AtWrite /\ UNCHANGED stage /\ step' = IF step = "cmd" THEN "ack" ELSE "header_ack"
  BY DEF CommandWritten
<1>s. step' # "cmd"
  BY <1>0
<1>n. taken \in Nat /\ Len(mcu_images) \in Nat
  BY MaxImagesAssumption DEF TInv, TypeOK, DevTypeOK
<1>1. CASE stage = "version" /\ get_version
  BY <1>0, <1>s, <1>1 DEF get_version, devState, SlotsInv, Fill, Filled
<1>2. CASE stage \in Images /\ step = "header" /\ block(HostCommand)
  BY <1>0, <1>s, <1>2 DEF block, SlotsInv, Fill, Filled, Images
<1>3. CASE stage \in Images /\ step = "cmd" /\ begin(HostCommand)
  <2>1. /\ \A n \in Nat : Filled(n) => Filled(n + 1)'
        /\ \A n \in Nat : upload_kind # BEGIN_MCU /\ Filled(n) => Filled(n)'
    BY <1>0, <1>3, CommitFills DEF begin, Images
  <2>2. CASE stage = "erase"
    <3>1. Filled(0)
      BY <1>3, <2>2 DEF SlotsInv
    <3>2. Filled(1)'
      BY <2>1, <3>1
    <3> QED BY <1>0, <1>s, <2>2, <3>2 DEF Fill
  <2>3. CASE stage = "mcu"
    <3>1. Filled(2)'
      <4>1. CASE upload_kind = NoUpload
        <5>1. Filled(2)
          BY <2>3 DEF SlotsInv
        <5> QED BY <2>1, <4>1, <5>1 DEF NoUpload, BEGIN_MCU
      <4>2. CASE Filled(0)
        <5>1. Filled(1)
          BY <1>n, <4>2 DEF Filled
        <5> QED BY <2>1, <5>1
      <4> QED BY <1>3, <2>3, <4>1, <4>2 DEF SlotsInv
    <3> QED BY <1>0, <1>s, <2>3, <3>1 DEF Fill
  <2>4. CASE stage = "ext"
    BY <1>0, <1>s, <2>4 DEF Fill
  <2> QED BY <1>3, <2>2, <2>3, <2>4 DEF Images
<1>4. CASE stage \in {"erase_finish", "finish"} /\ step = "cmd" /\ finish
  <2>1. CASE stage = "erase_finish"
    <3>1. Filled(1)
      BY <1>4, <2>1 DEF SlotsInv
    <3>2. Filled(2)' /\ upload_kind' = NoUpload
      BY <1>0, <1>4, <2>1, <3>1, CommitFills DEF finish
    <3> QED BY <1>0, <1>s, <2>1, <3>2 DEF Fill
  <2>2. CASE stage = "finish"
    BY <1>0, <1>s, <2>2 DEF Fill
  <2> QED BY <1>4, <2>1, <2>2
<1> QED BY <1>0, <1>1, <1>2, <1>3, <1>4, CommandArrives

(* Reading a reply takes the host to no place whose slots are not filled   *)
(* yet (device.c:100-208).                                                 *)
LEMMA ReplyFills ==
  ASSUME TInv, LooseInv, SlotsInv, NEW r, ReplyRead(r),
         UNCHANGED <<devState, taken>>
  PROVE  Fill'
<1>n. taken \in Nat /\ Len(mcu_images) \in Nat
  BY MaxImagesAssumption DEF TInv, TypeOK, DevTypeOK
<1>d. UNCHANGED <<mcu_images, upload_kind>>
  BY DEF devState
<1>1. ASSUME NEW k, stage \in Images, NextBlock(k), Collects(stage) PROVE Fill'
  <2>1. CASE step' = "header" /\ stage' = stage
    BY <1>1, <1>d, <2>1 DEF SlotsInv, Fill, Filled, Images
  <2>2. CASE Goto(AfterImage)
    <3>1. step' = "cmd" /\ stage' = AfterImage
      BY <1>1, <2>2 DEF Goto, AfterImage, Images, Ended
    <3>2. stage = "ext" => upload_kind = BEGIN_DATA
      BY <1>1, Kinds DEF Collects
    <3> QED BY <1>1, <1>d, <1>n, <3>1, <3>2 DEF AfterImage, Images, SlotsInv, Fill, Filled
  <2> QED BY <1>1, <2>1, <2>2 DEF NextBlock
<1>2. CASE VersionRead(r)
  <2>1. stage' \in {"erase", "mcu", "failed"} /\ Filled(0) /\ (stage' = "erase" => step' = "cmd")
    BY <1>2 DEF VersionRead, AfterVersion, Goto, Ended, SlotsInv
  <2>2. Filled(1) /\ Filled(2)
    BY <1>n, <2>1 DEF Filled
  <2> QED BY <1>d, <2>1, <2>2 DEF Fill, Filled
<1>3. CASE BeginRead(r)
  BY <1>1, <1>3, FailFills DEF BeginRead, LooseInv
<1>4. CASE HeaderRead(r)
  <2>1. CASE step' = "bulk" /\ UNCHANGED stage
    <3>1. stage \in Images
      BY <1>4 DEF HeaderRead, TInv, ControlInv, Sending
    <3> QED BY <1>d, <2>1, <3>1 DEF SlotsInv, Fill, Filled, Images
  <2> QED BY <1>4, <2>1, FailFills DEF HeaderRead
<1>5. CASE DataRead(r)
  <2>1. stage \in Images /\ Collects(stage)
    BY <1>5 DEF DataRead, TInv, ControlInv, LooseInv, Sending
  <2> QED BY <1>1, <1>5, <2>1, FailFills DEF DataRead
<1>6. CASE FinishRead(r)
  BY <1>d, <1>6 DEF FinishRead, Goto, Ended, SlotsInv, Fill, Filled
<1> QED BY <1>2, <1>3, <1>4, <1>5, <1>6 DEF ReplyRead

(* Step by step.                                                           *)
LEMMA SlotsNext == TInv /\ LooseInv /\ SlotsInv /\ [Next]_vars => SlotsInv'
<1> SUFFICES ASSUME TInv, LooseInv, SlotsInv, [Next]_vars PROVE Drops' /\ Fill'
  BY DEF SlotsInv, Drops, Fill
<1>d. Drops /\ Fill
  BY DEF SlotsInv, Drops, Fill
<1>0. CASE UNCHANGED vars
  BY <1>0, <1>d, SameDrops DEF vars, hostVars, devVars, devState, Fill, Filled
<1>1. CASE SendCommand
  BY <1>1, CommandDrops, CommandFills DEF SendCommand, CommandWritten, NoFault
<1>2. CASE CommandFails
  BY <1>2, <1>d, CommandDrops, FailFills, SameDrops
     DEF CommandFails, CommandNotWritten, Fault, devVars, devState
<1>3. CASE ReceiveReply \/ ReplyGarbled \/ ReplyLost \/ ReplyLate \/ NoReply
  <2>1. PICK r : ReplyRead(r)
    BY <1>3 DEF ReceiveReply, ReplyGarbled, ReplyLost, ReplyLate, NoReply
  <2>2. UNCHANGED <<devState, taken>>
    BY <1>3 DEF ReceiveReply, ReplyGarbled, ReplyLost, ReplyLate, NoReply, TakeReply,
       devVars, Fault, NoFault
  <2> QED BY <1>d, <2>1, <2>2, ReplyFills, SameDrops DEF devState
<1>4. CASE ReplyFails \/ DataRejected \/ DataCorrupt \/ DataFails \/ OutOfMemory
           \/ RefuseImage
  <2>1. Fail
    BY <1>4 DEF ReplyFails, ReadFailed, DataRejected, DataCorrupt, DataFails,
       DataNotWritten, OutOfMemory, NoPacketBuffer, RefuseImage, ImageTooLarge
  <2>2. UNCHANGED <<mcu_images, dropped, taken>>
    BY <1>4 DEF ReplyFails, TakeReply, DataRejected, DataCorrupt, reject_bulk, DataFails,
       accept_bulk, OutOfMemory, RefuseImage, devVars, devState, Fault, NoFault
  <2> QED BY <1>d, <2>1, <2>2, FailFills, SameDrops
<1>5. CASE SendData \/ DataRefused
  <2>1. /\ step = "bulk" /\ step' = "bulk_ack"
        /\ UNCHANGED <<stage, mcu_images, dropped, taken, upload_kind>>
    BY <1>5 DEF SendData, DataRefused, DataWritten, accept_bulk, Fault, NoFault
  <2>2. stage \in Images
    BY <2>1 DEF TInv, ControlInv, Sending
  <2> QED BY <1>d, <2>1, <2>2, SameDrops DEF Fill, Filled, Images
<1>6. CASE Sleep
  <2>1. /\ stage = "sleep" /\ stage' = "mcu"
        /\ UNCHANGED <<mcu_images, dropped, taken, upload_kind>>
    BY <1>6 DEF Sleep, Slept, Goto, NoFault, devVars, devState
  <2> QED BY <1>d, <2>1, SameDrops DEF Fill, Filled
<1>7. ASSUME NEW o \in RunOptions, Start(o) PROVE Drops' /\ Fill'
  <2>1. /\ dropped' = {} /\ taken' = Len(mcu_images) /\ mcu_images' = mcu_images
        /\ stage' \in {"version", "mcu", "ext"}
    BY <1>7 DEF Start, StartRun, FirstStage
  <2>2. Len(mcu_images) \in Nat
    BY DEF TInv, TypeOK, DevTypeOK
  <2>3. Filled(0)' /\ Filled(2)'
    BY <2>1, <2>2 DEF Filled
  <2> QED BY <2>1, <2>3 DEF Drops, Fill
<1> QED
  BY <1>0, <1>1, <1>2, <1>3, <1>4, <1>5, <1>6, <1>7 DEF Next, RunStep

(* The inductive invariant holds at the start.                             *)
LEMMA IInvInit == Init => IInv
<1> SUFFICES ASSUME Init PROVE IInv
  OBVIOUS
<1>1. ReplyInv
  BY DEF Init, HostInit, DevInit, ReplyInv, QueueInv, FreshInv
<1>2. UploadInv /\ DeliveredInv
  BY DEF Init, HostInit, UploadInv, DeliveredInv, Images
<1>3. FirstRunInv
  BY DEF Init, HostInit, DevInit, FirstRunInv
<1>4. SlotsInv
  BY DEF Init, HostInit, DevInit, SlotsInv
<1> QED BY <1>1, <1>2, <1>3, <1>4, TInvInit, LooseInit DEF IInv, StrictInv

(* The inductive invariant is preserved by every step.                     *)
LEMMA IInvNext == IInv /\ [Next]_vars => IInv'
  BY TInvNext, LooseNext, ReplyNext, StrictNext, FirstRunNext, SlotsNext DEF IInv

(* In every history of runs and faults, over every endpoint, the host's    *)
(* counter and the device's upload move together in an undisturbed strict  *)
(* run, each image is committed whole before the next command is sent, and *)
(* the reply to a data packet is the only one there is to read             *)
(* (device.c:150-208 against fake.c:55-165).                               *)
THEOREM Inductive == Spec => []IInv
<1>1. Init => IInv
  BY IInvInit
<1>2. IInv /\ [Next]_vars => IInv'
  BY IInvNext
<1> QED BY <1>1, <1>2, PTL DEF Spec

(* A unit whose bootloader needs it is erased, by an Erase.bin that arrived *)
(* whole, before an undisturbed strict run writes to it: stored if the run *)
(* began with three slots free, and at least committed in any case         *)
(* (device.c:331-357 against fake.c:32-53).                                *)
THEOREM ErasesFirst == Spec => []EraseFirst
<1>1. IInv => EraseFirst
  BY DEF IInv, StrictInv, DeliveredInv, Given, SlotsInv, EraseFirst
<1> QED BY <1>1, Inductive, PTL

(* An undisturbed strict run reports "update successful" only when the     *)
(* device has stored every image it was asked to install, whole, provided  *)
(* the run began with three slots free.  If it did not, what is not stored *)
(* was dropped for want of a slot, is not the external flash image, and    *)
(* all slots are taken (device.c:323-372 against fake.c:32-53).            *)
THEOREM SuccessIsReal == Spec => []SuccessMeansInstalled
<1>1. IInv => SuccessMeansInstalled
  BY DEF IInv, StrictInv, DeliveredInv, Given, SlotsInv, SuccessMeansInstalled
<1> QED BY <1>1, Inductive, PTL

(* An undisturbed strict run never makes the device apply an incomplete    *)
(* image: FINISH is only ever sent with a whole one in the device          *)
(* (device.c:203-208).                                                     *)
THEOREM FinishesWhole == Spec => FinishOnlyWhole
<1>1. ASSUME IInv, [Next]_vars, finished' # finished, opts.strict, Undisturbed
      PROVE  \E i \in Images : /\ upload_kind = KindOf(i)
                               /\ upload = Whole(i)
                               /\ announced = Len(upload)
  <2>1. SendCommand \/ CommandFails
    BY <1>1 DEF Next, RunStep, Start, ReceiveReply, ReplyGarbled, ReplyLost,
       ReplyLate, NoReply, ReplyFails, TakeReply, SendData, accept_bulk,
       DataRejected, DataCorrupt, reject_bulk, DataFails, DataRefused, OutOfMemory,
       RefuseImage, Sleep, vars, devVars, devState
  <2>2. AtWrite /\ fake_write_cmd(HostCommand)
    BY <1>1, <2>1 DEF SendCommand, CommandFails, CommandWritten, CommandNotWritten,
       devVars, devState
  <2>3. HostCommand.cmd = FINISH
    BY <1>1, <2>2 DEF fake_write_cmd, get_version, devState, begin, block
  <2>4. stage \in {"erase_finish", "finish"} /\ step = "cmd"
    BY <1>1, <2>2, <2>3 DEF AtWrite, HostCommand, Command, obd_build_begin,
       obd_build_block_header, KindOf, BEGIN_MCU, BEGIN_DATA, BLOCK, FINISH,
       GET_VERSION, IInv, TInv, TypeOK, HostTypeOK, ControlInv, Stages, CmdStages,
       Ended, Images, Sending
  <2>5. PICK i \in Images : Complete(i)
    BY <1>1, <2>4 DEF IInv, StrictInv, DeliveredInv, LastImage, Images
  <2>6. Len(Whole(i)) = NBlocks(i)
    BY NBlocksNat, PrefixGrows DEF Whole
  <2> QED BY <2>5, <2>6 DEF Complete
<1>2. IInv /\ [Next]_vars =>
        [finished' # finished /\ opts.strict /\ Undisturbed =>
           \E i \in Images : /\ upload_kind = KindOf(i)
                             /\ upload = Whole(i)
                             /\ announced = Len(upload)]_vars
  BY <1>1
<1> QED BY <1>2, Inductive, PTL DEF Spec, FinishOnlyWhole

(* While an image is being sent the device has its beginning, in order and *)
(* under the right kind, and the host's counter is right about how much:   *)
(* exactly in undisturbed strict runs, short of one block for each that    *)
(* was refused in the others (device.c:161-195 against fake.c:132-165).    *)
THEOREM CounterAgrees == Spec => []UploadAgrees
<1>1. IInv => UploadAgrees
  <2> SUFFICES ASSUME IInv, step \in Sending PROVE UploadAgrees
    BY DEF UploadAgrees, Sending
  <2>1. blk \in Nat /\ Len(upload) \in Nat /\ Spent \in Nat /\ stage \in Images
        /\ blk < NBlocks(stage)
    BY SpentGrows DEF IInv, TInv, TypeOK, HostTypeOK, DevTypeOK, ControlInv
  <2>2. Collects(stage) /\ announced = NBlocks(stage)
    BY DEF IInv, LooseInv
  <2>3. \/ step # "bulk_ack" /\ AllBut(upload, blk)
        \/ step = "bulk_ack" /\ AllBut(upload, blk + 1)
    BY DEF IInv, LooseInv, Sending
  <2>4. opts.strict /\ Undisturbed => Len(upload) \in {blk, blk + 1}
    <3> SUFFICES ASSUME opts.strict, Undisturbed PROVE Len(upload) \in {blk, blk + 1}
      OBVIOUS
    <3>1. Has(blk) \/ Has(blk + 1)
      BY DEF IInv, StrictInv, UploadInv, Sending
    <3>2. ASSUME NEW k \in Nat, Has(k) PROVE Len(upload) = k
      BY <2>1, <3>2, PrefixGrows DEF Has
    <3> QED BY <2>1, <3>1, <3>2
  <2>5. /\ Len(upload) - blk <= (IF step = "bulk_ack" THEN 1 ELSE 0)
        /\ blk - Len(upload) <= (IF opts.strict /\ Undisturbed THEN 0 ELSE Spent)
    BY <2>1, <2>3, <2>4 DEF AllBut
  <2> QED BY <2>2, <2>5 DEF UploadAgrees, Collects, Spent
<1> QED BY <1>1, Inductive, PTL

(* The device has to complain only about data that was corrupted, and      *)
(* about the order of blocks only in runs that are not strict or found     *)
(* replies unread (fake.c:90-148).                                         *)
THEOREM KeepsProtocol == Spec => HostKeepsProtocol
<1>1. ASSUME IInv, [Next]_vars, error' # error
      PROVE  error' = "checksum" \/ (error' = "order" /\ ~(opts.strict /\ Undisturbed))
  <2>1. CASE SendCommand \/ CommandFails
    <3>1. AtWrite /\ fake_write_cmd(HostCommand)
      BY <1>1, <2>1 DEF SendCommand, CommandFails, CommandWritten, CommandNotWritten,
         devVars, devState
    <3>2. stage \in Images /\ step = "header" /\ block(HostCommand)
      BY <1>1, <3>1, CommandArrives DEF IInv, get_version, devState, begin, finish
    <3>3. upload_kind # NoUpload
      BY <1>1, <3>2 DEF IInv, LooseInv, Sending, Collects, KindOf, BEGIN_MCU, BEGIN_DATA,
         NoUpload
    <3> QED BY <1>1, <3>2, <3>3 DEF block
  <2>2. ASSUME NEW intact \in BOOLEAN, step = "bulk", reject_bulk(intact)
        PROVE  error' = "checksum" \/ (error' = "order" /\ ~(opts.strict /\ Undisturbed))
    <3>1. stage \in Images /\ blk \in Nat /\ blk < NBlocks(stage) /\ NBlocks(stage) \in Nat
      BY <1>1, <2>2, NBlocksNat
         DEF IInv, TInv, ControlInv, Sending, TypeOK, HostTypeOK
    <3>2. pending = [len |-> BlockLen(Size[stage], blk), index |-> blk]
      BY <1>1, <2>2 DEF IInv, LooseInv
    <3>3. pending # NoBlock
      BY <3>1, <3>2 DEF NoBlock
    <3>4. opts.strict /\ Undisturbed => pending.index = upload_len \div BlockSize
      <4> SUFFICES ASSUME opts.strict, Undisturbed PROVE pending.index = upload_len \div BlockSize
        OBVIOUS
      <4>1. upload_len = blk * BlockSize
        BY <1>1, <2>2, <3>1 DEF IInv, StrictInv, UploadInv, Has
      <4> QED BY <3>1, <3>2, <4>1, IndexOfLength
    <3> QED BY <2>2, <3>3, <3>4 DEF reject_bulk, BulkError
  <2>3. CASE DataRejected \/ DataCorrupt
    BY <2>2, <2>3 DEF DataRejected, DataCorrupt, DataNotWritten
  <2>4. SendCommand \/ CommandFails \/ DataRejected \/ DataCorrupt
    BY <1>1 DEF Next, RunStep, Start, ReceiveReply, ReplyGarbled, ReplyLost,
       ReplyLate, NoReply, ReplyFails, TakeReply, SendData, accept_bulk,
       DataFails, DataRefused, OutOfMemory, RefuseImage, Sleep, vars, devVars, devState
  <2> QED BY <2>1, <2>3, <2>4
<1>2. IInv /\ [Next]_vars =>
        [error' # error => error' = "checksum" \/ (error' = "order" /\ ~(opts.strict /\ Undisturbed))]_vars
  BY <1>1
<1> QED BY <1>2, Inductive, PTL DEF Spec, HostKeepsProtocol
-----------------------------------------------------------------------------
(* A single run of the tool implements the abstract update of Install.     *)
(* The argument: images are committed by commands only; when a strict run  *)
(* sends one, the upload in the device is the image the host has just      *)
(* left, whole, and there is none at the first command; so what a step     *)
(* adds is one image whose turn it is.  Every other step either moves      *)
(* within the run, which the abstract update does not see, or ends it.     *)

status == IF stage \in Ended THEN stage ELSE "running"
owed   == IF opts.strict /\ HasRoom THEN Wanted(opts) ELSE {}

(* Two empty images of one kind cannot be told apart by their blocks.      *)
TellsApart == ~(Size["erase"] = 0 /\ Size["mcu"] = 0)

(* An update only ever owes images (main.c:258).                           *)
LEMMA OwedImages == owed \subseteq Images
  BY DEF owed, Wanted, Images

-----------------------------------------------------------------------------
(* Which images a commit adds.                                             *)

(* Erase.bin and the MCU image differ: in length, or in their first block  *)
(* (obd_block_count).                                                      *)
LEMMA WholesDiffer == ASSUME TellsApart PROVE Whole("erase") # Whole("mcu")
<1> SUFFICES ASSUME Whole("erase") = Whole("mcu") PROVE FALSE
  OBVIOUS
<1>1. NBlocks("erase") \in Nat /\ NBlocks("mcu") \in Nat
  BY NBlocksNat DEF Images
<1>2. Len(Whole("erase")) = NBlocks("erase") /\ Len(Whole("mcu")) = NBlocks("mcu")
  BY <1>1, PrefixGrows DEF Whole, Images
<1>3. NBlocks("erase") = 0 /\ NBlocks("mcu") = 0
  <2> SUFFICES ASSUME NBlocks("erase") # 0 PROVE FALSE
    BY <1>2
  <2>1. Whole("erase")[1].img = "erase" /\ Whole("mcu")[1].img = "mcu"
    BY <1>1, <1>2 DEF Whole, Prefix, Block
  <2> QED BY <2>1
<1>4. ASSUME NEW len \in Nat, obd_block_count(len) = 0 PROVE len = 0
  BY <1>4, BlockSizeAssumption, SMTT(20) DEF obd_block_count
<1>5. Size["erase"] \in Nat /\ Size["mcu"] \in Nat
  BY SizeAssumption DEF Images
<1> QED BY <1>3, <1>4, <1>5 DEF NBlocks, TellsApart

(* An upload is at most one image (fake.c:21-53).                          *)
LEMMA AddsAtMostOne ==
  ASSUME TellsApart PROVE Uploaded = {} \/ \E i \in Images : Uploaded = {i}
<1>1. \A i, j \in Uploaded : i = j
  BY WholesDiffer, Kinds DEF Uploaded, Images, BEGIN_MCU, BEGIN_DATA
<1> QED BY <1>1 DEF Uploaded

(* A commit takes nothing, or one image whose turn it is.                  *)
TakesOne == \/ installed' = installed
            \/ \E i \in Images : Abs!MayTake(i) /\ installed' = installed \cup {i}

(* The first run is one that begins with no reply unread.                  *)
LEMMA FirstStrict ==
  ASSUME IInv, MaxRuns = 1, opts.strict PROVE UploadInv /\ DeliveredInv
  BY DEF IInv, FirstRunInv, StrictInv, Undisturbed

(* A run that began with room has dropped nothing (fake.c:34).             *)
LEMMA RoomKeepsAll == ASSUME IInv, HasRoom PROVE Given = installed
  BY DEF IInv, SlotsInv, Given

(* If the upload of a strict run is whole when it is committed, it is the  *)
(* image of the stage before, and those it builds on are there already     *)
(* (device.c:331-372).                                                     *)
LEMMA TurnOfAdded ==
  ASSUME IInv, MaxRuns = 1, TellsApart, AtWrite, step = "cmd", stage # "version",
         opts.strict, HasRoom, NEW i \in Uploaded
  PROVE  Abs!MayTake(i)
<1>1. i \in Images /\ upload_kind = KindOf(i) /\ upload_kind # NoUpload
  BY DEF Uploaded, KindOf, NoUpload, BEGIN_MCU, BEGIN_DATA
<1>2. /\ stage \in {"ext", "erase_finish", "finish"}
      /\ stage = "ext" => opts.mcu
  BY <1>1 DEF IInv, FirstRunInv, TInv, ControlInv, TypeOK, HostTypeOK, Stages, Images,
     CmdStages, Ended
<1>3. \A j \in Images : Complete(j) => i = j
  BY <1>1, AddsAtMostOne DEF Uploaded, Complete
<1>4. CASE stage = "erase_finish"
  BY <1>3, <1>4, FirstStrict, RoomKeepsAll DEF DeliveredInv, Images, Abs!MayTake, Abs!Before
<1>5. CASE stage = "ext"
  BY <1>2, <1>3, <1>5, FirstStrict, RoomKeepsAll DEF DeliveredInv, Images, Wanted, Abs!MayTake,
     Abs!Before
<1>6. CASE stage = "finish"
  BY <1>3, <1>6, FirstStrict, RoomKeepsAll DEF DeliveredInv, LastImage, Images, Wanted, Abs!MayTake,
     Abs!Before
<1> QED BY <1>2, <1>4, <1>5, <1>6

(* Whatever command arrives, it takes at most an image whose turn it is.   *)
LEMMA CommandTakes ==
  ASSUME IInv, MaxRuns = 1, TellsApart, AtWrite, fake_write_cmd(HostCommand)
  PROVE  TakesOne
<1>1. CASE \/ step = "cmd" /\ stage = "version" /\ get_version
           \/ step = "header" /\ stage \in Images /\ block(HostCommand)
  BY <1>1 DEF get_version, block, devState, TakesOne
<1>2. CASE \/ step = "cmd" /\ stage \in Images /\ begin(HostCommand)
           \/ step = "cmd" /\ stage \in {"erase_finish", "finish"} /\ finish
  <2>1. installed' \in {installed, installed \cup Uploaded}
    BY <1>2 DEF begin, finish, commit_upload
  <2>2. \A i \in Uploaded : Abs!MayTake(i)
    <3>1. CASE opts.strict /\ HasRoom
      BY <1>2, <3>1, TurnOfAdded DEF Images
    <3>2. CASE ~(opts.strict /\ HasRoom)
      BY <3>2 DEF Abs!MayTake
    <3> QED BY <3>1, <3>2
  <2> QED BY <2>1, <2>2, AddsAtMostOne DEF TakesOne, Uploaded
<1> QED BY <1>1, <1>2, CommandArrives DEF IInv

-----------------------------------------------------------------------------
(* Every step of the update is a step of the abstract one, or none.        *)

(* The program starts as the abstract update does.                         *)
LEMMA InstallInit == Init => Abs!Init
<1> SUFFICES ASSUME Init PROVE Abs!Init
  OBVIOUS
<1> QED BY OwedImages DEF Init, HostInit, DevInit, Ended, Images, owed, Abs!Init, Abs!Image

(* A step that stays in the run or ends it leaves what is owed alone.      *)
LEMMA OwedStays ==
  ASSUME UNCHANGED <<opts, version, taken>> PROVE owed' = owed
  BY DEF owed, Wanted, MustErase, HasRoom

(* Failing is giving up, with or without the image in flight.              *)
LEMMA FailGivesUp ==
  ASSUME stage \notin Ended, Fail, TakesOne, UNCHANGED <<version, taken>> PROVE Abs!GiveUp
<1>1. stage' = "failed" /\ UNCHANGED opts
  BY DEF Fail, Goto
<1>2. owed' = owed
  BY <1>1, OwedStays
<1> QED BY <1>1, <1>2 DEF TakesOne, Abs!GiveUp, owed, Ended, Images, Abs!Image

(* A step within the run that takes at most an image whose turn it is.     *)
LEMMA InRun ==
  ASSUME stage \notin Ended, stage' \notin Ended, TakesOne, UNCHANGED <<opts, version, taken>>
  PROVE  (\E i \in Abs!Image : Abs!Take(i)) \/ UNCHANGED <<status, owed, installed>>
<1>1. owed' = owed
  BY OwedStays
<1> QED BY <1>1 DEF TakesOne, Abs!Take, owed, status, Images, Abs!Image

(* A reply moves the host within the run, fails it, or is the reply to the *)
(* last FINISH, when all that is owed is there (device.c:100-208).         *)
LEMMA ReplyMoves ==
  ASSUME IInv, MaxRuns = 1, NEW r, ReplyRead(r), UNCHANGED <<version, installed, taken>>
  PROVE  Abs!Next \/ UNCHANGED <<status, owed, installed>>
<1>1. /\ stage \notin Ended /\ UNCHANGED opts
      /\ \/ stage' = "failed"
         \/ stage = "finish" /\ step = "ack" /\ stage' = "ok"
         \/ stage' \notin Ended
  <2>1. step \in {"ack", "header_ack", "bulk_ack"} /\ stage \notin Ended
        /\ (step # "ack" => stage \in Images)
    BY DEF ReplyRead, VersionRead, BeginRead, HeaderRead, DataRead, FinishRead, IInv, TInv,
           ControlInv, Sending
  <2>2. ASSUME NEW k, NextBlock(k), stage \in Images
        PROVE  stage' \notin Ended /\ UNCHANGED opts
    BY <2>2 DEF NextBlock, Goto, AfterImage, Images, Ended
  <2>3. CASE VersionRead(r)
    BY <2>1, <2>3 DEF VersionRead, AfterVersion, Goto, Ended
  <2>4. CASE BeginRead(r) \/ HeaderRead(r) \/ DataRead(r)
    BY <2>1, <2>2, <2>4 DEF BeginRead, HeaderRead, DataRead, Fail, Goto
  <2>5. CASE FinishRead(r)
    BY <2>1, <2>5 DEF FinishRead, Goto, Ended
  <2> QED BY <2>3, <2>4, <2>5 DEF ReplyRead
<1>2. TakesOne /\ owed' = owed
  BY <1>1, OwedStays DEF TakesOne
<1>3. CASE stage' = "failed"
  BY <1>1, <1>2, <1>3 DEF Abs!Next, Abs!GiveUp, owed, Ended
<1>4. CASE stage = "finish" /\ step = "ack" /\ stage' = "ok"
  <2>1. owed \subseteq installed
    BY <1>4, FirstStrict, RoomKeepsAll DEF DeliveredInv, owed
  <2> QED BY <1>2, <1>4, <2>1 DEF Abs!Next, Abs!Succeed, owed, Ended
<1>5. CASE stage' \notin Ended
  BY <1>1, <1>2, <1>5, InRun DEF Abs!Next
<1> QED BY <1>1, <1>3, <1>4, <1>5

(* Step by step.                                                           *)
LEMMA InstallNext ==
  ASSUME IInv, MaxRuns = 1, TellsApart, [Next]_vars
  PROVE  Abs!Next \/ UNCHANGED <<status, owed, installed>>
<1>1. CASE UNCHANGED vars
  BY <1>1 DEF vars, hostVars, devVars, devState, status, owed, Wanted, MustErase,
     HasRoom
<1>2. ASSUME NEW o \in RunOptions, Start(o) PROVE Abs!Begin
  <2>1. o \in Options
    BY RunOptionsAssumption
  <2>2. stage \in Ended /\ stage' \notin Ended /\ installed' = {}
    BY <1>2 DEF Start, StartRun, FirstStage, Ended
  <2>3. owed' \in SUBSET Abs!Image
    BY OwedImages DEF owed, Wanted, Abs!Image
  <2> QED BY <2>2, <2>3 DEF Abs!Begin, Abs!Over, owed, Ended
<1>running. AtWrite \/ AtRead \/ step = "bulk" \/ stage = "sleep" => stage \notin Ended
  BY DEF IInv, TInv, ControlInv, AtWrite, AtRead, Ended
<1>3. CASE SendCommand \/ CommandFails
  <2>1. AtWrite /\ UNCHANGED <<version, taken>>
    BY <1>3 DEF SendCommand, CommandFails, CommandWritten, CommandNotWritten,
       fake_write_cmd, devVars, Fault, NoFault
  <2>2. TakesOne
    BY <1>3, <2>1, CommandTakes DEF SendCommand, CommandFails, TakesOne, devVars, devState
  <2>3. CASE CommandWritten
    BY <1>running, <2>1, <2>2, <2>3, InRun DEF CommandWritten, Abs!Next
  <2>4. CASE CommandNotWritten
    BY <1>running, <2>1, <2>2, <2>4, FailGivesUp DEF CommandNotWritten, Abs!Next
  <2> QED BY <1>3, <2>3, <2>4 DEF SendCommand, CommandFails
<1>4. CASE ReceiveReply \/ ReplyGarbled \/ ReplyLost \/ ReplyLate \/ NoReply
  <2>1. PICK r : ReplyRead(r)
    BY <1>4 DEF ReceiveReply, ReplyGarbled, ReplyLost, ReplyLate, NoReply
  <2>2. UNCHANGED <<version, installed, taken>>
    BY <1>4 DEF ReceiveReply, ReplyGarbled, ReplyLost, ReplyLate, NoReply, TakeReply,
       devVars, devState, Fault, NoFault
  <2> QED BY <2>1, <2>2, ReplyMoves
<1>5. CASE SendData \/ DataRefused
  <2>1. stage \notin Ended /\ UNCHANGED <<stage, opts, version, installed, taken>>
    BY <1>5, <1>running DEF SendData, DataRefused, DataWritten, accept_bulk,
       Fault, NoFault
  <2> QED BY <2>1, InRun DEF TakesOne, Abs!Next
<1>6. CASE Sleep
  <2>1. stage \notin Ended /\ stage' \notin Ended
        /\ UNCHANGED <<opts, version, installed, taken>>
    BY <1>6, <1>running DEF Sleep, Slept, Goto, devVars, devState, Ended, NoFault
  <2> QED BY <2>1, InRun DEF TakesOne, Abs!Next
<1>7. CASE ReplyFails \/ DataRejected \/ DataCorrupt \/ DataFails \/ OutOfMemory
           \/ RefuseImage
  <2>1. Fail /\ stage \notin Ended
    BY <1>7, <1>running DEF ReplyFails, ReadFailed, DataRejected, DataCorrupt, DataFails,
       DataNotWritten, OutOfMemory, NoPacketBuffer, RefuseImage, ImageTooLarge, TooLarge,
       IInv, TInv, ControlInv, Sending, Images, Ended
  <2>2. UNCHANGED <<version, installed, taken>>
    BY <1>7 DEF ReplyFails, TakeReply, DataRejected, DataCorrupt, reject_bulk, DataFails,
       accept_bulk, OutOfMemory, RefuseImage, devVars, devState, Fault, NoFault
  <2> QED BY <2>1, <2>2, FailGivesUp DEF TakesOne, Abs!Next
<1> QED BY <1>1, <1>2, <1>3, <1>4, <1>5, <1>6, <1>7 DEF Next, RunStep, Abs!Next

(* One run of obd_run_update, over every endpoint, takes whole images into *)
(* the device in the order the hardware depends on and reports success for *)
(* all it owes or not at all (device.c:323-372).  It owes nothing without  *)
(* --strict, nor to a device with fewer than three slots (fake.c:34).      *)
THEOREM RunImplementsInstall ==
  ASSUME MaxRuns = 1, TellsApart PROVE Spec => ImplementsInstall
<1>1. Init => Abs!Init
  BY InstallInit
<1>2. IInv /\ [Next]_vars => [Abs!Next]_<<status, owed, installed>>
  BY InstallNext
<1> QED BY <1>1, <1>2, Inductive, PTL DEF Spec, ImplementsInstall, Abs!Spec, status, owed
=============================================================================
