------------------------------ MODULE HostProofs ------------------------------
(***************************************************************************)
(* A run of openphix-tool for every command line, package, set of devices  *)
(* and memory of the device, and whatever fails on the way.                *)
(***************************************************************************)
EXTENDS HostTool, FiniteSetTheorems, SequenceTheorems, WellFoundedInduction, TLAPS

-----------------------------------------------------------------------------
(* The inductive invariant.                                                *)

UpdateSteps == {"mcu", "ext", "erase", "ask", "update"}
FileSteps   == {"transfer", "write"}
Crypt       == {"decrypt", "encrypt"}

(* A ledger with nothing amiss.                                            *)
Holding(x) == [held |-> x, misused |-> FALSE]

(* What has been taken at each step of obd_usb_open.                       *)
UsbHeld ==
  CASE usb \in {"alloc", "failed"}    -> {}
    [] usb = "init"                   -> {"priv", "transport"}
    [] usb = "list"                   -> {"priv", "transport", "ctx"}
    [] usb \in {"find", "open"}       -> {"priv", "transport", "ctx", "list"}
    [] usb = "endpoints"              -> {"priv", "transport", "ctx", "list", "handle"}
    [] usb \in {"claim", "opened"}    -> {"priv", "transport", "ctx", "handle"}

(* An open device, and what the command has taken for itself.              *)
OpenHeld ==
  IF cli.simulate = "" THEN {"priv", "transport", "ctx", "handle"} ELSE {"transport", "fake"}
OwnHeld ==
  CASE at \in UpdateSteps -> {i \in DOMAIN images : images[i] # <<>>}
    [] at \in FileSteps   -> {"buf"}
    [] at = "parse"       -> {"raw"}
    [] at \in {"open", "report"} -> {}

Held ==
  CASE at \in {"main", "crypt", "end"}         -> {}
    [] at = "list"                             -> IF usb = "list all" THEN {"ctx"} ELSE {}
    [] at = "opening"                          -> UsbHeld
    [] at = "write" /\ cli.cmd \in Crypt       -> {"buf"}
    [] OTHER                                   -> OpenHeld \cup OwnHeld

HeldOfRecords == {<<"recs">>} \cup UNION {Parts(recs[i]) : i \in DOMAIN recs}

LedgerInv ==
  /\ ledger = Holding(Held)
  /\ heap = Holding(IF at \in {"parse", "report"} THEN HeldOfRecords ELSE {})

BeforeOpen == {"main", "list", "opening", "crypt"}
AtSteps    == BeforeOpen \cup UpdateSteps \cup FileSteps \cup {"open", "parse", "report", "end"}

StepInv ==
  /\ at \in AtSteps
  /\ at = "list" => usb \in {"list init", "list all", "listed", "failed"}
  /\ at = "opening" =>
       /\ usb \in {"alloc", "init", "list", "find", "open", "endpoints", "claim", "opened", "failed"}
       /\ cli.simulate # "" => usb = "alloc"
  /\ at = "list" => cli.cmd = "list" /\ cli.simulate = ""
  /\ at = "crypt" => cli.cmd \in Crypt
  /\ at \in UpdateSteps => cli.cmd = "update"
  /\ at = "transfer" => cli.cmd \in {"feedback", "read-flash"}
  /\ at = "write" => cli.cmd \in Files
  /\ at \in {"parse", "report"} => cli.cmd = "dtc-review"
  /\ found \in Nat

(* What has happened to device and file when a command goes on.            *)
GoingInv ==
  /\ code = <<>> <=> at # "end"
  /\ at \in BeforeOpen => dev = <<>>
  /\ at \in AtSteps \ (BeforeOpen \cup {"end"}) /\ ~(at = "write" /\ cli.cmd \in Crypt) =>
       dev # <<>>
  /\ at # "end" => sent = <<>> /\ out = "none"

WorldInv ==
  /\ cli.dir \in Seq(STRING)
  /\ tree.names \in Seq(STRING)
  /\ devices \in Seq(Plugs)
  /\ raw \in Seq(RawBlocks)

(* An update sends what it has chosen.                                     *)
ChosenInv ==
  /\ at \in {"opening", "open"} \cup UpdateSteps /\ cli.cmd = "update" => Root # <<>>
  /\ at \in BeforeOpen \cup {"open", "mcu"} => images = NoImages
  /\ at \in UpdateSteps => Chosen.mcu # <<>> \/ Chosen.ext # <<>>
  /\ at = "ext"         => images = [NoImages EXCEPT !.mcu = Chosen.mcu]
  /\ at = "erase"       => images = [Chosen EXCEPT !.erase = <<>>]
  /\ at \in {"ask", "update"} => images = Chosen

SentInv ==
  sent # <<>> =>
    Root # <<>> /\ sent = <<Chosen>> /\ (Chosen.mcu # <<>> \/ Chosen.ext # <<>>)

(* The records of the blocks looked at so far, in the order of the blocks. *)
Records ==
  {Record(raw[i], i - 1, Len(raw[i].dtcs) + 1) : i \in {j \in DOMAIN raw : raw[j].magic}}

ParseInv ==
  /\ at \in BeforeOpen \cup {"open"} => block = 0 /\ recs = <<>>
  /\ at = "parse" =>
       /\ block \in 0..Len(raw)
       /\ \A j, k \in DOMAIN recs : j < k => recs[j].sequence < recs[k].sequence
       /\ {recs[k].sequence + 1 : k \in DOMAIN recs} = {i \in 1..block : raw[i].magic}
  /\ at = "report" =>
       /\ \A j, k \in DOMAIN recs : j < k => ByKey(recs[j], recs[k])
       /\ {recs[k].sequence + 1 : k \in DOMAIN recs} = {i \in DOMAIN raw : raw[i].magic}
  /\ at \in {"parse", "report"} => recs \in Seq(Records)

HInv ==
  /\ WorldInv /\ StepInv /\ GoingInv /\ LedgerInv
  /\ ExitCodeRight /\ ChosenInv /\ SentInv /\ ParseInv

-----------------------------------------------------------------------------
(* Taking and giving back.                                                 *)

LEMMA HoldingIs ==
  ASSUME NEW x
  PROVE  Holding(x).held = x /\ ~Holding(x).misused /\ Holding({}) = Nothing
  BY DEF Holding, Nothing

LEMMA TakeMore ==
  ASSUME NEW x, NEW y PROVE Take(Holding(x), y) = Holding(x \cup y)
<1>1. Take(Holding(x), y) = [Holding(x) EXCEPT !.held = x \cup y]
  BY HoldingIs DEF Take
<1> QED BY <1>1 DEF Holding

(* What is held can be used, and given back.                               *)
LEMMA UseHeld ==
  ASSUME NEW x, NEW y, y \subseteq x PROVE Use(Holding(x), y) = Holding(x)
<1>1. (Holding(x).misused \/ ~(y \subseteq Holding(x).held)) = FALSE
  <2>1. y \subseteq Holding(x).held
    BY HoldingIs
  <2> QED BY <2>1, HoldingIs, Zenon
<1>2. Use(Holding(x), y) = [Holding(x) EXCEPT !.misused = FALSE]
  BY <1>1 DEF Use
<1> QED BY <1>2 DEF Holding

LEMMA DropHeld ==
  ASSUME NEW x, NEW y, y \subseteq x PROVE Drop(Holding(x), y) = Holding(x \ y)
<1>1. Drop(Holding(x), y) = [Holding(x) EXCEPT !.held = x \ y]
  BY UseHeld, HoldingIs DEF Drop
<1> QED BY <1>1 DEF Holding

LEMMA DropAll == ASSUME NEW x PROVE Drop(Holding(x), x) = Nothing
<1>1. x \ x = {}
  OBVIOUS
<1> QED BY <1>1, DropHeld, HoldingIs

(* obd_transport_close gives back what an open device has taken.           *)
LEMMA ReleasedAll == Released(Holding(OpenHeld)) = Nothing
<1>1. CASE cli.simulate = ""
  <2>1. {"priv", "transport"} \cup (OpenHeld \cap {"ctx", "handle"}) = OpenHeld
    BY <1>1 DEF OpenHeld
  <2> QED BY <1>1, <2>1, DropAll, HoldingIs DEF Released, usb_close
<1>2. CASE cli.simulate # ""
  <2>1. {"transport", "fake"} = OpenHeld
    BY <1>2 DEF OpenHeld
  <2> QED BY <1>2, <2>1, DropAll DEF Released
<1> QED BY <1>1, <1>2

(* A command that closes the device, having given back what it has taken   *)
(* for itself (the label out), holds nothing.                              *)
LEMMA Closes ==
  ASSUME NEW x, NEW n, x \cap OpenHeld = {}, ledger = Holding(OpenHeld \cup x),
         (x = {} /\ Close(ledger, n)) \/ Close(Drop(ledger, x), n)
  PROVE  ledger' = Nothing /\ at' = "end" /\ code' = <<n>>
<1>1. (OpenHeld \cup x) \ x = OpenHeld /\ x \subseteq OpenHeld \cup x
  OBVIOUS
<1>2. Drop(ledger, x) = Holding(OpenHeld)
  BY <1>1, DropHeld
<1>3. x = {} => ledger = Holding(OpenHeld)
  BY <1>1
<1> QED BY <1>2, <1>3, ReleasedAll DEF Close, Ends

(* The end of a command, if the exit code is right.                        *)
LEMMA EndsWell ==
  ASSUME WorldInv, UNCHANGED world, found' \in Nat, at' = "end",
         ledger' = Nothing, heap' = Nothing, NEW n, code' = <<n>>,
         SentInv', ExitCodeRight'
  PROVE  HInv'
<1>1. WorldInv'
  BY DEF WorldInv, world
<1>2. StepInv' /\ GoingInv'
  BY DEF StepInv, GoingInv, AtSteps, BeforeOpen, UpdateSteps, FileSteps
<1>3. LedgerInv'
  BY HoldingIs DEF LedgerInv, Held
<1>4. ChosenInv' /\ ParseInv'
  BY DEF ChosenInv, ParseInv, UpdateSteps, BeforeOpen
<1> QED BY <1>1, <1>2, <1>3, <1>4 DEF HInv

(* There is one exit code.                                                 *)
LEMMA ExitsRight ==
  ASSUME NEW n \in Nat, code' = <<n>>,
         n = 0 /\ cli'.options = "fine" => Achieved',
         sent' # <<>> => n \in {0, 4},
         n = 3 => dev' = <<>>,
         n = 4 => dev' # <<>>,
         out' \in {"whole", "lost"} => n = 0
  PROVE  ExitCodeRight'
<1>1. \A m \in Nat : code' = <<m>> <=> m = n
  OBVIOUS
<1> QED BY <1>1 DEF ExitCodeRight, Exit

-----------------------------------------------------------------------------
(* A set of numbers has a least one.                                       *)
LEMMA HasLeast ==
  ASSUME NEW S, S \subseteq Nat, S # {} PROVE \E i \in S : \A j \in S : i <= j
<1>1. \E i \in S : \A j \in S : ~(<<j, i>> \in OpToRel(<, Nat))
  BY NatLessThanWellFounded, WFMin
<1>2. PICK i \in S : \A j \in S : ~(<<j, i>> \in OpToRel(<, Nat))
  BY <1>1
<1>3. ASSUME NEW j \in S PROVE i <= j
  <2>1. ~(j < i)
    BY <1>2 DEF OpToRel
  <2> QED BY <2>1
<1> QED BY <1>3

-----------------------------------------------------------------------------
LEMMA HInvInit == HostInit => HInv
<1> SUFFICES ASSUME HostInit PROVE HInv
  OBVIOUS
<1>1. WorldInv
  BY HostRunsAssumption DEF HostInit, WorldInv
<1>2. HostStarts
  BY DEF HostInit
<1>3. StepInv /\ GoingInv /\ LedgerInv
  BY <1>2, HoldingIs DEF HostStarts, StepInv, GoingInv, LedgerInv, Held, AtSteps, BeforeOpen,
     UpdateSteps, FileSteps
<1>4. ChosenInv /\ SentInv /\ ParseInv /\ ExitCodeRight
  BY <1>2 DEF HostStarts, ChosenInv, SentInv, ParseInv, UpdateSteps, BeforeOpen, ExitCodeRight, Exit
<1> QED BY <1>1, <1>3, <1>4 DEF HInv

-----------------------------------------------------------------------------
(* A command that goes on promises nothing yet.                            *)
LEMMA GoesOn ==
  ASSUME HInv, at # "end", UNCHANGED <<world, sent, out, code>>
  PROVE  /\ WorldInv' /\ SentInv' /\ ExitCodeRight'
         /\ code' = <<>> /\ sent' = <<>> /\ out' = "none"
<1>1. code' = <<>> /\ sent' = <<>> /\ out' = "none"
  BY DEF HInv, GoingInv
<1>2. WorldInv'
  BY DEF HInv, WorldInv, world
<1>3. SentInv' /\ ExitCodeRight'
  BY <1>1 DEF SentInv, ExitCodeRight, Exit
<1> QED BY <1>1, <1>2, <1>3

(* main.                                                                   *)
LEMMA MainKeeps == HInv /\ Main => HInv'
<1> SUFFICES ASSUME HInv, Main PROVE HInv'
  OBVIOUS
<1>1. /\ at = "main" /\ ledger = Nothing /\ heap = Nothing
      /\ code = <<>> /\ dev = <<>> /\ sent = <<>> /\ out = "none"
      /\ block = 0 /\ recs = <<>> /\ found \in Nat /\ WorldInv
  BY HoldingIs DEF Main, HInv, LedgerInv, Held, GoingInv, BeforeOpen, ParseInv, StepInv
<1>2. UNCHANGED <<found, world, images, sent, block, recs, heap, dev, out>>
  BY DEF Main, updating, parsing
<1>3. ASSUME NEW n \in {0, 2}, Ends(ledger, n),
             n = 0 /\ cli.options = "fine" =>
               cli.cmd = "package" \/ (cli.cmd = "list" /\ cli.simulate # "")
      PROVE  HInv'
  <2>1. ledger' = Nothing /\ heap' = Nothing /\ at' = "end" /\ code' = <<n>>
    BY <1>1, <1>2, <1>3 DEF Ends
  <2>2. n = 0 /\ cli'.options = "fine" => Achieved'
    BY <1>1, <1>2, <1>3 DEF Achieved, Files, world
  <2>3. SentInv' /\ ExitCodeRight'
    BY <1>1, <1>2, <2>1, <2>2, ExitsRight DEF SentInv
  <2> QED BY <1>1, <1>2, <2>1, <2>3, EndsWell
<1>4. CASE \/ Moves(ledger, "crypt") /\ cli.cmd \in Crypt
           \/ Moves(ledger, "list") /\ usb' = "list init" /\ cli.cmd = "list"
              /\ cli.simulate = ""
           \/ Moves(ledger, "opening") /\ usb' = "alloc" /\ ~Unusable
  <2>1. /\ ledger' = Nothing /\ heap' = Nothing /\ UNCHANGED code
        /\ \/ at' = "crypt" /\ cli.cmd \in Crypt
           \/ at' = "list" /\ usb' = "list init" /\ cli.cmd = "list" /\ cli.simulate = ""
           \/ at' = "opening" /\ usb' = "alloc" /\ ~Unusable
    BY <1>1, <1>2, <1>4 DEF Moves
  <2>2. WorldInv' /\ SentInv' /\ ExitCodeRight'
    BY <1>1, <1>2, <2>1, GoesOn
  <2>3. StepInv'
    BY <1>1, <1>2, <2>1 DEF StepInv, AtSteps, BeforeOpen, UpdateSteps, FileSteps, world
  <2>4. GoingInv'
    BY <1>1, <1>2, <2>1 DEF GoingInv, BeforeOpen, world
  <2>5. LedgerInv'
    BY <1>1, <1>2, <2>1, HoldingIs DEF LedgerInv, Held, UsbHeld
  <2>6. ChosenInv'
    <3>1. cli.cmd = "update" /\ at' = "opening" => Root # <<>>
      BY <2>1 DEF Unusable
    <3>2. Root' = Root
      BY <1>2 DEF Root, world
    <3>3. images' = NoImages
      BY <1>1, <1>2 DEF HInv, ChosenInv, BeforeOpen
    <3> QED BY <1>2, <2>1, <3>1, <3>2, <3>3 DEF ChosenInv, UpdateSteps, BeforeOpen, world
  <2>7. ParseInv'
    BY <1>1, <1>2, <2>1 DEF ParseInv
  <2> QED BY <2>2, <2>3, <2>4, <2>5, <2>6, <2>7 DEF HInv
<1>5. \/ \E n \in {0, 2} : /\ Ends(ledger, n)
                           /\ n = 0 /\ cli.options = "fine" =>
                                cli.cmd = "package" \/ (cli.cmd = "list" /\ cli.simulate # "")
      \/ Moves(ledger, "crypt") /\ cli.cmd \in Crypt
      \/ Moves(ledger, "list") /\ usb' = "list init" /\ cli.cmd = "list" /\ cli.simulate = ""
      \/ Moves(ledger, "opening") /\ usb' = "alloc" /\ ~Unusable
  <2>1. CASE cli.options \in {"help", "wrong"}
    BY <2>1 DEF Main
  <2>2. CASE cli.options = "fine" /\ Unusable /\ Ends(ledger, 2)
    BY <2>2 DEF Ends
  <2>3. CASE cli.options = "fine" /\ ~(Unusable /\ Ends(ledger, 2))
    BY <2>3 DEF Main, Crypt
  <2> QED BY <2>1, <2>2, <2>3 DEF Main
<1> QED BY <1>3, <1>4, <1>5

(* list.                                                                   *)
LEMMA ListKeeps == HInv /\ cmd_list => HInv'
<1> SUFFICES ASSUME HInv, cmd_list PROVE HInv'
  OBVIOUS
<1>1. /\ at = "list" /\ cli.cmd = "list" /\ cli.simulate = ""
      /\ usb = "list all" => ledger = Holding({"ctx"})
      /\ usb # "list all" => ledger = Nothing
      /\ heap = Nothing /\ code = <<>> /\ dev = <<>> /\ sent = <<>> /\ out = "none"
      /\ block = 0 /\ recs = <<>> /\ found \in Nat /\ WorldInv
      /\ usb \in {"list init", "list all", "listed", "failed"}
  BY HoldingIs DEF cmd_list, HInv, LedgerInv, Held, GoingInv, BeforeOpen, ParseInv, StepInv
<1>2. UNCHANGED <<world, images, sent, block, recs, heap, dev, out>>
  BY DEF cmd_list, updating, parsing
<1>3. CASE obd_usb_list(devices, cli.ids) /\ UNCHANGED <<at, code>>
  <2>1. /\ usb' \in {"list all", "listed", "failed"} /\ found' \in Nat
        /\ usb' = "list all" => ledger' = Holding({"ctx"})
        /\ usb' # "list all" => ledger' = Nothing
    <3>1. CASE ListInit
      <4>1. Take(Nothing, {"ctx"}) = Holding({"ctx"})
        BY TakeMore, HoldingIs
      <4> QED BY <1>1, <3>1, <4>1 DEF ListInit, Goes
    <3>2. CASE ListAll(devices, cli.ids)
      <4>1. ledger = Holding({"ctx"})
        BY <1>1, <3>2 DEF ListAll
      <4>2. Drop(ledger, {"ctx"}) = Nothing
        BY <4>1, DropAll
      <4>3. Drop(Take(ledger, {"list"}), {"list", "ctx"}) = Nothing
        <5>1. Take(ledger, {"list"}) = Holding({"ctx"} \cup {"list"})
          BY <4>1, TakeMore
        <5>2. {"ctx"} \cup {"list"} = {"list", "ctx"}
          OBVIOUS
        <5> QED BY <5>1, <5>2, DropAll
      <4>4. IsFiniteSet(DOMAIN devices)
        <5>1. devices \in Seq(Plugs)
          BY <1>1 DEF WorldInv
        <5>2. DOMAIN devices = 1..Len(devices) /\ Len(devices) \in Nat
          BY <5>1, LenProperties
        <5> QED BY <5>2, FS_Interval
      <4>5. ASSUME NEW readable \in SUBSET (DOMAIN devices)
            PROVE  Cardinality({i \in readable : matches(devices[i], cli.ids)}) \in Nat
        BY <4>4, FS_Subset, FS_CardinalityType
      <4> QED BY <1>1, <3>2, <4>2, <4>3, <4>5 DEF ListAll, Goes, Nothing
    <3> QED BY <1>3, <3>1, <3>2 DEF obd_usb_list
  <2>2. at' = "list" /\ UNCHANGED code /\ heap' = Nothing
    BY <1>1, <1>2, <1>3
  <2>3. WorldInv' /\ SentInv' /\ ExitCodeRight'
    BY <1>1, <1>2, <2>2, GoesOn
  <2>4. StepInv' /\ GoingInv'
    BY <1>1, <1>2, <2>1, <2>2 DEF StepInv, GoingInv, AtSteps, BeforeOpen, UpdateSteps, FileSteps, world
  <2>5. LedgerInv'
    BY <2>1, <2>2, HoldingIs DEF LedgerInv, Held
  <2>6. ChosenInv' /\ ParseInv'
    <3>1. images' = NoImages
      BY <1>1, <1>2 DEF HInv, ChosenInv, BeforeOpen
    <3> QED BY <1>1, <1>2, <2>2, <3>1 DEF ChosenInv, ParseInv, UpdateSteps, BeforeOpen
  <2> QED BY <2>3, <2>4, <2>5, <2>6 DEF HInv
<1>4. ASSUME NEW n \in {0, 1, 3}, usb \in {"failed", "listed"}, Ends(ledger, n), UNCHANGED found,
             n = 0 => found # 0
      PROVE  HInv'
  <2>1. ledger' = Nothing /\ heap' = Nothing /\ at' = "end" /\ code' = <<n>> /\ found' \in Nat
    BY <1>1, <1>2, <1>4 DEF Ends, Nothing
  <2>2. n = 0 => Achieved'
    <3>1. cli' = cli /\ found' = found /\ (n = 0 => found > 0)
      <4>1. cli' = cli
        BY <1>2 DEF world
      <4>2. found' = found /\ found \in Nat /\ (n = 0 => found # 0)
        BY <1>1, <1>4
      <4> QED BY <4>1, <4>2
    <3> QED BY <1>1, <3>1 DEF Achieved, Files
  <2>4. dev' = <<>> /\ sent' = <<>> /\ out' = "none"
    BY <1>1, <1>2
  <2>3. SentInv' /\ ExitCodeRight'
    BY <2>1, <2>2, <2>4, ExitsRight DEF SentInv
  <2> QED BY <1>1, <1>2, <2>1, <2>3, EndsWell
<1> QED BY <1>3, <1>4 DEF cmd_list
(* Each call into libusb leaves taken what the step after it expects, and  *)
(* each that fails leaves nothing (usb_transport.c:164-237).               *)
Opening == {"alloc", "init", "list", "find", "open", "endpoints", "claim", "opened", "failed"}

LEMMA UsbFails ==
  ASSUME NEW x, {"priv", "transport"} \subseteq x, x \subseteq {"priv", "transport", "ctx", "handle"},
         Fail(Holding(x))
  PROVE  ledger' = Nothing /\ usb' = "failed" /\ found' = found
<1>1. {"priv", "transport"} \cup (x \cap {"ctx", "handle"}) = x
  OBVIOUS
<1> QED BY <1>1, HoldingIs, DropAll DEF Fail, usb_close

LEMMA UsbOpens ==
  ASSUME usb \in Opening, ledger = Holding(UsbHeld), found \in Nat, DOMAIN devices \subseteq Nat,
         obd_usb_open(devices, cli.ids)
  PROVE  usb' \in Opening /\ ledger' = Holding(UsbHeld') /\ found' \in Nat
<1> DEFINE two   == {"priv", "transport"}
           three == {"priv", "transport", "ctx"}
           listed == {"priv", "transport", "ctx", "list"}
           opened == {"priv", "transport", "ctx", "handle"}
           all == {"priv", "transport", "ctx", "list", "handle"}
<1>failed. ASSUME usb' = "failed", ledger' = Nothing, found' = found
           PROVE  usb' \in Opening /\ ledger' = Holding(UsbHeld') /\ found' \in Nat
  BY <1>failed, HoldingIs DEF Opening, UsbHeld
<1>1. CASE Allocate
  <2>1. ledger = Holding({})
    BY <1>1 DEF Allocate, UsbHeld
  <2> PICK got \in SUBSET two :
        IF got = two THEN Goes(Take(ledger, got), "init")
        ELSE Goes(Drop(Take(ledger, got), got), "failed")
    BY <1>1 DEF Allocate
  <2>2. Take(ledger, got) = Holding(got)
    <3>1. {} \cup got = got
      OBVIOUS
    <3> QED BY <2>1, <3>1, TakeMore
  <2>3. Drop(Take(ledger, got), got) = Nothing
    BY <2>2, DropAll
  <2>4. CASE got = two
    BY <2>2, <2>4 DEF Goes, Opening, UsbHeld
  <2>5. CASE got # two
    BY <2>3, <2>5, <1>failed DEF Goes
  <2> QED BY <2>4, <2>5
<1>2. CASE LibusbInit
  <2>1. ledger = Holding(two)
    BY <1>2 DEF LibusbInit, UsbHeld
  <2>2. Take(ledger, {"ctx"}) = Holding(three)
    <3>1. two \cup {"ctx"} = three
      OBVIOUS
    <3> QED BY <2>1, <3>1, TakeMore
  <2>3. CASE Goes(Take(ledger, {"ctx"}), "list")
    BY <2>2, <2>3 DEF Goes, Opening, UsbHeld
  <2>4. CASE Fail(ledger)
    BY <2>1, <2>4, UsbFails, <1>failed
  <2> QED BY <1>2, <2>3, <2>4 DEF LibusbInit
<1>3. CASE GetList
  <2>1. ledger = Holding(three)
    BY <1>3 DEF GetList, UsbHeld
  <2>2. Take(ledger, {"list"}) = Holding(listed)
    <3>1. three \cup {"list"} = listed
      OBVIOUS
    <3> QED BY <2>1, <3>1, TakeMore
  <2>3. CASE Goes(Take(ledger, {"list"}), "find")
    BY <2>2, <2>3 DEF Goes, Opening, UsbHeld
  <2>4. CASE Fail(ledger)
    BY <2>1, <2>4, UsbFails, <1>failed
  <2> QED BY <1>3, <2>3, <2>4 DEF GetList
<1>nolist. ASSUME ledger = Holding(listed) PROVE Drop(ledger, {"list"}) = Holding(three)
  <2>1. listed \ {"list"} = three /\ {"list"} \subseteq listed
    OBVIOUS
  <2> QED BY <1>nolist, <2>1, DropHeld
<1>4. CASE FindDevice(devices, cli.ids)
  <2>1. ledger = Holding(listed) /\ usb = "find"
    BY <1>4 DEF FindDevice, UsbHeld
  <2> PICK readable \in SUBSET (DOMAIN devices) :
        LET good == {i \in readable : matches(devices[i], cli.ids)}
        IN  IF good = {} THEN Fail(Drop(ledger, {"list"}))
            ELSE /\ found' = CHOOSE i \in good : \A j \in good : i <= j
                 /\ usb' = "open" /\ UNCHANGED ledger
    BY <1>4 DEF FindDevice
  <2> DEFINE good == {i \in readable : matches(devices[i], cli.ids)}
  <2>2. CASE good = {}
    BY <2>1, <2>2, <1>nolist, UsbFails, <1>failed
  <2>3. CASE good # {}
    <3>1. found' \in Nat
      <4>1. \E i \in good : \A j \in good : i <= j
        BY <2>3, HasLeast
      <4>2. found' = CHOOSE i \in good : \A j \in good : i <= j
        BY <2>3
      <4> QED BY <4>1, <4>2
    <3> QED BY <2>1, <2>3, <3>1 DEF Opening, UsbHeld
  <2> QED BY <2>2, <2>3
<1>5. CASE OpenDevice
  <2>1. ledger = Holding(listed)
    BY <1>5 DEF OpenDevice, UsbHeld
  <2>2. Take(Use(ledger, {"list"}), {"handle"}) = Holding(all)
    <3>1. {"list"} \subseteq listed /\ listed \cup {"handle"} = all
      OBVIOUS
    <3> QED BY <2>1, <3>1, UseHeld, TakeMore
  <2>3. CASE Goes(Take(Use(ledger, {"list"}), {"handle"}), "endpoints")
    BY <2>2, <2>3 DEF Goes, Opening, UsbHeld
  <2>4. CASE Fail(Drop(ledger, {"list"}))
    BY <2>1, <2>4, <1>nolist, UsbFails, <1>failed
  <2> QED BY <1>5, <2>3, <2>4 DEF OpenDevice
<1>6. CASE find_endpoints(devices)
  <2>1. ledger = Holding(all)
    BY <1>6 DEF find_endpoints, UsbHeld
  <2>2. Use(ledger, {"list"}) = ledger
    BY <2>1, UseHeld
  <2>3. Drop(ledger, {"list"}) = Holding(opened)
    <3>1. all \ {"list"} = opened /\ {"list"} \subseteq all
      OBVIOUS
    <3> QED BY <2>1, <3>1, DropHeld
  <2>4. Drop(Take(ledger, {"cfg"}), {"cfg"}) = ledger
    <3>1. (all \cup {"cfg"}) \ {"cfg"} = all /\ {"cfg"} \subseteq all \cup {"cfg"}
      OBVIOUS
    <3>2. Take(ledger, {"cfg"}) = Holding(all \cup {"cfg"})
      BY <2>1, TakeMore
    <3>3. Drop(Holding(all \cup {"cfg"}), {"cfg"}) = Holding(all)
      BY <3>1, DropHeld
    <3> HIDE DEF all
    <3> QED BY <2>1, <3>2, <3>3
  <2>5. CASE Fail(Drop(ledger, {"list"}))
    BY <2>3, <2>5, UsbFails, <1>failed
  <2>6. CASE Goes(Drop(ledger, {"list"}), "claim")
    BY <2>3, <2>6 DEF Goes, Opening, UsbHeld
  <2> QED BY <1>6, <2>2, <2>4, <2>5, <2>6 DEF find_endpoints
<1>7. CASE Claim
  <2>1. ledger = Holding(opened)
    BY <1>7 DEF Claim, UsbHeld
  <2>2. Use(ledger, {"handle"}) = ledger
    BY <2>1, UseHeld
  <2>3. CASE Goes(ledger, "opened")
    BY <2>1, <2>3 DEF Goes, Opening, UsbHeld
  <2>4. CASE Fail(ledger)
    BY <2>1, <2>4, UsbFails, <1>failed
  <2> QED BY <1>7, <2>2, <2>3, <2>4 DEF Claim
<1> QED BY <1>1, <1>2, <1>3, <1>4, <1>5, <1>6, <1>7 DEF obd_usb_open
LEMMA OpeningKeeps == HInv /\ open_transport => HInv'
<1> SUFFICES ASSUME HInv, open_transport PROVE HInv'
  OBVIOUS
<1>1. /\ at = "opening" /\ ledger = Holding(UsbHeld) /\ usb \in Opening
      /\ cli.simulate # "" => usb = "alloc"
      /\ heap = Nothing /\ code = <<>> /\ dev = <<>> /\ sent = <<>> /\ out = "none"
      /\ block = 0 /\ recs = <<>> /\ found \in Nat /\ WorldInv
  BY HoldingIs DEF open_transport, HInv, LedgerInv, Held, GoingInv, BeforeOpen, ParseInv, StepInv, Opening
<1>2. UNCHANGED <<world, images, sent, block, recs, heap, out>>
  BY DEF open_transport, updating, parsing
<1>3. cli.cmd = "update" => Root # <<>>
  BY <1>1 DEF HInv, ChosenInv
<1>4. Root' = Root
  BY <1>2 DEF Root, world
<1>5. CASE cli.simulate = "" /\ obd_usb_open(devices, cli.ids) /\ UNCHANGED <<at, code, dev>>
  <2>1. DOMAIN devices \subseteq Nat
    <3>1. devices \in Seq(Plugs)
      BY <1>1 DEF WorldInv
    <3>2. DOMAIN devices = 1..Len(devices) /\ Len(devices) \in Nat
      BY <3>1, LenProperties
    <3> QED BY <3>2
  <2>2. usb' \in Opening /\ ledger' = Holding(UsbHeld') /\ found' \in Nat
    BY <1>1, <1>5, <2>1, UsbOpens
  <2>3. at' = "opening" /\ heap' = Nothing /\ dev' = <<>> /\ cli' = cli
    BY <1>1, <1>2, <1>5 DEF world
  <2>4. WorldInv' /\ SentInv' /\ ExitCodeRight' /\ code' = <<>> /\ sent' = <<>> /\ out' = "none"
    BY <1>1, <1>2, <1>5, GoesOn
  <2>5. StepInv'
    BY <1>5, <2>2, <2>3 DEF StepInv, AtSteps, BeforeOpen, UpdateSteps, FileSteps, Opening
  <2>6. GoingInv'
    BY <2>3, <2>4 DEF GoingInv, BeforeOpen
  <2>7. LedgerInv'
    BY <2>2, <2>3, HoldingIs DEF LedgerInv, Held
  <2>8. ChosenInv'
    <3>1. images' = NoImages
      BY <1>1, <1>2 DEF HInv, ChosenInv, BeforeOpen
    <3> QED BY <1>3, <1>4, <2>3, <3>1 DEF ChosenInv, UpdateSteps
  <2>9. ParseInv'
    BY <1>1, <1>2, <2>3 DEF ParseInv
  <2> QED BY <2>4, <2>5, <2>6, <2>7, <2>8, <2>9 DEF HInv
<1>6. ASSUME ledger' = Holding(OpenHeld), at' = "open", UNCHANGED <<code, found>>, dev' # <<>>,
             images = NoImages
      PROVE  HInv'
  <2>1. heap' = Nothing /\ found' \in Nat /\ cli' = cli /\ images' = NoImages
    BY <1>1, <1>2, <1>6 DEF world
  <2>2. WorldInv' /\ SentInv' /\ ExitCodeRight' /\ code' = <<>> /\ sent' = <<>> /\ out' = "none"
    BY <1>1, <1>2, <1>6, GoesOn
  <2>3. StepInv'
    BY <1>6, <2>1 DEF StepInv, AtSteps, BeforeOpen, UpdateSteps, FileSteps
  <2>4. GoingInv'
    BY <1>6, <2>2 DEF GoingInv, BeforeOpen
  <2>5. LedgerInv'
    <3>1. Held' = OpenHeld'
      BY <1>6 DEF Held, OwnHeld, UpdateSteps, FileSteps
    <3>2. OpenHeld' = OpenHeld
      BY <2>1 DEF OpenHeld
    <3>3. ledger' = Holding(Held')
      BY <1>6, <3>1, <3>2
    <3> QED BY <1>6, <2>1, <3>3, HoldingIs DEF LedgerInv
  <2>6. ChosenInv'
    BY <1>3, <1>4, <1>6, <2>1 DEF ChosenInv, UpdateSteps
  <2>7. ParseInv'
    BY <1>1, <1>2, <1>6 DEF ParseInv
  <2> QED BY <2>2, <2>3, <2>4, <2>5, <2>6, <2>7 DEF HInv
<1>7. ASSUME Ends(Nothing, 3), found' = found, dev' = <<>> PROVE HInv'
  <2>1. ledger' = Nothing /\ heap' = Nothing /\ at' = "end" /\ code' = <<3>> /\ found' \in Nat
    BY <1>1, <1>2, <1>7 DEF Ends
  <2>2. sent' = <<>> /\ out' = "none" /\ dev' = <<>>
    BY <1>1, <1>2, <1>7
  <2>3. SentInv' /\ ExitCodeRight'
    BY <2>1, <2>2, ExitsRight DEF SentInv
  <2> QED BY <1>1, <1>2, <2>1, <2>3, EndsWell
<1>8. images = NoImages
  BY <1>1 DEF HInv, ChosenInv, BeforeOpen
<1>9. CASE cli.simulate # "" /\ obd_fake_open /\ UNCHANGED <<usb, found>>
  <2>1. ledger = Nothing /\ OpenHeld = {"transport", "fake"}
    BY <1>1, <1>9, HoldingIs DEF UsbHeld, OpenHeld
  <2>2. Take(ledger, {"transport", "fake"}) = Holding(OpenHeld)
    <3>1. {} \cup {"transport", "fake"} = OpenHeld
      BY <2>1
    <3> QED BY <2>1, <3>1, TakeMore, HoldingIs
  <2>3. CASE dev' = <<Simulated[cli.simulate]>> /\ Moves(Take(ledger, {"transport", "fake"}), "open")
    BY <1>6, <1>8, <1>9, <2>2, <2>3 DEF Moves
  <2>4. CASE Ends(ledger, 3) /\ UNCHANGED dev
    BY <1>1, <1>7, <1>9, <2>1, <2>4
  <2> QED BY <1>9, <2>3, <2>4 DEF obd_fake_open
<1>10. CASE usb = "opened" /\ dev' = <<devices[found].id>> /\ Moves(ledger, "open")
            /\ UNCHANGED <<usb, found>>
  <2>1. ledger = Holding(OpenHeld)
    BY <1>1, <1>10 DEF UsbHeld, OpenHeld
  <2> QED BY <1>6, <1>8, <1>10, <2>1 DEF Moves
<1>11. CASE usb = "failed" /\ Ends(ledger, 3) /\ UNCHANGED <<usb, found, dev>>
  <2>1. ledger = Nothing
    BY <1>1, <1>11, HoldingIs DEF UsbHeld
  <2> QED BY <1>1, <1>7, <1>11, <2>1
<1> QED BY <1>5, <1>9, <1>10, <1>11 DEF open_transport

(* info.                                                                   *)
LEMMA InfoKeeps == HInv /\ cmd_info => HInv'
<1> SUFFICES ASSUME HInv, cmd_info PROVE HInv'
  OBVIOUS
<1>1. /\ at = "open" /\ cli.cmd = "info" /\ ledger = Holding(OpenHeld \cup {}) /\ heap = Nothing
      /\ dev # <<>> /\ sent = <<>> /\ out = "none" /\ found \in Nat /\ WorldInv
  <2>1. at = "open" /\ cli.cmd = "info"
    BY DEF cmd_info, Opened
  <2>2. ledger = Holding(OpenHeld \cup {}) /\ heap = Nothing
    BY <2>1, HoldingIs DEF HInv, LedgerInv, Held, OwnHeld, UpdateSteps, FileSteps
  <2> QED BY <2>1, <2>2 DEF HInv, GoingInv, AtSteps, BeforeOpen, StepInv
<1>2. UNCHANGED <<world, images, sent, block, recs, heap, dev, out, found>>
  BY DEF cmd_info, updating, parsing
<1>3. PICK n \in {0, 4} : Close(ledger, n)
  BY DEF cmd_info
<1>4. ledger' = Nothing /\ heap' = Nothing /\ at' = "end" /\ code' = <<n>> /\ found' \in Nat
  <2>1. ledger' = Nothing /\ at' = "end" /\ code' = <<n>>
    <3>1. {} \cap OpenHeld = {} /\ ledger = Holding(OpenHeld \cup {})
      BY <1>1
    <3>2. ({} = {} /\ Close(ledger, n)) \/ Close(Drop(ledger, {}), n)
      BY <1>3
    <3> QED BY <3>1, <3>2, Closes
  <2> QED BY <1>1, <1>2, <2>1
<1>5. Achieved' /\ sent' = <<>>
  BY <1>1, <1>2 DEF Achieved, Files, world
<1>6. SentInv' /\ ExitCodeRight'
  BY <1>1, <1>2, <1>4, <1>5, ExitsRight DEF SentInv
<1> QED BY <1>1, <1>2, <1>4, <1>6, EndsWell
(* update: what has been read is held as long as it is needed.             *)
Kinds     == {"mcu", "ext", "erase"}
ReadKinds == {i \in DOMAIN images : images[i] # <<>>}

LEMMA ImagesHeld ==
  ASSUME HInv, at \in {"open"} \cup UpdateSteps, cli.cmd = "update"
  PROVE  /\ DOMAIN images = Kinds /\ images = [i \in Kinds |-> images[i]]
         /\ ReadKinds \cap OpenHeld = {}
         /\ ledger = Holding(OpenHeld \cup ReadKinds)
<1>1. DOMAIN images = Kinds /\ images = [i \in Kinds |-> images[i]]
  <2>1. PICK a, b, c : Chosen = [mcu |-> a, ext |-> b, erase |-> c]
    BY DEF Chosen
  <2> QED BY <2>1 DEF HInv, ChosenInv, UpdateSteps, Kinds, NoImages
<1>2. ReadKinds \cap OpenHeld = {}
  BY <1>1 DEF ReadKinds, OpenHeld, Kinds
<1>3. CASE at = "open"
  <2>1. ReadKinds = {}
    BY <1>3 DEF HInv, ChosenInv, ReadKinds, NoImages
  <2>2. ledger = Holding(OpenHeld \cup {})
    BY <1>3 DEF HInv, LedgerInv, Held, OwnHeld, UpdateSteps, FileSteps
  <2> QED BY <1>1, <1>2, <2>1, <2>2
<1>4. CASE at \in UpdateSteps
  <2>1. Held = OpenHeld \cup ReadKinds
    BY <1>4 DEF Held, OwnHeld, UpdateSteps, FileSteps, ReadKinds
  <2> QED BY <1>1, <1>2, <2>1 DEF HInv, LedgerInv
<1> QED BY <1>3, <1>4

LEMMA ImageRead ==
  ASSUME DOMAIN images = Kinds, NEW i \in Kinds, images[i] = <<>>,
         ledger = Holding(OpenHeld \cup ReadKinds), cli' = cli,
         images' = [images EXCEPT ![i] = Chosen[i]],
         \/ Chosen[i] = <<>> /\ ledger' = ledger
         \/ Chosen[i] # <<>> /\ ledger' = Take(ledger, {i})
  PROVE  ledger' = Holding(OpenHeld' \cup ReadKinds')
<1>1. OpenHeld' = OpenHeld
  BY DEF OpenHeld
<1>2. CASE Chosen[i] = <<>> /\ ledger' = ledger
  <2>1. ReadKinds' = ReadKinds
    BY <1>2 DEF ReadKinds
  <2> QED BY <1>1, <1>2, <2>1
<1>3. CASE Chosen[i] # <<>> /\ ledger' = Take(ledger, {i})
  <2>1. ReadKinds' = ReadKinds \cup {i}
    BY <1>3 DEF ReadKinds
  <2>2. (OpenHeld \cup ReadKinds) \cup {i} = OpenHeld \cup ReadKinds'
    BY <2>1
  <2>3. ledger' = Holding((OpenHeld \cup ReadKinds) \cup {i})
    BY <1>3, TakeMore
  <2> QED BY <1>1, <2>2, <2>3
<1> QED BY <1>2, <1>3

LEMMA UpdateKeeps == HInv /\ cmd_update => HInv'
<1> SUFFICES ASSUME HInv, cmd_update PROVE HInv'
  OBVIOUS
<1>1. at \in {"open"} \cup UpdateSteps /\ cli.cmd = "update"
  BY DEF cmd_update, Opened, ReadImage, UpdateSteps, HInv, StepInv
<1>2. /\ heap = Nothing /\ dev # <<>> /\ sent = <<>> /\ out = "none" /\ code = <<>>
      /\ found \in Nat /\ WorldInv /\ Root # <<>> /\ at # "end"
  BY <1>1, HoldingIs DEF HInv, LedgerInv, GoingInv, ChosenInv, StepInv, AtSteps, BeforeOpen,
     UpdateSteps
<1>3. UNCHANGED <<found, world, dev, out, heap, block, recs>> /\ cli' = cli /\ tree' = tree
  BY DEF cmd_update, parsing, world
<1>4. Root' = Root /\ Chosen' = Chosen
  BY <1>3 DEF Root, Chosen
<1>5. /\ DOMAIN images = Kinds /\ images = [i \in Kinds |-> images[i]]
      /\ ReadKinds \cap OpenHeld = {}
      /\ ledger = Holding(OpenHeld \cup ReadKinds)
  BY <1>1, ImagesHeld
<1>6. ASSUME NEW n \in {0, 1, 2, 4}, Out_(n),
             \/ n \in {1, 2} /\ sent' = sent
             \/ n \in {0, 4} /\ sent' = <<images>> /\ at = "update"
      PROVE  HInv'
  <2>1. ledger' = Nothing /\ at' = "end" /\ code' = <<n>>
    BY <1>5, <1>6, Closes DEF Out_, ReadKinds
  <2>2. heap' = Nothing /\ found' \in Nat /\ dev' # <<>> /\ out' = "none"
    BY <1>2, <1>3
  <2>3. SentInv'
    <3>1. CASE sent' = <<>>
      BY <3>1 DEF SentInv
    <3>2. CASE sent' = <<images>> /\ at = "update"
      <4>1. images = Chosen /\ (Chosen.mcu # <<>> \/ Chosen.ext # <<>>)
        BY <3>2 DEF HInv, ChosenInv, UpdateSteps
      <4> QED BY <1>2, <1>4, <3>2, <4>1 DEF SentInv
    <3> QED BY <1>2, <1>6, <3>1, <3>2
  <2>4. ExitCodeRight'
    <3>1. n = 0 => Achieved'
      <4>1. cli'.cmd = "update"
        BY <1>1, <1>3
      <4>2. n = 0 => sent' # <<>>
        BY <1>6
      <4> QED BY <4>1, <4>2 DEF Achieved, Files
    <3>2. sent' # <<>> => n \in {0, 4}
      BY <1>2, <1>6
    <3> QED BY <2>1, <2>2, <3>1, <3>2, ExitsRight
  <2> QED BY <1>2, <1>3, <2>1, <2>2, <2>3, <2>4, EndsWell
<1>7. ASSUME at' \in UpdateSteps, UNCHANGED <<code, sent>>,
             ledger' = Holding(OpenHeld' \cup ReadKinds'), ChosenInv'
      PROVE  HInv'
  <2>1. WorldInv' /\ SentInv' /\ ExitCodeRight' /\ code' = <<>> /\ sent' = <<>> /\ out' = "none"
    BY <1>2, <1>3, <1>7, GoesOn
  <2>2. heap' = Nothing /\ found' \in Nat /\ dev' # <<>>
    BY <1>2, <1>3
  <2>3. StepInv'
    BY <1>1, <1>3, <1>7, <2>2 DEF StepInv, AtSteps, BeforeOpen, UpdateSteps, FileSteps
  <2>4. GoingInv'
    BY <1>7, <2>1, <2>2 DEF GoingInv, BeforeOpen, UpdateSteps
  <2>5. LedgerInv'
    <3>1. Held' = OpenHeld' \cup ReadKinds'
      BY <1>7 DEF Held, OwnHeld, UpdateSteps, FileSteps, ReadKinds
    <3> QED BY <1>7, <2>2, <3>1, HoldingIs DEF LedgerInv, UpdateSteps
  <2>6. ParseInv'
    BY <1>7 DEF ParseInv, UpdateSteps, BeforeOpen
  <2> QED BY <1>7, <2>1, <2>3, <2>4, <2>5, <2>6 DEF HInv
<1>8. CASE Opened({"update"}) /\ UNCHANGED updating
           /\ IF Chosen.mcu = <<>> /\ Chosen.ext = <<>> THEN Out_(2) ELSE Moves(ledger, "mcu")
  <2>1. images' = images /\ sent' = sent /\ images = NoImages
    BY <1>8 DEF updating, Opened, HInv, ChosenInv
  <2>2. CASE Chosen.mcu = <<>> /\ Chosen.ext = <<>>
    BY <1>6, <1>8, <2>1, <2>2
  <2>3. CASE ~(Chosen.mcu = <<>> /\ Chosen.ext = <<>>)
    <3>1. Moves(ledger, "mcu")
      BY <1>8, <2>3
    <3>2. ledger' = Holding(OpenHeld' \cup ReadKinds')
      BY <1>3, <1>5, <2>1, <3>1 DEF Moves, OpenHeld, ReadKinds
    <3>3. ChosenInv'
      BY <1>2, <1>4, <2>1, <2>3, <3>1 DEF Moves, ChosenInv, UpdateSteps
    <3> QED BY <1>7, <2>1, <3>1, <3>2, <3>3 DEF Moves, UpdateSteps
  <2> QED BY <2>2, <2>3
<1>9. ASSUME NEW i \in Kinds, NEW next \in UpdateSteps, ReadImage(i, next), UNCHANGED sent,
             images[i] = <<>>,
             [images EXCEPT ![i] = Chosen[i]] = images' /\ at' = next => ChosenInv'
      PROVE  HInv'
  <2>1. CASE Out_(2) /\ UNCHANGED images
    BY <1>6, <1>9, <2>1
  <2>2. CASE Chosen[i] = <<>> /\ Moves(ledger, next) /\ UNCHANGED images
    <3>1. images' = [images EXCEPT ![i] = Chosen[i]]
      BY <1>5, <1>9, <2>2 DEF Kinds
    <3> QED BY <1>3, <1>5, <1>7, <1>9, <2>2, <3>1, ImageRead DEF Moves
  <2>3. CASE /\ Chosen[i] # <<>> /\ images' = [images EXCEPT ![i] = Chosen[i]]
             /\ Moves(Take(ledger, {i}), next)
    BY <1>3, <1>5, <1>7, <1>9, <2>3, ImageRead DEF Moves
  <2> QED BY <1>9, <2>1, <2>2, <2>3 DEF ReadImage
<1>10. CASE ReadImage("mcu", "ext") /\ UNCHANGED sent
  <2>1. at = "mcu" /\ images = NoImages /\ (Chosen.mcu # <<>> \/ Chosen.ext # <<>>)
    BY <1>10 DEF ReadImage, HInv, ChosenInv, UpdateSteps
  <2>2. ASSUME [images EXCEPT !["mcu"] = Chosen["mcu"]] = images', at' = "ext" PROVE ChosenInv'
    BY <1>2, <1>4, <2>1, <2>2 DEF ChosenInv, UpdateSteps, BeforeOpen, NoImages
  <2> QED BY <1>9, <1>10, <2>1, <2>2 DEF Kinds, UpdateSteps, NoImages
<1>11. CASE ReadImage("ext", "erase") /\ UNCHANGED sent
  <2>1. /\ at = "ext" /\ images = [NoImages EXCEPT !.mcu = Chosen.mcu]
        /\ (Chosen.mcu # <<>> \/ Chosen.ext # <<>>)
    BY <1>11 DEF ReadImage, HInv, ChosenInv, UpdateSteps
  <2>2. ASSUME [images EXCEPT !["ext"] = Chosen["ext"]] = images', at' = "erase" PROVE ChosenInv'
    <3>1. images' = [Chosen EXCEPT !.erase = <<>>]
      <4>1. PICK a, b, c : Chosen = [mcu |-> a, ext |-> b, erase |-> c]
        BY DEF Chosen
      <4>2. images = [mcu |-> a, ext |-> <<>>, erase |-> <<>>]
        BY <2>1, <4>1 DEF NoImages
      <4>3. images' = [mcu |-> a, ext |-> b, erase |-> <<>>]
        BY <2>2, <4>1, <4>2
      <4>4. [Chosen EXCEPT !.erase = <<>>] = [mcu |-> a, ext |-> b, erase |-> <<>>]
        BY <4>1
      <4> QED BY <4>3, <4>4
    <3> QED BY <1>2, <1>4, <2>1, <2>2, <3>1 DEF ChosenInv, UpdateSteps, BeforeOpen
  <2> QED BY <1>9, <1>11, <2>1, <2>2 DEF Kinds, UpdateSteps, NoImages
<1>12. CASE ReadImage("erase", "ask") /\ UNCHANGED sent
  <2>1. /\ at = "erase" /\ images = [Chosen EXCEPT !.erase = <<>>]
        /\ (Chosen.mcu # <<>> \/ Chosen.ext # <<>>)
    BY <1>12 DEF ReadImage, HInv, ChosenInv, UpdateSteps
  <2>2. ASSUME [images EXCEPT !["erase"] = Chosen["erase"]] = images', at' = "ask" PROVE ChosenInv'
    <3>1. images' = Chosen
      BY <2>1, <2>2 DEF Chosen
    <3> QED BY <1>2, <1>4, <2>1, <2>2, <3>1 DEF ChosenInv, UpdateSteps, BeforeOpen
  <2> QED BY <1>9, <1>12, <2>1, <2>2 DEF Kinds, UpdateSteps, Chosen
<1>13. CASE at = "ask" /\ UNCHANGED updating
            /\ (Moves(ledger, "update") \/ ("-y" \notin cli.flags /\ Out_(1)))
  <2>1. images' = images /\ sent' = sent
    BY <1>13 DEF updating
  <2>2. CASE Out_(1)
    BY <1>6, <2>1, <2>2
  <2>3. CASE Moves(ledger, "update")
    <3>1. ledger' = Holding(OpenHeld' \cup ReadKinds')
      BY <1>3, <1>5, <2>1, <2>3 DEF Moves, OpenHeld, ReadKinds
    <3>2. ChosenInv'
      BY <1>2, <1>4, <1>13, <2>1, <2>3 DEF HInv, Moves, ChosenInv, UpdateSteps, BeforeOpen
    <3> QED BY <1>7, <2>1, <2>3, <3>1, <3>2 DEF Moves, UpdateSteps
  <2> QED BY <1>13, <2>2, <2>3
<1>14. CASE at = "update" /\ sent' = <<images>> /\ (Out_(0) \/ Out_(4))
  BY <1>6, <1>14
<1> QED BY <1>8, <1>10, <1>11, <1>12, <1>13, <1>14 DEF cmd_update
(* feedback, read-flash, decrypt and encrypt.                              *)
LEMMA WriteKeeps == HInv /\ WriteCommands => HInv'
<1> SUFFICES ASSUME HInv, WriteCommands PROVE HInv'
  OBVIOUS
<1>1. at \in {"open", "crypt"} \cup FileSteps /\ cli.cmd \in Files
  BY DEF WriteCommands, Buffer, Transfer, cmd_crypt, Write, Opened, FileSteps, HInv, StepInv,
         Files, Crypt
<1>2. /\ heap = Nothing /\ sent = <<>> /\ out = "none" /\ code = <<>>
      /\ found \in Nat /\ WorldInv /\ at # "end"
  BY <1>1, HoldingIs DEF HInv, LedgerInv, GoingInv, StepInv, FileSteps
<1>3. /\ UNCHANGED <<found, world, dev, heap, block, recs, images, sent>> /\ cli' = cli
  BY DEF WriteCommands, parsing, updating, world
<1>4. "buf" \notin OpenHeld /\ OpenHeld' = OpenHeld
  BY <1>3 DEF OpenHeld
<1>5. ASSUME NEW n \in {0, 1, 2, 4}, ledger' = Nothing, at' = "end", code' = <<n>>,
             n = 0 <=> out' \in {"whole", "lost"}, n = 4 => dev # <<>>
      PROVE  HInv'
  <2>1. n = 0 => Achieved'
    BY <1>1, <1>3, <1>5 DEF Achieved, Files
  <2>2. dev' = dev /\ sent' = <<>> /\ heap' = Nothing /\ found' \in Nat
    BY <1>2, <1>3
  <2>3. ExitCodeRight'
    BY <1>5, <2>1, <2>2, ExitsRight
  <2>4. SentInv'
    BY <2>2 DEF SentInv
  <2> QED BY <1>2, <1>3, <1>5, <2>2, <2>3, <2>4, EndsWell
<1>6. ASSUME at' \in FileSteps, UNCHANGED <<out, code>>,
             IF at' = "write" /\ cli.cmd \in Crypt THEN ledger' = Holding({"buf"})
             ELSE ledger' = Holding(OpenHeld \cup {"buf"}) /\ dev # <<>>,
             at' = "transfer" => cli.cmd \in {"feedback", "read-flash"}
      PROVE  HInv'
  <2>1. WorldInv' /\ SentInv' /\ ExitCodeRight' /\ code' = <<>> /\ sent' = <<>> /\ out' = "none"
    BY <1>2, <1>3, <1>6, GoesOn
  <2>2. heap' = Nothing /\ found' \in Nat /\ dev' = dev /\ cli'.cmd = cli.cmd
    BY <1>2, <1>3
  <2>3. StepInv'
    BY <1>1, <1>6, <2>2 DEF StepInv, AtSteps, BeforeOpen, UpdateSteps, FileSteps
  <2>4. GoingInv'
    BY <1>6, <2>1, <2>2 DEF GoingInv, BeforeOpen, FileSteps
  <2>5. LedgerInv'
    <3>1. Held' = IF at' = "write" /\ cli.cmd \in Crypt THEN {"buf"} ELSE OpenHeld \cup {"buf"}
      BY <1>4, <1>6, <2>2 DEF Held, OwnHeld, UpdateSteps, FileSteps
    <3>2. ledger' = Holding(Held')
      BY <1>6, <3>1
    <3> QED BY <1>6, <2>2, <3>2, HoldingIs DEF LedgerInv, FileSteps
  <2>6. ParseInv' /\ ChosenInv'
    BY <1>6 DEF ParseInv, ChosenInv, UpdateSteps, FileSteps, BeforeOpen
  <2> QED BY <2>1, <2>3, <2>4, <2>5, <2>6 DEF HInv
<1>7. ASSUME Buffer PROVE HInv'
  <2>1. at = "open" /\ dev # <<>> /\ cli.cmd \in {"feedback", "read-flash"} /\ out' = "none"
    BY <1>2, <1>7 DEF Buffer, Opened, HInv, GoingInv, AtSteps, BeforeOpen
  <2>2. ledger = Holding(OpenHeld \cup {})
    BY <2>1 DEF HInv, LedgerInv, Held, OwnHeld, UpdateSteps, FileSteps
  <2>3. ASSUME NEW n \in {2, 4}, Close(ledger, n) PROVE HInv'
    <3>1. {} \cap OpenHeld = {} /\ {} = {}
      OBVIOUS
    <3>2. ledger' = Nothing /\ at' = "end" /\ code' = <<n>>
      BY <2>2, <2>3, <3>1, Closes
    <3> QED BY <1>5, <2>1, <3>2
  <2>4. CASE Moves(Take(ledger, {"buf"}), "transfer")
    <3>1. ledger' = Holding((OpenHeld \cup {}) \cup {"buf"})
      BY <2>2, <2>4, TakeMore DEF Moves
    <3>2. (OpenHeld \cup {}) \cup {"buf"} = OpenHeld \cup {"buf"}
      OBVIOUS
    <3> QED BY <1>2, <1>6, <2>1, <2>4, <3>1, <3>2 DEF Moves, FileSteps
  <2> QED BY <1>7, <2>3, <2>4 DEF Buffer
<1>8. ASSUME at \in FileSteps, ~(at = "write" /\ cli.cmd \in Crypt)
      PROVE  ledger = Holding(OpenHeld \cup {"buf"}) /\ dev # <<>>
  BY <1>8 DEF HInv, LedgerInv, Held, OwnHeld, UpdateSteps, FileSteps, GoingInv, AtSteps, BeforeOpen
<1>9. ASSUME at \in FileSteps, ~(at = "write" /\ cli.cmd \in Crypt),
             NEW n, Close(Drop(ledger, {"buf"}), n)
      PROVE  ledger' = Nothing /\ at' = "end" /\ code' = <<n>>
  <2>1. {"buf"} \cap OpenHeld = {}
    BY <1>4
  <2> QED BY <1>8, <1>9, <2>1, Closes
<1>10. ASSUME Transfer PROVE HInv'
  <2>1. at = "transfer" /\ out' = "none" /\ cli.cmd \in {"feedback", "read-flash"}
    BY <1>2, <1>10 DEF Transfer, HInv, StepInv
  <2>2. ledger = Holding(OpenHeld \cup {"buf"}) /\ dev # <<>>
    BY <1>8, <2>1 DEF FileSteps
  <2>3. ASSUME NEW n \in {1, 4}, Close(Drop(ledger, {"buf"}), n) PROVE HInv'
    BY <1>5, <1>9, <2>1, <2>2, <2>3 DEF FileSteps
  <2>4. CASE Moves(ledger, "write")
    BY <1>2, <1>6, <2>1, <2>2, <2>4 DEF Moves, FileSteps, Crypt
  <2> QED BY <1>10, <2>3, <2>4 DEF Transfer
<1>11. ASSUME cmd_crypt PROVE HInv'
  <2>1. at = "crypt" /\ out' = "none" /\ cli.cmd \in Crypt
    BY <1>2, <1>11 DEF cmd_crypt, HInv, StepInv
  <2>2. ledger = Nothing
    BY <2>1, HoldingIs DEF HInv, LedgerInv, Held
  <2>3. CASE Ends(ledger, 2)
    BY <1>5, <2>1, <2>2, <2>3 DEF Ends
  <2>4. CASE Moves(Take(ledger, {"buf"}), "write")
    <3>1. Take(ledger, {"buf"}) = Holding({} \cup {"buf"}) /\ {} \cup {"buf"} = {"buf"}
      BY <2>2, HoldingIs, TakeMore
    <3> QED BY <1>2, <1>6, <2>1, <2>4, <3>1 DEF Moves, FileSteps
  <2> QED BY <1>11, <2>3, <2>4 DEF cmd_crypt
<1>12. ASSUME Write PROVE HInv'
  <2>1. at = "write"
    BY <1>12 DEF Write
  <2>2. PICK w \in write_file :
          /\ out' = w[1]
          /\ IF cli.cmd \in Crypt THEN Ends(Drop(ledger, {"buf"}), w[2])
             ELSE Close(Drop(ledger, {"buf"}), w[2])
    BY <1>12 DEF Write, Crypt
  <2>3. w[2] \in {0, 2} /\ (w[2] = 0 <=> w[1] \in {"whole", "lost"})
    BY DEF write_file
  <2>4. ledger' = Nothing /\ at' = "end" /\ code' = <<w[2]>>
    <3>1. CASE cli.cmd \in Crypt
      <4>1. ledger = Holding({"buf"})
        BY <2>1, <3>1 DEF HInv, LedgerInv, Held
      <4> QED BY <2>2, <3>1, <4>1, DropAll DEF Ends
    <3>2. CASE cli.cmd \notin Crypt
      BY <1>9, <2>1, <2>2, <3>2 DEF FileSteps
    <3> QED BY <3>1, <3>2
  <2> QED BY <1>5, <2>2, <2>3, <2>4
<1> QED BY <1>7, <1>10, <1>11, <1>12 DEF WriteCommands
-----------------------------------------------------------------------------
(* The parsing of fault records.                                           *)

LEMMA RawIs ==
  ASSUME WorldInv
  PROVE  /\ Len(raw) \in Nat /\ DOMAIN raw = 1..Len(raw)
         /\ \A i \in DOMAIN raw : raw[i] \in RawBlocks
<1>1. raw \in Seq(RawBlocks)
  BY DEF WorldInv
<1>2. Len(raw) \in Nat /\ raw \in [1..Len(raw) -> RawBlocks] /\ DOMAIN raw = 1..Len(raw)
  BY <1>1, LenProperties
<1> QED BY <1>2

LEMMA RecordIs ==
  ASSUME NEW b \in RawBlocks, NEW i, NEW n
  PROVE  Record(b, i, n).sequence = i /\ Record(b, i, n).key = b.key /\ b.key \in Nat
  BY DEF Record, RawBlocks

LEMMA RecordsAre ==
  ASSUME WorldInv, NEW r \in Records
  PROVE  /\ r.sequence \in Nat /\ r.sequence + 1 \in DOMAIN raw /\ raw[r.sequence + 1].magic
         /\ r.key \in Nat /\ r.key = raw[r.sequence + 1].key
         /\ r = Record(raw[r.sequence + 1], r.sequence, Len(raw[r.sequence + 1].dtcs) + 1)
<1>1. PICK i \in DOMAIN raw : raw[i].magic /\ r = Record(raw[i], i - 1, Len(raw[i].dtcs) + 1)
  BY DEF Records
<1>2. i \in 1..Len(raw) /\ Len(raw) \in Nat /\ raw[i] \in RawBlocks
  BY <1>1, RawIs
<1>3. r.sequence = i - 1 /\ r.key = raw[i].key /\ r.key \in Nat
  BY <1>1, <1>2, RecordIs
<1>4. i - 1 \in Nat /\ (i - 1) + 1 = i
  BY <1>2
<1> QED BY <1>1, <1>3, <1>4

(* Nothing of a record is lost or reported twice by sorting, and the       *)
(* result is sorted.                                                       *)
LEMMA SortedRight ==
  ASSUME NEW S, NEW s \in Seq(S), \A x \in S : x.key \in Nat /\ x.sequence \in Nat,
         \A j, k \in DOMAIN s : j # k => s[j].sequence # s[k].sequence
  PROVE  /\ Sorted(s) \in Seq(S) /\ DOMAIN Sorted(s) = DOMAIN s
         /\ {Sorted(s)[k] : k \in DOMAIN s} = {s[k] : k \in DOMAIN s}
         /\ \A j, k \in DOMAIN s : j < k => ByKey(Sorted(s)[j], Sorted(s)[k])
<1> DEFINE n == Len(s)
           D == DOMAIN s
           Below(i) == {j \in D : ByKey(s[j], s[i])}
           place == [i \in D |-> Place(s, i)]
           pi(k) == CHOOSE i \in D : Place(s, i) = k
<1>1. n \in Nat /\ D = 1..n /\ s \in [1..n -> S]
  BY LenProperties
<1>2. IsFiniteSet(D) /\ Cardinality(D) = n
  <2>1. IsFiniteSet(1..n) /\ Cardinality(1..n) = IF 1 > n THEN 0 ELSE n - 1 + 1
    BY <1>1, FS_Interval
  <2> QED BY <1>1, <2>1
<1>3. \A i \in D : s[i].key \in Nat /\ s[i].sequence \in Nat
  BY <1>1
<1>4. \A i, j \in D : i # j => ByKey(s[i], s[j]) \/ ByKey(s[j], s[i])
  BY <1>3 DEF ByKey
<1>5. \A i \in D : ~ByKey(s[i], s[i])
  BY <1>3 DEF ByKey
<1>6. \A i, j, k \in D : ByKey(s[i], s[j]) /\ ByKey(s[j], s[k]) => ByKey(s[i], s[k])
  BY <1>3 DEF ByKey
<1>7. \A i \in D : Place(s, i) = Cardinality(Below(i)) + 1
  BY DEF Place
<1>8. \A i \in D : IsFiniteSet(Below(i)) /\ Cardinality(Below(i)) \in Nat
  <2> TAKE i \in D
  <2>1. Below(i) \in SUBSET D
    OBVIOUS
  <2> QED BY <1>2, <2>1, FS_Subset, FS_CardinalityType
<1>9. ASSUME NEW i \in D PROVE Place(s, i) \in D
  <2>1. Below(i) \in SUBSET D /\ Below(i) # D
    BY <1>5
  <2>2. Cardinality(Below(i)) <= n /\ Cardinality(Below(i)) # n
    BY <1>2, <2>1, FS_Subset
  <2>3. Cardinality(Below(i)) \in Nat /\ Place(s, i) = Cardinality(Below(i)) + 1
    BY <1>7, <1>8
  <2> HIDE DEF Below
  <2> QED BY <1>1, <2>2, <2>3
<1>10. ASSUME NEW i \in D, NEW j \in D, ByKey(s[i], s[j]) PROVE Place(s, i) < Place(s, j)
  <2>1. Below(i) \in SUBSET Below(j)
    BY <1>6, <1>10
  <2>2. i \in Below(j) /\ i \notin Below(i)
    BY <1>5, <1>10
  <2>3. Cardinality(Below(i)) <= Cardinality(Below(j)) /\ Cardinality(Below(i)) # Cardinality(Below(j))
    BY <1>8, <2>1, <2>2, FS_Subset
  <2>4. /\ Cardinality(Below(i)) \in Nat /\ Place(s, i) = Cardinality(Below(i)) + 1
        /\ Cardinality(Below(j)) \in Nat /\ Place(s, j) = Cardinality(Below(j)) + 1
    BY <1>7, <1>8
  <2> HIDE DEF Below
  <2> QED BY <2>3, <2>4
<1>11. \A i, j \in D : Place(s, i) = Place(s, j) => i = j
  <2>1. D \subseteq Nat
    BY <1>1
  <2> QED BY <1>4, <1>9, <1>10, <2>1
<1>12. place \in Surjection(D, D)
  <2>1. place \in Injection(D, D)
    BY <1>9, <1>11 DEF Injection, IsInjective
  <2> QED BY <1>2, <2>1, FS_Injection
<1>13. \A k \in D : pi(k) \in D /\ Place(s, pi(k)) = k
  <2> TAKE k \in D
  <2>1. \E i \in D : place[i] = k
    BY <1>12 DEF Surjection
  <2>2. \E i \in D : Place(s, i) = k
    BY <2>1
  <2> QED BY <2>2
<1>14. \A k \in D : Sorted(s)[k] = s[pi(k)]
  BY DEF Sorted
<1>15. Sorted(s) \in Seq(S) /\ DOMAIN Sorted(s) = D
  <2>1. DOMAIN Sorted(s) = D
    BY DEF Sorted
  <2>2. \A k \in D : Sorted(s)[k] \in S
    BY <1>1, <1>13, <1>14
  <2>3. Sorted(s) = [k \in 1..n |-> Sorted(s)[k]]
    BY <1>1 DEF Sorted
  <2> QED BY <1>1, <2>1, <2>2, <2>3, IsASeq
<1>16. {Sorted(s)[k] : k \in D} = {s[k] : k \in D}
  <2>1. ASSUME NEW k \in D PROVE Sorted(s)[k] \in {s[j] : j \in D}
    BY <1>13, <1>14
  <2>2. ASSUME NEW i \in D PROVE s[i] \in {Sorted(s)[k] : k \in D}
    <3>1. pi(Place(s, i)) = i
      <4>1. Place(s, i) \in D
        BY <1>9
      <4>2. pi(Place(s, i)) \in D /\ Place(s, pi(Place(s, i))) = Place(s, i)
        BY <1>13, <4>1
      <4> QED BY <1>11, <4>2
    <3>2. Place(s, i) \in D /\ Sorted(s)[Place(s, i)] = s[pi(Place(s, i))]
      BY <1>9, <1>14
    <3>3. Place(s, i) \in D /\ Sorted(s)[Place(s, i)] = s[i]
      BY <3>1, <3>2
    <3> HIDE DEF pi, D
    <3> QED BY <3>3
  <2> QED BY <2>1, <2>2
<1>17. ASSUME NEW j \in D, NEW k \in D, j < k PROVE ByKey(Sorted(s)[j], Sorted(s)[k])
  <2>1. pi(j) \in D /\ pi(k) \in D /\ Place(s, pi(j)) = j /\ Place(s, pi(k)) = k
    BY <1>13
  <2>2. j \in Nat /\ k \in Nat
    BY <1>1
  <2>3. pi(j) # pi(k)
    BY <1>17, <2>1, <2>2
  <2>4. ~ByKey(s[pi(k)], s[pi(j)])
    <3>1. ASSUME ByKey(s[pi(k)], s[pi(j)]) PROVE FALSE
      <4>1. Place(s, pi(k)) < Place(s, pi(j))
        BY <1>10, <2>1, <3>1
      <4> QED BY <1>17, <2>1, <2>2, <4>1
    <3> QED BY <3>1
  <2> QED BY <1>4, <1>14, <2>1, <2>3, <2>4
<1> QED BY <1>15, <1>16, <1>17
LEMMA HeldMore ==
  ASSUME recs \in Seq(Records), NEW r
  PROVE  HeldOfRecords \cup Parts(r)
         = {<<"recs">>} \cup UNION {Parts(Append(recs, r)[i]) : i \in DOMAIN Append(recs, r)}
<1> DEFINE all == Append(recs, r)
<1>1. /\ DOMAIN recs = 1..Len(recs) /\ Len(recs) \in Nat
      /\ DOMAIN all = 1..(Len(recs) + 1)
      /\ \A i \in 1..Len(recs) : all[i] = recs[i]
      /\ all[Len(recs) + 1] = r
  <2>1. DOMAIN recs = 1..Len(recs) /\ Len(recs) \in Nat
    BY LenProperties
  <2>2. recs \in Seq(Records \cup {r})
    OBVIOUS
  <2>3. /\ Len(all) = Len(recs) + 1 /\ all \in Seq(Records \cup {r})
        /\ \A i \in 1..Len(recs) : all[i] = recs[i]
        /\ all[Len(recs) + 1] = r
    BY <2>2, AppendProperties
  <2>4. DOMAIN all = 1..Len(all)
    BY <2>3, LenProperties
  <2> QED BY <2>1, <2>3, <2>4
<1>2. {Parts(all[i]) : i \in DOMAIN all} = {Parts(recs[i]) : i \in DOMAIN recs} \cup {Parts(r)}
  <2>1. DOMAIN all = DOMAIN recs \cup {Len(recs) + 1}
    BY <1>1
  <2> HIDE DEF all
  <2> QED BY <1>1, <2>1
<1> QED BY <1>2 DEF HeldOfRecords

(* dtc-review: what has been allocated is what the records say has been.   *)
LEMMA ReadKeeps == HInv /\ obd_read_dtc_records /\ cmd_dtc_review => HInv'
<1> SUFFICES ASSUME HInv, obd_read_dtc_records, cmd_dtc_review PROVE HInv'
  OBVIOUS
<1>1. /\ at = "open" /\ cli.cmd = "dtc-review" /\ dev # <<>> /\ sent = <<>> /\ out = "none"
      /\ block = 0 /\ recs = <<>> /\ found \in Nat /\ WorldInv
  BY DEF obd_read_dtc_records, Opened, HInv, GoingInv, StepInv, AtSteps, BeforeOpen, ParseInv
<1>2. ledger = Holding(OpenHeld \cup {}) /\ heap = Nothing
  BY <1>1, HoldingIs DEF HInv, LedgerInv, Held, OwnHeld, UpdateSteps, FileSteps
<1>3. UNCHANGED <<found, world, dev, images, sent, block, recs, out>> /\ cli' = cli
  BY DEF cmd_dtc_review, obd_read_dtc_records, updating, world
<1>4. CASE Close(ledger, 4) /\ UNCHANGED heap
  <2>1. {} \cap OpenHeld = {} /\ {} = {}
    OBVIOUS
  <2>2. ledger' = Nothing /\ at' = "end" /\ code' = <<4>>
    BY <1>2, <1>4, <2>1, Closes
  <2>3. dev' # <<>> /\ sent' = <<>> /\ out' = "none" /\ heap' = Nothing /\ found' \in Nat
    BY <1>1, <1>2, <1>3, <1>4
  <2>4. SentInv' /\ ExitCodeRight'
    BY <2>2, <2>3, ExitsRight DEF SentInv
  <2> QED BY <1>1, <1>3, <2>2, <2>3, <2>4, EndsWell
<1>5. CASE Moves(Take(ledger, {"raw"}), "parse") /\ heap' = Take(heap, {<<"recs">>})
  <2>1. at' = "parse" /\ UNCHANGED code /\ found' \in Nat /\ dev' # <<>> /\ cli'.cmd = "dtc-review"
    BY <1>1, <1>3, <1>5 DEF Moves
  <2>2. WorldInv' /\ SentInv' /\ ExitCodeRight' /\ code' = <<>> /\ sent' = <<>> /\ out' = "none"
    BY <1>1, <1>3, <2>1, GoesOn
  <2>3. StepInv' /\ GoingInv' /\ ChosenInv'
    BY <2>1, <2>2 DEF StepInv, GoingInv, ChosenInv, AtSteps, BeforeOpen, UpdateSteps, FileSteps
  <2>4. LedgerInv'
    <3>1. Held' = OpenHeld \cup {"raw"} /\ HeldOfRecords' = {<<"recs">>}
      BY <1>1, <1>3, <2>1 DEF Held, OwnHeld, OpenHeld, UpdateSteps, FileSteps, HeldOfRecords
    <3>2. Take(ledger, {"raw"}) = Holding((OpenHeld \cup {}) \cup {"raw"})
      BY <1>2, TakeMore
    <3>3. (OpenHeld \cup {}) \cup {"raw"} = OpenHeld \cup {"raw"}
      OBVIOUS
    <3>4. Take(heap, {<<"recs">>}) = Holding({} \cup {<<"recs">>}) /\ {} \cup {<<"recs">>} = {<<"recs">>}
      BY <1>2, HoldingIs, TakeMore
    <3>5. ledger' = Holding(Held') /\ heap' = Holding(HeldOfRecords')
      BY <1>5, <3>1, <3>2, <3>3, <3>4 DEF Moves
    <3> QED BY <2>1, <3>5 DEF LedgerInv
  <2>5. ParseInv'
    <3>1. block' = 0 /\ recs' = <<>> /\ 0 \in 0..Len(raw')
      <4>1. Len(raw) \in Nat /\ raw' = raw
        BY <1>1, <1>3, RawIs DEF world
      <4> QED BY <1>1, <1>3, <4>1
    <3>2. recs' \in Seq(Records')
      BY <3>1, EmptySeq
    <3> QED BY <2>1, <3>1, <3>2 DEF ParseInv, BeforeOpen
  <2> QED BY <2>2, <2>3, <2>4, <2>5 DEF HInv
<1> QED BY <1>4, <1>5 DEF obd_read_dtc_records
(* What the parsing and the report find.                                   *)
LEMMA Parsing ==
  ASSUME HInv, at \in {"parse", "report"}
  PROVE  /\ cli.cmd = "dtc-review" /\ dev # <<>> /\ sent = <<>> /\ out = "none" /\ code = <<>>
         /\ found \in Nat /\ WorldInv /\ at # "end"
         /\ heap = Holding(HeldOfRecords) /\ recs \in Seq(Records)
         /\ at = "parse" => ledger = Holding(OpenHeld \cup {"raw"}) /\ block \in 0..Len(raw)
         /\ at = "report" => ledger = Holding(OpenHeld \cup {})
         /\ {"raw"} \cap OpenHeld = {} /\ {} \cap OpenHeld = {}
<1>1. "raw" \notin OpenHeld
  BY DEF OpenHeld
<1>2. /\ at = "parse" => ledger = Holding(OpenHeld \cup {"raw"})
      /\ at = "report" => ledger = Holding(OpenHeld \cup {})
      /\ heap = Holding(HeldOfRecords)
  BY DEF HInv, LedgerInv, Held, OwnHeld, UpdateSteps, FileSteps
<1>3. /\ cli.cmd = "dtc-review" /\ dev # <<>> /\ sent = <<>> /\ out = "none" /\ code = <<>>
      /\ found \in Nat
  BY DEF HInv, StepInv, GoingInv, AtSteps, BeforeOpen
<1> QED BY <1>1, <1>2, <1>3 DEF HInv, ParseInv

LEMMA ParsesOn ==
  ASSUME HInv, at = "parse", at' \in {"parse", "report"},
         UNCHANGED <<found, world, updating, dev, code, out>>, ParseInv',
         ledger' = Holding(OpenHeld \cup (IF at' = "parse" THEN {"raw"} ELSE {})),
         heap' = Holding(HeldOfRecords')
  PROVE  HInv'
<1>1. /\ cli' = cli /\ cli.cmd = "dtc-review" /\ dev' # <<>> /\ found' \in Nat
      /\ UNCHANGED <<world, sent, out, code>> /\ at # "end"
  BY Parsing DEF world, updating
<1>2. WorldInv' /\ SentInv' /\ ExitCodeRight' /\ code' = <<>> /\ sent' = <<>> /\ out' = "none"
  BY <1>1, GoesOn
<1>3. StepInv' /\ GoingInv' /\ ChosenInv'
  BY <1>1, <1>2 DEF StepInv, GoingInv, ChosenInv, AtSteps, BeforeOpen, UpdateSteps, FileSteps
<1>4. Held' = OpenHeld \cup (IF at' = "parse" THEN {"raw"} ELSE {})
  BY <1>1 DEF Held, OwnHeld, OpenHeld, UpdateSteps, FileSteps
<1>5. LedgerInv'
  BY <1>4 DEF LedgerInv
<1> QED BY <1>2, <1>3, <1>5 DEF HInv

LEMMA ReviewEnds ==
  ASSUME HInv, at \in {"parse", "report"},
         UNCHANGED <<found, world, updating, dev>>, heap' = Nothing,
         NEW x, x = IF at = "parse" THEN {"raw"} ELSE {}, NEW n \in {0, 1, 2, 4},
         (x = {} /\ Close(ledger, n)) \/ Close(Drop(ledger, x), n),
         n = 0 => recs' # <<>> /\ ("-o" \in cli.flags => out' \in {"whole", "lost"}),
         out' \in {"whole", "lost"} => n = 0
  PROVE  HInv'
<1>1. ledger = Holding(OpenHeld \cup x) /\ x \cap OpenHeld = {}
  BY Parsing
<1>2. ledger' = Nothing /\ at' = "end" /\ code' = <<n>>
  BY <1>1, Closes
<1>3. cli' = cli /\ cli.cmd = "dtc-review" /\ dev' # <<>> /\ sent' = <<>> /\ found' \in Nat /\ WorldInv
  BY Parsing DEF world, updating
<1>4. n = 0 => Achieved'
  BY <1>3 DEF Achieved, Files
<1>5. SentInv' /\ ExitCodeRight'
  BY <1>2, <1>3, <1>4, ExitsRight DEF SentInv
<1> QED BY <1>2, <1>3, <1>5, EndsWell

LEMMA BlockKeeps == HInv /\ ParseBlock /\ cmd_dtc_review => HInv'
<1> SUFFICES ASSUME HInv, ParseBlock, cmd_dtc_review PROVE HInv'
  OBVIOUS
<1> DEFINE b == raw[block + 1]
<1>1. at = "parse" /\ block < Len(raw) /\ block' = block + 1 /\ out' = out
  BY DEF ParseBlock
<1>2. UNCHANGED <<found, world, updating, dev>> /\ raw' = raw
  BY DEF cmd_dtc_review, world
<1>3. /\ WorldInv /\ heap = Holding(HeldOfRecords) /\ recs \in Seq(Records)
      /\ ledger = Holding(OpenHeld \cup {"raw"}) /\ block \in 0..Len(raw)
  BY <1>1, Parsing
<1>4. /\ block \in Nat /\ Len(raw) \in Nat /\ DOMAIN raw = 1..Len(raw)
      /\ block + 1 \in DOMAIN raw /\ b \in RawBlocks /\ block' \in 0..Len(raw)
  <2>1. Len(raw) \in Nat /\ DOMAIN raw = 1..Len(raw) /\ \A i \in DOMAIN raw : raw[i] \in RawBlocks
    BY <1>3, RawIs
  <2>2. block \in Nat /\ block + 1 \in DOMAIN raw /\ block' \in 0..Len(raw)
    BY <1>1, <1>3, <2>1
  <2> QED BY <2>1, <2>2
<1>5. /\ \A j, k \in DOMAIN recs : j < k => recs[j].sequence < recs[k].sequence
      /\ {recs[k].sequence + 1 : k \in DOMAIN recs} = {i \in 1..block : raw[i].magic}
  BY <1>1 DEF HInv, ParseInv
<1>6. Records' = Records /\ OpenHeld' = OpenHeld
  BY <1>2 DEF Records, OpenHeld, world
<1>7. 1..(block + 1) = 1..block \cup {block + 1}
  BY <1>4
<1>8. CASE ~b.magic /\ Moves(ledger, at) /\ UNCHANGED <<recs, heap>>
  <2>1. {i \in 1..(block + 1) : raw[i].magic} = {i \in 1..block : raw[i].magic}
    BY <1>7, <1>8
  <2>2. ParseInv'
    BY <1>1, <1>2, <1>3, <1>4, <1>5, <1>6, <1>8, <2>1 DEF ParseInv, Moves, BeforeOpen
  <2>3. HeldOfRecords' = HeldOfRecords
    BY <1>8 DEF HeldOfRecords
  <2> QED BY <1>1, <1>2, <1>3, <1>8, <2>2, <2>3, ParsesOn DEF Moves
<1>9. ASSUME b.magic, NEW n \in 0..(Len(b.dtcs) + 1),
             IF n = Len(b.dtcs) + 1
             THEN /\ recs' = Append(recs, Record(b, block, n))
                  /\ heap' = Take(heap, Parts(Record(b, block, n))) /\ Moves(ledger, at)
             ELSE /\ recs' = <<>>
                  /\ heap' = OutOfMemory(Take(heap, Parts(Record(b, block, n))),
                                         Append(recs, Record(b, block, n)))
                  /\ Close(Drop(ledger, {"raw"}), 4)
      PROVE  HInv'
  <2> DEFINE r == Record(b, block, n)
             all == Append(recs, r)
  <2>1. Take(heap, Parts(r)) = Holding(HeldOfRecords \cup Parts(r))
    BY <1>3, TakeMore
  <2>2. CASE n = Len(b.dtcs) + 1
    <3>1. r \in Records
      <4>1. (block + 1) - 1 = block
        BY <1>4
      <4> QED BY <1>4, <1>9, <2>2, <4>1 DEF Records
    <3>2. HeldOfRecords' = HeldOfRecords \cup Parts(r) /\ recs' = all
      <4>1. recs' = all
        BY <1>9, <2>2
      <4>2. HeldOfRecords \cup Parts(r) = {<<"recs">>} \cup UNION {Parts(all[i]) : i \in DOMAIN all}
        BY <1>3, HeldMore
      <4> HIDE DEF all, r
      <4> QED BY <4>1, <4>2 DEF HeldOfRecords
    <3>3. /\ all \in Seq(Records) /\ DOMAIN recs = 1..Len(recs) /\ Len(recs) \in Nat
          /\ DOMAIN all = 1..(Len(recs) + 1)
          /\ \A i \in 1..Len(recs) : all[i] = recs[i]
          /\ all[Len(recs) + 1] = r
      <4>1. DOMAIN recs = 1..Len(recs) /\ Len(recs) \in Nat
        BY <1>3, LenProperties
      <4>2. /\ Len(all) = Len(recs) + 1 /\ all \in Seq(Records)
            /\ \A i \in 1..Len(recs) : all[i] = recs[i]
            /\ all[Len(recs) + 1] = r
        BY <1>3, <3>1, AppendProperties
      <4>3. DOMAIN all = 1..Len(all)
        BY <4>2, LenProperties
      <4> QED BY <4>1, <4>2, <4>3
    <3>4. r.sequence = block
      BY <1>4, RecordIs
    <3> HIDE DEF r, all, b
    <3>5. \A k \in DOMAIN recs : recs[k].sequence \in Nat /\ recs[k].sequence < block
      <4> SUFFICES ASSUME NEW k \in DOMAIN recs
                   PROVE  recs[k].sequence \in Nat /\ recs[k].sequence < block
        OBVIOUS
      <4>1. recs[k] \in Records
        BY <1>3, <3>3, ElementOfSeq
      <4>2. recs[k].sequence \in Nat
        BY <1>3, <4>1, RecordsAre
      <4>3. recs[k].sequence + 1 \in 1..block
        BY <1>5
      <4> QED BY <1>4, <4>2, <4>3
    <3>6. \A j, k \in DOMAIN all : j < k => all[j].sequence < all[k].sequence
      BY <1>4, <1>5, <3>3, <3>4, <3>5
    <3>7. {all[k].sequence + 1 : k \in DOMAIN all} = {i \in 1..(block + 1) : raw[i].magic}
      <4>1. DOMAIN all = DOMAIN recs \cup {Len(recs) + 1}
        BY <3>3
      <4>2. {all[k].sequence + 1 : k \in DOMAIN all}
            = {recs[k].sequence + 1 : k \in DOMAIN recs} \cup {block + 1}
        BY <3>3, <3>4, <4>1
      <4>3. {i \in 1..(block + 1) : raw[i].magic} = {i \in 1..block : raw[i].magic} \cup {block + 1}
        BY <1>7, <1>9 DEF b
      <4> QED BY <1>5, <4>2, <4>3
    <3>8. at' = "parse" /\ ledger' = ledger /\ code' = code /\ heap' = Holding(HeldOfRecords \cup Parts(r))
      BY <1>1, <1>9, <2>1, <2>2 DEF Moves, r
    <3>9. ParseInv'
      <4>1. recs' \in Seq(Records')
        BY <1>6, <3>2, <3>3
      <4> QED BY <1>1, <1>2, <1>4, <3>2, <3>6, <3>7, <3>8, <4>1 DEF ParseInv, BeforeOpen
    <3> QED BY <1>1, <1>2, <1>3, <3>2, <3>8, <3>9, ParsesOn
  <2>3. CASE n # Len(b.dtcs) + 1
    <3>1. /\ recs' = <<>> /\ heap' = OutOfMemory(Holding(HeldOfRecords \cup Parts(r)), all)
          /\ Close(Drop(ledger, {"raw"}), 4)
      BY <1>9, <2>1, <2>3
    <3>2. HeldOfRecords \cup Parts(r) = {<<"recs">>} \cup UNION {Parts(all[i]) : i \in DOMAIN all}
      BY <1>3, HeldMore
    <3>3. heap' = Nothing
      BY <3>1, <3>2, DropAll DEF OutOfMemory, obd_free_dtc_records
    <3>4. out' = "none" /\ {"raw"} = (IF at = "parse" THEN {"raw"} ELSE {})
      BY <1>1, Parsing
    <3> QED BY <1>1, <1>2, <3>1, <3>3, <3>4, ReviewEnds
  <2> QED BY <2>2, <2>3
<1> QED BY <1>8, <1>9 DEF ParseBlock
LEMMA SortKeeps == HInv /\ Sort /\ cmd_dtc_review => HInv'
<1> SUFFICES ASSUME HInv, Sort, cmd_dtc_review PROVE HInv'
  OBVIOUS
<1>1. /\ at = "parse" /\ block = Len(raw) /\ recs' = Sorted(recs)
      /\ Moves(Drop(ledger, {"raw"}), "report") /\ heap' = heap /\ out' = out
  BY DEF Sort
<1>2. UNCHANGED <<found, world, updating, dev>> /\ raw' = raw
  BY DEF cmd_dtc_review, world
<1>3. /\ WorldInv /\ heap = Holding(HeldOfRecords) /\ recs \in Seq(Records)
      /\ ledger = Holding(OpenHeld \cup {"raw"}) /\ {"raw"} \cap OpenHeld = {}
  BY <1>1, Parsing
<1>4. /\ \A j, k \in DOMAIN recs : j < k => recs[j].sequence < recs[k].sequence
      /\ {recs[k].sequence + 1 : k \in DOMAIN recs} = {i \in 1..block : raw[i].magic}
  BY <1>1 DEF HInv, ParseInv
<1>5. \A x \in Records : x.key \in Nat /\ x.sequence \in Nat
  BY <1>3, RecordsAre
<1>6. \A j, k \in DOMAIN recs : j # k => recs[j].sequence # recs[k].sequence
  <2>1. DOMAIN recs = 1..Len(recs) /\ Len(recs) \in Nat
    BY <1>3, LenProperties
  <2>2. \A k \in DOMAIN recs : recs[k].sequence \in Nat
    BY <1>3, <1>5, <2>1, ElementOfSeq
  <2> SUFFICES ASSUME NEW j \in DOMAIN recs, NEW k \in DOMAIN recs, j # k
               PROVE  recs[j].sequence # recs[k].sequence
    OBVIOUS
  <2>3. j < k \/ k < j
    BY <2>1
  <2> QED BY <1>4, <2>2, <2>3
<1>7. /\ recs' \in Seq(Records) /\ DOMAIN recs' = DOMAIN recs
      /\ {recs'[k] : k \in DOMAIN recs} = {recs[k] : k \in DOMAIN recs}
      /\ \A j, k \in DOMAIN recs : j < k => ByKey(recs'[j], recs'[k])
  <2> DEFINE s == Sorted(recs)
  <2>1. /\ s \in Seq(Records) /\ DOMAIN s = DOMAIN recs
        /\ {s[k] : k \in DOMAIN recs} = {recs[k] : k \in DOMAIN recs}
        /\ \A j, k \in DOMAIN recs : j < k => ByKey(s[j], s[k])
    BY <1>3, <1>5, <1>6, SortedRight
  <2>2. recs' = s
    BY <1>1
  <2> HIDE DEF s
  <2> QED BY <2>1, <2>2
<1>8. HeldOfRecords' = HeldOfRecords
  <2>1. {Parts(recs'[k]) : k \in DOMAIN recs'} = {Parts(x) : x \in {recs'[k] : k \in DOMAIN recs}}
    BY <1>7
  <2>2. {Parts(recs[k]) : k \in DOMAIN recs} = {Parts(x) : x \in {recs[k] : k \in DOMAIN recs}}
    OBVIOUS
  <2>3. {Parts(recs'[k]) : k \in DOMAIN recs'} = {Parts(recs[k]) : k \in DOMAIN recs}
    BY <1>7, <2>1, <2>2
  <2> QED BY <2>3 DEF HeldOfRecords
<1>9. {recs'[k].sequence + 1 : k \in DOMAIN recs'} = {i \in DOMAIN raw : raw[i].magic}
  <2>1. {recs'[k].sequence + 1 : k \in DOMAIN recs'}
        = {x.sequence + 1 : x \in {recs'[k] : k \in DOMAIN recs}}
    BY <1>7
  <2>2. {recs[k].sequence + 1 : k \in DOMAIN recs}
        = {x.sequence + 1 : x \in {recs[k] : k \in DOMAIN recs}}
    OBVIOUS
  <2>3. DOMAIN raw = 1..block
    BY <1>1, <1>3, RawIs
  <2> QED BY <1>4, <1>7, <2>1, <2>2, <2>3
<1>10. at' = "report" /\ code' = code /\ ledger' = Holding(OpenHeld \cup {}) /\ heap' = Holding(HeldOfRecords')
  <2>1. (OpenHeld \cup {"raw"}) \ {"raw"} = OpenHeld \cup {} /\ {"raw"} \subseteq OpenHeld \cup {"raw"}
    BY <1>3
  <2>2. Drop(ledger, {"raw"}) = Holding(OpenHeld \cup {})
    BY <1>3, <2>1, DropHeld
  <2> QED BY <1>1, <1>3, <1>8, <2>2 DEF Moves
<1>11. ParseInv'
  <2>1. recs' \in Seq(Records')
    BY <1>2, <1>7 DEF Records
  <2>2. \A j, k \in DOMAIN recs' : j < k => ByKey(recs'[j], recs'[k])
    BY <1>7
  <2>3. {recs'[k].sequence + 1 : k \in DOMAIN recs'} = {i \in DOMAIN raw' : raw'[i].magic}
    BY <1>2, <1>9
  <2> QED BY <1>10, <2>1, <2>2, <2>3 DEF ParseInv, BeforeOpen
<1> QED BY <1>1, <1>2, <1>10, <1>11, ParsesOn

LEMMA ReportKeeps == HInv /\ Report_ /\ cmd_dtc_review => HInv'
<1> SUFFICES ASSUME HInv, Report_, cmd_dtc_review PROVE HInv'
  OBVIOUS
<1>1. at = "report" /\ heap' = obd_free_dtc_records(heap, recs) /\ recs' = recs
  BY DEF Report_
<1>2. UNCHANGED <<found, world, updating, dev>>
  BY DEF cmd_dtc_review
<1>3. heap = Holding(HeldOfRecords) /\ out = "none"
  BY <1>1, Parsing
<1>4. heap' = Nothing
  BY <1>1, <1>3, DropAll DEF obd_free_dtc_records, HeldOfRecords
<1>5. PICK n \in {0, 1, 2} :
        /\ Close(ledger, n)
        /\ n = 0 => recs' # <<>> /\ ("-o" \in cli.flags => out' \in {"whole", "lost"})
        /\ out' \in {"whole", "lost"} => n = 0
  BY <1>1, <1>3 DEF Report_
<1>6. {} = (IF at = "parse" THEN {"raw"} ELSE {})
  BY <1>1
<1> QED BY <1>1, <1>2, <1>4, <1>5, <1>6, ReviewEnds

LEMMA ReviewKeeps == HInv /\ cmd_dtc_review => HInv'
  BY ReadKeeps, BlockKeeps, SortKeeps, ReportKeeps DEF cmd_dtc_review

-----------------------------------------------------------------------------
LEMMA HInvStutters == HInv /\ UNCHANGED hvars => HInv'
<1> SUFFICES ASSUME HInv, UNCHANGED hvars PROVE HInv'
  OBVIOUS
<1>1. /\ UNCHANGED <<ledger, usb, found, images, sent, block, recs, heap, at, dev, out, code>>
      /\ UNCHANGED <<cli, tree, devices, raw>>
  BY DEF hvars, usbVars, world, updating, parsing
<1>2. WorldInv' /\ StepInv' /\ GoingInv'
  BY <1>1 DEF HInv, WorldInv, StepInv, GoingInv
<1>3. LedgerInv'
  BY <1>1 DEF HInv, LedgerInv, Held, UsbHeld, OpenHeld, OwnHeld, HeldOfRecords
<1>4. ChosenInv' /\ SentInv'
  BY <1>1 DEF HInv, ChosenInv, SentInv, Root, Chosen
<1>5. ExitCodeRight' /\ ParseInv'
  BY <1>1 DEF HInv, ExitCodeRight, Exit, Achieved, ParseInv, Records
<1> QED BY <1>2, <1>3, <1>4, <1>5 DEF HInv

THEOREM HostInductive == HostSpec => []HInv
<1>1. HInv /\ [host_tool]_hvars => HInv'
  BY MainKeeps, ListKeeps, OpeningKeeps, InfoKeeps, UpdateKeeps, WriteKeeps, ReviewKeeps,
     HInvStutters DEF host_tool
<1> QED BY <1>1, HInvInit, PTL DEF HostSpec

(* Whatever fails, a command that has ended holds nothing of what the      *)
(* ledgers are kept of (usb_transport.c:90-237, main.c, device.c:230-315). *)
THEOREM EndsClean == HostSpec => []CleanExit
<1>1. HInv => CleanExit
  BY HoldingIs DEF HInv, LedgerInv, GoingInv, Held, CleanExit
<1> QED BY <1>1, HostInductive, PTL

(* The exit code is about what happened.                                   *)
THEOREM ExitsTruly == HostSpec => []ExitCodeRight
<1>1. HInv => ExitCodeRight
  BY DEF HInv
<1> QED BY <1>1, HostInductive, PTL
-----------------------------------------------------------------------------
(* The files of a package.                                                 *)

(* No prover knows that a literal is in STRING.                            *)
Words == STRING \cup {"bin", "DM100", "DM300", "McuCode.bin", "Erase.bin", "ExtFlashDat.bin"}

LEMMA TuplesAre ==
  ASSUME NEW S, NEW a \in S, NEW b \in S, NEW c \in S
  PROVE  /\ <<a>> \in Seq(S) /\ Len(<<a>>) = 1 /\ <<a>>[1] = a
         /\ <<a, b>> \in Seq(S) /\ Len(<<a, b>>) = 2 /\ <<a, b>>[1] = a /\ <<a, b>>[2] = b
         /\ <<a, b, c>> \in Seq(S) /\ Len(<<a, b, c>>) = 3
         /\ <<a, b, c>>[1] = a /\ <<a, b, c>>[2] = b /\ <<a, b, c>>[3] = c
<1>1. <<a>> \in [1..1 -> S] /\ <<a, b>> \in [1..2 -> S] /\ <<a, b, c>> \in [1..3 -> S]
  OBVIOUS
<1>2. \A n \in Nat : \A s \in [1..n -> S] : s \in Seq(S)
  OBVIOUS
<1>3. <<a>> \in Seq(S) /\ <<a, b>> \in Seq(S) /\ <<a, b, c>> \in Seq(S)
  BY <1>1, <1>2
<1> QED BY <1>3

LEMMA PairBehind ==
  ASSUME NEW S, NEW a \in S, NEW b \in S, NEW c \in S
  PROVE  <<a>> \o <<b, c>> = <<a, b, c>>
<1> DEFINE s == <<a>> \o <<b, c>>
           t == <<a, b, c>>
<1>1. /\ <<a>> \in Seq(S) /\ Len(<<a>>) = 1 /\ <<a>>[1] = a
      /\ <<b, c>> \in Seq(S) /\ Len(<<b, c>>) = 2 /\ <<b, c>>[1] = b /\ <<b, c>>[2] = c
  BY TuplesAre
<1>2. t \in Seq(S) /\ Len(t) = 3 /\ t[1] = a /\ t[2] = b /\ t[3] = c
  BY TuplesAre
<1>3. /\ s \in Seq(S) /\ Len(s) = Len(<<a>>) + Len(<<b, c>>)
      /\ \A i \in 1..(Len(<<a>>) + Len(<<b, c>>)) :
           s[i] = IF i <= Len(<<a>>) THEN <<a>>[i] ELSE <<b, c>>[i - Len(<<a>>)]
  BY <1>1, ConcatProperties
<1> HIDE DEF s, t
<1>4. Len(s) = 3 /\ \A i \in 1..3 : s[i] = IF i <= 1 THEN <<a>>[i] ELSE <<b, c>>[i - 1]
  BY <1>1, <1>3
<1>5. s[1] = a /\ s[2] = b /\ s[3] = c
  BY <1>1, <1>4
<1>6. \A i \in 1..Len(s) : s[i] = t[i]
  <2>1. \A i \in 1..Len(s) : i = 1 \/ i = 2 \/ i = 3
    BY <1>4
  <2> QED BY <1>2, <1>5, <2>1
<1>7. s = t
  BY <1>2, <1>3, <1>4, <1>6, SeqEqual
<1> QED BY <1>7 DEF s, t

LEMMA LeastIs ==
  ASSUME NEW S, S \subseteq Nat, S # {}
  PROVE  Min(S) \in S /\ \A j \in S : Min(S) <= j
<1>1. \E i \in S : \A j \in S : i <= j
  BY HasLeast
<1> QED BY <1>1 DEF Min

(* The first of the names that is there.                                   *)
LEMMA FirstExisting ==
  ASSUME NEW t, NEW root, NEW names, Len(names) \in Nat, first_existing(t, root, names) # <<>>
  PROVE  \E k \in 1..Len(names) :
           /\ first_existing(t, root, names) = <<root \o names[k]>>
           /\ root \o names[k] \in t.files
           /\ \A j \in 1..(k - 1) : root \o names[j] \notin t.files
<1> DEFINE I == {i \in 1..Len(names) : root \o names[i] \in t.files}
<1>1. first_existing(t, root, names)
      = IF I # {} THEN (IF Min(I) = 0 THEN <<>> ELSE <<root \o names[Min(I)]>>)
        ELSE <<>>
  BY DEF first_existing, SelectInSeq
<1>2. I # {} /\ first_existing(t, root, names) = <<root \o names[Min(I)]>>
  BY <1>1
<1>3. Min(I) \in I /\ \A j \in I : Min(I) <= j
  <2>1. I \subseteq Nat
    OBVIOUS
  <2> HIDE DEF I
  <2> QED BY <1>2, <2>1, LeastIs
<1>4. \A j \in 1..(Min(I) - 1) : j \in 1..Len(names) /\ ~(Min(I) <= j)
  BY <1>3
<1> HIDE DEF I
<1>5. \A j \in 1..(Min(I) - 1) : root \o names[j] \notin t.files
  BY <1>3, <1>4 DEF I
<1>6. Min(I) \in 1..Len(names) /\ root \o names[Min(I)] \in t.files
  BY <1>3 DEF I
<1> QED BY <1>2, <1>5, <1>6

(* The directory an update takes its images from.                          *)
LEMMA RootIs ==
  ASSUME WorldInv, Root # <<>>
  PROVE  \E top \in {<<>>} \cup {<<n>> : n \in {tree.names[k] : k \in DOMAIN tree.names}} :
           Root[1] = cli.dir \o top /\ top \in Seq(Words)
<1>1. cli.dir \in Seq(Words) /\ tree.names \in Seq(Words)
  <2>1. cli.dir \in Seq(STRING) /\ tree.names \in Seq(STRING)
    BY DEF WorldInv
  <2>2. \A W : Seq(STRING) \subseteq Seq(STRING \cup W)
    OBVIOUS
  <2> QED BY <2>1, <2>2 DEF Words
<1>2. CASE Root = <<cli.dir>>
  <2>1. cli.dir \o <<>> = cli.dir
    BY <1>1, ConcatEmptySeq
  <2> QED BY <1>2, <2>1, EmptySeq
<1>3. CASE Root = find_child_with_bin(tree, cli.dir)
  <2> DEFINE I == {i \in 1..Len(tree.names) :
                     /\ cli.dir \o <<tree.names[i]>> \in tree.dirs
                     /\ has_bin(tree, cli.dir \o <<tree.names[i]>>)}
  <2>1. Root = IF I # {} THEN (IF Min(I) = 0 THEN <<>> ELSE <<cli.dir \o <<tree.names[Min(I)]>>>>)
               ELSE <<>>
    BY <1>3 DEF find_child_with_bin, SelectInSeq
  <2>2. I # {} /\ Root = <<cli.dir \o <<tree.names[Min(I)]>>>>
    BY <2>1
  <2>3. Len(tree.names) \in Nat /\ DOMAIN tree.names = 1..Len(tree.names)
    BY <1>1, LenProperties
  <2>4. Min(I) \in I
    <3>1. I \subseteq Nat
      BY <2>3
    <3> HIDE DEF I
    <3> QED BY <2>2, <3>1, LeastIs
  <2>5. Min(I) \in DOMAIN tree.names
    BY <2>3, <2>4
  <2>6. tree.names[Min(I)] \in Words
    BY <1>1, <2>3, <2>5, ElementOfSeq
  <2> DEFINE top == <<tree.names[Min(I)]>>
  <2>7. top \in {<<n>> : n \in {tree.names[k] : k \in DOMAIN tree.names}}
    BY <2>5
  <2>8. Root[1] = cli.dir \o top /\ top \in Seq(Words)
    <3>1. top \in Seq(Words)
      BY <2>6, TuplesAre
    <3>2. \A x : <<x>>[1] = x
      OBVIOUS
    <3> QED BY <2>2, <3>1, <3>2
  <2> HIDE DEF I, top
  <2> QED BY <2>7, <2>8
<1>4. Root \in {<<>>, <<cli.dir>>, find_child_with_bin(tree, cli.dir)}
  BY DEF Root, obd_package_open
<1> QED BY <1>2, <1>3, <1>4

(* Two files with a bin/ under one directory.                              *)
LEMMA UnderOne ==
  ASSUME NEW root \in Seq(Words), NEW p \in Seq(Words), NEW q \in Seq(Words),
         Len(p) >= 1, Len(q) >= 1, p[1] = "bin", q[1] = "bin"
  PROVE  LET x == root \o p
             y == root \o q
         IN  \E k \in DOMAIN x : x[k] = "bin" /\ k <= Len(y) /\ SubSeq(x, 1, k) = SubSeq(y, 1, k)
<1> DEFINE x == root \o p
           y == root \o q
           k == Len(root) + 1
<1>1. Len(root) \in Nat /\ Len(p) \in Nat /\ Len(q) \in Nat
  BY LenProperties
<1>2. /\ x \in Seq(Words) /\ Len(x) = Len(root) + Len(p)
      /\ \A i \in 1..(Len(root) + Len(p)) : x[i] = IF i <= Len(root) THEN root[i] ELSE p[i - Len(root)]
  BY ConcatProperties
<1>3. /\ y \in Seq(Words) /\ Len(y) = Len(root) + Len(q)
      /\ \A i \in 1..(Len(root) + Len(q)) : y[i] = IF i <= Len(root) THEN root[i] ELSE q[i - Len(root)]
  BY ConcatProperties
<1>4. DOMAIN x = 1..Len(x) /\ k \in 1..Len(x) /\ k \in 1..Len(y)
  BY <1>1, <1>2, <1>3, LenProperties
<1>5. k - Len(root) = 1 /\ ~(k <= Len(root))
  BY <1>1
<1>6. x[k] = "bin" /\ y[k] = "bin"
  BY <1>1, <1>2, <1>3, <1>4, <1>5
<1>7. \A i \in 1..k : x[i] = y[i] /\ x[i] \in Words /\ y[i] \in Words
  <2> SUFFICES ASSUME NEW i \in 1..k PROVE x[i] = y[i] /\ x[i] \in Words /\ y[i] \in Words
    OBVIOUS
  <2>1. i \in 1..Len(x) /\ i \in 1..Len(y)
    BY <1>1, <1>2, <1>3, <1>4
  <2>2. x[i] \in Words /\ y[i] \in Words
    BY <1>2, <1>3, <2>1, ElementOfSeq
  <2>3. CASE i <= Len(root)
    BY <1>1, <1>2, <1>3, <2>1, <2>3
  <2>4. CASE i = k
    BY <1>6, <2>4
  <2> QED BY <1>1, <2>2, <2>3, <2>4
<1> HIDE DEF x, y
<1>8. SubSeq(x, 1, k) = SubSeq(y, 1, k)
  <2>1. k \in Int /\ k - 1 + 1 = k /\ 1 <= k
    BY <1>1
  <2>2. /\ SubSeq(x, 1, k) \in Seq(Words) /\ Len(SubSeq(x, 1, k)) = k
        /\ \A i \in 1..k : SubSeq(x, 1, k)[i] = x[1 + i - 1]
    BY <1>7, <2>1, SubSeqProperties
  <2>3. /\ SubSeq(y, 1, k) \in Seq(Words) /\ Len(SubSeq(y, 1, k)) = k
        /\ \A i \in 1..k : SubSeq(y, 1, k)[i] = y[1 + i - 1]
    BY <1>7, <2>1, SubSeqProperties
  <2>4. \A i \in 1..k : 1 + i - 1 = i
    BY <1>1
  <2> HIDE DEF k
  <2>5. \A i \in 1..k : SubSeq(x, 1, k)[i] = SubSeq(y, 1, k)[i]
    BY <1>7, <2>2, <2>3, <2>4
  <2> QED BY <2>2, <2>3, <2>5, SeqEqual
<1>9. k \in DOMAIN x /\ x[k] = "bin" /\ k <= Len(y)
  BY <1>1, <1>4, <1>6
<1> HIDE DEF k
<1> QED BY <1>8, <1>9 DEF x, y
(* A path of an image, under the directory of the package.                 *)
ImagePaths ==
  { <<"bin", "DM100", "McuCode.bin">>, <<"bin", "DM300", "McuCode.bin">>, <<"bin", "McuCode.bin">>,
    <<"bin", "DM300", "Erase.bin">>, <<"bin", "Erase.bin">>, <<"bin", "ExtFlashDat.bin">> }

LEMMA ImagePathsAre ==
  \A p \in ImagePaths : p \in Seq(Words) /\ Len(p) >= 1 /\ p[1] = "bin"
<1> DEFINE Path(p) == p \in Seq(Words) /\ Len(p) >= 1 /\ p[1] = "bin"
<1> "bin" \in Words
  BY DEF Words
<1>1. \A b \in Words : Path(<<"bin", b>>)
  BY TuplesAre
<1>2. \A b, c \in Words : Path(<<"bin", b, c>>)
  BY TuplesAre
<1> HIDE DEF Path
<1>3. \A p \in ImagePaths : Path(p)
  BY <1>1, <1>2 DEF ImagePaths, Words
<1> QED BY <1>3 DEF Path

(* What is chosen is there, and the more particular of two.                *)
LEMMA ChosenIs ==
  LET root == Root[1]
  IN  /\ Chosen.mcu # <<>> =>
           \/ /\ Chosen.mcu = <<root \o <<"bin", Line, "McuCode.bin">>>>
              /\ root \o <<"bin", Line, "McuCode.bin">> \in tree.files
           \/ /\ Chosen.mcu = <<root \o <<"bin", "McuCode.bin">>>>
              /\ root \o <<"bin", "McuCode.bin">> \in tree.files
              /\ root \o <<"bin", Line, "McuCode.bin">> \notin tree.files
      /\ Chosen.ext # <<>> =>
           /\ Chosen.ext = <<root \o <<"bin", "ExtFlashDat.bin">>>>
           /\ root \o <<"bin", "ExtFlashDat.bin">> \in tree.files
      /\ Chosen.erase # <<>> =>
           \E p \in {<<"bin", "DM300", "Erase.bin">>, <<"bin", "Erase.bin">>} :
             Chosen.erase = <<root \o p>>
      /\ "--data-only" \in cli.flags => Chosen.mcu = <<>>
      /\ "--mcu-only" \in cli.flags => Chosen.ext = <<>>
<1> DEFINE root == Root[1]
           ms == << <<"bin", Line, "McuCode.bin">>, <<"bin", "McuCode.bin">> >>
           xs == << <<"bin", "ExtFlashDat.bin">> >>
           es == << <<"bin", "DM300", "Erase.bin">>, <<"bin", "Erase.bin">> >>
<1>1. /\ Chosen.mcu = IF "--data-only" \in cli.flags THEN <<>> ELSE first_existing(tree, root, ms)
      /\ Chosen.ext = IF "--mcu-only" \in cli.flags THEN <<>> ELSE first_existing(tree, root, xs)
      /\ Chosen.erase = first_existing(tree, root, es)
  BY DEF Chosen, obd_package_mcu, obd_package_ext, obd_package_erase, Line
<1>2. Len(ms) = 2 /\ Len(xs) = 1 /\ Len(es) = 2
  OBVIOUS
<1> HIDE DEF root
<1>3. ASSUME Chosen.mcu # <<>>
      PROVE  \/ /\ Chosen.mcu = <<root \o ms[1]>> /\ root \o ms[1] \in tree.files
             \/ /\ Chosen.mcu = <<root \o ms[2]>> /\ root \o ms[2] \in tree.files
                /\ root \o ms[1] \notin tree.files
  <2> HIDE DEF ms
  <2>1. Chosen.mcu = first_existing(tree, root, ms)
    BY <1>1, <1>3
  <2>2. PICK k \in 1..Len(ms) :
          /\ Chosen.mcu = <<root \o ms[k]>> /\ root \o ms[k] \in tree.files
          /\ \A j \in 1..(k - 1) : root \o ms[j] \notin tree.files
    <3>1. Len(ms) \in Nat /\ first_existing(tree, root, ms) # <<>>
      BY <1>2, <1>3, <2>1
    <3> QED BY <2>1, <3>1, FirstExisting
  <2>3. k = 1 \/ (k = 2 /\ 1 \in 1..(k - 1))
    BY <1>2 DEF ms
  <2> QED BY <2>2, <2>3
<1>4. ASSUME Chosen.ext # <<>>
      PROVE  Chosen.ext = <<root \o xs[1]>> /\ root \o xs[1] \in tree.files
  <2> HIDE DEF xs
  <2>1. Chosen.ext = first_existing(tree, root, xs)
    BY <1>1, <1>4
  <2>2. PICK k \in 1..Len(xs) : Chosen.ext = <<root \o xs[k]>> /\ root \o xs[k] \in tree.files
    BY <1>2, <1>4, <2>1, FirstExisting
  <2>3. k = 1
    BY <1>2
  <2> QED BY <2>2, <2>3
<1>5. ASSUME Chosen.erase # <<>>
      PROVE  Chosen.erase = <<root \o es[1]>> \/ Chosen.erase = <<root \o es[2]>>
  <2> HIDE DEF es
  <2>1. Chosen.erase = first_existing(tree, root, es)
    BY <1>1, <1>5
  <2>2. PICK k \in 1..Len(es) : Chosen.erase = <<root \o es[k]>>
    <3>1. Len(es) \in Nat /\ first_existing(tree, root, es) # <<>>
      BY <1>2, <1>5, <2>1
    <3>2. PICK k \in 1..Len(es) : first_existing(tree, root, es) = <<root \o es[k]>>
      BY <3>1, FirstExisting
    <3> QED BY <2>1, <3>2
  <2>3. k = 1 \/ k = 2
    BY <1>2
  <2> QED BY <2>2, <2>3
<1>6. /\ ms[1] = <<"bin", Line, "McuCode.bin">> /\ ms[2] = <<"bin", "McuCode.bin">>
      /\ xs[1] = <<"bin", "ExtFlashDat.bin">>
      /\ es[1] = <<"bin", "DM300", "Erase.bin">> /\ es[2] = <<"bin", "Erase.bin">>
  OBVIOUS
<1> HIDE DEF ms, xs, es
<1> QED BY <1>1, <1>3, <1>4, <1>5, <1>6 DEF root

LEMMA OwnMcuIs ==
  ASSUME NEW root \in Seq(Words)
  PROVE  OwnMcu(root \o <<"bin", "McuCode.bin">>) = root \o <<"bin", Line, "McuCode.bin">>
<1> DEFINE p == <<"bin", "McuCode.bin">>
           file == root \o p
           start == SubSeq(file, 1, Len(file) - 1)
           bin == <<"bin">>
           own == <<Line, "McuCode.bin">>
<1> Line \in Words /\ "bin" \in Words /\ "McuCode.bin" \in Words
  BY DEF Line, Words
<1>1. p \in Seq(Words) /\ Len(p) = 2 /\ p[1] = "bin" /\ Len(root) \in Nat
  BY LenProperties, TuplesAre
<1>2. bin \in Seq(Words) /\ Len(bin) = 1 /\ bin[1] = "bin" /\ own \in Seq(Words)
  BY TuplesAre
<1>3. bin \o own = <<"bin", Line, "McuCode.bin">>
  BY PairBehind
<1> HIDE DEF p, bin, own
<1>4. /\ file \in Seq(Words) /\ Len(file) = Len(root) + 2
      /\ \A i \in 1..(Len(root) + 2) : file[i] = IF i <= Len(root) THEN root[i] ELSE p[i - Len(root)]
  <2>1. /\ root \o p \in Seq(Words) /\ Len(root \o p) = Len(root) + Len(p)
        /\ \A i \in 1..(Len(root) + Len(p)) :
             (root \o p)[i] = IF i <= Len(root) THEN root[i] ELSE p[i - Len(root)]
    BY <1>1, ConcatProperties
  <2>2. Len(p) = 2
    BY <1>1
  <2> QED BY <2>1, <2>2
<1>5. /\ root \o bin \in Seq(Words) /\ Len(root \o bin) = Len(root) + 1
      /\ \A i \in 1..(Len(root) + 1) :
           (root \o bin)[i] = IF i <= Len(root) THEN root[i] ELSE bin[i - Len(root)]
  <2>1. /\ root \o bin \in Seq(Words) /\ Len(root \o bin) = Len(root) + Len(bin)
        /\ \A i \in 1..(Len(root) + Len(bin)) :
             (root \o bin)[i] = IF i <= Len(root) THEN root[i] ELSE bin[i - Len(root)]
    BY <1>2, ConcatProperties
  <2>2. Len(bin) = 1
    BY <1>2
  <2> QED BY <2>1, <2>2
<1>6. \A i \in 1..(Len(root) + 1) : file[i] = (root \o bin)[i] /\ file[i] \in Words
  <2> SUFFICES ASSUME NEW i \in 1..(Len(root) + 1)
               PROVE  file[i] = (root \o bin)[i] /\ file[i] \in Words
    OBVIOUS
  <2>1. i \in 1..(Len(root) + 2) /\ i \in 1..Len(file)
    BY <1>1, <1>4
  <2>2. file[i] \in Words
    BY <1>4, <2>1, ElementOfSeq
  <2>3. CASE i <= Len(root)
    BY <1>4, <1>5, <2>1, <2>2, <2>3
  <2>4. CASE ~(i <= Len(root))
    <3>1. i - Len(root) = 1
      BY <1>1, <2>4
    <3> QED BY <1>1, <1>2, <1>4, <1>5, <2>1, <2>2, <2>4, <3>1
  <2> QED BY <2>3, <2>4
<1>7. start = root \o bin
  <2>1. Len(file) - 1 = Len(root) + 1 /\ Len(root) + 1 \in Int /\ 1 <= Len(root) + 1
    BY <1>1, <1>4
  <2> HIDE DEF file
  <2>2. /\ start \in Seq(Words) /\ Len(start) = Len(root) + 1
        /\ \A i \in 1..(Len(root) + 1) : start[i] = file[i]
    <3>1. /\ SubSeq(file, 1, Len(root) + 1) \in Seq(Words)
          /\ Len(SubSeq(file, 1, Len(root) + 1)) = Len(root) + 1 - 1 + 1
          /\ \A i \in 1..(Len(root) + 1 - 1 + 1) : SubSeq(file, 1, Len(root) + 1)[i] = file[1 + i - 1]
      BY <1>6, <2>1, SubSeqProperties
    <3>2. Len(root) + 1 - 1 + 1 = Len(root) + 1 /\ \A i \in 1..(Len(root) + 1) : 1 + i - 1 = i
      BY <1>1
    <3> QED BY <2>1, <3>1, <3>2
  <2> HIDE DEF start
  <2>3. \A i \in 1..Len(start) : start[i] = (root \o bin)[i]
    BY <1>6, <2>2
  <2> QED BY <1>5, <2>2, <2>3, SeqEqual
<1>8. (root \o bin) \o own = root \o (bin \o own)
  BY <1>2, ConcatAssociative
<1> QED BY <1>3, <1>7, <1>8 DEF OwnMcu, p, own

(* What an update sends is of the package and of the line of the device.   *)
THEOREM SendsTheRight == HostSpec => []RightImages
<1>1. HInv => RightImages
  <2> SUFFICES ASSUME HInv, sent # <<>> PROVE RightImages
    BY DEF RightImages
  <2> DEFINE f    == sent[1]
             root == Root[1]
             Sent == {f[i][1] : i \in {i \in DOMAIN f : f[i] # <<>>}}
  <2>1. f = Chosen /\ Root # <<>> /\ (f.mcu # <<>> \/ f.ext # <<>>)
    BY DEF HInv, SentInv
  <2>2. PICK top \in {<<>>} \cup {<<n>> : n \in {tree.names[k] : k \in DOMAIN tree.names}} :
          root = cli.dir \o top /\ top \in Seq(Words)
    BY <2>1, RootIs DEF HInv
  <2>3. root \in Seq(Words)
    <3>1. cli.dir \in Seq(Words)
      <4>1. cli.dir \in Seq(STRING)
        BY DEF HInv, WorldInv
      <4>2. \A W : Seq(STRING) \subseteq Seq(STRING \cup W)
        OBVIOUS
      <4> QED BY <4>1, <4>2 DEF Words
    <3> QED BY <2>2, <3>1, ConcatProperties
  <2>4. ASSUME NEW p, root \o p \in tree.files PROVE InPackage(root \o p, p)
    BY <2>2, <2>4 DEF InPackage
  <2>5. /\ f.mcu # <<>> =>
             \/ /\ f.mcu = <<root \o <<"bin", Line, "McuCode.bin">>>>
                /\ root \o <<"bin", Line, "McuCode.bin">> \in tree.files
             \/ /\ f.mcu = <<root \o <<"bin", "McuCode.bin">>>>
                /\ root \o <<"bin", "McuCode.bin">> \in tree.files
                /\ root \o <<"bin", Line, "McuCode.bin">> \notin tree.files
        /\ f.ext # <<>> =>
             /\ f.ext = <<root \o <<"bin", "ExtFlashDat.bin">>>>
             /\ root \o <<"bin", "ExtFlashDat.bin">> \in tree.files
        /\ f.erase # <<>> =>
             \E p \in {<<"bin", "DM300", "Erase.bin">>, <<"bin", "Erase.bin">>} :
               f.erase = <<root \o p>>
        /\ "--data-only" \in cli.flags => f.mcu = <<>>
        /\ "--mcu-only" \in cli.flags => f.ext = <<>>
    BY <2>1, ChosenIs
  <2>6. DOMAIN f = Kinds
    BY <2>1 DEF Chosen, Kinds
  <2> HIDE DEF f, root
  <2>one. \A x : <<x>>[1] = x
    OBVIOUS
  <2>7. f.mcu # <<>> =>
          \/ InPackage(f.mcu[1], <<"bin", Line, "McuCode.bin">>)
          \/ InPackage(f.mcu[1], <<"bin", "McuCode.bin">>) /\ OwnMcu(f.mcu[1]) \notin tree.files
    <3> SUFFICES ASSUME f.mcu # <<>>
                 PROVE  \/ InPackage(f.mcu[1], <<"bin", Line, "McuCode.bin">>)
                        \/ /\ InPackage(f.mcu[1], <<"bin", "McuCode.bin">>)
                           /\ OwnMcu(f.mcu[1]) \notin tree.files
      OBVIOUS
    <3>1. CASE /\ f.mcu = <<root \o <<"bin", Line, "McuCode.bin">>>>
               /\ root \o <<"bin", Line, "McuCode.bin">> \in tree.files
      BY <2>4, <2>one, <3>1
    <3>2. CASE /\ f.mcu = <<root \o <<"bin", "McuCode.bin">>>>
               /\ root \o <<"bin", "McuCode.bin">> \in tree.files
               /\ root \o <<"bin", Line, "McuCode.bin">> \notin tree.files
      <4>1. f.mcu[1] = root \o <<"bin", "McuCode.bin">>
        BY <2>one, <3>2
      <4>2. InPackage(root \o <<"bin", "McuCode.bin">>, <<"bin", "McuCode.bin">>)
        BY <2>4, <3>2
      <4>3. OwnMcu(root \o <<"bin", "McuCode.bin">>) \notin tree.files
        BY <2>3, <3>2, OwnMcuIs
      <4> QED BY <4>1, <4>2, <4>3
    <3> QED BY <2>5, <3>1, <3>2
  <2>8. f.ext # <<>> => InPackage(f.ext[1], <<"bin", "ExtFlashDat.bin">>)
    <3> SUFFICES ASSUME f.ext # <<>> PROVE InPackage(f.ext[1], <<"bin", "ExtFlashDat.bin">>)
      OBVIOUS
    <3>1. /\ f.ext = <<root \o <<"bin", "ExtFlashDat.bin">>>>
          /\ root \o <<"bin", "ExtFlashDat.bin">> \in tree.files
      BY <2>5
    <3>2. f.ext[1] = root \o <<"bin", "ExtFlashDat.bin">>
      BY <2>one, <3>1
    <3>3. InPackage(root \o <<"bin", "ExtFlashDat.bin">>, <<"bin", "ExtFlashDat.bin">>)
      BY <2>4, <3>1
    <3> QED BY <3>2, <3>3
  <2>9. \A x \in Sent : \E p \in ImagePaths : x = root \o p
    <3> SUFFICES ASSUME NEW i \in Kinds, f[i] # <<>>
                 PROVE  \E p \in ImagePaths : f[i][1] = root \o p
      BY <2>6
    <3>1. CASE i = "mcu"
      <4>1. \E p \in ImagePaths : f.mcu = <<root \o p>>
        BY <2>5, <3>1 DEF ImagePaths, Line
      <4> QED BY <2>one, <3>1, <4>1
    <3>2. CASE i = "ext"
      <4>1. \E p \in ImagePaths : f.ext = <<root \o p>>
        BY <2>5, <3>2 DEF ImagePaths
      <4> QED BY <2>one, <3>2, <4>1
    <3>3. CASE i = "erase"
      <4>1. \E p \in ImagePaths : f.erase = <<root \o p>>
        BY <2>5, <3>3 DEF ImagePaths
      <4> QED BY <2>one, <3>3, <4>1
    <3> QED BY <3>1, <3>2, <3>3 DEF Kinds
  <2>10. \A x, y \in Sent : \E k \in DOMAIN x :
           x[k] = "bin" /\ k <= Len(y) /\ SubSeq(x, 1, k) = SubSeq(y, 1, k)
    <3> SUFFICES ASSUME NEW x \in Sent, NEW y \in Sent
                 PROVE  \E k \in DOMAIN x :
                          x[k] = "bin" /\ k <= Len(y) /\ SubSeq(x, 1, k) = SubSeq(y, 1, k)
      OBVIOUS
    <3>1. PICK p \in ImagePaths : x = root \o p
      BY <2>9
    <3>2. PICK q \in ImagePaths : y = root \o q
      BY <2>9
    <3>3. /\ p \in Seq(Words) /\ Len(p) >= 1 /\ p[1] = "bin"
          /\ q \in Seq(Words) /\ Len(q) >= 1 /\ q[1] = "bin"
      BY ImagePathsAre
    <3> HIDE DEF Sent
    <3> QED BY <2>3, <3>1, <3>2, <3>3, UnderOne
  <2> QED BY <2>1, <2>5, <2>7, <2>8, <2>10 DEF RightImages, f
<1> QED BY <1>1, HostInductive, PTL
-----------------------------------------------------------------------------
(* The texts of a report.                                                  *)

LEMMA Remainder ==
  ASSUME NEW a \in Int, NEW b \in Nat, 0 < b
  PROVE  a % b \in Nat /\ a % b < b /\ (0 <= a /\ a < b => a % b = a)
  OBVIOUS

LEMMA ClampedIs ==
  ASSUME NEW o \in Nat, NEW t \in Nat, o < BlockSize
  PROVE  o + Clamped(o, t) <= BlockSize /\ (o + t <= BlockSize => Clamped(o, t) = t)
  BY DtcAssumption DEF Clamped

LEMMA TextIs ==
  ASSUME NEW d \in Nat \X Nat \X Nat
  PROVE  /\ StoredText(d)[1] = d[1] /\ StoredText(d)[2] + StoredText(d)[3] <= BlockSize
         /\ d[3] > 0 /\ d[2] < BlockSize /\ d[2] + d[3] - 1 <= BlockSize =>
              StoredText(d) = <<d[1], d[2], d[3] - 1>>
<1> DEFINE off  == d[2] % BlockSize
           tlen == TextLength(d)
<1>1. BlockSize \in Nat /\ 0 < BlockSize /\ BlockSize < 65536 /\ d[2] \in Nat /\ d[3] \in Nat
  BY DtcAssumption
<1>2. off \in Nat /\ off < BlockSize /\ (d[2] < BlockSize => off = d[2])
  <2>1. d[2] \in Int /\ 0 <= d[2]
    BY <1>1
  <2> QED BY <1>1, <2>1, Remainder
<1>3. tlen \in Nat /\ (0 <= d[3] - 1 /\ d[3] - 1 < 65536 => tlen = d[3] - 1)
  <2>1. d[3] - 1 \in Int /\ 65536 \in Nat /\ 0 < 65536
    BY <1>1
  <2> QED BY <2>1, Remainder DEF TextLength
<1>4. /\ StoredText(d) = <<d[1], off, Clamped(off, tlen)>>
      /\ StoredText(d)[1] = d[1] /\ StoredText(d)[2] = off /\ StoredText(d)[3] = Clamped(off, tlen)
  BY DEF StoredText
<1> HIDE DEF off, tlen
<1>5. off + Clamped(off, tlen) <= BlockSize /\ (off + tlen <= BlockSize => Clamped(off, tlen) = tlen)
  BY <1>2, <1>3, ClampedIs
<1>6. ASSUME d[3] > 0, d[2] < BlockSize, d[2] + d[3] - 1 <= BlockSize
      PROVE  StoredText(d) = <<d[1], d[2], d[3] - 1>>
  <2>1. 0 <= d[3] - 1 /\ d[3] - 1 < 65536
    BY <1>1, <1>6
  <2>2. off = d[2] /\ tlen = d[3] - 1
    BY <1>2, <1>3, <1>6, <2>1
  <2>3. off + tlen <= BlockSize
    BY <1>1, <1>6, <2>2
  <2> QED BY <1>4, <1>5, <2>2, <2>3
<1> QED BY <1>4, <1>5, <1>6

LEMMA TextsAre ==
  ASSUME NEW b \in RawBlocks, NEW i
  PROVE  LET r == Record(b, i, Len(b.dtcs) + 1)
         IN  /\ DOMAIN r.texts = DOMAIN b.dtcs
             /\ \A j \in DOMAIN b.dtcs : r.texts[j] = StoredText(b.dtcs[j])
             /\ \A j \in DOMAIN b.dtcs : b.dtcs[j] \in Nat \X Nat \X Nat
<1>1. b.dtcs \in Seq(Nat \X Nat \X Nat)
  BY DEF RawBlocks
<1>2. /\ Len(b.dtcs) \in Nat /\ DOMAIN b.dtcs = 1..Len(b.dtcs)
      /\ \A j \in DOMAIN b.dtcs : b.dtcs[j] \in Nat \X Nat \X Nat
  BY <1>1, LenProperties
<1>3. Len(b.dtcs) + 1 - 1 = Len(b.dtcs)
  BY <1>2
<1>4. Record(b, i, Len(b.dtcs) + 1).texts
      = [j \in 1..Len(b.dtcs) |-> StoredText(b.dtcs[j])]
  BY <1>3 DEF Record
<1> QED BY <1>2, <1>4

(* The report has every record once, sorted, with texts of its block.      *)
THEOREM ReportsTruly == HostSpec => []ReportRight
<1>1. HInv => ReportRight
  <2> SUFFICES ASSUME HInv, at = "report" PROVE ReportRight
    BY DEF ReportRight
  <2>1. recs \in Seq(Records) /\ WorldInv
    BY Parsing
  <2>2. DOMAIN recs = 1..Len(recs) /\ Len(recs) \in Nat
    BY <2>1, LenProperties
  <2>3. \A k \in 1..Len(recs) : recs[k] \in Records
    BY <2>1, ElementOfSeq
  <2>4. {recs[k].sequence + 1 : k \in 1..Len(recs)} = {i \in DOMAIN raw : raw[i].magic}
    BY <2>2 DEF HInv, ParseInv
  <2>5. ASSUME NEW j \in 1..Len(recs), NEW k \in 1..Len(recs), j < k
        PROVE  /\ recs[j].key <= recs[k].key
               /\ recs[j].key = recs[k].key => recs[j].sequence < recs[k].sequence
    <3>1. ByKey(recs[j], recs[k])
      BY <2>2, <2>5 DEF HInv, ParseInv
    <3>2. recs[j].key \in Nat /\ recs[k].key \in Nat
      BY <2>1, <2>3, RecordsAre
    <3> QED BY <3>1, <3>2 DEF ByKey
  <2>6. ASSUME NEW k \in 1..Len(recs)
        PROVE  LET dtcs == raw[recs[k].sequence + 1].dtcs
               IN  /\ recs[k].key = raw[recs[k].sequence + 1].key
                   /\ DOMAIN recs[k].texts = DOMAIN dtcs
                   /\ \A j \in DOMAIN dtcs :
                        LET t == recs[k].texts[j]
                            d == dtcs[j]
                        IN  /\ t[1] = d[1] /\ t[2] + t[3] <= BlockSize
                            /\ d[3] > 0 /\ d[2] < BlockSize /\ d[2] + d[3] - 1 <= BlockSize =>
                                 t = <<d[1], d[2], d[3] - 1>>
    <3> DEFINE b == raw[recs[k].sequence + 1]
    <3>1. /\ recs[k].sequence + 1 \in DOMAIN raw /\ recs[k].key = b.key
          /\ recs[k] = Record(b, recs[k].sequence, Len(b.dtcs) + 1)
      BY <2>1, <2>3, RecordsAre
    <3>2. b \in RawBlocks
      BY <2>1, <3>1, RawIs
    <3>3. /\ DOMAIN recs[k].texts = DOMAIN b.dtcs
          /\ \A j \in DOMAIN b.dtcs : recs[k].texts[j] = StoredText(b.dtcs[j])
          /\ \A j \in DOMAIN b.dtcs : b.dtcs[j] \in Nat \X Nat \X Nat
      <4> DEFINE i == recs[k].sequence
                 r == Record(b, i, Len(b.dtcs) + 1)
      <4>1. /\ DOMAIN r.texts = DOMAIN b.dtcs
            /\ \A j \in DOMAIN b.dtcs : r.texts[j] = StoredText(b.dtcs[j])
            /\ \A j \in DOMAIN b.dtcs : b.dtcs[j] \in Nat \X Nat \X Nat
        BY <3>2, TextsAre
      <4>2. r = recs[k]
        BY <3>1
      <4> HIDE DEF r, b
      <4> QED BY <4>1, <4>2
    <3> QED BY <3>1, <3>3, TextIs
  <2> QED BY <2>4, <2>5, <2>6 DEF ReportRight
<1> QED BY <1>1, HostInductive, PTL
=============================================================================
