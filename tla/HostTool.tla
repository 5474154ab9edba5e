------------------------------- MODULE HostTool -------------------------------
(***************************************************************************)
(* The commands of openphix-tool (main.c) from the command line to the     *)
(* exit code.  What is said to the device is in modules Update and Readout;*)
(* here a conversation only goes well or not.                              *)
(*   cli     : the command line                                            *)
(*   tree    : the package (module Package)                                *)
(*   devices : what is plugged in (module UsbTransport)                    *)
(*   raw     : the fault records on the device (module DtcRecords)         *)
(*   at      : the step of the command                                     *)
(*   dev     : empty, then the ids of the open device                      *)
(*   images  : the images of an update, <<>> for those that are not read   *)
(*   sent    : empty, then the images the device was updated with          *)
(*   block, recs, heap : parsing of the records and what it has allocated  *)
(*   out     : the output file: "none", "part", "whole", or "lost" if what *)
(*             was written did not reach the disk and nobody looked        *)
(*   code    : empty, then the exit code                                   *)
(***************************************************************************)
EXTENDS UsbTransport, Package, DtcRecords

CONSTANTS
  Dm100,          (* product ids of the DM100 line                         *)
  Simulated,      (* name |-> ids, the devices --simulate knows            *)
  HostRuns        (* what a run starts with: [cli, tree, devices, raw]     *)

(* Paths are sequences of names.                                           *)
ASSUME HostRunsAssumption ==
  \A r \in HostRuns :
    /\ r.cli.dir \in Seq(STRING)
    /\ r.tree.names \in Seq(STRING)
    /\ r.devices \in Seq(Plugs)
    /\ r.raw \in Seq(RawBlocks)

VARIABLES cli, tree, devices, raw, at, dev, images, sent, block, recs, heap, out, code

world    == <<cli, tree, devices, raw>>
updating == <<images, sent>>
parsing  == <<block, recs, heap>>
hvars    == <<usbVars, world, updating, parsing, at, dev, out, code>>

NoImages == [mcu |-> <<>>, ext |-> <<>>, erase |-> <<>>]

HostStarts ==
  /\ ledger = Nothing /\ usb = "none" /\ found = 0
  /\ at = "main" /\ dev = <<>> /\ out = "none" /\ code = <<>>
  /\ images = NoImages /\ sent = <<>>
  /\ block = 0 /\ recs = <<>> /\ heap = Nothing

HostInit ==
  /\ \E r \in HostRuns : cli = r.cli /\ tree = r.tree /\ devices = r.devices /\ raw = r.raw
  /\ HostStarts

Moves(l, next) == ledger' = l /\ at' = next /\ UNCHANGED code
Ends(l, n)     == ledger' = l /\ at' = "end" /\ code' = <<n>>

(* obd_transport_close, then the exit.                                     *)
Released(l) == IF cli.simulate = "" THEN usb_close(l) ELSE Drop(l, {"transport", "fake"})
Close(l, n) == Ends(Released(l), n)
-----------------------------------------------------------------------------
(* main, and the arguments each command looks at before anything else.     *)
Root == obd_package_open(tree, cli.dir)

Unusable ==
  CASE cli.cmd \in {"package", "update"} -> Root = <<>>
    [] cli.cmd = "read-flash"            -> "-o" \notin cli.flags \/ "bad" \in cli.flags
    [] cli.cmd \in {"decrypt", "encrypt"} -> "bad" \in cli.flags
    [] OTHER                             -> FALSE

Main ==
  /\ at = "main"
  /\ \/ cli.options = "help"  /\ Ends(ledger, 0) /\ UNCHANGED usb
     \/ cli.options = "wrong" /\ Ends(ledger, 2) /\ UNCHANGED usb
     \/ /\ cli.options = "fine"
        /\ \/ Unusable /\ Ends(ledger, 2) /\ UNCHANGED usb
           \/ ~Unusable /\ cli.cmd = "package" /\ Ends(ledger, 0) /\ UNCHANGED usb
           \/ /\ ~Unusable /\ cli.cmd \in {"decrypt", "encrypt"}
              /\ Moves(ledger, "crypt") /\ UNCHANGED usb
           \/ /\ cli.cmd = "list" /\ cli.simulate # ""
              /\ Ends(ledger, 0) /\ UNCHANGED usb
           \/ /\ cli.cmd = "list" /\ cli.simulate = ""
              /\ Moves(ledger, "list") /\ usb' = "list init"
           \/ /\ ~Unusable /\ cli.cmd \notin {"list", "package", "decrypt", "encrypt"}
              /\ Moves(ledger, "opening") /\ usb' = "alloc"
  /\ UNCHANGED <<found, world, updating, parsing, dev, out>>

cmd_list ==
  /\ at = "list"
  /\ \/ obd_usb_list(devices, cli.ids) /\ UNCHANGED <<at, code>>
     \/ usb = "failed" /\ Ends(ledger, 3) /\ UNCHANGED <<usb, found>>
     \/ /\ usb = "listed" /\ Ends(ledger, IF found = 0 THEN 1 ELSE 0)
        /\ UNCHANGED <<usb, found>>
  /\ UNCHANGED <<world, updating, parsing, dev, out>>

(* An unknown name, or no memory.                                          *)
obd_fake_open ==
  \/ /\ cli.simulate \in DOMAIN Simulated
     /\ dev' = <<Simulated[cli.simulate]>>
     /\ Moves(Take(ledger, {"transport", "fake"}), "open")
  \/ Ends(ledger, 3) /\ UNCHANGED dev

open_transport ==
  /\ at = "opening"
  /\ \/ cli.simulate # "" /\ obd_fake_open /\ UNCHANGED <<usb, found>>
     \/ cli.simulate = "" /\ obd_usb_open(devices, cli.ids) /\ UNCHANGED <<at, code, dev>>
     \/ /\ usb = "opened"
        /\ dev' = <<devices[found].id>> /\ Moves(ledger, "open") /\ UNCHANGED <<usb, found>>
     \/ usb = "failed" /\ Ends(ledger, 3) /\ UNCHANGED <<usb, found, dev>>
  /\ UNCHANGED <<world, updating, parsing, out>>

Opened(cmds) == at = "open" /\ cli.cmd \in cmds

(* The version or the size fails; everything else is only printed.         *)
cmd_info ==
  /\ Opened({"info"})
  /\ Close(ledger, 4) \/ Close(ledger, 0)
  /\ UNCHANGED <<usb, found, world, updating, parsing, dev, out>>
-----------------------------------------------------------------------------
(* update.                                                                 *)
Chosen ==
  [mcu   |-> IF "--data-only" \in cli.flags THEN <<>>
             ELSE obd_package_mcu(tree, Root[1], dev[1][2] \in Dm100),
   ext   |-> IF "--mcu-only" \in cli.flags THEN <<>> ELSE obd_package_ext(tree, Root[1]),
   erase |-> obd_package_erase(tree, Root[1])]

(* The label "out" of cmd_update.                                          *)
Out_(n) == Close(Drop(ledger, {i \in DOMAIN images : images[i] # <<>>}), n)

ReadImage(i, next) ==
  /\ at = i
  /\ \/ Chosen[i] = <<>> /\ Moves(ledger, next) /\ UNCHANGED images
     \/ /\ Chosen[i] # <<>>
        /\ images' = [images EXCEPT ![i] = Chosen[i]] /\ Moves(Take(ledger, {i}), next)
     \/ Chosen[i] # <<>> /\ Out_(2) /\ UNCHANGED images

cmd_update ==
  /\ \/ /\ Opened({"update"})
        /\ IF Chosen.mcu = <<>> /\ Chosen.ext = <<>> THEN Out_(2) ELSE Moves(ledger, "mcu")
        /\ UNCHANGED updating
     \/ /\ ReadImage("mcu", "ext") \/ ReadImage("ext", "erase") \/ ReadImage("erase", "ask")
        /\ UNCHANGED sent
     \/ /\ at = "ask"
        /\ Moves(ledger, "update") \/ ("-y" \notin cli.flags /\ Out_(1))
        /\ UNCHANGED updating
     \/ /\ at = "update"
        /\ sent' = <<images>>
        /\ Out_(0) \/ Out_(4)
        /\ UNCHANGED images
  /\ UNCHANGED <<usb, found, world, parsing, dev, out>>
-----------------------------------------------------------------------------
(* feedback and read-flash; decrypt and encrypt write a file as well.      *)
Buffer ==
  /\ Opened({"feedback", "read-flash"})
  /\ \/ "-l" \notin cli.flags /\ Close(ledger, 4)                   (* size *)
     \/ cli.cmd = "read-flash" /\ "-l" \notin cli.flags /\ Close(ledger, 2) (* address *)
     \/ Close(ledger, 2)                                            (* memory *)
     \/ Moves(Take(ledger, {"buf"}), "transfer")
  /\ UNCHANGED out

Transfer ==
  /\ at = "transfer"
  /\ \/ Close(Drop(ledger, {"buf"}), 4)
     \/ cli.cmd = "feedback" /\ Close(Drop(ledger, {"buf"}), 1)     (* empty *)
     \/ Moves(ledger, "write")
  /\ UNCHANGED out

cmd_crypt ==
  /\ at = "crypt"
  /\ Ends(ledger, 2) \/ Moves(Take(ledger, {"buf"}), "write")
  /\ UNCHANGED out

(* Mutant: a short write is not noticed.                                   *)
write_file_Unchecked == {<<"none", 2>>, <<"part", 0>>, <<"whole", 0>>, <<"lost", 0>>}

(* The file cannot be opened, is cut short, is written, or is lost when it *)
(* is closed; with the exit code.                                          *)
write_file == {<<"none", 2>>, <<"part", 2>>, <<"whole", 0>>, <<"lost", 0>>}

Write ==
  /\ at = "write"
  /\ \E w \in write_file :
       /\ out' = w[1]
       /\ IF cli.cmd \in {"decrypt", "encrypt"} THEN Ends(Drop(ledger, {"buf"}), w[2])
          ELSE Close(Drop(ledger, {"buf"}), w[2])

WriteCommands ==
  /\ Buffer \/ Transfer \/ cmd_crypt \/ Write
  /\ UNCHANGED <<usb, found, world, updating, parsing, dev>>
-----------------------------------------------------------------------------
(* dtc-review.                                                             *)
obd_read_dtc_records ==
  /\ Opened({"dtc-review"})
  /\ \/ Close(ledger, 4) /\ UNCHANGED heap          (* size, memory, device *)
     \/ Moves(Take(ledger, {"raw"}), "parse") /\ heap' = Take(heap, {<<"recs">>})
  /\ UNCHANGED <<block, recs, out>>

ParseBlock ==
  /\ at = "parse" /\ block < Len(raw)
  /\ block' = block + 1
  /\ \/ ~raw[block + 1].magic /\ Moves(ledger, at) /\ UNCHANGED <<recs, heap>>
     \/ /\ raw[block + 1].magic
        /\ \E n \in 0..(Len(raw[block + 1].dtcs) + 1) :
             LET r    == Record(raw[block + 1], block, n)
                 all  == Append(recs, r)
                 more == Take(heap, Parts(r))
             IN  IF n = Len(raw[block + 1].dtcs) + 1
                 THEN recs' = all /\ heap' = more /\ Moves(ledger, at)
                 ELSE recs' = <<>> /\ heap' = OutOfMemory(more, all) /\ Close(Drop(ledger, {"raw"}), 4)
  /\ UNCHANGED out

Sort ==
  /\ at = "parse" /\ block = Len(raw)
  /\ recs' = Sorted(recs)
  /\ Moves(Drop(ledger, {"raw"}), "report")
  /\ UNCHANGED <<block, heap, out>>

(* Nothing that writes the report looks whether it worked.                 *)
Report_ ==
  /\ at = "report"
  /\ heap' = obd_free_dtc_records(heap, recs)
  /\ \/ recs = <<>> /\ Close(ledger, 1) /\ UNCHANGED out
     \/ recs # <<>> /\ "-o" \notin cli.flags /\ Close(ledger, 0) /\ UNCHANGED out
     \/ recs # <<>> /\ "-o" \in cli.flags /\ Close(ledger, 2) /\ UNCHANGED out
     \/ recs # <<>> /\ "-o" \in cli.flags /\ Close(ledger, 0) /\ out' \in {"whole", "lost"}
  /\ UNCHANGED <<block, recs>>

cmd_dtc_review ==
  /\ obd_read_dtc_records \/ ParseBlock \/ Sort \/ Report_
  /\ UNCHANGED <<usb, found, world, updating, dev>>

host_tool ==
  \/ Main \/ cmd_list \/ open_transport \/ cmd_info
  \/ cmd_update \/ WriteCommands \/ cmd_dtc_review

HostSpec == HostInit /\ [][host_tool]_hvars

-----------------------------------------------------------------------------
(* What a run of openphix-tool promises, whatever fails on the way.        *)

Files   == {"feedback", "read-flash", "decrypt", "encrypt"}
Exit(n) == code = <<n>>

(* Whatever fails, nothing is given back twice or used after it was given  *)
(* back, and a command that has ended holds nothing: no memory, no device, *)
(* no context of libusb (the goto fail and goto out of main.c,             *)
(* usb_transport.c and device.c).  FILE and DIR handles are not in the     *)
(* ledger, nor are the notes that "package" prints (package.c:160-192).    *)
CleanExit ==
  /\ ~ledger.misused /\ ~heap.misused
  /\ code # <<>> => ledger.held = {} /\ heap.held = {}

(* What a command that says it succeeded has done.                         *)
Achieved ==
  /\ cli.cmd = "update" => sent # <<>>
  /\ cli.cmd \in Files => out \in {"whole", "lost"}
  /\ cli.cmd = "dtc-review" =>
       recs # <<>> /\ ("-o" \in cli.flags => out \in {"whole", "lost"})
  /\ cli.cmd = "list" => cli.simulate # "" \/ found > 0

(* The exit code is about what happened: 0 only if the device was updated, *)
(* the file was written to the end, records were reported or a device was  *)
(* listed; 1 and 2 never after an update was begun; 3 only if no device    *)
(* was opened, 4 only if one was; and a file that is whole is a success.   *)
ExitCodeRight ==
  /\ Exit(0) /\ cli.options = "fine" => Achieved
  /\ sent # <<>> => Exit(0) \/ Exit(4)
  /\ Exit(3) => dev = <<>>
  /\ Exit(4) => dev # <<>>
  /\ out \in {"whole", "lost"} => Exit(0)

(* README.md: 2 is the exit code of a file error. So a command that is to  *)
(* write a file and succeeds has written it.  The code does not look at    *)
(* what fclose says (write_file, cmd_dtc_review): this does not hold.      *)
FileErrorSeen ==
  Exit(0) => out # "lost"

(* A file of the package, under the directory that has bin/.               *)
InPackage(file, names) ==
  \E top \in {<<>>} \cup {<<n>> : n \in {tree.names[k] : k \in DOMAIN tree.names}} :
    file = cli.dir \o top \o names /\ file \in tree.files

Line  == IF dev[1][2] \in Dm100 THEN "DM100" ELSE "DM300"
OwnMcu(file) == SubSeq(file, 1, Len(file) - 1) \o <<Line, "McuCode.bin">>

(* What an update sends is in the package, all of it under one directory.  *)
(* The firmware is that of the line of the device, or the one for both if  *)
(* the package has none for this line; it is never that of the other line. *)
(* Nothing that was excluded is sent, and something is.                    *)
RightImages ==
  sent # <<>> =>
    LET f == sent[1]
        Sent == {f[i][1] : i \in {i \in DOMAIN f : f[i] # <<>>}}
    IN  /\ f.mcu # <<>> =>
             \/ InPackage(f.mcu[1], <<"bin", Line, "McuCode.bin">>)
             \/ /\ InPackage(f.mcu[1], <<"bin", "McuCode.bin">>)
                /\ OwnMcu(f.mcu[1]) \notin tree.files
        /\ f.ext # <<>> => InPackage(f.ext[1], <<"bin", "ExtFlashDat.bin">>)
        /\ \A x, y \in Sent : \E k \in DOMAIN x :
             x[k] = "bin" /\ k <= Len(y) /\ SubSeq(x, 1, k) = SubSeq(y, 1, k)
        /\ f.mcu # <<>> \/ f.ext # <<>>
        /\ "--data-only" \in cli.flags => f.mcu = <<>>
        /\ "--mcu-only" \in cli.flags => f.ext = <<>>

(* The report of dtc-review has every block with the mark of a record      *)
(* once, ordered by key and, for one key, as stored. Its texts do not reach*)
(* out of their block, and one that lies in its block is shown to its end. *)
ReportRight ==
  at = "report" =>
    LET n      == Len(recs)
        dtcs   == [k \in 1..n |-> raw[recs[k].sequence + 1].dtcs]
    IN  /\ {recs[k].sequence + 1 : k \in 1..n} = {i \in DOMAIN raw : raw[i].magic}
        /\ \A j, k \in 1..n : j < k =>
             /\ recs[j].key <= recs[k].key
             /\ recs[j].key = recs[k].key => recs[j].sequence < recs[k].sequence
        /\ \A k \in 1..n :
             /\ recs[k].key = raw[recs[k].sequence + 1].key
             /\ DOMAIN recs[k].texts = DOMAIN dtcs[k]
             /\ \A j \in DOMAIN dtcs[k] :
                  LET t == recs[k].texts[j]
                      d == dtcs[k][j]
                  IN  /\ t[1] = d[1] /\ t[2] + t[3] <= BlockSize
                      /\ d[3] > 0 /\ d[2] < BlockSize /\ d[2] + d[3] - 1 <= BlockSize =>
                           t = <<d[1], d[2], d[3] - 1>>
=============================================================================
