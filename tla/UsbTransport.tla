---------------------------- MODULE UsbTransport ----------------------------
(***************************************************************************)
(* Finding, opening and closing a scan tool (usb_transport.c).  Every call *)
(* of libusb and every allocation may fail.                                *)
(*   ledger  : what is held (module Ledger)                                *)
(*   usb     : where obd_usb_open or obd_usb_list is                       *)
(*   found   : the device that is opened, or how many were listed          *)
(* A device has the ids id, and the kinds of its endpoints.                *)
(***************************************************************************)
EXTENDS Integers, Sequences, FiniteSets, Ledger

CONSTANT Known       (* ids that obd_hardware_name has a name for          *)

VARIABLES ledger, usb, found

usbVars == <<ledger, usb, found>>

Endpoints == {"bulk in", "bulk out", "interrupt in", "interrupt out"}
Plugs     == [id : Nat \X Nat, endpoints : SUBSET Endpoints]

(* ids is empty unless --vid and --pid are given.                          *)
matches(d, ids) == IF ids = <<>> THEN d.id \in Known ELSE <<d.id>> = ids

(* A pointer that is not set is not released.                              *)
usb_close(l) == Drop(l, {"priv", "transport"} \cup (l.held \cap {"ctx", "handle"}))

Fail(l) == ledger' = usb_close(l) /\ usb' = "failed" /\ UNCHANGED found
Goes(l, next) == ledger' = l /\ usb' = next /\ UNCHANGED found

Allocate ==
  /\ usb = "alloc"
  /\ \E got \in SUBSET {"priv", "transport"} :
       IF got = {"priv", "transport"} THEN Goes(Take(ledger, got), "init")
       ELSE Goes(Drop(Take(ledger, got), got), "failed")

LibusbInit ==
  /\ usb = "init"
  /\ Goes(Take(ledger, {"ctx"}), "list") \/ Fail(ledger)

GetList ==
  /\ usb = "list"
  /\ Goes(Take(ledger, {"list"}), "find") \/ Fail(ledger)

(* A device whose descriptor cannot be read is passed over.                *)
FindDevice(devices, ids) ==
  /\ usb = "find"
  /\ \E readable \in SUBSET (DOMAIN devices) :
       LET good == {i \in readable : matches(devices[i], ids)}
       IN  IF good = {} THEN Fail(Drop(ledger, {"list"}))
           ELSE /\ found' = CHOOSE i \in good : \A j \in good : i <= j
                /\ usb' = "open" /\ UNCHANGED ledger

(* Devices are usable as long as the list is.                              *)
OpenDevice ==
  /\ usb = "open"
  /\ \/ Goes(Take(Use(ledger, {"list"}), {"handle"}), "endpoints")
     \/ Fail(Drop(ledger, {"list"}))

(* Mutant: the list is freed as soon as the device is open.                *)
find_endpoints_AfterFree(devices) ==
  /\ usb = "endpoints"
  /\ \/ Fail(Use(Drop(ledger, {"list"}), {"list"}))
     \/ LET l == Use(Drop(ledger, {"list"}), {"list"})
        IN  IF devices[found].endpoints = Endpoints THEN Goes(l, "claim") ELSE Fail(l)

(* The configuration is read from the device and freed on every path.      *)
find_endpoints(devices) ==
  /\ usb = "endpoints"
  /\ \/ Fail(Drop(Use(ledger, {"list"}), {"list"}))
     \/ LET cfg == Drop(Take(Use(ledger, {"list"}), {"cfg"}), {"cfg"})
            l   == Drop(cfg, {"list"})
        IN  IF devices[found].endpoints = Endpoints THEN Goes(l, "claim") ELSE Fail(l)

Claim ==
  /\ usb = "claim"
  /\ Goes(Use(ledger, {"handle"}), "opened") \/ Fail(ledger)

obd_usb_open(devices, ids) ==
  \/ Allocate \/ LibusbInit \/ GetList \/ FindDevice(devices, ids)
  \/ OpenDevice \/ find_endpoints(devices) \/ Claim
-----------------------------------------------------------------------------
ListInit ==
  /\ usb = "list init"
  /\ Goes(Take(ledger, {"ctx"}), "list all") \/ Goes(ledger, "failed")

ListAll(devices, ids) ==
  /\ usb = "list all"
  /\ \/ Goes(Drop(ledger, {"ctx"}), "failed")
     \/ \E readable \in SUBSET (DOMAIN devices) :
          /\ found' = Cardinality({i \in readable : matches(devices[i], ids)})
          /\ ledger' = Drop(Take(ledger, {"list"}), {"list", "ctx"})
          /\ usb' = "listed"

obd_usb_list(devices, ids) == ListInit \/ ListAll(devices, ids)
=============================================================================
