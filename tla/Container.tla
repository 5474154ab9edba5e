------------------------------ MODULE Container ------------------------------
(***************************************************************************)
(* The container of the data image and its directories (firmware/core/     *)
(* res.c), and the files that the texts of fault codes and measuring blocks*)
(* are in (dtc_init and dtc_uds_translate of dtc.c).                       *)
(*   flash   : [size, dir], the directory that the bytes at an offset      *)
(*             would be, for every offset                                  *)
(*   opened  : the windows the firmware keeps                              *)
(*   got     : what res_open said of each of them                          *)
(*   opening : the call of res_open under way, 0 before the first one      *)
(*   index   : the entry it looks at                                       *)
(* An entry of a directory is [name, valid, end, off]: valid if its name   *)
(* has a length that can be, end is where the entry ends.                  *)
(***************************************************************************)
EXTENDS Integers, Sequences

CONSTANTS
  Flashes,       (* what may be in the flash                               *)
  FileNames,     (* names of files and sections                            *)
  ModuleType     (* the section dtc_uds_translate is asked for             *)

Entries == [name : FileNames, valid : BOOLEAN, end : Nat, off : Nat]

ASSUME FlashAssumption ==
  \A f \in Flashes : f.size \in Nat /\ f.dir \in [0..f.size -> Seq(Entries)]

VARIABLES flash, opened, got, opening, index

cvars == <<flash, opened, got, opening, index>>

(* ds_file, ds_text, ds_25h, ds_defname, uds_file, and sec of              *)
(* dtc_uds_translate: the names they are opened by, and the windows they   *)
(* are looked for in, 0 for the image.                                     *)
Name   == << "DsTransID.BIN", "TEXT", "TEXT_25H", "TEXT_DEFNAME_02H", "UDSDTCTransID.BIN", ModuleType >>
Parent == << 0, 1, 1, 1, 0, 5 >>
Openings == 1..6
Over == 7

Empty == [base |-> 0, size |-> 0]

In(k) == IF k = 0 THEN [base |-> 0, size |-> flash.size] ELSE opened[k]

Directory(w) == IF w.size = 0 THEN <<>> ELSE flash.dir[w.base]

ContainerStarts ==
  /\ opened = [k \in Openings |-> Empty]
  /\ got = [k \in Openings |-> "not asked"]
  /\ opening = 0 /\ index = 1

ContainerInit == flash \in Flashes /\ ContainerStarts
-----------------------------------------------------------------------------
(* Entry i, and the one behind it that ends it, are inside the directory's *)
(* window.                                                                 *)
Readable(w, i) ==
  LET d == Directory(w)
  IN  i <= Len(d) /\ \A k \in 1..Len(d) : k <= i + 1 => d[k].valid /\ d[k].end <= w.size

EndOf(w, i) ==
  LET d == Directory(w) IN IF i < Len(d) THEN d[i + 1].off ELSE w.size

(* Mutant: the entry behind may start before.                              *)
SoundEntry_AnyOrder(w, off, next) == off <= w.size /\ next <= w.size
SoundEntry(w, off, next) == off <= w.size /\ off <= next /\ next <= w.size

(* Empty if there is no entry i, counted from 1, or it is not sound.       *)
res_entry(w, i) ==
  IF Readable(w, i) /\ SoundEntry(w, Directory(w)[i].off, EndOf(w, i))
  THEN <<[base |-> w.base + Directory(w)[i].off, size |-> EndOf(w, i) - Directory(w)[i].off]>>
  ELSE <<>>

res_init ==
  /\ opening = 0
  /\ opening' = IF res_entry(In(0), 1) = <<>> THEN Over ELSE 1
  /\ UNCHANGED <<flash, opened, got, index>>

(* dtc_init passes over the sections if their file is missing;             *)
(* dtc_uds_translate does nothing without a file.                          *)
NextCall(answer) ==
  /\ got' = [got EXCEPT ![opening] = answer]
  /\ index' = 1
  /\ opening' = CASE opening = 1 /\ answer = "missing" -> 5
               [] opening = 5 /\ opened'[5].size = 0 -> Over
               [] OTHER -> opening + 1

(* One turn of res_open: every entry it looks at goes to out.              *)
res_open ==
  /\ opening \in Openings
  /\ LET w == In(Parent[opening])
         e == res_entry(w, index)
     IN  \/ e = <<>> /\ UNCHANGED opened /\ NextCall("missing")
         \/ /\ e # <<>>
            /\ opened' = [opened EXCEPT ![opening] = e[1]]
            /\ \/ Directory(w)[index].name = Name[opening] /\ NextCall("found")
               \/ /\ Directory(w)[index].name # Name[opening]
                  /\ index' = index + 1 /\ UNCHANGED <<got, opening>>
  /\ UNCHANGED flash

container == res_init \/ res_open

ContainerSpec == ContainerInit /\ [][container]_cvars
-----------------------------------------------------------------------------
Within(w, p) == w.size >= 0 /\ p.base <= w.base /\ w.base + w.size <= p.base + p.size

(* No window reaches out of the one it was found in, so none out of the    *)
(* flash, whatever a directory says.                                       *)
WindowInside ==
  \A k \in Openings : opened[k] = Empty \/ Within(opened[k], In(Parent[k]))

(* A window that was found begins at the first entry of its name and ends  *)
(* where the next entry begins.                                            *)
FoundFirst ==
  \A k \in Openings : got[k] = "found" =>
    LET w == In(Parent[k])
        d == Directory(w)
    IN  \E i \in 1..Len(d) :
          /\ d[i].name = Name[k]
          /\ \A j \in 1..(i - 1) : d[j].name # Name[k]
          /\ opened[k].base = w.base + d[i].off
          /\ opened[k].size = EndOf(w, i) - d[i].off

(* What the firmware opens is inside the data it was found in, and is what *)
(* it asked for if res_open said so.  (If not, it is the last entry looked *)
(* at: dtc_init does not look at the answer for the sections, and          *)
(* dtc_uds_translate takes any window that is not empty for its file.)     *)
OpenedRight == WindowInside /\ FoundFirst
=============================================================================
