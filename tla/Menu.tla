-------------------------------- MODULE Menu --------------------------------
(***************************************************************************)
(* The menu tree of Menu.BIN (firmware/core/menu.c) and the functions that *)
(* FUNCFG.BIN has for a control module.  A node is known by its offset.    *)
(***************************************************************************)
EXTENDS Integers, Sequences, FiniteSets

CONSTANTS
  Captions,      (* string ids of titles and entries                       *)
  MenuNodes,     (* offset |-> title and entries, for the offsets where    *)
                 (* the file holds a whole node                            *)
  SpFuncs,       (* actions that have bit 31 set                           *)
  Scans,         (* 0x19FF and 0xF000..0xF0FF                              *)
  ModuleNames,   (* captions of string family 0x0102                       *)
  FuncRecords    (* control module |-> captions of the functions that its  *)
                 (* record has a slot for                                  *)

ASSUME MenuAssumption ==
  /\ IsFiniteSet(DOMAIN MenuNodes)
  /\ \A n \in DOMAIN MenuNodes :
       /\ MenuNodes[n].title \in Captions
       /\ MenuNodes[n].entries \in Seq([caption : Captions, action : Nat, param : Nat])
  /\ \A m \in DOMAIN FuncRecords : FuncRecords[m] \in Seq(Captions)

IsNode(n)     == n \in DOMAIN MenuNodes
node_count(n) == Len(MenuNodes[n].entries)

menu_entry(n, i) == MenuNodes[n].entries[i + 1]

(* Mutant: whatever has a parameter leads to another node.                 *)
EntryKind_ByParam(e) ==
  IF e.param # 0 THEN "submenu"
  ELSE IF e.caption \in ModuleNames THEN "module"
  ELSE "other"

(* Mutant: whatever has no action leads to another node.                   *)
EntryKind_ByAction(e) ==
  IF e.action = 0 THEN "submenu"
  ELSE IF e.action \in SpFuncs THEN "spfunc"
  ELSE IF e.caption \in ModuleNames THEN "module"
  ELSE IF e.action \in Scans THEN "scan"
  ELSE "other"

EntryKind(e) ==
  IF e.action = 0 /\ e.param # 0 THEN "submenu"
  ELSE IF e.action \in SpFuncs THEN "spfunc"
  ELSE IF e.caption \in ModuleNames THEN "module"
  ELSE IF e.action \in Scans THEN "scan"
  ELSE "other"

(* A data set is found by the low byte of the diagnostic address of its    *)
(* control module (docs/data-image-format.md:431-433).                     *)
ModuleOf(e)      == e.action % 256
HasRecord(m)     == m \in DOMAIN FuncRecords
FunctionItems(m) == FuncRecords[m]
=============================================================================
