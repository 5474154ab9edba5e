------------------------------ MODULE Install -------------------------------
(***************************************************************************)
(* What an update promises, with no host, device or transport in sight: a  *)
(* run takes whole images into the device one at a time, in an order the   *)
(* hardware depends on (nothing before the erase image where one is due,   *)
(* MCU code before external flash data), and reports success only when     *)
(* every image it owes is there.  It may fail at any moment, leaving the   *)
(* device with a beginning of that order and nothing else.                 *)
(***************************************************************************)
VARIABLES
  status,  (* idle, running, ok or failed                                  *)
  owed,    (* images without which the run must not report success         *)
  held     (* images taken whole by the device in this run                 *)

Image == {"erase", "mcu", "ext"}
Over  == {"idle", "ok", "failed"}

Before == [erase |-> {}, mcu |-> {"erase"}, ext |-> {"erase", "mcu"}]

TypeOK ==
  /\ status \in Over \cup {"running"}
  /\ owed \subseteq Image
  /\ held \subseteq Image

Init == status = "idle" /\ owed \subseteq Image /\ held = {}

Begin ==
  /\ status \in Over
  /\ status' = "running"
  /\ owed' \in SUBSET Image
  /\ held' = {}

MayTake(i) == Before[i] \cap owed \subseteq held

Take(i) ==
  /\ status = "running"
  /\ MayTake(i)
  /\ held' = held \cup {i}
  /\ UNCHANGED <<status, owed>>

Succeed ==
  /\ status = "running"
  /\ owed \subseteq held
  /\ status' = "ok"
  /\ UNCHANGED <<owed, held>>

(* A transfer that failed leaves open whether the device got it: the image *)
(* then in flight may be taken as the run ends.                            *)
GiveUp ==
  /\ status = "running"
  /\ status' = "failed"
  /\ held' \in {held} \cup {held \cup {i} : i \in {j \in Image : MayTake(j)}}
  /\ UNCHANGED owed

Next == Begin \/ Succeed \/ GiveUp \/ \E i \in Image : Take(i)

Spec == Init /\ [][Next]_<<status, owed, held>>
=============================================================================
