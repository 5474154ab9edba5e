------------------------------ MODULE MCUpdate ------------------------------
(***************************************************************************)
(* Instances of Update for TLC.                                            *)
(***************************************************************************)
EXTENDS UpdateInv

(* One block of Erase.bin, an MCU image of one full and one short block,   *)
(* an external flash image of two full blocks.                             *)
MCSize == [erase |-> 1, mcu |-> 3, ext |-> 4]

(* Likewise, but the external flash image has more blocks than a 16 bit    *)
(* field can count.                                                        *)
MCLargeExt == [erase |-> 1, mcu |-> 3, ext |-> 5]

AllOptions == Options

(* What a user who tries again may vary: strictness, and which images.     *)
RetryOptions == {o \in Options : ~o.dm100 /\ ~o.force /\ o.erase /\ (o.skip => ~o.ext)}

StrictOptions == {o \in RetryOptions : o.strict}
=============================================================================
