-------------------------------- MODULE Ledger --------------------------------
(***************************************************************************)
(* What openphix-tool has taken from the C library and from libusb and     *)
(* must give back: memory, files, contexts, handles.                       *)
(*   held    : what is taken and not yet given back                        *)
(*   misused : something was given back or used that was not held          *)
(***************************************************************************)
Nothing == [held |-> {}, misused |-> FALSE]

Take(l, x) == [l EXCEPT !.held = @ \cup x]
Use(l, x)  == [l EXCEPT !.misused = @ \/ ~(x \subseteq l.held)]
Drop(l, x) == [Use(l, x) EXCEPT !.held = @ \ x]
=============================================================================
