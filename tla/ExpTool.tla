------------------------------- MODULE ExpTool -------------------------------
(***************************************************************************)
(* One evaluation of a record by "exp <id> [bytes]" (firmware/core/app.c): *)
(* the source is fetched, interpreted (module Exp), and the result is      *)
(* reported.                                                               *)
(*   asked  : the record                                                   *)
(*   report : empty, then the outcome                                      *)
(***************************************************************************)
EXTENDS Exp

CONSTANT Inputs      (* the bytes the user can give                        *)

VARIABLES asked, report

evars == <<asked, xvars, report>>

NoReport == <<>>

Fresh(x) ==
  [slot |-> 1, i |-> 1, y |-> None, asg |-> FALSE, v |-> None, open |-> 0, depth |-> 0,
   buf |-> [k \in 1..MaxDepth |-> <<>>], err |-> FALSE, at |-> <<>>,
   range |-> <<>>, first |-> <<>>, x |-> x]

NothingRead(x) == parser = Fresh(x) /\ calls = <<>> /\ evals = <<>> /\ doing = "fetch"

ExpInit ==
  /\ asked \in DOMAIN Records
  /\ \E x \in Inputs : NothingRead(x)
  /\ report = NoReport

Fetch ==
  /\ doing = "fetch" /\ CanEnter(parser, asked)
  /\ exp_eval(parser, asked, <<>>)
  /\ UNCHANGED <<asked, report>>

Step == Interpret /\ UNCHANGED <<asked, report>>

(* "no result", and nothing else, unless something was assigned.           *)
NoResult == [y |-> None, err |-> FALSE, range |-> <<>>]
Report ==
  /\ \/ doing = "loop" /\ Ended /\ Len(evals) = 1
     \/ doing = "fetch" /\ ~CanEnter(parser, asked)
  /\ report' = <<IF parser.asg
                 THEN [y |-> parser.y, err |-> parser.err, range |-> parser.range]
                 ELSE NoResult>>
  /\ doing' = "done"
  /\ UNCHANGED <<asked, parser, calls, evals>>

tool_exp == Fetch \/ Step \/ Report

ExpSpec == ExpInit /\ [][tool_exp]_evars
-----------------------------------------------------------------------------
(* No text, well formed or not, is read past its end.                      *)
ReadsInside == parser.i <= Len(Source(parser)) + 1

(* What ID() interrupts goes on in its own text: src_buf is one buffer for *)
(* each depth.                                                             *)
ReturnsToItsText ==
  \A k \in 2..Len(evals) :
    LET caller == evals[k].caller
    IN  parser.buf[caller.slot] = Source(caller) /\ caller.i <= Len(Source(caller)) + 1

(* A turn of exp_eval_text ends behind the place it began at, so that a    *)
(* typo cannot hang it.                                                    *)
MovesOn == doing = "loop" /\ Innermost.turns > 0 => parser.i > Innermost.before

(* The interpreter reads on, inside the text, whatever the text is.        *)
WithinText == ReadsInside /\ ReturnsToItsText /\ MovesOn

(* When an evaluation is over, the context has an error exactly if there   *)
(* was one, and the place of the first, also when records refer to others  *)
(* (fail, exp_eval); a result is printed with the error it was reached     *)
(* with (app.c:85).  The place is in the buffer of the depth it was at,    *)
(* which a later ID() may have filled with another record; nothing prints  *)
(* it.                                                                     *)
ErrorKept ==
  report # NoReport =>
    /\ parser.err = (parser.first # <<>>)
    /\ parser.at = parser.first
    /\ parser.asg => report[1].err = parser.err
=============================================================================
