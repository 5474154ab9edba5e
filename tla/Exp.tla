--------------------------------- MODULE Exp ---------------------------------
(***************************************************************************)
(* The interpreter of Exp.BIN (firmware/core/exp.c) on tokens: words (names*)
(* and numbers), bracket texts, and the operators and punctuation of the   *)
(* grammar; "" stands for the end of the text.  Two words in a row have a  *)
(* blank between them, nothing else has.                                   *)
(*                                                                         *)
(* parser holds struct parser and struct exp_ctx:                          *)
(*   slot, i        : the source buffer it reads and the place in it       *)
(*   y, asg         : the result and whether there is one                  *)
(*   v              : the value of the expression parsed last (out)        *)
(*   open           : depth, in skip_stmt                                  *)
(*   depth, buf     : nesting of ID() and src_buf                          *)
(*   err, at, range : what the context reports                             *)
(*   first          : where the first error of all was, for the properties *)
(* calls holds the functions of the grammar that wait for one they called, *)
(* the innermost first, evals the calls of exp_eval_text, the innermost    *)
(* last, and doing what comes next:                                        *)
(*   loop                : a turn of exp_eval_text                         *)
(*   stmt, operand, arg  : a statement, an operand, an argument begins     *)
(*   skip, condition, assignment : skip_stmt and its two loops             *)
(*   operators, value    : an operand, the whole of an argument was read   *)
(*   back                : parse_stmt or skip_stmt returns                 *)
(***************************************************************************)
EXTENDS ExpValues

CONSTANTS
  Records,        (* id |-> tokens, the records of Exp.BIN                 *)
  Literals,       (* word |-> number, for the words that start with a digit*)
  Variables,      (* word |-> <<input, bit>>, bit -1 for the whole byte    *)
  HexWords,       (* word |-> number, for names made of hex digits         *)
  Names,          (* all the other words                                   *)
  Texts,          (* token |-> characters, for [text]                      *)
  OpenTexts,      (* those with a "(" that nothing closes, the only ones   *)
                  (* whose parentheses do not match                        *)
  MaxDepth,       (* EXP_MAX_DEPTH                                         *)
  MaxArgs,        (* MAX_ARGS                                              *)
  MaxStatements   (* the guard of exp_eval_text, 4096                      *)

Keywords == {"if", "else", "Y"}
WordsOf  == DOMAIN Variables \cup DOMAIN HexWords \cup Names \cup Keywords

(* Nothing that is read is empty.                                          *)
ASSUME ExpAssumption ==
  /\ MaxDepth \in Nat \ {0}
  /\ \A id \in DOMAIN Records : Records[id] \in Seq(STRING)
  /\ "" \notin DOMAIN Literals \cup DOMAIN Texts \cup WordsOf

VARIABLES parser, calls, evals, doing

xvars == <<parser, calls, evals, doing>>

-----------------------------------------------------------------------------
(* What the functions do to the state s of the parser.                     *)

Source(s) == s.buf[s.slot]
Tok(s)    == IF s.i <= Len(Source(s)) THEN Source(s)[s.i] ELSE ""
Adv(s)    == [s EXCEPT !.i = @ + 1]
Out(s, v) == [s EXCEPT !.v = v]

(* A character is skipped only where there is one.  Here it is a token: of *)
(* a word or of an operator of two characters the code reads the rest next.*)
AdvPast_Any(s) == Adv(s)
AdvPast(s)     == IF Tok(s) = "" THEN s ELSE Adv(s)

fail(s) ==
  LET here == <<s.slot, s.i>>
  IN  [s EXCEPT !.err = TRUE, !.at = IF s.err THEN @ ELSE here,
                !.first = IF @ = <<>> THEN here ELSE @]

Expect(s, t) == IF Tok(s) = t THEN Adv(s) ELSE fail(s)

input_byte(s, k) == IF k \in 1..Len(s.x) THEN s.x[k] ELSE 0
Input(s, w) ==
  LET b == input_byte(s, Variables[w][1])
  IN  Num(Whole(IF Variables[w][2] < 0 THEN b ELSE (b \div 2^Variables[w][2]) % 2))

parse_number(s) == Num(Literals[Tok(s)])

(* A "[" that nothing closes takes the rest of the text.                   *)
parse_bracket_text(s) ==
  IF Tok(s) \in DOMAIN Texts THEN Out(Adv(s), TextVal(Texts[Tok(s)]))
  ELSE Out(fail([s EXCEPT !.i = Len(Source(s)) + 1]),
           TextVal(SubSeq(Source(s), s.i + 1, Len(Source(s)))))

(* A word that is not called.                                              *)
PlainWord(s) ==
  LET t == Tok(s)
      a == Adv(s)
  IN  CASE t \in DOMAIN Variables -> Out(a, Input(s, t))
        [] t = "Y"                -> Out(a, IF s.y.kind = "none" THEN Num(Zero) ELSE s.y)
        [] t \in DOMAIN HexWords  -> Out(a, Num(HexWords[t]))
        [] OTHER                  -> Out(fail(a), Num(Zero))

Limits(s, args) ==
  LET hi == IF Len(args) > 1 THEN Arg(args, 2) ELSE INFINITY
  IN  [Out(s, Num(Whole(1))) EXCEPT
         !.range = <<Arg(args, 1), hi, Len(args) > 1 /\ hi = INFINITY>>]

(* ID() of a record that gives nothing is 0.                               *)
Result(s, name, args) ==
  CASE name = "string"  -> Out(s, string(args))
    [] name = "strcmp"  -> Out(s, strcmp(args))
    [] name = "ascii"   -> Out(s, ascii(args))
    [] name = "hex"     -> Out(s, hex(args))
    [] name = "int"     -> Out(s, Num(Whole(Long(Arg(args, 1)))))
    [] name = "id"      -> Out(s, Num(Zero))
    [] name = "transid" -> Out(s, IF args = <<>> THEN Num(Zero) ELSE args[1])
    [] name = "range"   -> Limits(s, args)
    [] OTHER            -> Out(fail(s), Num(Zero))

Assign(s) == [s EXCEPT !.y = s.v, !.asg = TRUE]

(* After the value of "Y=": a stray ")" is as good as the ";".             *)
Assigned(s) ==
  LET z == Assign(s)
  IN  IF Tok(z) \in {";", ")", ""} THEN AdvPast(z) ELSE fail(z)

(* A bare expression is a result if reading it, from i with err on, met no *)
(* error.                                                                  *)
Bare(s, i, err) ==
  IF s.i = i \/ s.err # err THEN AdvPast(fail(s))
  ELSE IF Tok(s) = ";" THEN Adv(Assign(s)) ELSE Assign(s)

-----------------------------------------------------------------------------
(* References to other records.                                            *)
exp_source(id) == IF id \in DOMAIN Records THEN Records[id] ELSE <<>>

Begin(s, slot) ==
  [s EXCEPT !.slot = slot, !.i = 1, !.y = None, !.asg = FALSE, !.err = FALSE, !.at = <<>>]

(* The two halves of exp_eval around exp_eval_text, s its caller.          *)
CanEnter(s, id) == s.depth < MaxDepth /\ exp_source(id) # <<>>
Enter(s, id) ==
  Begin([s EXCEPT !.buf[s.depth + 1] = exp_source(id), !.depth = @ + 1], s.depth + 1)

(* A mutant: an error of the caller is forgotten.                          *)
Leave_Forgets(s, r) ==
  [r EXCEPT !.slot = s.slot, !.i = s.i, !.y = s.y, !.asg = s.asg, !.depth = s.depth,
            !.v = IF r.asg THEN r.y ELSE Num(Zero)]
Leave(s, r) ==
  [r EXCEPT !.slot = s.slot, !.i = s.i, !.y = s.y, !.asg = s.asg, !.depth = s.depth,
            !.err = r.err \/ s.err, !.at = IF s.err THEN s.at ELSE r.at,
            !.v = IF r.asg THEN r.y ELSE Num(Zero)]

Innermost == Last(evals)

exp_eval(s, id, waiting) ==
  /\ parser' = Enter(s, id)
  /\ evals' = Append(evals, [caller |-> s, calls |-> waiting, turns |-> 0, before |-> 0])
  /\ calls' = <<>> /\ doing' = "loop"

-----------------------------------------------------------------------------
(* The four ways to go on: in the same function, in one that is called, in *)
(* one that takes the place of the innermost, in the one that waits.       *)
Go(s, next)      == parser' = s /\ doing' = next /\ UNCHANGED <<calls, evals>>
Call(f, s, next) == parser' = s /\ doing' = next /\ calls' = <<f>> \o calls /\ UNCHANGED evals
Return(s, next)  == parser' = s /\ doing' = next /\ calls' = Tail(calls) /\ UNCHANGED evals
Become(f, s, next) ==
  parser' = s /\ doing' = next /\ calls' = <<f>> \o Tail(calls) /\ UNCHANGED evals

Waiting == Head(calls)
Token   == Tok(parser)
After   == Adv(parser)

(* The operators of each level of the grammar, loosest first.  A function  *)
(* of the grammar waits for operands that its own operators and looser     *)
(* ones end: floor is the loosest level that belongs to the operand.       *)
Levels ==
  << {"||"}, {"&&"}, {"|"}, {"&"}, {"==", "!="}, {"<", ">", "<=", ">="},
     {">>", "<<"}, {"+", "-"}, {"*", "/", "%"} >>
Unary == Len(Levels) + 1

Taken(k) == Token \in Levels[k] /\ k >= Waiting.floor

(* The end of a call: ID() evaluates, everything else has its result.      *)
call(name, s, args, waiting) ==
  IF name = "id" /\ CanEnter(s, Long(Arg(args, 1))) THEN exp_eval(s, Long(Arg(args, 1)), waiting)
  ELSE /\ parser' = Result(s, name, args)
       /\ calls' = waiting /\ doing' = "operators" /\ UNCHANGED evals

(* "!=" where a value should be is a "!" and a stray "=";                  *)
(* "0.0072(x1*256+x2)": the "*" is missing.                                *)
parse_primary ==
  \/ /\ Token \in DOMAIN Literals /\ Tok(After) = "("
     /\ Call([what |-> "scaled", floor |-> 1, by |-> parse_number(parser)], Adv(After), "operand")
  \/ /\ Token \in DOMAIN Literals /\ Tok(After) # "("
     /\ Go(Out(After, parse_number(parser)), "operators")
  \/ /\ Token \in DOMAIN Texts \cup {"["}
     /\ Go(parse_bracket_text(parser), "operators")
  \/ /\ Token = "(" /\ Call([what |-> "paren", floor |-> 1], After, "operand")
  \/ /\ Token \in WordsOf /\ Tok(After) = "(" /\ Tok(Adv(After)) = ")"
     /\ call(Token, Adv(Adv(After)), <<>>, calls)
  \/ /\ Token \in WordsOf /\ Tok(After) = "(" /\ Tok(Adv(After)) # ")"
     /\ Call([what |-> "args", floor |-> 1, fn |-> Token, got |-> <<>>], Adv(After), "arg")
  \/ /\ Token \in WordsOf /\ Tok(After) # "(" /\ Go(PlainWord(parser), "operators")
  \/ /\ Token \notin DOMAIN Literals \cup DOMAIN Texts \cup WordsOf \cup {"[", "("}
     /\ Go(AdvPast(Out(fail(parser), Num(Zero))), "operators")

parse_unary ==
  /\ doing = "operand"
  /\ \/ /\ Token \in {"-", "!"}
        /\ Call([what |-> "unary", floor |-> Unary, op |-> Token], After, "operand")
     \/ /\ Token = "!=" /\ Go(Out(fail(After), Num(Whole(1))), "operators")
     \/ /\ Token \notin {"-", "!", "!="} /\ parse_primary

parse_args ==
  /\ doing = "arg"
  /\ \/ /\ Token \in DOMAIN Texts \cup {"["}
        /\ Go(parse_bracket_text(parser), "value")
     \/ /\ Token = "boundless" /\ Go(Out(After, Num(INFINITY)), "value")
     \/ /\ Token \notin DOMAIN Texts \cup {"[", "boundless"} /\ Go(parser, "operand")

Operator ==
  /\ doing = "operators"
  /\ \E k \in DOMAIN Levels :
       /\ Taken(k)
       /\ Call([what |-> "binary", floor |-> k + 1, op |-> Token, left |-> parser.v], After,
               "operand")

(* What waits gets the value: the rest of its function.                    *)
Gets(what) ==
  /\ doing \in {"operators", "value"}
  /\ doing = "operators" => \A k \in DOMAIN Levels : ~Taken(k)
  /\ Waiting.what = what

Binary   == Gets("binary") /\ Return(Out(parser, Apply(Waiting.op, Waiting.left, parser.v)), "operators")
Prefixed == Gets("unary")  /\ Return(Out(parser, Negated(Waiting.op, parser.v)), "operators")
Grouped  == Gets("paren")  /\ Return(Expect(parser, ")"), "operators")
Scaled   ==
  /\ Gets("scaled")
  /\ Return(Out(Expect(parser, ")"), Apply("*", Waiting.by, parser.v)), "operators")

Argument ==
  LET all == IF Len(Waiting.got) < MaxArgs THEN Append(Waiting.got, parser.v) ELSE Waiting.got
  IN  /\ Gets("args")
      /\ \/ Token # "," /\ call(Waiting.fn, Expect(parser, ")"), all, Tail(calls))
         \/ /\ Token = "," /\ Tok(After) = ")"
            /\ call(Waiting.fn, Adv(After), all, Tail(calls))
         \/ /\ Token = "," /\ Tok(After) # ")"
            /\ Become([Waiting EXCEPT !.got = all], After, "arg")

-----------------------------------------------------------------------------
(* Statements.  An "if" waits for one branch and then takes the other, or  *)
(* skips it: else says which.                                              *)
If(else) == [what |-> "if", else |-> else]

Condition ==
  LET c == Expect(parser, ")")
  IN  /\ Gets("if(")
      /\ IF truthy(parser.v) THEN Become(If("skip"), c, "stmt") ELSE Become(If("stmt"), c, "skip")

Assignment == Gets("=") /\ Return(Assigned(parser), "back")
BareValue  == Gets("bare") /\ Return(Bare(parser, Waiting.i, Waiting.err), "back")

(* After the "Y": a "==" is a "=" and a stray one, the "Y=" of "Y=if" is   *)
(* noise.                                                                  *)
parse_assignment(s) ==
  \/ Tok(s) \notin {"=", "=="} /\ Go(fail(s), "back")
  \/ Tok(s) = "=" /\ Tok(Adv(s)) = "if" /\ Go(Adv(s), "stmt")
  \/ Tok(s) = "=" /\ Tok(Adv(s)) # "if" /\ Call([what |-> "=", floor |-> 1], Adv(s), "operand")
  \/ Tok(s) = "==" /\ Call([what |-> "=", floor |-> 1], s, "operand")

Assigns  == Token = "Y" /\ Tok(After) \in {"=", "=="} \cup WordsOf \cup DOMAIN Literals
BareWord == Token \in {"("} \cup WordsOf \cup DOMAIN Literals /\ Token # "if" /\ ~Assigns

parse_stmt ==
  /\ doing = "stmt"
  /\ \/ Token = "" /\ Go(parser, "back")
     \/ Token = ";" /\ Go(After, "back")
     \/ Token = "if" /\ Tok(After) = "(" /\ Call([what |-> "if(", floor |-> 1], Adv(After), "operand")
     \/ Token = "if" /\ Tok(After) # "(" /\ Go(fail(After), "back")
     \/ Assigns /\ parse_assignment(After)
     \/ BareWord /\ Call([what |-> "bare", floor |-> 1, i |-> parser.i, err |-> parser.err], parser,
                         "operand")
     \/ /\ Token \notin {"", ";", "if"} /\ ~Assigns /\ ~BareWord
        /\ Go(AdvPast(fail(parser)), "back")

Else ==
  /\ doing = "back" /\ calls # <<>>
  /\ IF Token = "else"
     THEN \E next \in {"skip", "stmt"} : Waiting.else = next /\ Return(After, next)
     ELSE Return(parser, "back")

(* Skipping the branch not taken: what is in texts counts too.             *)
Paren(t) ==
  CASE t \in {"("} \cup OpenTexts -> 1
    [] t = ")"                    -> -1
    [] OTHER                      -> 0
Bracket(t) == CASE t = "[" -> 1 [] t = "]" -> -1 [] OTHER -> Paren(t)

Opening(s, n) == [s EXCEPT !.open = n]

(* A mutant: the else of an if that is skipped is not.                     *)
skip_if_NoElse(s, next) == Go(s, next)
skip_if(s, next)        == Call(If("skip"), s, next)

skip_stmt ==
  /\ doing = "skip"
  /\ \/ Token = "if" /\ Tok(After) = "(" /\ skip_if(Opening(After, 0), "condition")
     \/ Token = "if" /\ Tok(After) # "(" /\ skip_if(After, "skip")
     \/ Token # "if" /\ Go(Opening(parser, 0), "assignment")

SkipCondition ==
  LET open == parser.open + Paren(Token)
  IN  /\ doing = "condition"
      /\ \/ Token = "" /\ Return(parser, "back")
         \/ Token # "" /\ Go(Opening(After, open), IF open > 0 THEN "condition" ELSE "skip")

SkipAssignment ==
  /\ doing = "assignment"
  /\ \/ Token = "" /\ Go(parser, "back")
     \/ Token = ";" /\ parser.open <= 0 /\ Go(After, "back")
     \/ /\ Token # "" /\ (Token = ";" => parser.open > 0)
        /\ Go(Opening(After, parser.open + Bracket(Token)), "assignment")
-----------------------------------------------------------------------------
(* The loop of exp_eval_text: what makes no progress is skipped.           *)
Ended == Token = "" \/ Innermost.turns > MaxStatements

Turn ==
  /\ doing = "loop" /\ ~Ended
  /\ doing' = "stmt"
  /\ evals' = [evals EXCEPT ![Len(evals)] =
                 [@ EXCEPT !.before = parser.i, !.turns = Innermost.turns + 1]]
  /\ UNCHANGED <<parser, calls>>

Turned ==
  /\ doing = "back" /\ calls = <<>>
  /\ Go(IF parser.i = Innermost.before THEN Adv(fail(parser)) ELSE parser, "loop")

Left ==
  /\ doing = "loop" /\ Ended /\ Len(evals) > 1
  /\ parser' = Leave(Innermost.caller, parser)
  /\ calls' = Innermost.calls
  /\ evals' = Front(evals)
  /\ doing' = "operators"

Interpret ==
  \/ parse_stmt \/ parse_unary \/ parse_args \/ Operator
  \/ Binary \/ Prefixed \/ Grouped \/ Scaled \/ Argument
  \/ Condition \/ Assignment \/ BareValue \/ Else
  \/ skip_stmt \/ SkipCondition \/ SkipAssignment
  \/ Turn \/ Turned \/ Left
=============================================================================
