----------------------------- MODULE ExpMeaning -----------------------------
(***************************************************************************)
(* What the grammar at the head of exp.c means: programs as trees, the     *)
(* text of a tree with no more parentheses than needed, and the result of  *)
(* a tree, computed without any parsing.  An expression is a literal or    *)
(* variable [w], a unary [op, e], a binary [op, l, r], a call [fn, args];  *)
(* a statement an assignment [set], a bare expression [bare], two [limits],*)
(* or an [if, then] with or without an [else], perhaps after a "Y=" that is*)
(* [noise].                                                                *)
(***************************************************************************)
EXTENDS ExpTool

CONSTANT Trees       (* id |-> statements, for the records written from trees *)

Has(t, field) == field \in DOMAIN t

Binding(op) == CHOOSE k \in DOMAIN Levels : op \in Levels[k]
Tightness(e) ==
  IF Has(e, "l") THEN Binding(e.op) ELSE IF Has(e, "op") THEN Len(Levels) + 1 ELSE Len(Levels) + 2

RECURSIVE TextOf(_), Written(_), Open(_), Value(_, _), Done(_, _)

Enclosed(e, k) == IF Tightness(e) < k THEN <<"(">> \o TextOf(e) \o <<")">> ELSE TextOf(e)

(* The operators of a level are applied from left to right.                *)
TextOf(e) ==
  CASE Has(e, "w")  -> <<e.w>>
    [] Has(e, "l")  -> Enclosed(e.l, Binding(e.op)) \o <<e.op>>
                         \o Enclosed(e.r, Binding(e.op) + 1)
    [] Has(e, "op") -> <<e.op>> \o Enclosed(e.e, Len(Levels) + 1)
    [] Has(e, "fn") -> <<e.fn, "(">>
         \o FlattenSeq([k \in DOMAIN e.args |->
                          (IF k = 1 THEN <<>> ELSE <<",">>) \o TextOf(e.args[k])])
         \o <<")">>

Written(t) ==
  CASE Has(t, "set")  -> <<"Y", "=">> \o TextOf(t.set) \o <<";">>
    [] Has(t, "bare") -> TextOf(t.bare) \o <<";">>
    [] Has(t, "limits") -> <<"Y", "=">> \o TextOf([fn |-> "range", args |-> t.limits]) \o <<";">>
    [] Has(t, "if")   -> (IF Has(t, "noise") THEN <<"Y", "=">> ELSE <<>>)
                         \o <<"if", "(">> \o TextOf(t.if) \o <<")">> \o Written(t.then)
                         \o (IF Has(t, "else") THEN <<"else">> \o Written(t.else) ELSE <<>>)

(* An else belongs to the nearest if, so no tree has an if without else    *)
(* right before one.                                                       *)
Open(t) == Has(t, "if") /\ (~Has(t, "else") \/ Open(t.else))
-----------------------------------------------------------------------------
(* An environment: the inputs x, the result so far y, the limits range, and*)
(* how deep in references the tree is.                                     *)
Meanings(trees, env) ==
  FoldLeft(LAMBDA n, t : Done(t, n), env, trees)

Referred(id, env) ==
  IF id \notin DOMAIN Trees \/ env.depth >= MaxDepth THEN Num(Zero)
  ELSE LET y == Meanings(Trees[id], [env EXCEPT !.y = None, !.depth = @ + 1]).y
       IN  IF y.kind = "none" THEN Num(Zero) ELSE y

Value(e, env) ==
  LET args == [k \in DOMAIN e.args |-> Value(e.args[k], env)]
  IN  CASE Has(e, "w")  ->
             (CASE e.w \in DOMAIN Literals  -> Num(Literals[e.w])
                [] e.w \in DOMAIN HexWords  -> Num(HexWords[e.w])
                [] e.w = "boundless"        -> Num(INFINITY)
                [] e.w \in DOMAIN Variables -> Input(env, e.w)
                [] e.w \in DOMAIN Texts     -> TextVal(Texts[e.w])
                [] e.w = "Y" -> IF env.y = None THEN Num(Zero) ELSE env.y)
        [] Has(e, "l")  -> Apply(e.op, Value(e.l, env), Value(e.r, env))
        [] Has(e, "op") -> Negated(e.op, Value(e.e, env))
        [] Has(e, "fn") ->
             (CASE e.fn = "string" -> string(args)
                [] e.fn = "strcmp" -> strcmp(args)
                [] e.fn = "ascii"  -> ascii(args)
                [] e.fn = "hex"    -> hex(args)
                [] e.fn = "int"    -> Num(Whole(Long(Arg(args, 1))))
                [] e.fn = "transid" -> args[1]
                [] e.fn = "id"     -> Referred(Long(Arg(args, 1)), env))

Done(t, env) ==
  CASE Has(t, "set")  -> [env EXCEPT !.y = Value(t.set, env)]
    [] Has(t, "bare") -> [env EXCEPT !.y = Value(t.bare, env)]
    [] Has(t, "limits") ->
         LET lo == as_num(Value(t.limits[1], env))
             hi == as_num(Value(t.limits[2], env))
         IN  [env EXCEPT !.y = Num(Whole(1)), !.range = <<lo, hi, t.limits[2] = [w |-> "boundless"]>>]
    [] Has(t, "if")   -> IF truthy(Value(t.if, env)) THEN Done(t.then, env)
                         ELSE IF Has(t, "else") THEN Done(t.else, env) ELSE env
-----------------------------------------------------------------------------
Environment(x) == [x |-> x, y |-> None, depth |-> 1, range |-> <<>>]

(* Two values are the same if their kind and their number or text are.     *)
SameValue(a, b) ==
  a.kind = b.kind /\ (a.v = b.v \/ (a.kind # "text" /\ values_equal(a, b)))

GivesItsMeaning ==
  LET m == Meanings(Trees[asked], Environment(parser.x))
  IN  SameValue(report[1].y, m.y) /\ report[1].range = m.range /\ ~parser.err

(* skip_stmt does not parse the branch not taken, it counts parentheses    *)
(* and brackets, those inside of texts included (exp.c:624-625, 639-640).  *)
OpenBranch(t) ==
  /\ Has(t, "if")
  /\ \E branch \in {Written(t.then)} \cup (IF Has(t, "else") THEN {Written(t.else)} ELSE {}) :
       \E k \in DOMAIN branch : branch[k] \in OpenTexts

(* A record written by the grammar at the head of exp.c gives what its tree*)
(* means, with no error: precedence and grouping, nested if and else, both *)
(* branches, references, limits (parse_expr, parse_stmt, skip_stmt, call). *)
(* Left out are records with a text in a branch, or in the condition of an *)
(* if in a branch, that has a parenthesis nothing closes.                  *)
Meaning ==
  /\ report # NoReport /\ asked \in DOMAIN Trees
  /\ \A k \in DOMAIN Trees[asked] : ~OpenBranch(Trees[asked][k])
  => GivesItsMeaning

(* What the head of exp.c says (lines 5-23): a primary is a text in        *)
(* brackets, wherever an expression may be, and a statement is one whether *)
(* or not its branch is taken.                                             *)
GrammarHolds == report # NoReport /\ asked \in DOMAIN Trees => GivesItsMeaning
=============================================================================
