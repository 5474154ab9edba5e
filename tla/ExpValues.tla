------------------------------ MODULE ExpValues ------------------------------
(***************************************************************************)
(* The values of the expression language (firmware/core/exp.c).  A double  *)
(* is an exact quotient <<n, d>>, infinity is <<1, 0>>; a long has 16 bits *)
(* here.  A text is a sequence of character codes.                         *)
(***************************************************************************)
EXTENDS Integers, Sequences, SequencesExt

CONSTANT TextMax      (* EXP_TEXT_MAX                                      *)

Zero     == <<0, 1>>
INFINITY == <<1, 0>>
Whole(n) == <<n, 1>>
Truth(b) == IF b THEN Whole(1) ELSE Zero

None     == [kind |-> "none",  v |-> Zero]
Num(q)   == [kind |-> "num",   v |-> q]
StrId(n) == [kind |-> "strid", v |-> Whole(n)]
TextVal(t) ==
  [kind |-> "text", v |-> IF Len(t) < TextMax THEN t ELSE SubSeq(t, 1, TextMax - 1)]

as_num(a) == IF a.kind \in {"num", "strid"} THEN a.v ELSE Zero
truthy(a) == IF a.kind = "text" THEN a.v # <<>> ELSE as_num(a)[1] # 0

(* Conversion to long cuts towards zero.                                   *)
Long(q)   == IF q[1] >= 0 THEN q[1] \div q[2] ELSE -((-q[1]) \div q[2])
Wrap(n)   == n % 65536
Signed(u) == IF u >= 32768 THEN u - 65536 ELSE u
Bits(n)   == {k \in 0..15 : (Wrap(n) \div 2^k) % 2 = 1}
OfBits(B) == Signed(MapThenSumSet(LAMBDA k : 2^k, B))

Less(p, q) == p[1] * q[2] < q[1] * p[2]
values_equal(a, b) ==
  IF a.kind = "text" /\ b.kind = "text" THEN a.v = b.v
  ELSE as_num(a)[1] * as_num(b)[2] = as_num(b)[1] * as_num(a)[2]

Quotient(p, q) ==
  CASE q[1] = 0 -> Zero
    [] q[1] > 0 -> <<p[1] * q[2], p[2] * q[1]>>
    [] q[1] < 0 -> <<-(p[1] * q[2]), p[2] * (-q[1])>>

Remainder(m, n) ==
  LET Abs(k) == IF k < 0 THEN -k ELSE k
      r == Abs(m) % Abs(n)
  IN  IF m < 0 THEN -r ELSE r

(* One binary operator on two values.                                      *)
Apply(op, a, b) ==
  LET p == as_num(a)
      q == as_num(b)
  IN  Num(CASE op = "*"  -> <<p[1] * q[1], p[2] * q[2]>>
            [] op = "/"  -> Quotient(p, q)
            [] op = "%"  -> IF Long(q) = 0 THEN Zero ELSE Whole(Remainder(Long(p), Long(q)))
            [] op = "+"  -> <<p[1] * q[2] + q[1] * p[2], p[2] * q[2]>>
            [] op = "-"  -> <<p[1] * q[2] - q[1] * p[2], p[2] * q[2]>>
            [] op = ">>" -> Whole(Long(p) \div 2^Long(q))
            [] op = "<<" -> Whole(Long(p) * 2^Long(q))
            [] op = "<"  -> Truth(Less(p, q))
            [] op = ">"  -> Truth(Less(q, p))
            [] op = "<=" -> Truth(~Less(q, p))
            [] op = ">=" -> Truth(~Less(p, q))
            [] op = "==" -> Truth(values_equal(a, b))
            [] op = "!=" -> Truth(~values_equal(a, b))
            [] op = "&"  -> Whole(OfBits(Bits(Long(p)) \cap Bits(Long(q))))
            [] op = "|"  -> Whole(OfBits(Bits(Long(p)) \cup Bits(Long(q))))
            [] op = "&&" -> Truth(truthy(a) /\ truthy(b))
            [] op = "||" -> Truth(truthy(a) \/ truthy(b)))

Negated(op, a) ==
  Num(IF op = "-" THEN <<-(as_num(a)[1]), as_num(a)[2]>> ELSE Truth(~truthy(a)))

Arg(args, k) == IF k <= Len(args) THEN as_num(args[k]) ELSE Zero
TextArg(args, k) == IF k <= Len(args) /\ args[k].kind = "text" THEN args[k].v ELSE <<>>
Byte(q)      == Long(q) % 256

string(args) ==
  StrId(FoldLeft(LAMBDA id, a : id * 256 + Byte(as_num(a)), 0,
                 SubSeq(args, 1, IF Len(args) < 4 THEN Len(args) ELSE 4)))

strcmp(args) == Num(Truth(TextArg(args, 1) # TextArg(args, 2)))

(* The bytes before the first zero.                                        *)
ascii(args) ==
  LET n == SelectInSeq(args, LAMBDA a : Long(as_num(a)) = 0)
  IN  TextVal([k \in 1..(IF n = 0 THEN Len(args) ELSE n - 1) |-> Long(as_num(args[k]))])

HexDigit(d) == IF d < 10 THEN 48 + d ELSE 55 + d
hex(args) ==
  TextVal(FlattenSeq([k \in DOMAIN args |->
            <<HexDigit(Byte(as_num(args[k])) \div 16), HexDigit(Byte(as_num(args[k])) % 16)>>]))
=============================================================================
