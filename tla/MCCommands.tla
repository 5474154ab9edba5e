------------------------------ MODULE MCCommands ------------------------------
(***************************************************************************)
(* The instance of Commands for TLC: small flashes, a small Exp.BIN, small *)
(* files for the databases, small tables; openphix-tool has that of MCHost.*)
(***************************************************************************)
EXTENDS Commands, MCHost

-----------------------------------------------------------------------------
(* Flashes: directories of up to three entries, with files in any order,   *)
(* behind the end or not there; and what looks like a directory where a    *)
(* file begins.                                                            *)

FlashSize == 12

MCFileNames == {"DsTransID.BIN", "UDSDTCTransID.BIN", "TEXT", "TEXT_25H", "TEXT_DEFNAME_02H", "TYPE1", "other"}

E(name, off)  == [name |-> name, valid |-> TRUE, off |-> off]
Placed(d)     == [k \in DOMAIN d |-> [name |-> d[k].name, valid |-> d[k].valid, off |-> d[k].off, end |-> k + 1]]

RootNames == {"DsTransID.BIN", "UDSDTCTransID.BIN", "other"}
RootEntries == {E(n, o) : n \in RootNames, o \in {3, 6, 12, 13}}

Roots ==
  {<<>>} \cup [1..1 -> RootEntries] \cup [1..2 -> RootEntries]
  \cup {<<E(a, 4), E(b, p), E(c, q)>> : a, b, c \in RootNames, p \in {4, 6}, q \in {5, 8, 11}}
  \cup {<<E("DsTransID.BIN", 4), [E("UDSDTCTransID.BIN", 8) EXCEPT !.valid = FALSE]>>}

Sections ==
  { <<>>, <<E("TEXT", 1)>>, <<E("TEXT", 0), E("TEXT_25H", 2)>>,
    <<E("TYPE1", 3), E("TEXT_DEFNAME_02H", 3), E("TEXT", 3)>>,
    <<E("TEXT_25H", 1), E("TYPE1", 7), E("TEXT", 2)>>,
    <<E("other", 2), E("TYPE1", 2)>>, <<E("other", 1), E("other", 2)>> }

MCFlashes ==
  {[size |-> FlashSize,
    dir  |-> [b \in 0..FlashSize |-> Placed(IF b = 0 THEN root ELSE sections)]] :
     root \in Roots, sections \in Sections}

-----------------------------------------------------------------------------
(* The records of Exp.BIN: every pair of operators in both groupings,      *)
(* nested if and else, references deeper than allowed, texts with typos.   *)

(* Make of every element of a sequence, and of every pair of elements.     *)
Mapped(A, Make(_)) ==
  CHOOSE all \in {[k \in DOMAIN a |-> Make(a[k])] : a \in {A}} : TRUE
Every(A, B, Make(_, _)) ==
  CHOOSE all \in
    {[k \in 1..(Len(a) * Len(b)) |-> Make(a[((k - 1) \div Len(b)) + 1], b[((k - 1) % Len(b)) + 1])] :
       a \in {A}, b \in {B}} : TRUE

MCLiterals  == ("0" :> <<0, 1>>) @@ ("1" :> <<1, 1>>) @@ ("2" :> <<2, 1>>) @@ ("3" :> <<3, 1>>)
               @@ ("4" :> <<4, 1>>) @@ ("5" :> <<5, 1>>) @@ ("0.5" :> <<1, 2>>)
MCVariables == ("X1" :> <<1, -1>>) @@ ("X2" :> <<2, -1>>) @@ ("X1.bit1" :> <<1, 1>>)
MCHexWords  == "FF" :> <<255, 1>>
MCNames     == {"string", "strcmp", "ascii", "hex", "int", "id", "transid", "range", "boundless", "zz"}
MCTexts     == ("[A]" :> <<65>>) @@ ("[A(]" :> <<65, 40>>)
MCInputs    == {<<>>, <<65>>, <<5, 2>>, <<0, 1>>}

W(w)           == [w |-> w]
Bin(l, op, r)  == [op |-> op, l |-> l, r |-> r]
Un(op, e)      == [op |-> op, e |-> e]
Fn(name, args) == [fn |-> name, args |-> args]
Ref(w)         == Fn("id", <<W(w)>>)

Operations == << "||", "&&", "|", "&", "==", "!=", "<", ">", "<=", ">=", ">>", "<<",
                 "+", "-", "*", "/", "%" >>
LeftPairs  == Every(Operations, Operations, LAMBDA o, q : Bin(Bin(W("X1"), o, W("2")), q, W("X2")))
RightPairs == Every(Operations, Operations, LAMBDA o, q : Bin(W("X1"), o, Bin(W("2"), q, W("X2"))))
Unaries    == Every(<<"-", "!">>, Operations, LAMBDA o, q : Bin(Un(o, W("X1")), q, W("2")))
              \o Every(<<"-", "!">>, Operations, LAMBDA o, q : Un(o, Bin(W("X1"), q, W("2"))))

Calls ==
  << Fn("string", <<W("1"), W("X1"), W("FF")>>), Fn("hex", <<W("X1"), W("FF")>>),
     Bin(W("0"), "==", Fn("strcmp", <<W("[A]"), Fn("ascii", <<W("X1"), W("X2")>>)>>)),
     Fn("int", <<Bin(W("X1"), "*", W("0.5"))>>), Fn("transid", <<Ref("4"), Ref("5"), W("1")>>),
     Bin(W("[A]"), "==", W("[A(]")), Un("!", W("X1.bit1")), Bin(W("[A]"), "+", W("1")) >>

(* The first five records are referred to: 1 to 4 by the one before, 5 by  *)
(* itself, and one after the other in a sum.                               *)
Referring ==
  << <<[set |-> Bin(Ref("2"), "+", W("1"))]>>,
     <<[set |-> Bin(Ref("3"), "*", W("2"))]>>,
     <<[set |-> Bin(W("1"), "+", Ref("4"))]>>,
     <<[if |-> W("X1"), then |-> [set |-> Bin(Ref("5"), "+", W("X1"))], else |-> [set |-> W("3")]]>>,
     <<[set |-> W("1")], [set |-> Bin(Bin(W("Y"), "+", W("X2")), "+", Bin(W("4"), "*", Ref("5")))]>>,
     <<[set |-> Bin(Bin(Ref("4"), "-", Ref("3")), "-", W("1"))]>>,
     <<[bare |-> Ref("4")]>>,
     <<[limits |-> <<Bin(W("X1"), "+", W("2")), W("boundless")>>]>>,
     <<[limits |-> <<W("2"), W("X2")>>], [set |-> Bin(W("Y"), "+", W("FF"))]>> >>

Simple == << [set |-> Fn("string", <<W("1"), W("X2")>>)], [bare |-> Bin(W("Y"), "+", W("2"))] >>
Tests  == << W("X1"), Un("!", Bin(W("X1"), "-", W("X2"))) >>
WithoutElse(then) == Every(Tests, then, LAMBDA c, t : [if |-> c, then |-> t])
Closed(ifs)  == SelectSeq(ifs, LAMBDA i : ~Open(i.then))
WithElse(ifs, else) ==
  Every(ifs, else, LAMBDA i, e : [if |-> i.if, then |-> i.then, else |-> e])
Ifs1    == WithoutElse(Simple)
Closed1 == Closed(Ifs1)
Nested1 == Simple \o Ifs1 \o WithElse(Closed1, Simple)
Ifs2    == WithoutElse(Nested1)
Closed2 == Closed(Ifs2)
Nested2 == Ifs2 \o WithElse(Closed2, Nested1)
Noisy   == << [if |-> W("X1"), then |-> Simple[1], else |-> Simple[2], noise |-> TRUE] >>

Sets(exprs) == Mapped(exprs, LAMBDA e : <<[set |-> e]>>)
Ifs(stmts)  ==
  Mapped(stmts, LAMBDA i : <<[set |-> W("1")], i, [bare |-> Bin(W("Y"), "*", W("2"))]>>)

(* Texts in the branch taken and in the other, and in conditions; an open  *)
(* parenthesis only where nothing is skipped.                              *)
TextTests == << Bin(W("[A]"), "==", W("[A(]")), Bin(W("[A(]"), "!=", W("[A]")), W("X1") >>
TextSets  == << [set |-> W("[A]")], [set |-> Fn("string", <<W("1"), W("X2")>>)] >>
TextIfs   == WithElse(Every(TextTests, TextSets, LAMBDA c, t : [if |-> c, then |-> t]), TextSets)

(* And where something is: a branch, and a condition in one.               *)
MCOddTrees ==
  << <<[if |-> W("X1"), then |-> [set |-> W("[A(]")]], [set |-> W("2")]>>,
     <<[set |-> W("1")],
       [if |-> W("X2"), then |-> [if |-> TextTests[1], then |-> [set |-> W("3")]]],
       [set |-> Bin(W("Y"), "+", W("4"))]>> >>

MCTrees == Referring \o Sets(LeftPairs \o RightPairs \o Unaries \o Calls) \o Ifs(Nested2 \o Noisy \o TextIfs)
           \o MCOddTrees

(* Texts that no tree has.                                                 *)
Scraps  == << "X1", "2", "Y", "=", "==", "(", ")", "[", "if", "else", ";", ",", "-", "zz", "id" >>
Short   == [k \in DOMAIN Scraps |-> <<Scraps[k]>>]
Longer(texts) == Every(texts, Scraps, Append)
Pairs2  == Longer(Short)
Garbage == Short \o Pairs2 \o Longer(Pairs2)

Model == << "Y", "=", "1", ";", "if", "(", "X1", "==", "(", "2", ")", ")", "Y", "=", "id", "(", "8", ")",
            ";", "else", "Y", "=", "string", "(", "1", ",", "X2", ")", "+", "2", ";" >>
Without(t, k) == SubSeq(t, 1, k - 1) \o SubSeq(t, k + 1, Len(t))
Positions == [k \in DOMAIN Model |-> k]
Positions1 == [k \in 1..(Len(Model) - 1) |-> k]
Typos ==
  [k \in DOMAIN Model |-> SubSeq(Model, 1, k)]
  \o Every(Positions, Positions1,
           LAMBDA j, k : Without(Without(Model, j), k))
  \o << <<"Y", "=", "id", "(", "1", ")", "+", ")", ";", "Y", "=", "zz", ";">>,
        <<"Y", "=", "zz", ";", "Y", "=", "id", "(", "5", ")", "+", "2", ";">> >>

TextsOfTrees == Mapped(MCTrees, LAMBDA t : FlattenSeq(Mapped(t, Written)))
MCRecords    == TextsOfTrees \o Garbage \o Typos
MCOddRecords == Mapped(MCOddTrees, LAMBDA t : FlattenSeq(Mapped(t, Written)))

-----------------------------------------------------------------------------
(* Files for the databases: lists longer than the arrays, chunks with      *)
(* several variants, tables of names with nodes anywhere.                  *)

C(n)          == [cmd |-> n * 65536 + 1, arg |-> 65535, flag |-> n]
CmdsOf(n)     == [i \in 1..n |-> C(i)]
S(seq, n)     == [seq |-> seq, exp |-> 300 + seq, label |-> 400 + seq, cmds |-> CmdsOf(n)]
Channel(id, n, w) == [id |-> id, name |-> 700 + id, exp |-> 800 + id, cmds |-> CmdsOf(n), write |-> CmdsOf(w)]

FullRecord ==
  [variant |-> 0, kind |-> 48, module |-> 1,
   proto     |-> [kind |-> 2, ids |-> <<2016, 2024>>, timing |-> <<3000, 5, 200, 15, 20, 10>>],
   connect   |-> << S(1, 1), S(2, 3), S(3, 0) >>,
   keepalive |-> << S(1, 3), S(2, 1) >>,
   version   |-> << [fmt |-> 1, steps |-> <<S(1, 3), S(2, 0), S(3, 2)>>] >>,
   dtc       |-> << [form |-> 6, steps |-> <<S(1, 3), S(2, 1)>>] >>,
   stream    |-> [ids |-> <<9, 5, 300>>, table |-> <<Channel(5, 3, 3), Channel(8, 1, 0), Channel(9, 0, 2)>>],
   items     |-> <<>>]

OtherRecord ==
  [FullRecord EXCEPT
     !.variant = 65535, !.kind = 50,
     !.proto   = [kind |-> 3, ids |-> <<1048694, 1179766, 3>>, timing |-> <<1, 2, 3, 4, 5, 6>>],
     !.connect = <<>>,
     !.version = << [fmt |-> 3, steps |-> <<S(1, 0), S(2, 0)>>], [fmt |-> 1, steps |-> <<>>] >>,
     !.dtc     = << [form |-> 6, steps |-> <<S(4, 1)>>], [form |-> 5, steps |-> <<S(5, 1)>>] >>,
     !.stream  = <<>>,
     !.items   = << [title |-> 17, items |-> <<1, 2>>], [title |-> 18, items |-> <<>>],
                    [title |-> 19, items |-> <<3>>] >>]

KLine == [OtherRecord EXCEPT !.kind = 1, !.proto = <<>>, !.keepalive = <<>>,
                             !.dtc = << [form |-> 5, steps |-> <<S(5, 1)>>] >>, !.items = <<>>]

MCConfigs == {<<FullRecord, OtherRecord, KLine>>, <<KLine, KLine, FullRecord>>,
              <<OtherRecord, [FullRecord EXCEPT !.module = 2]>>}
MCWanted  == {[kind |-> r.kind, module |-> m, variant |-> r.variant] :
                r \in {FullRecord, OtherRecord, KLine}, m \in {1, 2}}

P(id, data) == [id |-> id, data |-> data]
Command(kind, h, packets) == [len |-> 1, kind |-> kind, h |-> h, packets |-> packets, number |-> 0]
Spoken(kind, h, n) == [len |-> 9, kind |-> kind, h |-> h, message |-> [i \in 1..n |-> 16 * i], number |-> 0]

MCCommands ==
  { Command(16, <<0, 1, 2, 0, 2>>, <<P(<<2015>>, <<2, 16, 3, 0, 0, 0, 0, 0>>), P(<<>>, <<48, 0>>), P(<<2016>>, <<>>)>>),
    Command(16, <<5, 0, 1, 0, 0>>, <<P(<<>>, <<16, 0, 2, 62, 0>>)>>),
    Command(16, <<0, 0, 0, 0, 0>>, <<>>),
    [Command(1, <<2, 192, 0, 3, 32>>, <<P(<<1792>>, <<2, 62, 128>>)>>) EXCEPT !.number = 800],
    [Command(96, <<0, 0, 122, 18, 0>>, <<>>) EXCEPT !.number = 8000000] }
  \cup {Spoken(16, <<6, 0, 3, 0, 0>>, n) : n \in {1, 7, 8, 15}}
  \cup {[Spoken(1, <<h, 0, 0, 1, 2>>, n) EXCEPT !.number = 258] : h \in {5, 17}, n \in {3, 10}}

T(sub, x)  == [sub |-> sub, x |-> x, v |-> 135]
Rec(script, n, tails) ==
  [flags |-> 48, script |-> script, tails |-> tails,
   items |-> [i \in 1..n |-> [key |-> i, addr |-> 3, type |-> 86, y |-> 300, z |-> i]]]
N(name, sub) == [name |-> <<69, 86, 95>> \o name, sub |-> sub, x |-> 304]

Scan(gaps, tail) ==
  [procs   |-> << [id |-> 61441, records |-> <<1, 2, 3>>], [id |-> 61443, records |-> <<2>>] >>,
   modules |-> << [address |-> 1, records |-> <<1, 2>>], [address |-> 24576, records |-> <<1, 2, 3>>],
                  [address |-> 3, records |-> <<>>] >>,
   records |-> << Rec(TRUE, 0, <<>>), Rec(FALSE, 3, <<T(1, 816), T(2, 818), T(65535, 2)>>),
                  Rec(FALSE, 0, <<T(1, 304)>>) >>,
   names   |-> << <<N(<<65>>, 1), N(<<65, 66>>, 2)>>, <<N(<<67>>, 3)>>, <<N(<<65, 66>>, 4), N(<<68>>, 5)>> >>,
   nodes   |-> [k \in DOMAIN gaps |-> [gap |-> gaps[k], names |-> 4 - k]],
   tail    |-> tail]
MCScans == {Scan(<<>>, 0)} \cup {Scan(<<g>>, 0) : g \in 0..47}
           \cup {Scan(<<g, h, 5>>, t) : g \in 0..23, h \in {0, 4, 12, 17}, t \in {0, 3}}

MCEvNames == {N(<<65>>, 1).name, N(<<65, 66>>, 1).name, N(<<67>>, 1).name, N(<<68>>, 1).name, N(<<69>>, 1).name}

MCPairs == {[k \in 1..n |-> [key |-> 3 * k, value |-> 1000 + k]] : n \in 0..5}

MCTextIds == {<<"FF00", 1>>, <<"FF00", 49153>>, <<"A000", 1>>, <<"A100", 256>>, <<"A100", 274>>, <<"A100", 131072>>}
MCWords   == {[kind |-> "letter", system |-> s, digits |-> d] : s \in {0, 3}, d \in {1, 2}}
             \cup {[kind |-> "number", n |-> n] : n \in {1, 2, 256, 131072, 131090, 65792, 65810}}

-----------------------------------------------------------------------------
(* Tables as they should be, of up to five cells with any gaps in the ids. *)
Ascending(n) == {ids \in [0..(n - 1) -> 0..6] : \A k \in 1..(n - 1) : ids[k - 1] < ids[k]}
SoundTables ==
  UNION {{[count |-> n, size |-> 48,
           cells |-> [k \in 0..(n - 1) |-> [key |-> ids[k], off |-> 44 + ids[k] \div 2]]] :
            ids \in Ascending(n)} : n \in 0..5}

(* Tables of anything: any count, offsets behind the end or descending.    *)
BrokenTables ==
  UNION {{[count |-> n, size |-> 4 + 8 * c, cells |-> cells] :
            n \in {0, 1, 2, 3, 8, 9, 31}, cells \in [0..(c - 1) -> [key : {1, 2}, off : {4, 15, 20, 63}]]} :
           c \in 0..2}

MCTables == SoundTables \cup BrokenTables

(* An empty one.                                                           *)
MCNoFlash == [size |-> FlashSize, dir |-> [b \in 0..FlashSize |-> <<>>]]
=============================================================================
