------------------------------ MODULE Strings -------------------------------
(***************************************************************************)
(* String tables and the language in use (firmware/core/str.c).  A text is *)
(* the number of the table it was read from and its id; NoText stands for  *)
(* the id that is printed when no table has the text.                      *)
(***************************************************************************)
EXTENDS Integers, FiniteSets, Sequences

CONSTANTS
  Ids,           (* string ids                                             *)
  StringFiles,   (* entries of STRING.BIN: kind, language number, ids      *)
  MaxLangs       (* STR_MAX_LANGS                                          *)

ASSUME StringsAssumption ==
  /\ StringFiles \in Seq([kind   : {"table", "other", "broken"},
                          number : 0..99,
                          ids    : SUBSET Ids])
  /\ MaxLangs \in Nat

VARIABLE current  (* place of the language in use, -1 without tables        *)

English == 3
NoText  == -1

(* Entries with another name are passed over and an entry that cannot be   *)
(* read ends the list.                                                     *)
Candidates ==
  {i \in DOMAIN StringFiles :
     StringFiles[i].kind = "table" /\ \A j \in 1..i : StringFiles[j].kind # "broken"}

(* A table's place in tables[] is the number of tables before it; the      *)
(* array takes the first MaxLangs.                                         *)
Place(i)      == Cardinality({j \in Candidates : j < i})
Tables        == {i \in Candidates : Place(i) < MaxLangs}
table_count   == Cardinality(Tables)
tables(place) == StringFiles[CHOOSE i \in Tables : Place(i) = place]

(* The last English table's place: one less than the tables up to it.      *)
EnglishTables == {i \in Tables : StringFiles[i].number = English}
english == Cardinality({i \in Tables : \E j \in EnglishTables : i <= j}) - 1

(* Mutant: the first table, whether there is one or not.                   *)
str_init_First == current = IF english >= 0 THEN english ELSE 0

str_init ==
  current = IF english >= 0 THEN english ELSE IF table_count > 0 THEN 0 ELSE -1

(* The language in use after asking for another one.                       *)
str_select(cur, place) == IF place \in 0..(table_count - 1) THEN place ELSE cur

Has(place, id) == place >= 0 /\ id \in tables(place).ids

Text(cur, id) ==
  <<IF Has(cur, id) THEN cur ELSE IF Has(english, id) THEN english ELSE NoText, id>>
=============================================================================
