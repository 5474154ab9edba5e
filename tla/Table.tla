-------------------------------- MODULE Table --------------------------------
(***************************************************************************)
(* The indexed tables of the data image (firmware/core/table.c): a count,  *)
(* pairs of an id and an offset in the order of the ids, then the records. *)
(* One step is one turn of the loop of table_find; pair_lookup of dtc.c    *)
(* and str_get search the same way.                                        *)
(*   table  : the file as written - count is what it says, cells what is   *)
(*            there (key and offset), size its length                      *)
(*   wanted : the id looked for                                            *)
(*   lo, hi : the part of the table still to be searched                   *)
(*   answer : "searching", "none" or "found", then with the record         *)
(***************************************************************************)
EXTENDS Integers

CONSTANTS
  Word,       (* values of a uint32_t                                      *)
  Sizes       (* lengths a file can have                                   *)

ASSUME TableAssumption ==
  /\ Word \in Nat /\ Word > 0
  /\ Sizes \subseteq 0..(Word - 1)

VARIABLES table, wanted, lo, hi, answer, record

tvars == <<table, wanted, lo, hi, answer, record>>

NoRecord == [base |-> 0, size |-> 0]

(* A word read outside the file is 0.                                      *)
Key(t, k)     == IF k \in DOMAIN t.cells THEN t.cells[k].key ELSE 0
Pointer(t, k) == IF k \in DOMAIN t.cells THEN t.cells[k].off ELSE 0

(* 4 + n * 8 is computed in 32 bits.                                       *)
table_count(t) == IF (4 + t.count * 8) % Word <= t.size THEN t.count ELSE 0

RecordEnd(t, k) == IF k + 1 < table_count(t) THEN Pointer(t, k + 1) ELSE t.size

(* Mutant: the end of the record is not compared with the file.            *)
GoodEntry_AnyEnd(t, k) == Pointer(t, k) <= t.size /\ Pointer(t, k) <= RecordEnd(t, k)
GoodEntry(t, k) ==
  /\ Pointer(t, k) <= t.size
  /\ Pointer(t, k) <= RecordEnd(t, k)
  /\ RecordEnd(t, k) <= t.size

Entry(t, k) == [base |-> Pointer(t, k), size |-> RecordEnd(t, k) - Pointer(t, k)]

StartSearch(t, id) ==
  /\ table = t /\ wanted = id
  /\ lo = 0 /\ hi = table_count(t)
  /\ answer = "searching" /\ record = NoRecord

Mid == lo + (hi - lo) \div 2

Narrow_Short(k) ==
  \/ k < wanted /\ lo' = Mid + 1 /\ UNCHANGED hi
  \/ k > wanted /\ hi' = (IF Mid > lo THEN Mid - 1 ELSE Mid) /\ UNCHANGED lo

(* The half that cannot hold the id is dropped.                            *)
Narrow(k) ==
  \/ k < wanted /\ lo' = Mid + 1 /\ UNCHANGED hi
  \/ k > wanted /\ hi' = Mid /\ UNCHANGED lo

Look ==
  /\ answer = "searching" /\ lo < hi
  /\ \/ /\ Key(table, Mid) # wanted
        /\ Narrow(Key(table, Mid))
        /\ UNCHANGED <<answer, record>>
     \/ /\ Key(table, Mid) = wanted
        /\ answer' = IF GoodEntry(table, Mid) THEN "found" ELSE "none"
        /\ record' = IF GoodEntry(table, Mid) THEN Entry(table, Mid) ELSE NoRecord
        /\ UNCHANGED <<lo, hi>>
  /\ UNCHANGED <<table, wanted>>

NotThere ==
  /\ answer = "searching" /\ lo >= hi
  /\ answer' = "none"
  /\ UNCHANGED <<table, wanted, lo, hi, record>>

table_find == Look \/ NotThere

(* A table as it should be: the count is that of the cells, the ids ascend,*)
(* the records follow one another inside the file.                         *)
Sound(t) ==
  /\ DOMAIN t.cells = 0..(t.count - 1)
  /\ 4 + t.count * 8 <= t.size
  /\ \A k \in DOMAIN t.cells : t.cells[k].off <= t.size
  /\ \A j, k \in DOMAIN t.cells :
       j < k => t.cells[j].key < t.cells[k].key /\ t.cells[j].off <= t.cells[k].off

Cells  == [key : Nat, off : 0..(Word - 1)]
Tables == [count : 0..(Word - 1), size : Sizes, cells : UNION {[0..(n - 1) -> Cells] : n \in Nat}]

TableInit == table \in Tables /\ wanted \in Nat /\ StartSearch(table, wanted)
TableSpec == TableInit /\ [][table_find]_tvars

(* What is looked up is found if the table has it, whatever its size, and  *)
(* it is the record of that id (table_find, table_entry).                  *)
FindRight ==
  Sound(table) =>
    /\ answer = "none" => \A k \in DOMAIN table.cells : table.cells[k].key # wanted
    /\ answer = "found" => \E k \in DOMAIN table.cells :
                             table.cells[k].key = wanted /\ record = Entry(table, k)

(* The record handed out is inside its file, also when the table is not    *)
(* sorted, points anywhere, or claims a count that wraps in 32 bits.       *)
InsideFile ==
  /\ record.base >= 0 /\ record.size >= 0
  /\ record.base + record.size <= table.size
=============================================================================
