------------------------------- MODULE SysScan -------------------------------
(***************************************************************************)
(* The control module database SYSSCAN.BIN (firmware/core/sysscan.c): the  *)
(* module index, the scan records, the scan procedures, and the tables of  *)
(* names ("EV_...") that are found by reading the whole file in pieces,    *)
(* once, before anything is looked up:                                     *)
(*   scan      : "none", "piece" (one is to be read), "nodes", then "done" *)
(*   piece     : where the piece begins, p in find_ev_tables               *)
(*   looked    : where in the file the next node is looked for             *)
(*   ev_tables : the tables found                                          *)
(***************************************************************************)
EXTENDS DataFile, FiniteSets

CONSTANTS
  Stride,       (* what a piece is moved on by, 1024                       *)
  MaxTables,    (* MAX_EV_TABLES                                           *)
  MaxModRecords,(* SYSSCAN_MAX_RECORDS                                     *)
  MaxItems,     (* room for items in a scan record, 6                      *)
  NameMax       (* longest name in a table, 48                             *)

ASSUME SysScanAssumption == Stride \in Nat \ {0} /\ MaxTables \in Nat

VARIABLES file, scan, piece, looked, ev_tables

svars == <<file, scan, piece, looked, ev_tables>>

NodeSize == 20
IndexPtr(f) == U32(f, 8)

(* Four words: 4, an id, the table, 0, and then FF FF FF FF; the table's   *)
(* first name starts with "EV_".                                           *)
EvTable(f, i) == U32(f, i + 8)
IsEvNode(f, i) ==
  LET tab == EvTable(f, i)
  IN  /\ U32(f, i) = 4 /\ U32(f, i + 12) = 0 /\ U32(f, i + 16) = -1
      /\ tab >= 0 /\ tab + 24 <= Len(f)
      /\ U8(f, tab) = 2 /\ SubSeq(f, tab + 22, tab + 24) = <<69, 86, 95>>

(* An index outside the file, and nothing is read.                         *)
sysscan_init ==
  /\ scan = IF IndexPtr(file) \in 0..(Len(file) - 1) THEN "piece" ELSE "none"
  /\ piece = IndexPtr(file) /\ looked = IndexPtr(file) /\ ev_tables = <<>>

(* Mutant: a piece is as long as it is moved on by.                        *)
PieceEnd_Short(p) == Upto(Len(file), p + Stride)
PieceEnd(p)       == Upto(Len(file), p + Stride + NodeSize)

(* Where in the piece there is still room for a node.                      *)
PlacesLeft == looked..(PieceEnd(piece) - NodeSize)

More == piece + NodeSize <= Len(file) /\ Len(ev_tables) < MaxTables

ReadPiece ==
  /\ scan = "piece" /\ More
  /\ scan' = "nodes"
  /\ UNCHANGED <<file, piece, looked, ev_tables>>

EnterTable ==
  /\ scan = "nodes"
  /\ \E i \in PlacesLeft :
       /\ IsEvNode(file, i) /\ \A j \in looked..(i - 1) : ~IsEvNode(file, j)
       /\ looked' = i + 1
       /\ ev_tables' = IF Len(ev_tables) < MaxTables THEN Append(ev_tables, EvTable(file, i))
                       ELSE ev_tables
  /\ UNCHANGED <<file, scan, piece>>

(* A piece shorter than the buffer is the last.                            *)
NextPiece ==
  /\ scan = "nodes" /\ (\A i \in PlacesLeft : ~IsEvNode(file, i))
  /\ IF Len(file) - piece < Stride + NodeSize
     THEN scan' = "done" /\ UNCHANGED <<piece, looked>>
     ELSE scan' = "piece" /\ piece' = piece + Stride /\ looked' = piece + Stride
  /\ UNCHANGED <<file, ev_tables>>

ScanEnds ==
  /\ scan = "piece" /\ ~More /\ scan' = "done"
  /\ UNCHANGED <<file, piece, looked, ev_tables>>

find_ev_tables == ReadPiece \/ EnterTable \/ NextPiece \/ ScanEnds

ScanInit == file \in Seq(0..255) /\ sysscan_init
ScanSpec == ScanInit /\ [][find_ev_tables]_svars

(* The nodes that refer to a table of names, wherever they are in the file,*)
(* and those of them where one piece ends and the next begins.             *)
EvNodes   == {i \in IndexPtr(file)..(Len(file) - NodeSize) : IsEvNode(file, i)}
ReadTwice == {i \in EvNodes : i > IndexPtr(file) /\ (i - IndexPtr(file)) % Stride = 0}

(* Reading in pieces finds the tables that some node refers to, no more and*)
(* no less, wherever the pieces meet; unless there is no slot left, with a *)
(* node where two pieces meet taking two (find_ev_tables).                 *)
EvFound ==
  LET referred == {EvTable(file, i) : i \in EvNodes}
      found    == {ev_tables[k] : k \in DOMAIN ev_tables}
  IN  scan = "done" =>
        \/ found = referred
        \/ /\ found \subseteq referred
           /\ Cardinality(EvNodes) + Cardinality(ReadTwice) > MaxTables
-----------------------------------------------------------------------------
(* Rows of a number, a key of two words, and a name with its length.       *)
RowName(f, q) ==
  LET text == SubSeq(f, q + 11, q + 10 + U16(f, q + 8) - 1)
      nul  == SelectInSeq(text, LAMBDA c : c = 0)
  IN  IF nul = 0 THEN text ELSE SubSeq(text, 1, nul - 1)
table_lookup(f, tab, name) ==
  LET row[q \in Nat, left \in Int] ==
        IF left = 0 \/ q + 10 > Len(f) \/ U16(f, q + 8) > NameMax THEN <<>>
        ELSE IF U16(f, q + 8) > Len(name) /\ RowName(f, q) = name
             THEN << [sub |-> U16(f, q + 4), x |-> U16(f, q + 6)] >>
             ELSE row[q + 10 + U16(f, q + 8), left - 1]
  IN  row[tab + 11, U32(f, tab + 1)]

sysscan_ev_lookup(f, name) ==
  LET k == SelectInSeq(ev_tables, LAMBDA t : table_lookup(f, t, name) # <<>>)
  IN  IF k = 0 THEN <<>> ELSE table_lookup(f, ev_tables[k], name)
-----------------------------------------------------------------------------
ModuleStep(f, p) == p + 5 + 5 * U8(f, p + 4)

module_count(f) ==
  LET count[p \in Nat] ==
        IF p + 5 > Len(f) \/ U32(f, p) = -1 THEN 0 ELSE 1 + count[ModuleStep(f, p)]
  IN  count[IndexPtr(f)]

(* A module has no more records than there is room for.                    *)
sysscan_module(f, i) ==
  LET p == Walked(IndexPtr(f), i, LAMBDA q : ModuleStep(f, q))
  IN  [address |-> U32(f, p),
       record  |-> [k \in 1..Upto(U8(f, p + 4), MaxModRecords) |-> U32(f, p + 1 + 5 * k)]]

sysscan_find_module(f, address) ==
  LET hits == {i \in 0..(module_count(f) - 1) : sysscan_module(f, i).address = address}
  IN  IF hits = {} THEN <<>> ELSE <<sysscan_module(f, CHOOSE i \in hits : \A j \in hits : i <= j)>>

(* Tails are numbered from 1; anything else ends them.                     *)
Tails(f, at) ==
  LET from[p \in Nat, n \in Nat] ==
        IF p + 2 > Len(f) \/ U16(f, p) # n THEN <<>>
        ELSE << [sub |-> U16(f, p + 2), x |-> U16(f, p + 4), v |-> U32(f, p + 6)] >>
             \o from[p + 10, n + 1]
  IN  from[at, 1]

sysscan_record(f, offset) ==
  LET script == U8(f, offset + 31) = 2
      n      == IF script THEN 0 ELSE Upto(U8(f, offset + 37), MaxItems)
      q(i)   == offset + 31 + 7 * i
  IN  IF offset + 38 > Len(f) \/ U32(f, offset) # 8 THEN <<>>
      ELSE << [flags |-> U8(f, offset + 13), script |-> script,
               items |-> [i \in 1..n |-> [key |-> U16(f, q(i)), addr |-> U8(f, q(i) + 2),
                                          type |-> U8(f, q(i) + 3), y |-> U16(f, q(i) + 4),
                                          z |-> U8(f, q(i) + 6)]],
               tails |-> Tails(f, offset + 38 + 7 * n)] >>

(* A procedure's records, as many as the caller has room for.              *)
sysscan_procedure(f, id, cap) ==
  LET from[p \in Nat] ==
        CASE p + 6 > Len(f) \/ U32(f, p) = -1 -> <<>>
          [] U32(f, p) = id                   ->
               << [k \in 1..Upto(U8(f, p + 5), cap) |-> U32(f, p + 2 + 4 * k)] >>
          [] OTHER                            -> from[p + 6 + 4 * U8(f, p + 5)]
  IN  from[12]

(* What "modules" lists: each module with its records and data sets.       *)
IsDataSet(t) == t.x % 256 \in 48..52
tool_modules(f) ==
  [i \in 1..module_count(f) |->
     LET m == sysscan_module(f, i - 1)
         sets(r) == IF sysscan_record(f, r) = <<>> THEN <<>>
                    ELSE SelectSeq(sysscan_record(f, r)[1].tails, IsDataSet)
     IN  [address |-> m.address, records |-> Len(m.record),
          sets |-> Len(FlattenSeq([k \in DOMAIN m.record |-> sets(m.record[k])]))]]
=============================================================================
