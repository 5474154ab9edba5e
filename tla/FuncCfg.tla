------------------------------- MODULE FuncCfg -------------------------------
(***************************************************************************)
(* Reading FUNCFG.BIN (firmware/core/funcfg.c): the table of records, and  *)
(* the lists of steps that a record points at.  A list is walked from its  *)
(* start for every step that is asked for.                                 *)
(***************************************************************************)
EXTENDS DataFile

CONSTANTS
  MaxCmds,      (* FUNCFG_MAX_CMDS                                         *)
  KindCap       (* kinds the caller of funcfg_kinds_for_module has room for*)

Absent == <<>>        (* -1 *)

(* Where the records are, one after the other, in the first n bytes.       *)
RECURSIVE RecordsFrom(_, _, _)
RecordsFrom(f, p, n) ==
  IF p + 33 > n THEN <<>> ELSE <<p>> \o RecordsFrom(f, p + 33 + 4 * U8(f, p + 32), n)

(* The table ends at the record of kind FF, which says where.              *)
funcfg_init(f) ==
  LET all == RecordsFrom(f, 0, Len(f))
      k   == SelectInSeq(all, LAMBDA p : U8(f, p + 2) = 255)
  IN  IF k = 0 THEN 0 ELSE U32(f, all[k] + 8)
Places(f) == RecordsFrom(f, 0, funcfg_init(f))

(* Slots 0 to 5 are always there, up to three more are counted.            *)
read_record(f, p) ==
  << [proto |-> U32(f, p + 4),
      slot  |-> [i \in 0..8 |->
                   IF i < 6 THEN U32(f, p + 8 + 4 * i)
                   ELSE IF i - 6 < U8(f, p + 32) THEN U32(f, p + 33 + 4 * (i - 6)) ELSE 0]] >>

funcfg_find(f, kind, module, variant) ==
  LET all == Places(f)
      k   == SelectInSeq(all, LAMBDA p : /\ U8(f, p + 2) = kind /\ U8(f, p + 3) = module
                                         /\ U16(f, p) = variant)
  IN  IF k = 0 THEN Absent ELSE read_record(f, all[k])

funcfg_kinds_for_module(f, module) ==
  LET own == SelectSeq(Places(f), LAMBDA p : U8(f, p + 3) = module)
      Noted(kinds, k) == IF Contains(kinds, k) \/ Len(kinds) >= KindCap THEN kinds ELSE Append(kinds, k)
  IN  FoldLeft(LAMBDA kinds, p : Noted(kinds, U8(f, p + 2)), <<>>, own)

(* An id is kept in the form of the CAN controller's registers.            *)
funcfg_proto(f, r) ==
  LET q    == r.proto
      Id(p) == IF U8(f, q) = 3 THEN U32(f, p) \div 8 ELSE U16(f, p) \div 32
      t    == q + 16 + 4 * U8(f, q + 15) + 1
  IN  IF q = 0 \/ q + 33 > Len(f) THEN Absent
      ELSE << [kind |-> U8(f, q), ids |-> [i \in 1..Upto(U8(f, q + 15), 2) |-> Id(q + 12 + 4 * i)],
               timing |-> [i \in 1..6 |-> U16(f, t + 2 * (i - 1))]] >>
-----------------------------------------------------------------------------
(* A list of commands: the ones that fit are kept; it ends after all of    *)
(* them.                                                                   *)
read_cmds(f, p) ==
  [i \in 1..Upto(U8(f, p), MaxCmds) |->
     LET q == p + 1 + 7 * (i - 1) IN [cmd |-> U32(f, q), arg |-> U16(f, q + 4), flag |-> U8(f, q + 6)]]

(* Mutant: it ends after the commands that were kept.                      *)
CmdsEnd_Kept(f, p) == p + 1 + 7 * Upto(U8(f, p), MaxCmds)
CmdsEnd(f, p)      == p + 1 + 7 * U8(f, p)

(* Step k of n, the first at p, with its commands after a head of h bytes. *)
StepOf(f, k, n, p, h, Made(_)) ==
  IF k >= n THEN Absent ELSE <<Made(Walked(p, k, LAMBDA q : CmdsEnd(f, q + h)))>>

funcfg_connect_step(f, r, k) ==
  LET p == r.slot[0]
  IN  IF p = 0 THEN Absent
      ELSE StepOf(f, k, U32(f, p), p + 8, 10,
                  LAMBDA q : [seq |-> U32(f, q), exp |-> U32(f, q + 4), cmds |-> read_cmds(f, q + 10)])

funcfg_keepalive_step(f, r, k) ==
  LET p == r.slot[1]
  IN  IF p = 0 THEN Absent
      ELSE StepOf(f, k, U16(f, p + 4), p + 6, 8,
                  LAMBDA q : [seq |-> U32(f, q), exp |-> U32(f, q + 4), cmds |-> read_cmds(f, q + 8)])

(* A chunk with variants: the first one's node.                            *)
chunk_body(f, p) ==
  7 + (IF U8(f, p) = 255 THEN U32(f, p + 3 + 4 * U16(f, p + 1) + 6) ELSE p)

funcfg_version_step(f, r, k) ==
  LET b == chunk_body(f, r.slot[2])
      n == U16(f, b + 20)
      p == b + 22
      Plain(q) == [seq |-> U16(f, q), label |-> U32(f, q + 2), exp |-> 0, cmds |-> <<>>]
      Sent(q)  == [Plain(q) EXCEPT !.exp = U32(f, q + 9), !.cmds = read_cmds(f, q + 13)]
  IN  IF r.slot[2] = 0 THEN Absent
      ELSE IF U8(f, b + 19) = 3 THEN IF k >= n THEN Absent ELSE <<Plain(p + 14 * k)>>
      ELSE StepOf(f, k, n, p, 13, Sent)

(* The forms of K-line and TP2.0 are not decoded.                          *)
funcfg_dtc_entry(f, r, k) ==
  LET b == chunk_body(f, r.slot[3])
  IN  IF r.slot[3] = 0 \/ U8(f, b) # 2 \/ U8(f, b + 14) # 6 THEN Absent
      ELSE StepOf(f, k, U16(f, b + 27), b + 29, 16,
                  LAMBDA q : [seq |-> U16(f, q), exp |-> U32(f, q + 6), cmds |-> read_cmds(f, q + 16)])

HasStream(f, r)     == r.slot[5] # 0 /\ U8(f, chunk_body(f, r.slot[5])) = 21
funcfg_channel_count(f, r) ==
  IF HasStream(f, r) THEN U16(f, chunk_body(f, r.slot[5]) + 24) ELSE -1

(* Each channel of the table has two lists of commands, to read and write. *)
funcfg_channel(f, r, k) ==
  LET b    == chunk_body(f, r.slot[5])
      want == U16(f, b + 26 + 2 * k)
      t    == U32(f, b + 20)
      Place(i) == Walked(t + 2, i, LAMBDA q : CmdsEnd(f, CmdsEnd(f, q + 14) + 6))
      hits == {i \in 0..(U16(f, t) - 1) : U16(f, Place(i)) = want}
      q    == Place(CHOOSE i \in hits : \A j \in hits : i <= j)
  IN  IF ~HasStream(f, r) \/ k >= funcfg_channel_count(f, r) \/ hits = {} THEN Absent
      ELSE << [id |-> want, name |-> U32(f, q + 2), cmds |-> read_cmds(f, q + 14),
               exp |-> U32(f, CmdsEnd(f, q + 14) + 2)] >>

(* Only basic settings, adaptation and login have lists of items.          *)
funcfg_items(f, r, slot) ==
  IF slot \notin 6..8 \/ r.slot[slot] = 0 THEN Absent
  ELSE << [title |-> U32(f, r.slot[slot] + 7), count |-> U32(f, r.slot[slot] + 22)] >>

funcfg_item(f, r, slot, k) ==
  LET items == funcfg_items(f, r, slot)
  IN  IF items = Absent \/ k >= items[1].count THEN Absent
      ELSE << U32(f, r.slot[slot] + 26 + 20 * k) >>
=============================================================================
