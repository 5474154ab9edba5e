------------------------------ MODULE DataLayout ------------------------------
(***************************************************************************)
(* How the files of the data image are written (docs/data-image-format.md, *)
(* sections 8, 9, 10 and 15), from contents that are records and sequences.*)
(* What the readers should give back is in ExpectedConfig and the others.  *)
(***************************************************************************)
EXTENDS FuncCfg, SysScan, Cmd, FiniteSets

All(parts)       == FlattenSeq(parts)
Each(seq, Made(_)) == FlattenSeq([k \in DOMAIN seq |-> Made(seq[k])])
Zeros(n)         == [k \in 1..n |-> 0]
-----------------------------------------------------------------------------
(* FUNCFG.BIN, section 15.                                                 *)
CmdList(cmds) ==
  <<Len(cmds)>> \o Each(cmds, LAMBDA c : Le32(c.cmd) \o Le16(c.arg) \o <<c.flag>>)
Node == Zeros(7)

ConnectChunk(steps) ==
  Le32(Len(steps)) \o Le32(0)
  \o Each(steps, LAMBDA s : Le32(s.seq) \o Le32(s.exp) \o Le16(0) \o CmdList(s.cmds))
KeepaliveChunk(steps) ==
  Le32(0) \o Le16(Len(steps)) \o Each(steps, LAMBDA s : Le32(s.seq) \o Le32(s.exp) \o CmdList(s.cmds))

VersionBody(v) ==
  <<9>> \o Le16(7) \o Zeros(16) \o <<v.fmt>> \o Le16(Len(v.steps))
  \o Each(v.steps, LAMBDA s : Le16(s.seq) \o Le32(s.label) \o <<0>>
            \o (IF v.fmt = 3 THEN <<2>> \o Le16(256) \o Le32(77)
                ELSE Le16(0) \o Le32(s.exp) \o CmdList(s.cmds)))

DtcBody(d) ==
  <<2, 1>> \o Le16(65533) \o Le16(3) \o Le32(5) \o Le32(0) \o <<d.form>> \o Zeros(12) \o Le16(Len(d.steps))
  \o Each(d.steps, LAMBDA s : Le16(s.seq) \o Le32(1796) \o Le32(s.exp) \o Le16(0) \o Le16(1)
            \o Le16(1024) \o CmdList(s.cmds))

(* The table of channels follows the chunk, whose body starts at base.     *)
StreamBody(s, base) ==
  LET ids   == Each(s.ids, Le16)
      table == base + 28 + Len(ids)
  IN  <<21>> \o Le16(1) \o Le32(1) \o Zeros(11) \o Le16(1) \o Le32(table) \o Le16(Len(s.ids)) \o ids
      \o Le16(0) \o Le16(Len(s.table))
      \o Each(s.table, LAMBDA c : Le16(c.id) \o Le32(c.name) \o Le32(1) \o Le32(4) \o CmdList(c.cmds)
                \o Le16(0) \o Le32(c.exp) \o CmdList(c.write))

(* A chunk at base, of one variant or with a header for several.           *)
Variants(base, variants, body(_)) ==
  LET n     == Len(variants)
      first == base + 9 + 8 * n
      node(k) == Node \o body(variants[k])
      place(k) == first + Len(All([j \in 1..(k - 1) |-> node(j)]))
  IN  IF n = 1 THEN node(1)
      ELSE <<255>> \o Le16(n) \o All([k \in 1..n |-> Le32(1794)]) \o Le32(0) \o Le16(0)
           \o All([k \in 1..n |-> Le32(place(k))]) \o All([k \in 1..n |-> node(k)])

ItemChunk(l) ==
  Node \o Le32(l.title) \o Zeros(7) \o Le32(l.title) \o Le32(Len(l.items))
  \o Each(l.items, LAMBDA c : Le32(c) \o Zeros(16))

ProtoChunk(p) ==
  <<p.kind, 0, 0>> \o Zeros(8) \o <<3, 6, 14, 0>> \o <<Len(p.ids)>>
  \o Each(p.ids, LAMBDA id : IF p.kind = 3 THEN Le32(id * 8) ELSE Le32(65536 + id * 32))
  \o <<0>> \o Each(p.timing, Le16)

Chunk(kind, c, base) ==
  CASE kind = "proto"     -> ProtoChunk(c)
    [] kind = "connect"   -> ConnectChunk(c)
    [] kind = "keepalive" -> KeepaliveChunk(c)
    [] kind = "version"   -> Variants(base, c, VersionBody)
    [] kind = "dtc"       -> Variants(base, c, DtcBody)
    [] kind = "stream"    -> Node \o StreamBody(c, base + 7)
    [] kind = "items"     -> ItemChunk(c)

(* The chunks of a record in the order of their pointers; "none" for 0.    *)
Slots(r) ==
  << <<"proto", r.proto>>, <<"connect", r.connect>>, <<"keepalive", r.keepalive>>,
     <<"version", r.version>>, <<"dtc", r.dtc>>, <<"none", 0>>, <<"stream", r.stream>> >>
  \o [k \in DOMAIN r.items |-> <<"items", r.items[k]>>]
Given(slot) == slot[1] # "none" /\ slot[2] # <<>>

TableSize(recs) == Len(Each(recs, LAMBDA r : Zeros(33 + 4 * Len(r.items))))

(* All chunks after the table: their bytes and where each one is.          *)
Pool(recs) ==
  FoldLeft(LAMBDA a, s :
             LET base == TableSize(recs) + 33 + Len(a.bytes)
             IN  IF Given(s) THEN [bytes |-> a.bytes \o Chunk(s[1], s[2], base), at |-> Append(a.at, base)]
                 ELSE [a EXCEPT !.at = Append(@, 0)],
           [bytes |-> <<>>, at |-> <<>>], Each(recs, Slots))

ConfigFile(recs) ==
  LET pool == Pool(recs)
      skip(k) == Len(Each(SubSeq(recs, 1, k - 1), Slots))
      row(k)  == LET r == recs[k]
                     at(j) == Le32(pool.at[skip(k) + j])
                 IN  Le16(r.variant) \o <<r.kind, r.module>> \o All([j \in 1..7 |-> at(j)])
                     \o <<Len(r.items)>> \o All([j \in 1..Len(r.items) |-> at(7 + j)])
  IN  All([k \in DOMAIN recs |-> row(k)])
      \o Le16(65535) \o <<255, 255>> \o Le32(0) \o Le32(TableSize(recs)) \o Zeros(21) \o pool.bytes

(* What the functions of funcfg.c should say of a record.                  *)
Kept(cmds)    == SubSeq(cmds, 1, Upto(Len(cmds), MaxCmds))
Nth(seq, k)   == IF k < Len(seq) THEN <<seq[k + 1]>> ELSE Absent
Plain(found)  == [k \in DOMAIN found |->
                    [seq |-> found[k].seq, exp |-> found[k].exp, cmds |-> Kept(found[k].cmds)]]
First(variants) == IF variants = <<>> THEN <<>> ELSE variants[1].steps

ExpectedConfig(r, k) ==
  [connect   |-> Plain(Nth(r.connect, k)),
   keepalive |-> Plain(Nth(r.keepalive, k)),
   version   |-> IF r.version # <<>> /\ r.version[1].fmt = 3
                 THEN [j \in DOMAIN Nth(First(r.version), k) |->
                         [seq |-> First(r.version)[k + 1].seq, exp |-> 0, cmds |-> <<>>]]
                 ELSE Plain(Nth(First(r.version), k)),
   labels    |-> [j \in DOMAIN Nth(First(r.version), k) |-> First(r.version)[k + 1].label],
   dtc       |-> IF r.dtc # <<>> /\ r.dtc[1].form = 6 THEN Plain(Nth(First(r.dtc), k)) ELSE Absent,
   channels  |-> IF r.stream = <<>> THEN -1 ELSE Len(r.stream.ids),
   channel   |-> IF r.stream = <<>> \/ k >= Len(r.stream.ids) THEN Absent
                 ELSE LET hit == SelectSeq(r.stream.table, LAMBDA c : c.id = r.stream.ids[k + 1])
                      IN  [j \in DOMAIN hit |-> [id |-> hit[j].id, name |-> hit[j].name,
                                                 cmds |-> Kept(hit[j].cmds), exp |-> hit[j].exp]],
   proto     |-> IF r.proto = <<>> THEN Absent
                 ELSE <<[r.proto EXCEPT !.ids = SubSeq(@, 1, Upto(Len(@), 2))]>>,
   titles    |-> [j \in DOMAIN r.items |-> [title |-> r.items[j].title, count |-> Len(r.items[j].items)]],
   captions  |-> [j \in DOMAIN r.items |-> Nth(r.items[j].items, k)]]

(* The same as the functions give it.                                      *)
ReadConfig(f, r, k) ==
  LET Bare(step) == [j \in DOMAIN step |-> [seq |-> step[j].seq, exp |-> step[j].exp, cmds |-> step[j].cmds]]
      version == funcfg_version_step(f, r, k)
      extra   == SelectSeq(<<6, 7, 8>>, LAMBDA s : funcfg_items(f, r, s) # Absent)
  IN  [connect   |-> funcfg_connect_step(f, r, k),
       keepalive |-> funcfg_keepalive_step(f, r, k),
       version   |-> Bare(version),
       labels    |-> [j \in DOMAIN version |-> version[j].label],
       dtc       |-> funcfg_dtc_entry(f, r, k),
       channels  |-> funcfg_channel_count(f, r),
       channel   |-> funcfg_channel(f, r, k),
       proto     |-> funcfg_proto(f, r),
       titles    |-> [j \in DOMAIN extra |-> funcfg_items(f, r, extra[j])[1]],
       captions  |-> [j \in DOMAIN extra |-> funcfg_item(f, r, extra[j], k)]]
-----------------------------------------------------------------------------
(* Cmd.BIN, section 8.  A message goes out in chunks of seven bytes.       *)
Chunks(message) ==
  LET n == (Len(message) + 6) \div 7
  IN  [k \in 1..n |-> [id |-> <<>>, data |-> <<IF k = n THEN 47 + k ELSE 31 + k>>
                                            \o SubSeq(message, 7 * k - 6, Upto(7 * k, Len(message)))]]
PacketsOf(c)  == IF "message" \in DOMAIN c THEN Chunks(c.message) ELSE c.packets
PacketBytes(pk) ==
  LET body == (IF pk.id = <<>> THEN <<>> ELSE <<(pk.id[1] * 32) \div 256, (pk.id[1] * 32) % 256>>) \o pk.data
  IN  <<1 + Len(body), 128 + Len(pk.data)>> \o body
CmdRecord(c) ==
  <<c.len, c.kind>> \o c.h \o (IF c.kind = 1 /\ c.h[1] = 5 THEN <<8, 9>> ELSE <<>>)
  \o Each(PacketsOf(c), PacketBytes)

ExpectedCmd(c) ==
  << [packets |-> IF c.kind \in {1, 16} THEN PacketsOf(c) ELSE <<>>,
      message |-> IF "message" \in DOMAIN c THEN <<SubSeq(c.message, 1, Upto(Len(c.message), MessageCap))>>
                  ELSE <<>>,
      number  |-> IF c.kind \in {1, 96} THEN c.number ELSE 0] >>
-----------------------------------------------------------------------------
(* SYSSCAN.BIN, section 9: procedures, the module index, records, tables of*)
(* names, and the nodes that refer to them after some padding.             *)
Terminator == Le32(-1)
RecordBytes(r) ==
  Le32(8) \o Le32(1) \o Zeros(5) \o <<r.flags>> \o Zeros(17) \o <<IF r.script THEN 2 ELSE 0>>
  \o Zeros(5) \o <<Len(r.items)>>
  \o Each(r.items, LAMBDA i : Le16(i.key) \o <<i.addr, i.type>> \o Le16(i.y) \o <<i.z>>)
  \o All([k \in DOMAIN r.tails |-> LET t == r.tails[k]
                                    IN  Le16(k) \o Le16(t.sub) \o Le16(t.x) \o Le32(t.v)])
  \o Le16(65535)
NamesBytes(rows) ==
  <<2>> \o Le32(Len(rows)) \o Zeros(6)
  \o Each(rows, LAMBDA r : Le32(6) \o Le16(r.sub) \o Le16(r.x) \o Le16(Len(r.name) + 1) \o r.name \o <<0>>)

IndexAt(c)    == 12 + 4 + Len(Each(c.procs, LAMBDA p : Zeros(6 + 4 * Len(p.records))))
RecordsAt(c)  == IndexAt(c) + 4 + Len(Each(c.modules, LAMBDA m : Zeros(5 + 5 * Len(m.records))))
RecordAt(c, k) == RecordsAt(c) + Len(Each(SubSeq(c.records, 1, k - 1), RecordBytes))
NamesAt(c, k)  == RecordAt(c, Len(c.records) + 1) + Len(Each(SubSeq(c.names, 1, k - 1), NamesBytes))

ScanFile(c) ==
  LET at(k) == Le32(RecordAt(c, k))
  IN  Le32(12) \o Le32(0) \o Le32(IndexAt(c))
      \o Each(c.procs, LAMBDA p : Le32(p.id) \o <<0, Len(p.records)>> \o Each(p.records, at))
      \o Terminator
      \o Each(c.modules, LAMBDA m : Le32(m.address) \o <<Len(m.records)>>
                                    \o Each(m.records, LAMBDA k : <<2>> \o at(k)))
      \o Terminator
      \o Each(c.records, RecordBytes) \o Each(c.names, NamesBytes)
      \o Each(c.nodes, LAMBDA n : Zeros(n.gap) \o Le32(4) \o Le32(3) \o Le32(NamesAt(c, n.names))
                                  \o Le32(0) \o Terminator)
      \o Zeros(c.tail)

NodeAt(c, k) ==
  NamesAt(c, Len(c.names) + 1) + Len(Each(SubSeq(c.nodes, 1, k), LAMBDA n : Zeros(n.gap + NodeSize))) - NodeSize

(* A node where two pieces meet is in both.                                *)
Twice(c) == Cardinality({k \in DOMAIN c.nodes : (NodeAt(c, k) - IndexAt(c)) % Stride = 0})

ExpectedModules(c) ==
  [i \in DOMAIN c.modules |->
     LET kept == SubSeq(c.modules[i].records, 1, Upto(Len(c.modules[i].records), MaxModRecords))
         sets(k) == SelectSeq(c.records[k].tails, LAMBDA t : t.x % 256 \in 48..52)
     IN  [address |-> c.modules[i].address, records |-> Len(kept), sets |-> Len(Each(kept, sets))]]

ExpectedRecords(c, address) ==
  LET m == SelectSeq(c.modules, LAMBDA n : n.address = address)
  IN  IF m = <<>> THEN <<>>
      ELSE [k \in 1..Upto(Len(m[1].records), MaxModRecords) |-> <<c.records[m[1].records[k]]>>]

ExpectedProcedure(c, id, cap) ==
  LET p == SelectSeq(c.procs, LAMBDA q : q.id = id)
  IN  IF p = <<>> THEN <<>>
      ELSE << [k \in 1..Upto(Len(p[1].records), cap) |-> RecordAt(c, p[1].records[k])] >>

(* The key of a name: of the first row that has it in a table referred to. *)
ExpectedKey(c, name) ==
  LET rows == SelectSeq(Each(c.nodes, LAMBDA n : c.names[n.names]), LAMBDA r : r.name = name)
  IN  IF rows = <<>> THEN <<>> ELSE << [sub |-> rows[1].sub, x |-> rows[1].x] >>
-----------------------------------------------------------------------------
(* DsTransID.BIN, section 10.                                              *)
PairFile(pairs) == Le32(Len(pairs)) \o Each(pairs, LAMBDA p : Le32(p.key) \o Le32(p.value))
ExpectedValue(pairs, key) ==
  LET hit == SelectSeq(pairs, LAMBDA p : p.key = key)
  IN  IF hit = <<>> THEN 0 ELSE hit[1].value
=============================================================================
