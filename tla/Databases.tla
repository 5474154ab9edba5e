------------------------------ MODULE Databases ------------------------------
(***************************************************************************)
(* One look into the databases of the data image, by the tools and screens *)
(* of the firmware (tool_cmd, tool_modules, tool_dtc, ui_module).          *)
(*   content : what a file says, as the format document has it; its bytes  *)
(*             are in file (module SysScan)                                *)
(*   asks    : what is looked up                                           *)
(*   says    : empty, then the answer                                      *)
(***************************************************************************)
EXTENDS DataLayout

(* The texts of fault codes (firmware/core/dtc.c, tool_dtc of app.c).  A   *)
(* string id is its group and its number in the group.                     *)
CONSTANT TextIds     (* ids that some string table has                     *)

NoText == <<>>
exists(group, n) == IF <<group, n>> \in TextIds THEN <<group, n>> ELSE NoText

dtc_obd_string(code)   == exists("FF00", code)
dtc_vag_string(number) == exists("A000", number)

(* Mutant: no text without the fault type.                                 *)
dtc_uds_string_Exact(code, fault_type) == exists("A100", code * 256 + fault_type)
(* The text of the code alone stands in for one with the fault type.       *)
dtc_uds_string(code, fault_type) ==
  LET exact == exists("A100", code * 256 + fault_type)
  IN  IF exact # NoText THEN exact ELSE exists("A100", code * 256)

(* A word of "dtc": a letter with four digits, or a number.                *)
tool_dtc(word) ==
  CASE word.kind = "letter" -> dtc_obd_string(word.system * 16384 + word.digits)
    [] word.n > 65535       -> dtc_uds_string((word.n \div 256) % 65536, word.n % 256)
    [] OTHER                -> dtc_vag_string(word.n)

(* Pairs of a key and a value, in the order of the keys.                   *)
RECURSIVE PairIn(_, _, _, _)
PairIn(t, key, lo, hi) ==
  LET mid == lo + (hi - lo) \div 2
      k   == U32(t, 4 + mid * 8)
  IN  IF lo >= hi THEN 0
      ELSE IF k = key THEN U32(t, 8 + mid * 8)
      ELSE IF k < key THEN PairIn(t, key, mid + 1, hi)
      ELSE PairIn(t, key, lo, mid)

pair_lookup(t, key) ==
  IF 4 + U32(t, 0) * 8 > Len(t) THEN 0 ELSE PairIn(t, key, 0, U32(t, 0))

(* The text of a field of a measuring block.                               *)
ds_block_text(t, group, block, field) ==
  IF t = <<>> THEN 0 ELSE pair_lookup(t, group * 65536 + block * 256 + field)

-----------------------------------------------------------------------------
CONSTANTS
  Configs,      (* contents of FUNCFG.BIN                                  *)
  Commands,     (* contents of records of Cmd.BIN                          *)
  Scans,        (* contents of SYSSCAN.BIN                                 *)
  Pairs,        (* contents of sections of DsTransID.BIN                   *)
  Keys, EvNames, DtcWords, Addresses, ProcIds, Wanted, Steps

VARIABLES content, asks, says

dvars == <<content, asks, says, svars>>

NotScanned(f) ==
  file = f /\ scan = "none" /\ piece = 0 /\ looked = 0 /\ ev_tables = <<>>

NoQuestion == [about |-> "none"]

DataInit ==
  /\ says = <<>>
  /\ \/ /\ content \in Configs /\ NotScanned(ConfigFile(content))
        /\ asks \in [about : {"config"}, wanted : Wanted, k : Steps]
     \/ /\ content \in Commands /\ NotScanned(CmdRecord(content))
        /\ asks = [about |-> "cmd"]
     \/ /\ content \in Scans /\ file = ScanFile(content)
        /\ sysscan_init /\ asks = NoQuestion
     \/ /\ content \in Pairs /\ NotScanned(PairFile(content))
        /\ asks \in [about : {"pair"}, key : Keys]
     \/ /\ content = <<>> /\ NotScanned(<<>>)
        /\ asks \in [about : {"dtc"}, word : DtcWords]

(* SYSSCAN.BIN is scanned when the firmware starts; then comes a question. *)
StartUp == find_ev_tables /\ UNCHANGED <<content, asks, says>>
AskScan ==
  /\ scan = "done" /\ asks = NoQuestion
  /\ asks' \in [about : {"modules"}] \cup [about : {"records"}, address : Addresses]
               \cup [about : {"procedure"}, id : ProcIds] \cup [about : {"name"}, name : EvNames]
  /\ UNCHANGED <<content, says, svars>>

Answer(a) == says = <<>> /\ says' = <<a>> /\ UNCHANGED <<content, asks, svars>>

AskConfig ==
  LET w == asks.wanted
      r == funcfg_find(file, w.kind, w.module, w.variant)
  IN  /\ asks.about = "config"
      /\ Answer([kinds |-> funcfg_kinds_for_module(file, w.module),
                 found |-> [j \in DOMAIN r |-> ReadConfig(file, r[j], asks.k)]])

AskCmd     == asks.about = "cmd" /\ Answer(tool_cmd(file))
AskModules == asks.about = "modules" /\ Answer(tool_modules(file))
AskRecords ==
  LET m == sysscan_find_module(file, asks.address)
  IN  /\ asks.about = "records"
      /\ Answer(IF m = <<>> THEN <<>>
                ELSE [k \in DOMAIN m[1].record |-> sysscan_record(file, m[1].record[k])])
AskProcedure == asks.about = "procedure" /\ Answer(sysscan_procedure(file, asks.id, MaxModRecords))
AskName      == asks.about = "name" /\ Answer(sysscan_ev_lookup(file, asks.name))
AskPair      == asks.about = "pair" /\ Answer(ds_block_text(file, 0, asks.key \div 256, asks.key % 256))
AskDtc       == asks.about = "dtc" /\ Answer(tool_dtc(asks.word))

Ask == \/ AskConfig \/ AskCmd \/ AskModules \/ AskRecords
       \/ AskProcedure \/ AskName \/ AskPair \/ AskDtc
       \/ StartUp \/ AskScan
-----------------------------------------------------------------------------
RECURSIVE Distinct(_)
Distinct(seq) ==
  IF seq = <<>> THEN <<>>
  ELSE <<Head(seq)>> \o Distinct(SelectSeq(Tail(seq), LAMBDA e : e # Head(seq)))

KindsOf(recs, module) ==
  LET own == SelectSeq(recs, LAMBDA r : r.module = module)
      all == Distinct([k \in DOMAIN own |-> own[k].kind])
  IN  SubSeq(all, 1, Upto(Len(all), KindCap))

Matching(recs, w) ==
  LET hits == SelectSeq(recs, LAMBDA r : r.kind = w.kind /\ r.module = w.module /\ r.variant = w.variant)
  IN  SubSeq(hits, 1, Upto(Len(hits), 1))

(* The text of a fault code: its own, or that of the code without its type.*)
Nearest(word) ==
  LET ids == IF word.kind = "letter" THEN << <<"FF00", word.system * 16384 + word.digits>> >>
             ELSE IF word.n < 65536 THEN << <<"A000", word.n>> >>
             ELSE << <<"A100", word.n>>, <<"A100", word.n - (word.n % 256)>> >>
      hits == SelectSeq(ids, LAMBDA i : i \in TextIds)
  IN  IF hits = <<>> THEN <<>> ELSE hits[1]

Expected ==
  CASE asks.about = "config"    ->
         LET hits == Matching(content, asks.wanted)
         IN  [kinds |-> KindsOf(content, asks.wanted.module),
              found |-> [j \in DOMAIN hits |-> ExpectedConfig(hits[j], asks.k)]]
    [] asks.about = "cmd"       -> ExpectedCmd(content)
    [] asks.about = "modules"   -> ExpectedModules(content)
    [] asks.about = "records"   -> ExpectedRecords(content, asks.address)
    [] asks.about = "procedure" -> ExpectedProcedure(content, asks.id, MaxModRecords)
    [] asks.about = "name"      -> ExpectedKey(content, asks.name)
    [] asks.about = "pair"      -> ExpectedValue(content, asks.key)
    [] asks.about = "dtc"       -> Nearest(asks.word)

(* What is read of a database is what its format says is there: every step *)
(* of every list, also behind lists longer than the arrays of the reader,  *)
(* and in chunks with variants; cut only where the arrays end.  A name is  *)
(* found in every table that some node refers to, if there are slots.      *)
DatabaseRead ==
  says # <<>> =>
    \/ says[1] = Expected
    \/ /\ asks.about = "name" /\ says[1] = <<>>
       /\ Len(content.nodes) + Twice(content) > MaxTables
=============================================================================
