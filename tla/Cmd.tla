--------------------------------- MODULE Cmd ---------------------------------
(***************************************************************************)
(* The records of Cmd.BIN (firmware/core/cmd.c): a header of seven bytes   *)
(* and packets, each with its length first.                                *)
(***************************************************************************)
EXTENDS DataFile

CONSTANTS
  BlockMax,     (* packets longer than this end the list, 40               *)
  MessageCap    (* room of the caller of cmd_kline_message                 *)

(* Keepalives carrying K-line chunks have two extra bytes first.           *)
cmd_get(rec) ==
  LET kind  == U8(rec, 1)
      extra == IF kind = 1 /\ U8(rec, 2) = 5 /\ Len(rec) >= 9 THEN 2 ELSE 0
  IN  IF Len(rec) < 7 THEN <<>>
      ELSE << [rec |-> rec, kind |-> kind, h |-> SubSeq(rec, 3, 7), payload |-> 7 + extra] >>

(* Mutant: every packet has an id.                                         *)
Packet_AlwaysId(blk) ==
  [id |-> <<(256 * blk[2] + blk[3]) \div 32>>, data |-> SubSeq(blk, 4, Upto(Len(blk), 11))]

(* The id is there when the packet is that much longer than its data.      *)
Packet(blk) ==
  LET has_id == Len(blk) - 1 = (blk[1] % 16) + 2
      first  == IF has_id THEN 4 ELSE 2
  IN  [id   |-> IF has_id THEN <<(256 * blk[2] + blk[3]) \div 32>> ELSE <<>>,
       data |-> SubSeq(blk, first, Upto(Len(blk), first + 7))]

(* cmd_next_packet until it gives 0.                                       *)
RECURSIVE Packets(_, _)
Packets(rec, p) ==
  LET blen == U8(rec, p)
  IN  IF p >= Len(rec) \/ blen = 0 \/ blen > BlockMax \/ p + 1 + blen > Len(rec) THEN <<>>
      ELSE <<Packet(SubSeq(rec, p + 2, p + 1 + blen))>> \o Packets(rec, p + 1 + blen)

(* Chunks are marked 2N (more follow) or 3N (last); others are not part of *)
(* the message.                                                            *)
IsChunk(pk) == pk.data # <<>> /\ pk.data[1] \div 16 \in {2, 3}
Chunked(c)  == \/ c.kind = 16 /\ c.h[1] \in {6, 7}
               \/ c.kind = 1 /\ c.h[1] \in {5, 17}

cmd_kline_message(c) ==
  LET chunks == SelectSeq(Packets(c.rec, c.payload), IsChunk)
      all    == FlattenSeq([k \in DOMAIN chunks |-> Tail(chunks[k].data)])
  IN  IF Chunked(c) THEN <<SubSeq(all, 1, Upto(Len(all), MessageCap))>> ELSE <<>>

cmd_period_ms(c) == 256 * c.h[4] + c.h[5]
cmd_number(c)    == ((c.h[2] * 256 + c.h[3]) * 256 + c.h[4]) * 256 + c.h[5]

Sends(c) == c.kind = 16 \/ (c.kind = 1 /\ c.h[1] \in {2, 5, 17})

(* What "cmd <id>" lists of a record.                                      *)
tool_cmd(rec) ==
  LET c == cmd_get(rec)[1]
  IN  IF cmd_get(rec) = <<>> THEN <<>>
      ELSE << [packets |-> IF Sends(c) THEN Packets(c.rec, c.payload) ELSE <<>>,
               message |-> IF Sends(c) THEN cmd_kline_message(c) ELSE <<>>,
               number  |-> CASE c.kind = 1  -> cmd_period_ms(c)
                             [] c.kind = 96 -> cmd_number(c)
                             [] OTHER       -> 0] >>
=============================================================================
