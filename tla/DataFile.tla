------------------------------- MODULE DataFile -------------------------------
(***************************************************************************)
(* The windows of the data image (firmware/core/res.c): a file is the      *)
(* sequence of its bytes, read at an offset from 0.  A number that is not  *)
(* wholly inside the file is read as 0.  A u32 is written as a signed      *)
(* number here, so FF FF FF FF is -1.                                      *)
(***************************************************************************)
EXTENDS Integers, Sequences, SequencesExt

U8(f, p)  == IF p \in 0..(Len(f) - 1) THEN f[p + 1] ELSE 0
U16(f, p) == IF p \in 0..(Len(f) - 2) THEN f[p + 1] + 256 * f[p + 2] ELSE 0
U32(f, p) ==
  LET top == IF f[p + 4] > 127 THEN f[p + 4] - 256 ELSE f[p + 4]
  IN  IF p \in 0..(Len(f) - 4) THEN U16(f, p) + 65536 * (f[p + 3] + 256 * top) ELSE 0

Upto(n, cap) == IF n < cap THEN n ELSE cap

(* The place after k turns of a walk that starts at p.                     *)
Walked(p, k, Step(_)) == FoldLeft(LAMBDA q, i : Step(q), p, [i \in 1..k |-> i])

(* Little endian numbers as they are written.                              *)
Le16(n) == <<n % 256, (n \div 256) % 256>>
Le32(n) == Le16(n) \o Le16(n \div 65536)
=============================================================================
