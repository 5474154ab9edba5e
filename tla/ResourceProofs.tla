---------------------------- MODULE ResourceProofs ----------------------------
(***************************************************************************)
(* The firmware finds what is in its data and stays inside it, for every   *)
(* content of the flash.                                                   *)
(*                                                                         *)
(* Tables (res.c, table.c): the search finds what is there and hands out   *)
(* records inside the file, for every table and every id.                  *)
(*                                                                         *)
(* Containers (res_open): no window reaches out of the one it was found    *)
(* in, and a window that was found is that of the first entry of its name. *)
(* The argument: the calls go in the order of their numbers, a window is   *)
(* only looked into by later calls, and until a call is made its window is *)
(* empty; so writing a window cannot take it away from under the windows   *)
(* found in it.                                                            *)
(*                                                                         *)
(* Tables of names (sysscan.c): reading a file in pieces that overlap finds*)
(* what reading it as a whole would, for every file and length of a piece. *)
(***************************************************************************)
EXTENDS Table, Container, SysScan, FiniteSetTheorems, TLAPS

-----------------------------------------------------------------------------
(* Tables.                                                                 *)

(* The shape of the variables.                                             *)
TableTypeOK ==
  /\ table \in Tables
  /\ wanted \in Nat
  /\ lo \in Nat /\ hi \in Nat
  /\ answer \in {"searching", "none", "found"}
  /\ record \in [base : Int, size : Int]

(* Everything before lo is smaller and everything from hi on is larger.    *)
Halved ==
  Sound(table) /\ answer = "searching" =>
    /\ hi <= table.count
    /\ \A k \in DOMAIN table.cells :
         /\ k < lo => table.cells[k].key < wanted
         /\ k >= hi => table.cells[k].key > wanted

TableInv == TableTypeOK /\ Halved /\ FindRight /\ InsideFile

(* A file is shorter than a word can say, and counts are words.            *)
LEMMA WordSizes ==
  ASSUME NEW t \in Tables
  PROVE  Word \in Nat /\ Word > 0 /\ t.count \in Nat /\ t.size \in Nat /\ t.size < Word
PROOF
  <1>1. Word \in Nat /\ Word > 0 /\ Sizes \subseteq 0..(Word - 1)
    BY TableAssumption
  <1>2. t.count \in 0..(Word - 1) /\ t.size \in Sizes
    BY DEF Tables
  <1>3. t.size \in 0..(Word - 1)
    BY <1>1, <1>2
  <1> HIDE DEF Tables
  <1> QED BY <1>1, <1>2, <1>3, SMT

(* A number below the modulus is its own remainder.                        *)
LEMMA SmallRemainder ==
  ASSUME NEW a \in Nat, NEW w \in Nat, a < w
  PROVE  a % w = a
BY SMT

(* A sound table has the count that it says, and the words of its cells.   *)
LEMMA SoundCells ==
  ASSUME NEW t \in Tables, Sound(t)
  PROVE  /\ DOMAIN t.cells = 0..(t.count - 1)
         /\ table_count(t) = t.count
         /\ \A k \in DOMAIN t.cells : /\ t.cells[k] \in Cells
                                      /\ Key(t, k) = t.cells[k].key
                                      /\ Pointer(t, k) = t.cells[k].off
PROOF
  <1>1. t.count \in Nat /\ t.size \in Nat /\ t.size < Word /\ Word \in Nat
    BY WordSizes
  <1>2. (4 + t.count * 8) % Word = 4 + t.count * 8
    <2>1. 4 + t.count * 8 \in Nat /\ 4 + t.count * 8 < Word
      BY <1>1 DEF Sound
    <2> QED BY <2>1, <1>1, SmallRemainder
  <1>3. table_count(t) = t.count
    BY <1>1, <1>2 DEF table_count, Sound
  <1>4. PICK n \in Nat : t.cells \in [0..(n - 1) -> Cells]
    BY DEF Tables
  <1>5. \A k \in DOMAIN t.cells : t.cells[k] \in Cells
    BY <1>4
  <1> QED BY <1>3, <1>5 DEF Sound, Key, Pointer

(* The words of any table are numbers.                                     *)
LEMMA WordsAreNat ==
  ASSUME NEW t \in Tables, NEW k \in Int
  PROVE  Key(t, k) \in Nat /\ Pointer(t, k) \in Nat /\ table_count(t) \in Nat
         /\ t.size \in Nat /\ RecordEnd(t, k) \in Nat
PROOF
  <1>1. PICK n \in Nat : t.cells \in [0..(n - 1) -> Cells]
    BY DEF Tables
  <1>2. Key(t, k) \in Nat
    BY <1>1 DEF Key, Cells
  <1>3. \A j : Pointer(t, j) \in Nat
    BY <1>1, TableAssumption DEF Pointer, Cells
  <1>4. table_count(t) \in Nat /\ t.size \in Nat
    BY WordSizes DEF table_count
  <1> QED BY <1>2, <1>3, <1>4 DEF RecordEnd

(* The middle is in the part that is left.                                 *)
LEMMA MidBetween ==
  ASSUME lo \in Nat, hi \in Nat, lo < hi
  PROVE  Mid \in Nat /\ lo <= Mid /\ Mid < hi
BY DEF Mid

LEMMA TableInitInv == TableInit => TableInv
PROOF
  <1> SUFFICES ASSUME TableInit PROVE TableInv
    OBVIOUS
  <1>1. TableTypeOK
    BY WordsAreNat DEF TableInit, StartSearch, TableTypeOK, NoRecord
  <1>2. Halved
    <2> SUFFICES ASSUME Sound(table) PROVE hi = table.count /\ lo = 0 /\ DOMAIN table.cells = 0..(hi - 1)
      BY <1>1 DEF Halved, TableTypeOK, Tables
    <2> QED BY <1>1, SoundCells DEF TableInit, StartSearch, TableTypeOK
  <1>3. FindRight
    BY DEF TableInit, StartSearch, FindRight
  <1>4. InsideFile
    BY <1>1, WordsAreNat DEF TableInit, StartSearch, InsideFile, NoRecord, TableTypeOK
  <1> QED BY <1>1, <1>2, <1>3, <1>4 DEF TableInv

LEMMA TableStepInv == TableInv /\ [table_find]_tvars => TableInv'
PROOF
  <1> SUFFICES ASSUME TableInv, [table_find]_tvars PROVE TableInv'
    OBVIOUS
  <1>1. CASE Look /\ Key(table, Mid) # wanted
    <2>1. Mid \in Nat /\ lo <= Mid /\ Mid < hi /\ lo \in Nat /\ hi \in Nat /\ wanted \in Nat
      BY <1>1, MidBetween DEF TableInv, TableTypeOK, Look
    <2>2. \/ Key(table, Mid) < wanted /\ lo' = Mid + 1 /\ hi' = hi
          \/ Key(table, Mid) > wanted /\ hi' = Mid /\ lo' = lo
      BY <1>1 DEF Look, Narrow
    <2>3. UNCHANGED <<table, wanted, answer, record>>
      BY <1>1 DEF Look
    <2>4. TableTypeOK'
      BY <2>1, <2>2, <2>3 DEF TableInv, TableTypeOK
    <2>5. Halved'
      <3> SUFFICES ASSUME Sound(table), answer = "searching"
                   PROVE  /\ hi' <= table.count
                          /\ \A k \in DOMAIN table.cells :
                               /\ k < lo' => table.cells[k].key < wanted
                               /\ k >= hi' => table.cells[k].key > wanted
        BY <2>3 DEF Halved
      <3>1. table \in Tables /\ table.count \in Nat
        BY DEF TableInv, TableTypeOK, Tables
      <3>2. /\ hi <= table.count
            /\ \A k \in DOMAIN table.cells :
                 /\ k < lo => table.cells[k].key < wanted
                 /\ k >= hi => table.cells[k].key > wanted
        BY DEF TableInv, Halved
      <3>3. Mid \in DOMAIN table.cells /\ DOMAIN table.cells \subseteq Nat
        BY <2>1, <3>1, <3>2, SoundCells
      <3>4. Key(table, Mid) = table.cells[Mid].key
        BY <3>1, <3>3, SoundCells
      <3>5. \A j, k \in DOMAIN table.cells : j < k => table.cells[j].key < table.cells[k].key
        BY DEF Sound
      <3>6. \A k \in DOMAIN table.cells : table.cells[k].key \in Nat
        BY <3>1, SoundCells DEF Cells
      <3>7. hi' <= table.count
        BY <2>1, <2>2, <3>1, <3>2
      <3>8. ASSUME NEW k \in DOMAIN table.cells, k < lo' PROVE table.cells[k].key < wanted
        <4>1. k \in Nat
          BY <3>3
        <4>2. CASE Key(table, Mid) < wanted /\ lo' = Mid + 1
          <5>1. k = Mid \/ k < Mid
            BY <4>1, <4>2, <3>8, <2>1
          <5> QED BY <5>1, <4>2, <3>3, <3>4, <3>5, <3>6, <2>1
        <4>3. CASE lo' = lo
          BY <4>3, <3>2, <3>8
        <4> QED BY <4>2, <4>3, <2>2
      <3>9. ASSUME NEW k \in DOMAIN table.cells, k >= hi' PROVE table.cells[k].key > wanted
        <4>1. k \in Nat
          BY <3>3
        <4>2. CASE Key(table, Mid) > wanted /\ hi' = Mid
          <5>1. k = Mid \/ Mid < k
            BY <4>1, <4>2, <3>9, <2>1
          <5> QED BY <5>1, <4>2, <3>3, <3>4, <3>5, <3>6, <2>1
        <4>3. CASE hi' = hi
          BY <4>3, <3>2, <3>9
        <4> QED BY <4>2, <4>3, <2>2
      <3> QED BY <3>7, <3>8, <3>9
    <2>6. answer = "searching"
      BY <1>1 DEF Look
    <2>7. FindRight' /\ InsideFile'
      BY <2>3, <2>6 DEF TableInv, FindRight, InsideFile
    <2> QED BY <2>4, <2>5, <2>7 DEF TableInv
  <1>2. CASE Look /\ Key(table, Mid) = wanted
    <2>1. Mid \in Nat /\ lo <= Mid /\ Mid < hi /\ lo \in Nat /\ hi \in Nat
      BY <1>2, MidBetween DEF TableInv, TableTypeOK, Look
    <2>2. UNCHANGED <<table, wanted, lo, hi>> /\ table \in Tables
      BY <1>2 DEF Look, TableInv, TableTypeOK, Narrow
    <2>3. \/ GoodEntry(table, Mid) /\ answer' = "found" /\ record' = Entry(table, Mid)
          \/ ~GoodEntry(table, Mid) /\ answer' = "none" /\ record' = NoRecord
      BY <1>2 DEF Look
    <2>4. /\ Pointer(table, Mid) \in Nat /\ RecordEnd(table, Mid) \in Nat
          /\ table.size \in Nat
      BY <2>1, <2>2, WordsAreNat
    <2>5. TableTypeOK'
      BY <2>2, <2>3, <2>4 DEF TableInv, TableTypeOK, Entry, NoRecord
    <2>6. Halved'
      BY <2>3 DEF Halved
    <2>7. InsideFile'
      BY <2>2, <2>3, <2>4 DEF InsideFile, Entry, NoRecord, GoodEntry
    <2>8. FindRight'
      <3> SUFFICES ASSUME Sound(table)
                   PROVE  Mid \in DOMAIN table.cells /\ table.cells[Mid].key = wanted
                          /\ GoodEntry(table, Mid)
        BY <2>2, <2>3 DEF FindRight
      <3>1. hi <= table.count /\ table.count \in Nat
        BY <1>2, <2>2 DEF TableInv, Halved, Look, Tables
      <3>2. Mid \in DOMAIN table.cells
        BY <2>1, <2>2, <3>1, SoundCells
      <3>3. table.cells[Mid].key = wanted /\ Pointer(table, Mid) = table.cells[Mid].off
        BY <1>2, <2>2, <3>2, SoundCells
      <3>4. table.cells[Mid].off <= table.size
        BY <3>2 DEF Sound
      <3>5. CASE Mid + 1 < table.count
        <4>1. Mid + 1 \in DOMAIN table.cells
          BY <3>5, <3>1, <2>1, <2>2, SoundCells
        <4>2. RecordEnd(table, Mid) = table.cells[Mid + 1].off
          BY <3>5, <4>1, <2>2, SoundCells DEF RecordEnd
        <4>3. table.cells[Mid].off <= table.cells[Mid + 1].off /\ table.cells[Mid + 1].off <= table.size
          BY <3>2, <4>1, <2>1 DEF Sound
        <4> QED BY <3>2, <3>3, <3>4, <4>2, <4>3 DEF GoodEntry
      <3>6. CASE ~(Mid + 1 < table.count)
        <4>1. RecordEnd(table, Mid) = table.size
          BY <3>6, <2>2, SoundCells DEF RecordEnd
        <4> QED BY <3>2, <3>3, <3>4, <4>1, <2>4 DEF GoodEntry
      <3> QED BY <3>5, <3>6
    <2> QED BY <2>5, <2>6, <2>7, <2>8 DEF TableInv
  <1>3. CASE NotThere
    <2>1. UNCHANGED <<table, wanted, lo, hi, record>> /\ answer' = "none" /\ answer = "searching"
          /\ ~(lo < hi) /\ lo \in Nat /\ hi \in Nat
      BY <1>3 DEF NotThere, TableInv, TableTypeOK
    <2>2. TableTypeOK' /\ Halved' /\ InsideFile'
      BY <2>1 DEF TableInv, TableTypeOK, Halved, InsideFile
    <2>3. FindRight'
      <3> SUFFICES ASSUME Sound(table), NEW k \in DOMAIN table.cells
                   PROVE  table.cells[k].key # wanted
        BY <2>1 DEF FindRight
      <3>1. table \in Tables /\ wanted \in Nat
        BY DEF TableInv, TableTypeOK
      <3>2. k \in Nat /\ table.cells[k].key \in Nat
        BY <3>1, SoundCells DEF Cells, Tables
      <3>3. k < lo => table.cells[k].key < wanted
        BY <2>1 DEF TableInv, Halved
      <3>4. k >= hi => table.cells[k].key > wanted
        BY <2>1 DEF TableInv, Halved
      <3> QED BY <3>1, <3>2, <3>3, <3>4, <2>1
    <2> QED BY <2>2, <2>3 DEF TableInv
  <1>4. CASE UNCHANGED tvars
    BY <1>4 DEF tvars, TableInv, TableTypeOK, Halved, FindRight, InsideFile
  <1> QED BY <1>1, <1>2, <1>3, <1>4 DEF table_find, Look

(* table_find answers "none" only when no entry has the id, and hands out  *)
(* the record of the entry that has it, for every sorted table.            *)
THEOREM FindsWhatIsThere == TableSpec => []FindRight
PROOF
  <1>1. TableInv => FindRight
    BY DEF TableInv
  <1> QED BY TableInitInv, TableStepInv, <1>1, PTL DEF TableSpec

(* Whatever the words of the file are, the record is inside the file.      *)
THEOREM RecordInsideFile == TableSpec => []InsideFile
PROOF
  <1>1. TableInv => InsideFile
    BY DEF TableInv
  <1> QED BY TableInitInv, TableStepInv, <1>1, PTL DEF TableSpec

-----------------------------------------------------------------------------
(* Containers.                                                             *)

Windows == [base : Nat, size : Nat]

CTypeOK ==
  /\ flash \in Flashes
  /\ opened \in [Openings -> Windows]
  /\ got \in [Openings -> {"not asked", "missing", "found"}]
  /\ opening \in 0..Over
  /\ index \in Nat \ {0}

(* What later calls open is as it was at the start.                        *)
Untouched ==
  \A k \in Openings : k > opening => opened[k] = Empty /\ got[k] = "not asked"

(* The call under way has answered nothing yet, and has passed entries of  *)
(* other names only.                                                       *)
Passed ==
  /\ opening = 0 => index = 1
  /\ \A c \in Openings : opening = c =>
       /\ got[c] = "not asked"
       /\ \A j \in 1..(index - 1) : Directory(In(Parent[c]))[j].name # Name[c]

(* Every window is inside the flash.                                       *)
InFlash == \A k \in Openings : opened[k].base + opened[k].size <= flash.size

CInv == CTypeOK /\ Untouched /\ Passed /\ InFlash /\ OpenedRight

-----------------------------------------------------------------------------
(* The window a call looks into is one of an earlier call, or the image.   *)
LEMMA ParentIsEarlier == \A k \in Openings : Parent[k] \in 0..5 /\ Parent[k] < k
BY DEF Parent, Openings

(* What is looked into is a window inside the flash.                       *)
LEMMA WindowType ==
  ASSUME CTypeOK, InFlash, NEW k \in 0..5
  PROVE  In(k) \in Windows /\ In(k).base + In(k).size <= flash.size
<1>1. flash.size \in Nat
  BY FlashAssumption DEF CTypeOK
<1>2. CASE k = 0
  BY <1>1, <1>2 DEF In, Windows
<1>3. CASE k # 0
  <2>1. k \in Openings
    BY <1>3 DEF Openings
  <2>2. In(k) = opened[k] /\ opened[k] \in Windows
    BY <1>3, <2>1 DEF In, CTypeOK
  <2> QED BY <2>1, <2>2 DEF InFlash
<1> QED BY <1>2, <1>3

LEMMA DirectoryType ==
  ASSUME CTypeOK, NEW w \in Windows, w.base + w.size <= flash.size
  PROVE  /\ Directory(w) \in Seq(Entries)
         /\ Len(Directory(w)) \in Nat
         /\ \A i \in 1..Len(Directory(w)) : Directory(w)[i] \in Entries
<1>1. flash.size \in Nat /\ flash.dir \in [0..flash.size -> Seq(Entries)]
  BY FlashAssumption DEF CTypeOK
<1>2. w.base \in 0..flash.size
  BY <1>1 DEF Windows
<1>3. Directory(w) \in Seq(Entries)
  BY <1>1, <1>2 DEF Directory
<1> QED BY <1>3

(* The window of an entry is inside the window of its directory.           *)
LEMMA EntryInside ==
  ASSUME CTypeOK, NEW w \in Windows, w.base + w.size <= flash.size,
         NEW i \in Nat \ {0}, res_entry(w, i) # <<>>
  PROVE  /\ i <= Len(Directory(w))
         /\ res_entry(w, i)[1] \in Windows
         /\ Within(res_entry(w, i)[1], w)
         /\ res_entry(w, i)[1].base = w.base + Directory(w)[i].off
         /\ res_entry(w, i)[1].size = EndOf(w, i) - Directory(w)[i].off
<1> DEFINE d == Directory(w)
<1>1. Readable(w, i) /\ SoundEntry(w, d[i].off, EndOf(w, i))
  BY DEF res_entry
<1>2. Len(d) \in Nat /\ \A j \in 1..Len(d) : d[j] \in Entries
  BY DirectoryType
<1>3. i \in 1..Len(d)
  BY <1>1, <1>2 DEF Readable
<1>4. d[i].off \in Nat
  BY <1>2, <1>3 DEF Entries
<1>5. EndOf(w, i) \in Nat
  <2>1. CASE i < Len(d)
    <3>1. d[i + 1] \in Entries
      BY <1>2, <1>3, <2>1
    <3> QED BY <3>1, <2>1 DEF EndOf, Entries
  <2>2. CASE ~(i < Len(d))
    BY <2>2 DEF EndOf, Windows
  <2> QED BY <2>1, <2>2
<1>6. res_entry(w, i)[1] = [base |-> w.base + d[i].off, size |-> EndOf(w, i) - d[i].off]
  BY <1>1 DEF res_entry
<1> HIDE DEF d
<1>7. d[i].off <= EndOf(w, i) /\ EndOf(w, i) <= w.size
  BY <1>1 DEF SoundEntry
<1>8. w.base \in Nat /\ w.size \in Nat
  BY DEF Windows
<1>9. /\ res_entry(w, i)[1] \in Windows
      /\ Within(res_entry(w, i)[1], w)
  BY <1>4, <1>5, <1>6, <1>7, <1>8 DEF Windows, Within
<1> QED BY <1>3, <1>6, <1>9, <1>2 DEF d
-----------------------------------------------------------------------------
LEMMA InitCInv == ContainerInit => CInv
<1> SUFFICES ASSUME ContainerInit PROVE CInv
  OBVIOUS
<1>1. flash.size \in Nat
  BY FlashAssumption DEF ContainerInit
<1>2. Empty \in Windows /\ Empty.base + Empty.size = 0
  BY DEF Empty, Windows
<1>a. opening = 0 /\ index = 1
  BY DEF ContainerInit, ContainerStarts
<1>b. opening \in 0..Over /\ opening \notin Openings /\ index \in Nat \ {0}
  BY <1>a DEF Over, Openings
<1>c. /\ flash \in Flashes
      /\ opened = [k \in Openings |-> Empty]
      /\ got = [k \in Openings |-> "not asked"]
  BY DEF ContainerInit, ContainerStarts
<1>3. CTypeOK
  BY <1>2, <1>b, <1>c DEF CTypeOK
<1>4. Untouched /\ Passed
  BY <1>a, <1>b, <1>c DEF Untouched, Passed
<1>5. InFlash
  <2>1. \A k \in Openings : opened[k] = Empty
    BY <1>c
  <2> QED BY <1>1, <1>2, <2>1 DEF InFlash
<1>6. OpenedRight
  BY DEF ContainerInit, ContainerStarts, OpenedRight, WindowInside, FoundFirst
<1> QED BY <1>3, <1>4, <1>5, <1>6 DEF CInv

LEMMA InitStep == CInv /\ res_init => CInv'
<1> SUFFICES ASSUME CInv, res_init PROVE CInv'
  OBVIOUS
<1> USE DEF CInv
<1>1. opening' \in {1, Over} /\ UNCHANGED <<flash, opened, got, index>> /\ opening = 0
  BY DEF res_init
<1>a. opening' \in 0..Over /\ \A k \in Openings : k > opening' => k > opening
  BY <1>1 DEF Over, Openings
<1>2. CTypeOK'
  BY <1>1, <1>a DEF CTypeOK
<1>3. Untouched'
  BY <1>1, <1>a DEF Untouched
<1>4. InFlash' /\ OpenedRight'
  BY <1>1 DEF InFlash, OpenedRight, WindowInside, FoundFirst, In, Directory, EndOf
<1>5. Passed'
  <2>1. 1 \in Openings /\ 1 > opening /\ opening = 0
    BY <1>1 DEF Openings
  <2>2. got'[1] = "not asked" /\ index' = 1
    BY <1>1, <2>1 DEF Untouched, Passed
  <2>3. opening' # 0 /\ \A c \in Openings : opening' = c => c = 1
    BY <1>1 DEF Openings, Over
  <2>a. index' = 1
    BY <2>2
  <2>4. 1..(index' - 1) = {}
    BY <2>a
  <2> QED BY <2>2, <2>3, <2>4 DEF Passed
<1> QED BY <1>2, <1>3, <1>4, <1>5
-----------------------------------------------------------------------------
(* The windows that earlier calls opened, and those they were found in,    *)
(* stay as they are while a call goes on.                                  *)
LEMMA OthersKeep ==
  ASSUME CInv, opening \in Openings, flash' = flash,
         \A j \in Openings : j # opening => opened'[j] = opened[j] /\ got'[j] = got[j]
  PROVE  \A k \in Openings : k # opening =>
           /\ opened'[k] = Empty \/ Within(opened'[k], In(Parent[k])')
           /\ got'[k] = "found" =>
                /\ In(Parent[k])' = In(Parent[k])
                /\ got[k] = "found" /\ opened'[k] = opened[k]
<1> SUFFICES ASSUME NEW k \in Openings, k # opening
             PROVE  /\ opened'[k] = Empty \/ Within(opened'[k], In(Parent[k])')
                    /\ got'[k] = "found" =>
                         /\ In(Parent[k])' = In(Parent[k])
                         /\ got[k] = "found" /\ opened'[k] = opened[k]
  OBVIOUS
<1>1. Parent[k] \in 0..5 /\ Parent[k] < k
  BY ParentIsEarlier
<1>2. opened'[k] = opened[k] /\ got'[k] = got[k]
  OBVIOUS
<1>3. CASE k > opening
  BY <1>2, <1>3 DEF CInv, Untouched
<1>4. CASE k < opening
  <2>1. In(Parent[k])' = In(Parent[k])
    <3>1. CASE Parent[k] = 0
      BY <3>1 DEF In
    <3>2. CASE Parent[k] # 0
      <4>1. Parent[k] \in Openings /\ Parent[k] # opening
        BY <1>1, <1>4, <3>2 DEF Openings
      <4> QED BY <4>1, <3>2 DEF In
    <3> QED BY <3>1, <3>2
  <2>2. opened[k] = Empty \/ Within(opened[k], In(Parent[k]))
    BY DEF CInv, OpenedRight, WindowInside
  <2> QED BY <1>2, <2>1, <2>2
<1> QED BY <1>3, <1>4 DEF Openings

(* What the answer of a call leaves behind.                                *)
LEMMA AnswerGoesOn ==
  ASSUME CInv, opening \in Openings, NEW a \in {"missing", "found"}, NextCall(a)
  PROVE  /\ got' = [got EXCEPT ![opening] = a]
         /\ index' = 1
         /\ opening' \in 2..Over /\ opening' > opening
BY DEF NextCall, Openings, Over

(* A step writes a window inside its parent's, or none, and answers or goes*)
(* on to the next entry.                                                   *)
LEMMA OpenStep == CInv /\ res_open => CInv'
<1> SUFFICES ASSUME CInv, res_open PROVE CInv'
  OBVIOUS
<1>0. opening \in Openings /\ flash' = flash
  BY DEF res_open
<1> PICK c \in Openings : c = opening
  BY <1>0
<1> DEFINE p == Parent[c]
           w == In(p)
           d == Directory(w)
           e == res_entry(w, index)
<1>2. CTypeOK /\ Untouched /\ Passed /\ InFlash /\ OpenedRight
  BY DEF CInv
<1>3. p \in 0..5 /\ p < c
  BY ParentIsEarlier
<1>4. w \in Windows /\ w.base + w.size <= flash.size
  BY <1>2, <1>3, WindowType
<1>5. index \in Nat \ {0}
  BY <1>2 DEF CTypeOK
<1>6. e # <<>> => /\ index <= Len(d)
                  /\ e[1] \in Windows /\ Within(e[1], w)
                  /\ e[1].base = w.base + d[index].off
                  /\ e[1].size = EndOf(w, index) - d[index].off
  BY <1>2, <1>4, <1>5, EntryInside
<1>7. \/ e = <<>> /\ opened' = opened
      \/ e # <<>> /\ opened' = [opened EXCEPT ![c] = e[1]]
  BY DEF res_open
<1>8. \/ e = <<>> /\ NextCall("missing")
      \/ e # <<>> /\ d[index].name = Name[c] /\ NextCall("found")
      \/ e # <<>> /\ d[index].name # Name[c] /\ index' = index + 1 /\ UNCHANGED <<got, opening>>
  BY DEF res_open
<1>9. /\ opened' \in [Openings -> Windows]
      /\ \A j \in Openings : j # c => opened'[j] = opened[j]
      /\ e = <<>> => opened'[c] = opened[c]
      /\ e # <<>> => opened'[c] = e[1]
  <2>1. opened \in [Openings -> Windows]
    BY <1>2 DEF CTypeOK
  <2> HIDE DEF e, w
  <2> QED BY <2>1, <1>6, <1>7
<1>10. In(p)' = w /\ Directory(In(p))' = d /\ \A i \in Nat : EndOf(In(p), i)' = EndOf(w, i)
  <2>1. In(p)' = w
    <3>1. CASE p = 0
      BY <3>1, <1>0 DEF In
    <3>2. CASE p # 0
      <4>1. p \in Openings /\ p # c
        BY <3>2, <1>3 DEF Openings
      <4> QED BY <4>1, <3>2, <1>9 DEF In
    <3> QED BY <3>1, <3>2
  <2> QED BY <2>1, <1>0 DEF Directory, EndOf
<1>11. /\ \A j \in Openings : j # c => got'[j] = got[j]
       /\ got' \in [Openings -> {"not asked", "missing", "found"}]
       /\ index' \in Nat \ {0}
       /\ opening' \in 0..Over
       /\ opening' >= c
  <2>1. got \in [Openings -> {"not asked", "missing", "found"}]
    BY <1>2 DEF CTypeOK
  <2>2. c \in 0..Over
    BY DEF Openings, Over
  <2>3. \/ \E a \in {"missing", "found"} : NextCall(a)
        \/ index' = index + 1 /\ got' = got /\ opening' = opening
    BY <1>8
  <2>4. CASE \E a \in {"missing", "found"} : NextCall(a)
    <3> PICK a \in {"missing", "found"} : NextCall(a)
      BY <2>4
    <3>1. got' = [got EXCEPT ![c] = a] /\ index' = 1 /\ opening' \in 2..Over /\ opening' > c
      BY <1>0, AnswerGoesOn
    <3>2. index' \in Nat \ {0} /\ opening' \in 0..Over /\ opening' >= c
      BY <3>1, <2>2 DEF Over
    <3> QED BY <2>1, <3>1, <3>2
  <2>5. CASE index' = index + 1 /\ got' = got /\ opening' = opening
    <3>1. index' \in Nat \ {0} /\ opening' \in 0..Over /\ opening' >= c
      BY <1>5, <2>2, <2>5 DEF Over
    <3> QED BY <2>1, <2>5, <3>1
  <2> QED BY <2>3, <2>4, <2>5
<1>12. CTypeOK'
  BY <1>0, <1>2, <1>9, <1>11 DEF CTypeOK
<1>13. Untouched'
  <2> SUFFICES ASSUME NEW k \in Openings, k > opening'
               PROVE  opened'[k] = Empty /\ got'[k] = "not asked"
    BY DEF Untouched
  <2>a. opening' \in 0..Over /\ opening' >= c
    BY <1>11
  <2>1. k > c /\ k # c
    BY <2>a DEF Openings, Over
  <2> QED BY <2>1, <1>2, <1>9, <1>11 DEF Untouched
<1>14. InFlash'
  <2> SUFFICES ASSUME NEW k \in Openings
               PROVE  opened'[k].base + opened'[k].size <= flash.size
    BY <1>0 DEF InFlash
  <2>1. CASE opened'[k] = opened[k]
    BY <1>2, <2>1 DEF InFlash
  <2>2. CASE k = c /\ e # <<>>
    <3>1. opened'[k] \in Windows /\ Within(opened'[k], w)
      BY <1>6, <1>9, <2>2
    <3>2. flash.size \in Nat
      BY <1>2, FlashAssumption DEF CTypeOK
    <3> HIDE DEF w
    <3> QED BY <3>1, <3>2, <1>4 DEF Windows, Within
  <2> QED BY <1>9, <2>1, <2>2
<1>15. \A k \in Openings : k # c =>
         /\ opened'[k] = Empty \/ Within(opened'[k], In(Parent[k])')
         /\ got'[k] = "found" =>
              In(Parent[k])' = In(Parent[k]) /\ got[k] = "found" /\ opened'[k] = opened[k]
  BY <1>0, <1>9, <1>11, OthersKeep
<1>16. WindowInside'
  <2>1. opened'[c] = Empty \/ Within(opened'[c], In(p)')
    BY <1>2, <1>6, <1>9, <1>10 DEF OpenedRight, WindowInside
  <2> QED BY <1>15, <2>1 DEF WindowInside
<1>17. FoundFirst'
  <2> SUFFICES ASSUME NEW k \in Openings, got'[k] = "found"
               PROVE  \E i \in 1..Len(Directory(In(Parent[k]))') :
                        /\ Directory(In(Parent[k]))'[i].name = Name[k]
                        /\ \A j \in 1..(i - 1) : Directory(In(Parent[k]))'[j].name # Name[k]
                        /\ opened'[k].base = In(Parent[k])'.base + Directory(In(Parent[k]))'[i].off
                        /\ opened'[k].size = EndOf(In(Parent[k]), i)' - Directory(In(Parent[k]))'[i].off
    BY DEF FoundFirst
  <2>1. CASE k = c
    <3>1. e # <<>> /\ d[index].name = Name[c]
      <4>1. got[c] = "not asked"
        BY <1>2 DEF Passed
      <4>2. got \in [Openings -> {"not asked", "missing", "found"}]
        BY <1>2 DEF CTypeOK
      <4>3. NextCall("missing") => got'[c] = "missing"
        BY <1>0, <4>2, AnswerGoesOn
      <4>4. UNCHANGED <<got, opening>> => got'[c] = "not asked"
        BY <4>1
      <4> HIDE DEF e, d
      <4> QED BY <1>8, <4>3, <4>4, <2>1
    <3>2. index \in 1..Len(d)
      <4>1. Len(d) \in Nat
        BY <1>2, <1>4, DirectoryType
      <4>2. index <= Len(d)
        BY <3>1, <1>6
      <4> HIDE DEF d
      <4> QED BY <4>1, <4>2, <1>5
    <3>3. \A j \in 1..(index - 1) : d[j].name # Name[c]
      BY <1>2 DEF Passed
    <3>4. /\ opened'[c].base = w.base + d[index].off
          /\ opened'[c].size = EndOf(w, index) - d[index].off
      BY <3>1, <1>6, <1>9
    <3>5. Directory(In(Parent[k]))' = d /\ In(Parent[k])' = w
          /\ \A i \in Nat : EndOf(In(Parent[k]), i)' = EndOf(w, i)
      BY <1>10, <2>1
    <3> PICK m \in Nat : m = index
      BY <1>5
    <3>6. EndOf(In(Parent[k]), m)' = EndOf(w, m)
      BY <3>5
    <3> HIDE DEF d, w
    <3>7. m \in 1..Len(d) /\ d[m].name = Name[k] /\ \A j \in 1..(m - 1) : d[j].name # Name[k]
      BY <3>1, <3>2, <3>3, <2>1
    <3>8. /\ opened'[k].base = w.base + d[m].off
          /\ opened'[k].size = EndOf(w, m) - d[m].off
      BY <3>4, <2>1
    <3> QED BY <3>5, <3>6, <3>7, <3>8
  <2>2. CASE k # c
    <3>1. In(Parent[k])' = In(Parent[k]) /\ got[k] = "found" /\ opened'[k] = opened[k]
      BY <1>15, <2>2
    <3>2. Directory(In(Parent[k]))' = Directory(In(Parent[k]))
          /\ \A i \in Nat : EndOf(In(Parent[k]), i)' = EndOf(In(Parent[k]), i)
      BY <3>1, <1>0 DEF Directory, EndOf
    <3>3. PICK i \in 1..Len(Directory(In(Parent[k]))) :
             /\ Directory(In(Parent[k]))[i].name = Name[k]
             /\ \A j \in 1..(i - 1) : Directory(In(Parent[k]))[j].name # Name[k]
             /\ opened[k].base = In(Parent[k]).base + Directory(In(Parent[k]))[i].off
             /\ opened[k].size = EndOf(In(Parent[k]), i) - Directory(In(Parent[k]))[i].off
      BY <1>2, <3>1 DEF OpenedRight, FoundFirst
    <3>4. i \in Nat
      OBVIOUS
    <3>5. EndOf(In(Parent[k]), i)' = EndOf(In(Parent[k]), i)
      BY <3>2, <3>4
    <3> QED BY <3>1, <3>2, <3>3, <3>5
  <2> QED BY <2>1, <2>2
<1>18. Passed'
  <2>1. opening' # 0
    <3>1. opening' \in 0..Over /\ opening' >= c
      BY <1>11
    <3> QED BY <3>1 DEF Openings, Over
  <2> SUFFICES ASSUME NEW k \in Openings, opening' = k
               PROVE  /\ got'[k] = "not asked"
                      /\ \A j \in 1..(index' - 1) : Directory(In(Parent[k]))'[j].name # Name[k]
    BY <2>1 DEF Passed
  <2>2. CASE \E a \in {"missing", "found"} : NextCall(a)
    <3> PICK a \in {"missing", "found"} : NextCall(a)
      BY <2>2
    <3>1. index' = 1 /\ opening' > opening
      BY <1>0, AnswerGoesOn
    <3>2. k > opening /\ k # c
      BY <3>1 DEF Openings
    <3>3. got'[k] = "not asked"
      BY <3>2, <1>2, <1>11 DEF Untouched
    <3>4. 1..(index' - 1) = {}
      BY <3>1
    <3> QED BY <3>3, <3>4
  <2>3. CASE e # <<>> /\ d[index].name # Name[c] /\ index' = index + 1 /\ UNCHANGED <<got, opening>>
    <3>1. k = c /\ got'[k] = "not asked"
      BY <2>3, <1>2 DEF Passed
    <3>2. \A j \in 1..(index - 1) : d[j].name # Name[c]
      BY <1>2 DEF Passed
    <3>3. \A j \in 1..(index' - 1) : j \in 1..(index - 1) \/ j = index
      <4>1. index' = index + 1
        BY <2>3
      <4> QED BY <4>1, <1>5
    <3>4. Directory(In(Parent[k]))' = d
      BY <3>1, <1>10
    <3> HIDE DEF d
    <3> QED BY <3>1, <3>2, <3>3, <3>4, <2>3
  <2> QED BY <1>8, <2>2, <2>3
<1> QED BY <1>12, <1>13, <1>14, <1>16, <1>17, <1>18 DEF CInv, OpenedRight
-----------------------------------------------------------------------------
LEMMA ContainerStepInv == CInv /\ [container]_cvars => CInv'
<1> SUFFICES ASSUME CInv, [container]_cvars PROVE CInv'
  OBVIOUS
<1>1. CASE res_init
  BY <1>1, InitStep
<1>2. CASE res_open
  BY <1>2, OpenStep
<1>3. CASE UNCHANGED cvars
  <2>1. UNCHANGED <<flash, opened, got, opening, index>>
    BY <1>3 DEF cvars
  <2>2. CTypeOK' /\ Untouched' /\ InFlash'
    BY <2>1 DEF CInv, CTypeOK, Untouched, InFlash
  <2>3. Passed'
    BY <2>1 DEF CInv, Passed, In, Directory
  <2>4. WindowInside'
    BY <2>1 DEF CInv, OpenedRight, WindowInside, In
  <2>5. FoundFirst'
    BY <2>1 DEF CInv, OpenedRight, FoundFirst, In, Directory, EndOf
  <2> QED BY <2>2, <2>3, <2>4, <2>5 DEF CInv, OpenedRight
<1> QED BY <1>1, <1>2, <1>3 DEF container

(* Whatever the directories in the flash say, a window that res_open gives *)
(* out is inside the one it was looked for in, and one that it says it has *)
(* found is that of the first entry of the name (res_entry, res_open).     *)
THEOREM WindowsStayInside == ContainerSpec => []OpenedRight
<1>1. CInv => OpenedRight
  BY DEF CInv
<1> QED BY <1>1, InitCInv, ContainerStepInv, PTL DEF ContainerSpec
-----------------------------------------------------------------------------
(* Tables of names.                                                        *)

Origin == IndexPtr(file)
RefTables == {EvTable(file, i) : i \in EvNodes}
Found    == {ev_tables[k] : k \in DOMAIN ev_tables}

(* The nodes read so far: the last piece ended with the one at the place   *)
(* where this begins.  Of those, the ones this piece or one before read    *)
(* again.                                                                  *)
Once  == {i \in EvNodes : i < looked \/ (i = piece /\ piece > Origin)}
Again == {i \in ReadTwice : i < looked /\ i <= piece}
Readings == Cardinality(Once) + Cardinality(Again)

ScanTypeOK ==
  /\ file \in Seq(0..255)
  /\ scan \in {"piece", "nodes", "done"}
  /\ Origin \in Nat
  /\ piece \in Nat /\ looked \in Nat
  /\ ev_tables \in Seq(RefTables)

(* Where the piece begins, and how far it was looked at.                   *)
Pieces ==
  /\ Origin <= piece /\ (piece - Origin) % Stride = 0
  /\ piece <= looked /\ looked <= piece + Stride + 1
  /\ scan = "piece" => looked = piece

(* Each reading of a node takes a slot while there are some; the table of a*)
(* node read is missing only if there were more readings than slots.       *)
Entered ==
  /\ Len(ev_tables) <= MaxTables
  /\ Len(ev_tables) <= Readings
  /\ (\A i \in Once : EvTable(file, i) \in Found) \/ Readings > MaxTables

ScanInv == scan # "none" => ScanTypeOK /\ Pieces /\ Entered /\ EvFound

(* A piece further on is as far from where a piece begins.                 *)
LEMMA NextMultiple ==
  ASSUME NEW a \in Nat, NEW w \in Nat \ {0}, a % w = 0
  PROVE  (a + w) % w = 0
<1> DEFINE q == a \div w
           r == (a + w) \div w
           m == (a + w) % w
           d == r - q - 1
<1>1. q \in Int /\ r \in Int /\ m \in Int /\ w \in Int /\ w > 0
  BY SMT
<1>2. a = w * q
  BY SMTT(20)
<1>3. a + w = w * r + m /\ 0 <= m /\ m < w
  BY SMTT(20)
<1> HIDE DEF q, r, m
<1>4. d \in Int /\ w * d = -m
  BY <1>1, <1>2, <1>3, SMTT(20)
<1> HIDE DEF d
<1>5. d = 0 \/ d <= -1 \/ d >= 1
  BY <1>4
<1>6. d >= 1 => w * d >= w
  BY <1>4, <1>1, SMTT(20)
<1>7. d <= -1 => w * d <= -w
  BY <1>4, <1>1, SMTT(20)
<1>8. d = 0 => w * d = 0
  BY <1>4, <1>1
<1>9. m = 0
  BY <1>1, <1>3, <1>4, <1>5, <1>6, <1>7, <1>8
<1> QED
  BY <1>9 DEF m

LEMMA ScanConstants == Stride \in Nat /\ Stride > 0 /\ MaxTables \in Nat /\ NodeSize = 20
BY SysScanAssumption DEF NodeSize

(* The sets of nodes are finite.                                           *)
LEMMA NodesFinite ==
  ASSUME Origin \in Nat, file \in Seq(0..255)
  PROVE  /\ IsFiniteSet(EvNodes) /\ IsFiniteSet(ReadTwice) /\ IsFiniteSet(Once) /\ IsFiniteSet(Again)
         /\ Cardinality(EvNodes) \in Nat /\ Cardinality(ReadTwice) \in Nat
         /\ Cardinality(Once) \in Nat /\ Cardinality(Again) \in Nat
<1>1. Origin \in Int /\ Len(file) - NodeSize \in Int
  BY ScanConstants
<1>2. IsFiniteSet(Origin..(Len(file) - NodeSize))
  BY <1>1, FS_Interval
<1>3. EvNodes \subseteq Origin..(Len(file) - NodeSize)
  BY DEF EvNodes, Origin
<1>4. IsFiniteSet(EvNodes)
  BY <1>2, <1>3, FS_Subset
<1>5. ReadTwice \subseteq EvNodes /\ Once \subseteq EvNodes
  BY DEF ReadTwice, Once
<1>6. Again \subseteq ReadTwice
  BY DEF Again
<1>7. IsFiniteSet(ReadTwice) /\ IsFiniteSet(Once)
  BY <1>4, <1>5, FS_Subset
<1>8. IsFiniteSet(Again)
  BY <1>6, <1>7, FS_Subset
<1> QED
  BY <1>4, <1>7, <1>8, FS_CardinalityType

(* The readings are no more than the nodes and those that are read twice,  *)
(* and fewer while some node was not read.                                 *)
LEMMA ReadingsBounded ==
  ASSUME Origin \in Nat, file \in Seq(0..255)
  PROVE  /\ Readings <= Cardinality(EvNodes) + Cardinality(ReadTwice)
         /\ Once # EvNodes => Readings < Cardinality(EvNodes) + Cardinality(ReadTwice)
<1>1. Once \subseteq EvNodes /\ Again \subseteq ReadTwice
  BY DEF Once, Again
<1>2. Cardinality(Once) <= Cardinality(EvNodes) /\ Cardinality(Again) <= Cardinality(ReadTwice)
  BY <1>1, NodesFinite, FS_Subset
<1>3. Once # EvNodes => Cardinality(Once) < Cardinality(EvNodes)
  BY <1>1, NodesFinite, FS_Subset
<1> QED
  BY <1>2, <1>3, NodesFinite DEF Readings

LEMMA ScanInvInit == ScanInit => ScanInv
<1> SUFFICES ASSUME ScanInit, scan # "none"
             PROVE  ScanTypeOK /\ Pieces /\ Entered /\ EvFound
  BY DEF ScanInv
<1>1. file \in Seq(0..255) /\ scan = "piece" /\ Origin \in Nat
      /\ piece = Origin /\ looked = Origin /\ ev_tables = <<>>
  BY DEF ScanInit, sysscan_init, Origin
<1>2. ScanTypeOK
  BY <1>1 DEF ScanTypeOK
<1>3. Pieces
  <2>1. (piece - Origin) = 0 /\ 0 % Stride = 0
    BY <1>1, ScanConstants
  <2> QED
    BY <1>1, <2>1, ScanConstants DEF Pieces
<1>4. Once = {}
  BY <1>1 DEF Once, EvNodes, Origin
<1>5. Readings \in Nat
  BY <1>1, NodesFinite DEF Readings
<1>6. Entered
  BY <1>1, <1>4, <1>5, ScanConstants DEF Entered
<1> QED
  BY <1>1, <1>2, <1>3, <1>6 DEF EvFound

(* The next step of the scan, from the state the invariant describes.      *)
LEMMA ReadPieceStays == ASSUME ScanInv, ReadPiece PROVE ScanInv'
<1>1. /\ scan = "piece" /\ scan' = "nodes"
      /\ file' = file /\ piece' = piece /\ looked' = looked /\ ev_tables' = ev_tables
  BY DEF ReadPiece
<1>2. ScanTypeOK /\ Pieces /\ Entered
  BY <1>1 DEF ScanInv
<1>3. Origin' = Origin /\ EvNodes' = EvNodes /\ ReadTwice' = ReadTwice /\ RefTables' = RefTables
  BY <1>1 DEF Origin, EvNodes, ReadTwice, RefTables
<1>4. Once' = Once /\ Again' = Again /\ Found' = Found
  BY <1>1, <1>3 DEF Once, Again, Found
<1>5. ScanTypeOK'
  BY <1>1, <1>2, <1>3 DEF ScanTypeOK
<1>6. Pieces'
  BY <1>1, <1>2, <1>3 DEF Pieces
<1>7. Entered'
  BY <1>1, <1>2, <1>4 DEF Entered, Readings
<1> QED
  BY <1>1, <1>5, <1>6, <1>7 DEF ScanInv, EvFound

LEMMA FoundReferred ==
  ASSUME ev_tables \in Seq(RefTables)
  PROVE  Found \subseteq RefTables
BY DEF Found

(* When every node was read, what is missing had no slot.                  *)
LEMMA ScanDone ==
  ASSUME ScanTypeOK, Entered, Once = EvNodes, file' = file, ev_tables' = ev_tables
  PROVE  EvFound'
<1>1. EvNodes' = EvNodes /\ ReadTwice' = ReadTwice /\ RefTables' = RefTables /\ Found' = Found
  BY DEF EvNodes, ReadTwice, RefTables, Found
<1>2. Found \subseteq RefTables
  BY FoundReferred DEF ScanTypeOK
<1>3. CASE \A i \in Once : EvTable(file, i) \in Found
  <2>1. RefTables \subseteq Found
    BY <1>3 DEF RefTables
  <2>2. Found' = RefTables'
    BY <1>1, <1>2, <2>1
  <2> QED
    BY <2>2 DEF EvFound, Found, RefTables
<1>4. CASE Readings > MaxTables
  <2>1. Cardinality(EvNodes) + Cardinality(ReadTwice) > MaxTables
    <3>1. Readings \in Int
      BY NodesFinite DEF ScanTypeOK, Readings
    <3> QED
      BY <1>4, <3>1, ReadingsBounded, NodesFinite, ScanConstants DEF ScanTypeOK
  <2>2. Found' \subseteq RefTables'
    BY <1>1, <1>2
  <2> QED
    BY <1>1, <2>1, <2>2 DEF EvFound, Found, RefTables
<1> QED
  BY <1>3, <1>4 DEF Entered

LEMMA NodesPrimed ==
  ASSUME Origin' \in Nat, file' \in Seq(0..255)
  PROVE  Readings' \in Nat
<1>1. EvNodes' \subseteq Origin'..(Len(file') - NodeSize)
  BY DEF EvNodes, Origin
<1>2. Once' \subseteq EvNodes' /\ Again' \subseteq EvNodes'
  BY DEF Once, Again, ReadTwice
<1>3. IsFiniteSet(Origin'..(Len(file') - NodeSize))
  BY FS_Interval, ScanConstants
<1>4. IsFiniteSet(Once') /\ IsFiniteSet(Again')
  BY <1>1, <1>2, <1>3, FS_Subset
<1> QED
  BY <1>4, FS_CardinalityType DEF Readings

(* The first node that is left is read for the first time, or again if the *)
(* piece begins with it; either way it takes a slot if there is one.       *)
LEMMA EnterTableStays == ASSUME ScanInv, EnterTable PROVE ScanInv'
<1>1. PICK i \in PlacesLeft :
        /\ IsEvNode(file, i) /\ \A j \in looked..(i - 1) : ~IsEvNode(file, j)
        /\ looked' = i + 1
        /\ ev_tables' = IF Len(ev_tables) < MaxTables THEN Append(ev_tables, EvTable(file, i))
                        ELSE ev_tables
  BY DEF EnterTable
<1>2. scan = "nodes" /\ scan' = "nodes" /\ file' = file /\ piece' = piece
  BY DEF EnterTable
<1>3. ScanTypeOK /\ Pieces /\ Entered
  BY <1>2 DEF ScanInv
<1>4. /\ Origin' = Origin /\ EvNodes' = EvNodes /\ ReadTwice' = ReadTwice /\ RefTables' = RefTables
  BY <1>2 DEF Origin, EvNodes, ReadTwice, RefTables
<1>5. /\ Origin \in Nat /\ piece \in Nat /\ looked \in Nat /\ Len(file) \in Nat
      /\ Origin <= piece /\ piece <= looked
  BY <1>3 DEF ScanTypeOK, Pieces
<1>6. i \in Int /\ looked <= i /\ i <= piece + Stride /\ i + NodeSize <= Len(file)
  BY <1>1, <1>5, ScanConstants DEF PlacesLeft, PieceEnd, Upto
<1>7. i \in EvNodes
  <2>1. Origin <= i /\ i <= Len(file) - NodeSize
    BY <1>5, <1>6, ScanConstants
  <2> QED
    BY <2>1, <1>1, <1>5, <1>6, ScanConstants DEF EvNodes, Origin
<1>8. \A j \in EvNodes : j < i => j < looked
  <2> SUFFICES ASSUME NEW j \in EvNodes, j < i, ~(j < looked)
               PROVE  FALSE
    OBVIOUS
  <2>1. j \in Int /\ IsEvNode(file, j)
    BY <1>5, ScanConstants DEF EvNodes, Origin
  <2>2. j \in looked..(i - 1)
    BY <2>1, <1>5, <1>6
  <2> QED
    BY <2>1, <2>2, <1>1
<1>9. EvTable(file, i) \in RefTables
  BY <1>7 DEF RefTables
<1>10. ScanTypeOK'
  <2>1. ev_tables' \in Seq(RefTables)
    BY <1>1, <1>3, <1>9 DEF ScanTypeOK
  <2>2. looked' \in Nat
    BY <1>1, <1>5, <1>6
  <2> QED
    BY <2>1, <2>2, <1>2, <1>3, <1>4 DEF ScanTypeOK
<1>11. Pieces'
  BY <1>1, <1>2, <1>3, <1>4, <1>5, <1>6, ScanConstants DEF Pieces
<1>12. /\ Cardinality(Once) \in Nat /\ Cardinality(Again) \in Nat
       /\ IsFiniteSet(Once) /\ IsFiniteSet(Again)
  BY <1>3, NodesFinite DEF ScanTypeOK
<1>13. EvNodes \subseteq Int
  BY <1>5, ScanConstants DEF EvNodes, Origin
<1>14. \A j \in EvNodes : j < i + 1 <=> j < looked \/ j = i
  BY <1>5, <1>6, <1>8, <1>13
<1>15. ~(i < looked)
  BY <1>5, <1>6
<1>16. Once \subseteq Once' /\ Once' \subseteq Once \cup {i} /\ Readings' >= Readings + 1
  <2>1. CASE i = piece /\ piece > Origin
    <3>1. i \in ReadTwice
      BY <1>3, <1>7, <2>1 DEF ReadTwice, Pieces, Origin
    <3>2. Once' = Once
      BY <1>1, <1>2, <1>4, <1>14, <2>1 DEF Once
    <3>3. ReadTwice \subseteq EvNodes
      BY DEF ReadTwice
    <3>4. i \notin Again
      BY <1>15 DEF Again
    <3>5. Again' = Again \cup {i}
      <4>1. i <= piece
        BY <1>6, <2>1
      <4> QED
        BY <1>1, <1>2, <1>4, <1>14, <3>1, <3>3, <4>1 DEF Again
    <3>6. Cardinality(Again') = Cardinality(Again) + 1
      BY <1>12, <3>4, <3>5, FS_AddElement
    <3> QED
      BY <1>12, <3>2, <3>6 DEF Readings
  <2>2. CASE ~(i = piece /\ piece > Origin)
    <3>1. i \notin Once
      BY <1>15, <2>2 DEF Once
    <3>2. Once' = Once \cup {i}
      BY <1>1, <1>2, <1>4, <1>7, <1>14 DEF Once
    <3>3. Cardinality(Once') = Cardinality(Once) + 1
      BY <1>12, <3>1, <3>2, FS_AddElement
    <3>4. \A j \in ReadTwice : j \in EvNodes /\ j > Origin
      BY DEF ReadTwice, Origin
    <3>5. i \in ReadTwice => ~(i <= piece)
      BY <1>5, <1>6, <2>2, <3>4
    <3>6. Again' = Again
      BY <1>1, <1>2, <1>4, <1>14, <3>4, <3>5 DEF Again
    <3> QED
      BY <1>12, <3>2, <3>3, <3>6 DEF Readings
  <2> QED
    BY <2>1, <2>2
<1>17. ev_tables \in Seq(RefTables) /\ Len(ev_tables) \in Nat /\ Len(ev_tables) <= MaxTables
       /\ Len(ev_tables) <= Readings /\ Readings \in Nat
  BY <1>3, <1>12 DEF ScanTypeOK, Entered, Readings
<1>18. Readings' \in Int
  BY <1>2, <1>3, <1>4, <1>10, NodesPrimed DEF ScanTypeOK
<1>19. CASE Len(ev_tables) < MaxTables
  <2>1. ev_tables' = Append(ev_tables, EvTable(file, i))
    BY <1>1, <1>19
  <2>2. Len(ev_tables') = Len(ev_tables) + 1
    BY <1>9, <1>17, <2>1
  <2>3. Found' = Found \cup {EvTable(file, i)}
    <3>1. /\ DOMAIN ev_tables' = 1..(Len(ev_tables) + 1) /\ DOMAIN ev_tables = 1..Len(ev_tables)
          /\ \A k \in 1..Len(ev_tables) : ev_tables'[k] = ev_tables[k]
          /\ ev_tables'[Len(ev_tables) + 1] = EvTable(file, i)
      BY <1>9, <1>17, <2>1
    <3>2. 1..(Len(ev_tables) + 1) = 1..Len(ev_tables) \cup {Len(ev_tables) + 1}
      BY <1>17
    <3> QED
      BY <3>1, <3>2 DEF Found
  <2>4. (\A j \in Once : EvTable(file, j) \in Found)
        => \A j \in Once' : EvTable(file', j) \in Found'
    BY <1>2, <1>16, <2>3
  <2>5. Len(ev_tables') <= MaxTables /\ Len(ev_tables') <= Readings'
    BY <1>16, <1>17, <1>18, <1>19, <2>2, ScanConstants
  <2>6. Readings > MaxTables => Readings' > MaxTables
    BY <1>16, <1>17, <1>18, ScanConstants
  <2>7. (\A j \in Once : EvTable(file, j) \in Found) \/ Readings > MaxTables
    BY <1>3 DEF Entered
  <2>8. Entered'
    BY <2>4, <2>5, <2>6, <2>7 DEF Entered
  <2> QED
    BY <1>2, <1>10, <1>11, <2>8 DEF ScanInv, EvFound
<1>20. CASE ~(Len(ev_tables) < MaxTables)
  <2>1. ev_tables' = ev_tables
    BY <1>1, <1>20
  <2>2. Readings' > MaxTables
    BY <1>16, <1>17, <1>18, <1>20, ScanConstants
  <2>3. Len(ev_tables') <= MaxTables /\ Len(ev_tables') <= Readings'
    BY <1>16, <1>17, <1>18, <2>1, <2>2, ScanConstants
  <2>4. Entered'
    BY <2>2, <2>3 DEF Entered
  <2> QED
    BY <1>2, <1>10, <1>11, <2>4 DEF ScanInv, EvFound
<1> QED
  BY <1>19, <1>20

(* In a piece that is not the last, no node begins behind the place where  *)
(* the next one does; the last reaches to the end of the file.             *)
LEMMA NextPieceStays == ASSUME ScanInv, NextPiece PROVE ScanInv'
<1>1. /\ scan = "nodes" /\ file' = file /\ ev_tables' = ev_tables
      /\ \A i \in PlacesLeft : ~IsEvNode(file, i)
  BY DEF NextPiece
<1>2. ScanTypeOK /\ Pieces /\ Entered
  BY <1>1 DEF ScanInv
<1>3. Origin' = Origin /\ EvNodes' = EvNodes /\ ReadTwice' = ReadTwice /\ RefTables' = RefTables
      /\ Found' = Found
  BY <1>1 DEF Origin, EvNodes, ReadTwice, RefTables, Found
<1>4. /\ Origin \in Nat /\ piece \in Nat /\ looked \in Nat /\ Len(file) \in Nat
      /\ Origin <= piece /\ piece <= looked /\ looked <= piece + Stride + 1
  BY <1>2 DEF ScanTypeOK, Pieces
<1>5. \A j \in EvNodes : j \in Int /\ j + NodeSize <= Len(file) /\ IsEvNode(file, j)
  BY <1>4, ScanConstants DEF EvNodes, Origin
<1>6. CASE Len(file) - piece < Stride + NodeSize
  <2>1. scan' = "done" /\ piece' = piece /\ looked' = looked
    BY <1>6 DEF NextPiece
  <2>2. PieceEnd(piece) = Len(file)
    BY <1>4, <1>6, ScanConstants DEF PieceEnd, Upto
  <2>3. \A j \in EvNodes : j < looked
    <3> SUFFICES ASSUME NEW j \in EvNodes, ~(j < looked) PROVE FALSE
      OBVIOUS
    <3>1. j \in PlacesLeft
      BY <1>4, <1>5, <2>2, ScanConstants DEF PlacesLeft
    <3> QED
      BY <1>1, <1>5, <3>1
  <2>4. Once = EvNodes
    BY <2>3 DEF Once
  <2>5. Once' = Once /\ Again' = Again
    BY <1>1, <1>3, <2>1 DEF Once, Again
  <2>6. ScanTypeOK' /\ Pieces' /\ Entered'
    BY <1>1, <1>2, <1>3, <2>1, <2>5 DEF ScanTypeOK, Pieces, Entered, Readings
  <2>7. EvFound'
    BY <1>1, <1>2, <1>3, <2>4, ScanDone
  <2> QED
    BY <2>6, <2>7 DEF ScanInv
<1>7. CASE ~(Len(file) - piece < Stride + NodeSize)
  <2>1. scan' = "piece" /\ piece' = piece + Stride /\ looked' = piece + Stride
    BY <1>7 DEF NextPiece
  <2>2. PieceEnd(piece) = piece + Stride + NodeSize
    BY <1>4, <1>7, ScanConstants DEF PieceEnd, Upto
  <2>3. \A j \in EvNodes : j <= piece + Stride => j < looked
    <3> SUFFICES ASSUME NEW j \in EvNodes, j <= piece + Stride, ~(j < looked) PROVE FALSE
      OBVIOUS
    <3>1. j \in PlacesLeft
      BY <1>4, <1>5, <2>2, ScanConstants DEF PlacesLeft
    <3> QED
      BY <1>1, <1>5, <3>1
  <2>4. Once' = Once
    <3>1. piece + Stride > Origin
      BY <1>4, ScanConstants
    <3>2. \A j \in EvNodes : (j < piece + Stride \/ j = piece + Stride)
                              <=> (j < looked \/ (j = piece /\ piece > Origin))
      BY <1>4, <1>5, <2>3, ScanConstants
    <3> QED
      BY <1>3, <2>1, <3>1, <3>2 DEF Once
  <2>5. Again \subseteq Again' /\ IsFiniteSet(Again')
    <3>1. \A j \in ReadTwice : j \in EvNodes
      BY DEF ReadTwice
    <3>2. \A j \in EvNodes : j <= piece => j < piece + Stride /\ j <= piece + Stride
      BY <1>4, <1>5, ScanConstants
    <3>3. Again \subseteq Again' /\ Again' \subseteq ReadTwice
      BY <1>3, <2>1, <3>1, <3>2 DEF Again
    <3>4. IsFiniteSet(ReadTwice)
      BY <1>2, NodesFinite DEF ScanTypeOK
    <3> QED
      BY <3>3, <3>4, FS_Subset
  <2>6. Readings <= Readings' /\ Readings \in Nat /\ Readings' \in Nat
    <3>1. Cardinality(Again) <= Cardinality(Again') /\ Cardinality(Again') \in Nat
      BY <2>5, FS_Subset, FS_CardinalityType
    <3>2. Cardinality(Once) \in Nat /\ Cardinality(Again) \in Nat
      BY <1>2, NodesFinite DEF ScanTypeOK
    <3> QED
      BY <2>4, <3>1, <3>2 DEF Readings
  <2>7. ScanTypeOK'
    BY <1>1, <1>2, <1>3, <2>1, ScanConstants DEF ScanTypeOK
  <2>8. Pieces'
    <3>1. (piece - Origin) \in Nat /\ (piece - Origin) % Stride = 0 /\ Stride \in Nat \ {0}
      BY <1>2, <1>4, ScanConstants DEF Pieces
    <3>2. ((piece - Origin) + Stride) % Stride = 0
      BY <3>1, NextMultiple
    <3>3. (piece - Origin) + Stride = (piece + Stride) - Origin
      BY <1>4, ScanConstants
    <3>4. ((piece + Stride) - Origin) % Stride = 0
      BY <3>2, <3>3
    <3> QED
      BY <1>3, <1>4, <2>1, <3>4, ScanConstants DEF Pieces
  <2>9. Entered'
    BY <1>1, <1>2, <1>3, <2>4, <2>6, ScanConstants DEF Entered, ScanTypeOK
  <2> QED
    BY <2>1, <2>7, <2>8, <2>9 DEF ScanInv, EvFound
<1> QED
  BY <1>6, <1>7

(* Either no slot is left, or nothing of the file is.                      *)
LEMMA ScanEndsStays == ASSUME ScanInv, ScanEnds PROVE ScanInv'
<1>1. /\ scan = "piece" /\ ~More /\ scan' = "done"
      /\ file' = file /\ piece' = piece /\ looked' = looked /\ ev_tables' = ev_tables
  BY DEF ScanEnds
<1>2. ScanTypeOK /\ Pieces /\ Entered
  BY <1>1 DEF ScanInv
<1>3. Origin' = Origin /\ EvNodes' = EvNodes /\ ReadTwice' = ReadTwice /\ RefTables' = RefTables
      /\ Found' = Found
  BY <1>1 DEF Origin, EvNodes, ReadTwice, RefTables, Found
<1>4. Once' = Once /\ Again' = Again
  BY <1>1, <1>3 DEF Once, Again
<1>5. ScanTypeOK' /\ Pieces' /\ Entered'
  BY <1>1, <1>2, <1>3, <1>4 DEF ScanTypeOK, Pieces, Entered, Readings
<1>6. Origin \in Nat /\ piece \in Nat /\ looked = piece /\ Len(file) \in Nat
      /\ Len(ev_tables) \in Nat
  BY <1>1, <1>2 DEF ScanTypeOK, Pieces
<1>7. CASE piece + NodeSize > Len(file)
  <2>1. \A j \in EvNodes : j < looked
    BY <1>6, <1>7, ScanConstants DEF EvNodes, Origin
  <2>2. Once = EvNodes
    BY <2>1 DEF Once
  <2> QED
    BY <1>1, <1>2, <1>3, <1>5, <2>2, ScanDone DEF ScanInv
<1>8. CASE Len(ev_tables) >= MaxTables
  <2>1. Readings >= MaxTables /\ Readings \in Int
    <3>1. Readings \in Int
      BY <1>2, NodesFinite DEF ScanTypeOK, Readings
    <3> QED
      BY <1>2, <1>6, <1>8, <3>1, ScanConstants DEF Entered
  <2>2. CASE Once = EvNodes
    BY <1>1, <1>2, <1>3, <1>5, <2>2, ScanDone DEF ScanInv
  <2>3. CASE Once # EvNodes
    <3>1. Cardinality(EvNodes) + Cardinality(ReadTwice) > MaxTables
      BY <1>2, <2>1, <2>3, ReadingsBounded, NodesFinite, ScanConstants DEF ScanTypeOK
    <3>2. Found \subseteq RefTables
      BY <1>2, FoundReferred DEF ScanTypeOK
    <3>3. EvFound'
      BY <1>3, <3>1, <3>2 DEF EvFound, Found, RefTables
    <3> QED
      BY <1>5, <3>3 DEF ScanInv
  <2> QED
    BY <2>2, <2>3
<1> QED
  BY <1>1, <1>6, <1>7, <1>8, ScanConstants DEF More

LEMMA ScanInvNext == ScanInv /\ [find_ev_tables]_svars => ScanInv'
<1> SUFFICES ASSUME ScanInv, [find_ev_tables]_svars PROVE ScanInv'
  OBVIOUS
<1>1. CASE UNCHANGED svars
  <2>1. /\ file' = file /\ scan' = scan /\ piece' = piece /\ looked' = looked
        /\ ev_tables' = ev_tables
    BY <1>1 DEF svars
  <2>2. Origin' = Origin /\ EvNodes' = EvNodes /\ ReadTwice' = ReadTwice /\ RefTables' = RefTables
        /\ Found' = Found
    BY <2>1 DEF Origin, EvNodes, ReadTwice, RefTables, Found
  <2>3. Once' = Once /\ Again' = Again
    BY <2>1, <2>2 DEF Once, Again
  <2>4. (ScanTypeOK' <=> ScanTypeOK) /\ (Pieces' <=> Pieces) /\ (Entered' <=> Entered)
    BY <2>1, <2>2, <2>3 DEF ScanTypeOK, Pieces, Entered, Readings
  <2>5. EvFound' <=> EvFound
    BY <2>1, <2>2 DEF EvFound
  <2> QED
    BY <2>1, <2>4, <2>5 DEF ScanInv
<1> QED
  BY <1>1, ReadPieceStays, EnterTableStays, NextPieceStays, ScanEndsStays DEF find_ev_tables

(* The tables of names found are those that some node refers to, however   *)
(* the file is cut into pieces, if there are slots for them.               *)
THEOREM NamesAreFound == ScanSpec => []EvFound
<1>1. ScanInv => EvFound
  BY DEF ScanInv, EvFound
<1> QED
  BY <1>1, ScanInvInit, ScanInvNext, PTL DEF ScanSpec
=============================================================================
