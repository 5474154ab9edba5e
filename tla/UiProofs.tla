------------------------------ MODULE UiProofs ------------------------------
(***************************************************************************)
(* For every image and every height of the display: the screens are well   *)
(* typed, the selected row of each list is a row that is displayed, titles *)
(* are in the language in use, which changes only by choice, each open     *)
(* screen is what the row selected in its caller leads to, and no more are *)
(* open than a menu without cycles allows.                                 *)
(***************************************************************************)
EXTENDS Ui, FiniteSetTheorems, SequenceTheorems, TLAPS

(* How many tables there are and where the English one is.                 *)
LEMMA TableCounts ==
  /\ table_count \in Nat
  /\ english \in -1..(table_count - 1)
<1> DEFINE D == DOMAIN StringFiles
           T == {i \in Tables : \E j \in EnglishTables : i <= j}
<1>1. IsFiniteSet(D)
  <2>1. StringFiles \in Seq([kind   : {"table", "other", "broken"},
                             number : 0..99,
                             ids    : SUBSET Ids])
    BY StringsAssumption
  <2>2. D = 1..Len(StringFiles) /\ Len(StringFiles) \in Nat
    BY <2>1
  <2> QED BY <2>2, FS_Interval
<1>2. Tables \subseteq D
  BY DEF Tables, Candidates
<1>3. IsFiniteSet(Tables) /\ table_count \in Nat
  BY <1>1, <1>2, FS_Subset, FS_CardinalityType DEF table_count
<1>4. T \subseteq Tables
  OBVIOUS
<1>5. IsFiniteSet(T) /\ Cardinality(T) \in Nat /\ Cardinality(T) <= table_count
  BY <1>3, <1>4, FS_Subset, FS_CardinalityType DEF table_count
<1>6. english = Cardinality(T) - 1
  BY DEF english
<1> QED BY <1>3, <1>5, <1>6

(* Selecting and drawing keep a language that is there.                    *)
LanguageIn(cur) == cur \in IF table_count = 0 THEN {-1} ELSE 0..(table_count - 1)

LEMMA SelectTyped ==
  ASSUME NEW cur, LanguageIn(cur), NEW place \in Int
  PROVE  LanguageIn(str_select(cur, place))
BY TableCounts DEF LanguageIn, str_select

LEMMA TextTyped ==
  ASSUME NEW cur, LanguageIn(cur), NEW id \in Ids
  PROVE  Text(cur, id) \in (NoText..(table_count - 1)) \X Ids
<1>1. cur \in -1..(table_count - 1)
  BY TableCounts DEF LanguageIn
<1>2. NoText = -1 BY DEF NoText
<1> QED BY <1>1, <1>2, TableCounts DEF Text

FrameOK(f) == f \in Frames /\ DataOK(f) /\ CursorOK(f)

LEMMA CountTyped ==
  ASSUME NEW f \in Frames, f.scr \in Lists, DataOK(f)
  PROVE  Count(f) \in Nat
<1>1. CASE f.scr = "vw"
  <2>1. MenuNodes[f.arg].entries \in Seq([caption : Captions, action : Nat, param : Nat])
    BY <1>1, MenuAssumption DEF DataOK, IsNode
  <2> QED BY <1>1, <2>1 DEF Count, node_count
<1>2. CASE f.scr = "module"
  <2>1. FuncRecords[f.arg] \in Seq(Captions)
    BY <1>2, MenuAssumption DEF DataOK, HasRecord
  <2> QED BY <1>2, <2>1 DEF Count, FunctionItems
<1>3. CASE f.scr = "obd"
  BY <1>3 DEF Count, obd_count
<1>4. CASE f.scr = "setup"
  BY <1>4 DEF Count, SetupItems
<1>5. CASE f.scr = "languages"
  BY <1>5, TableCounts DEF Count
<1> QED BY <1>1, <1>2, <1>3, <1>4, <1>5 DEF Lists

LEMMA DrawingTyped ==
  ASSUME NEW f, FrameOK(f), NEW cur, LanguageIn(cur)
  PROVE  LanguageIn(AfterDrawing(f, cur))
<1>1. CASE f.scr = "languages" /\ f.top < Count(f)
  <2>1. Count(f) \in Nat /\ f.top \in Int /\ Rows \in Nat
    BY <1>1, CountTyped, UiAssumption DEF FrameOK, Frames, Lists
  <2>2. LastDrawn(f) \in Int
    BY <2>1 DEF LastDrawn
  <2>3. cur \in Int
    BY TableCounts DEF LanguageIn
  <2>4. LanguageIn(LangItemText(cur, LastDrawn(f)))
    BY <2>2, <2>3, SelectTyped DEF LangItemText
  <2> QED BY <1>1, <2>4 DEF AfterDrawing
<1>2. CASE ~(f.scr = "languages" /\ f.top < Count(f))
  BY <1>2 DEF AfterDrawing
<1> QED BY <1>1, <1>2

(* A row and the first one displayed after it was scrolled to.             *)
LEMMA ScrolledShows ==
  ASSUME NEW sel \in Int, NEW top \in Int
  PROVE  /\ Scrolled(sel, top) \in Int
         /\ Scrolled(sel, top) <= sel
         /\ sel < Scrolled(sel, top) + Rows
         /\ sel >= 0 /\ top >= 0 => Scrolled(sel, top) >= 0
BY UiAssumption DEF Scrolled

(* A list entered at a row that is none, or is in it.                      *)
LEMMA ListedOK ==
  ASSUME NEW f \in Frames, f.scr \in Lists, DataOK(f),
         NEW start \in Int, Count(f) > 0 => start >= 0
  PROVE  /\ FrameOK(Listed(f, start))
         /\ Listed(f, start).scr = f.scr
<1> DEFINE row == Started(start, Count(f))
           g   == [f EXCEPT !.sel = row, !.top = Scrolled(row, 0)]
<1>1. Count(f) \in Nat
  BY CountTyped
<1>2. row \in Int /\ (Count(f) > 0 => row >= 0 /\ row < Count(f))
  BY <1>1 DEF Started
<1>3. Listed(f, start) = g
  BY DEF Listed
<1>4. /\ Scrolled(row, 0) \in Int /\ Scrolled(row, 0) <= row
      /\ row < Scrolled(row, 0) + Rows
      /\ row >= 0 => Scrolled(row, 0) >= 0
  <2>1. row \in Int /\ 0 \in Int
    BY <1>2
  <2> HIDE DEF row
  <2>2. row >= 0 /\ 0 >= 0 => Scrolled(row, 0) >= 0
    BY <2>1, ScrolledShows
  <2> QED BY <2>1, <2>2, ScrolledShows
<1> HIDE DEF row
<1>5. g \in Frames /\ g.scr = f.scr /\ g.arg = f.arg /\ g.sel = row /\ g.top = Scrolled(row, 0)
  BY <1>2, <1>4 DEF Frames
<1> HIDE DEF g
<1>6. Count(g) = Count(f)
  BY <1>5 DEF Count
<1>7. DataOK(g)
  BY <1>5 DEF DataOK
<1>8. CursorOK(g)
  BY <1>2, <1>4, <1>5, <1>6 DEF CursorOK, Lists
<1> QED BY <1>3, <1>5, <1>7, <1>8 DEF FrameOK

(* What the calls open and what goes on when they return.                  *)
LEMMA ScreenTyped ==
  ASSUME NEW kind \in Screens, NEW arg \in Nat, NEW id \in Ids,
         NEW cur, LanguageIn(cur), NEW sel \in Int, NEW top \in Int
  PROVE  /\ Screen(kind, arg, id, cur, sel, top) \in Frames
         /\ Screen(kind, arg, id, cur, sel, top).scr = kind
         /\ Screen(kind, arg, id, cur, sel, top).arg = arg
BY TextTyped DEF Screen, Frames

LEMMA OpenListOK ==
  ASSUME NEW kind \in Lists, NEW arg \in Nat, NEW id \in Ids,
         NEW cur, LanguageIn(cur), NEW start \in Int,
         kind = "vw" => IsNode(arg), kind = "module" => HasRecord(arg),
         kind = "languages" => start = cur,
         kind # "languages" => start = 0
  PROVE  /\ FrameOK(OpenList(kind, arg, id, cur, start))
         /\ OpenList(kind, arg, id, cur, start).scr = kind
<1> DEFINE f == Screen(kind, arg, id, cur, 0, 0)
<1>1. f \in Frames /\ f.scr = kind /\ f.arg = arg
  BY ScreenTyped DEF Screens
<1> HIDE DEF f
<1>2. DataOK(f)
  BY <1>1 DEF DataOK
<1>3. Count(f) > 0 => start >= 0
  <2>1. CASE kind = "languages"
    BY <1>1, <2>1, TableCounts DEF Count, LanguageIn
  <2>2. CASE kind # "languages"
    BY <2>2
  <2> QED BY <2>1, <2>2
<1>4. OpenList(kind, arg, id, cur, start) = Listed(f, start)
  BY DEF OpenList, f
<1> QED BY <1>1, <1>2, <1>3, <1>4, ListedOK

LEMMA ShownOK ==
  ASSUME NEW kind \in {"message", "battery"}, NEW id \in Ids, NEW cur, LanguageIn(cur)
  PROVE  /\ FrameOK(Screen(kind, 0, id, cur, 0, 0))
         /\ Screen(kind, 0, id, cur, 0, 0).scr = kind
<1> DEFINE f == Screen(kind, 0, id, cur, 0, 0)
<1>1. f \in Frames /\ f.scr = kind
  <2>1. kind \in Screens /\ 0 \in Nat /\ 0 \in Int
    BY DEF Screens
  <2> QED BY <2>1, ScreenTyped
<1> HIDE DEF f
<1>2. FrameOK(f)
  BY <1>1 DEF FrameOK, DataOK, CursorOK, Lists
<1> QED BY <1>1, <1>2 DEF f

LEMMA RetitledOK ==
  ASSUME NEW f, FrameOK(f), NEW cur, LanguageIn(cur), NEW id \in Ids
  PROVE  /\ FrameOK([f EXCEPT !.title = Text(cur, id)])
         /\ [f EXCEPT !.title = Text(cur, id)].scr = f.scr
<1> DEFINE g == [f EXCEPT !.title = Text(cur, id)]
<1>1. /\ g \in Frames /\ g.scr = f.scr /\ g.arg = f.arg
      /\ g.sel = f.sel /\ g.top = f.top
  BY TextTyped DEF FrameOK, Frames
<1> HIDE DEF g
<1>2. Count(g) = Count(f)
  BY <1>1 DEF Count
<1>3. FrameOK(g)
  BY <1>1, <1>2 DEF FrameOK, DataOK, CursorOK
<1> QED BY <1>1, <1>3 DEF g

Callers == Lists \cup {"main"}

LEMMA ResumedOK ==
  ASSUME NEW f, FrameOK(f), f.scr \in Callers, NEW cur, LanguageIn(cur)
  PROVE  FrameOK(Resumed(f, cur)) /\ Resumed(f, cur).scr = f.scr
<1>1. CASE f.scr = "main"
  BY <1>1 DEF Resumed
<1>2. CASE f.scr # "main"
  <2> DEFINE g == Listed(f, f.sel)
  <2>1. f \in Frames /\ f.scr \in Lists /\ DataOK(f) /\ f.sel \in Int /\ f.id \in Ids
    BY <1>2 DEF FrameOK, Callers, Frames
  <2>2. Count(f) > 0 => f.sel >= 0
    BY <2>1, UiAssumption DEF FrameOK, CursorOK, Frames
  <2>3. FrameOK(g) /\ g.scr = f.scr
    BY <2>1, <2>2, ListedOK
  <2> HIDE DEF g
  <2>4. g.id \in Ids
    BY <2>3 DEF FrameOK, Frames
  <2>5. FrameOK(Retitled(g, cur)) /\ Retitled(g, cur).scr = g.scr
    BY <2>3, <2>4, RetitledOK DEF Retitled
  <2>6. Resumed(f, cur) = IF f.scr \in {"setup", "module"} THEN Retitled(g, cur) ELSE g
    BY <1>2 DEF Resumed, g
  <2> QED BY <2>3, <2>5, <2>6
<1> QED BY <1>1, <1>2

(* A key in a list moves to a row of it.                                   *)
LEMMA MovedOK ==
  ASSUME NEW f, FrameOK(f), f.scr \in Lists, NEW k \in ListKeys
  PROVE  LET row == MovedRow(f.sel, Count(f), k)
             g   == [f EXCEPT !.sel = row, !.top = Scrolled(row, f.top)]
         IN  FrameOK(g) /\ g.scr = f.scr
<1> DEFINE n   == Count(f)
           row == MovedRow(f.sel, n, k)
           g   == [f EXCEPT !.sel = row, !.top = Scrolled(row, f.top)]
<1>1. n \in Nat /\ f.sel \in Int /\ f.top \in Int /\ f \in Frames
  BY CountTyped DEF FrameOK, Frames
<1>2. n > 0 => f.sel >= 0 /\ f.sel < n /\ f.top >= 0
  BY <1>1, UiAssumption DEF FrameOK, CursorOK
<1>3. row \in Int /\ (n > 0 => row >= 0 /\ row < n)
  <2> HIDE DEF n
  <2>1. CASE n = 0
    BY <1>1, <2>1, UiAssumption DEF MovedRow, ListKeys
  <2>2. CASE n > 0
    <3>1. CASE k = "up"
      BY <1>1, <1>2, <2>2, <3>1 DEF MovedRow
    <3>2. CASE k = "down"
      BY <1>1, <1>2, <2>2, <3>2 DEF MovedRow
    <3>3. CASE k \in {"left", "right"}
      BY <1>1, <1>2, <2>2, <3>3, UiAssumption DEF MovedRow
    <3> QED BY <3>1, <3>2, <3>3 DEF ListKeys
  <2> QED BY <1>1, <2>1, <2>2
<1> HIDE DEF row
<1>4. /\ Scrolled(row, f.top) \in Int /\ Scrolled(row, f.top) <= row
      /\ row < Scrolled(row, f.top) + Rows
      /\ n > 0 => Scrolled(row, f.top) >= 0
  BY <1>1, <1>2, <1>3, ScrolledShows
<1>5. /\ g \in Frames /\ g.scr = f.scr /\ g.arg = f.arg
      /\ g.sel = row /\ g.top = Scrolled(row, f.top)
  BY <1>1, <1>3, <1>4 DEF Frames
<1> HIDE DEF g
<1>6. Count(g) = n
  BY <1>5 DEF Count
<1> HIDE DEF n
<1>7. DataOK(g)
  BY <1>5 DEF DataOK, FrameOK
<1>8. CursorOK(g)
  BY <1>3, <1>4, <1>5, <1>6 DEF CursorOK, Lists
<1>9. FrameOK(g) /\ g.scr = f.scr
  BY <1>5, <1>7, <1>8 DEF FrameOK
<1> QED BY <1>9 DEF g, row, n
-----------------------------------------------------------------------------
(* A screen that answers -1 has a caller, as the icon grid never does, and *)
(* a caller is a list or the grid.                                         *)
IInv ==
  /\ TypeOK
  /\ CursorShown
  /\ \A i \in DOMAIN stack : i # 1 => stack[i].scr \in Callers
  /\ rc = "back" => stack # <<>> /\ stack[1].scr # "main"

(* The invariant as the two shapes of step use it.                         *)
StackOK(s) ==
  /\ s \in Seq(Frames)
  /\ \A i \in DOMAIN s : FrameOK(s[i]) /\ (s[i].scr = "main" <=> i = Len(s))
  /\ \A i \in DOMAIN s : i # 1 => s[i].scr \in Callers

LEMMA IInvStack ==
  IInv <=> /\ StackOK(stack) /\ LanguageIn(current)
           /\ rc \in {"key", "back", "quit"} /\ skin \in {"gray", "blue"}
           /\ rc = "back" => stack # <<>> /\ stack[1].scr # "main"
<1>1. stack \in Seq(Frames) => \A i \in DOMAIN stack : stack[i] \in Frames
  OBVIOUS
<1>2. TypeOK /\ CursorShown /\ (\A i \in DOMAIN stack : i # 1 => stack[i].scr \in Callers)
      <=> /\ StackOK(stack) /\ LanguageIn(current)
          /\ rc \in {"key", "back", "quit"} /\ skin \in {"gray", "blue"}
  BY <1>1 DEF TypeOK, CursorShown, StackOK, FrameOK, LanguageOK, LanguageIn
<1> QED BY <1>2 DEF IInv

LEMMA PushedOK ==
  ASSUME NEW s, StackOK(s), s # <<>>, NEW c, FrameOK(c), c.scr = s[1].scr, c.scr \in Callers,
         NEW f, FrameOK(f), f.scr # "main"
  PROVE  StackOK(<<f, c>> \o Tail(s))
<1> DEFINE t == <<f, c>> \o Tail(s)
<1>1. s \in Seq(Frames) /\ Len(s) \in Nat /\ Len(s) >= 1 /\ Tail(s) \in Seq(Frames)
  BY DEF StackOK
<1>2. t \in Seq(Frames) /\ Len(t) = Len(s) + 1
  BY <1>1 DEF FrameOK
<1>3. t[1] = f /\ t[2] = c /\ \A i \in 3..Len(t) : t[i] = s[i - 1]
  BY <1>1, <1>2 DEF FrameOK
<1> HIDE DEF t
<1>4. ASSUME NEW i \in DOMAIN t
      PROVE  /\ FrameOK(t[i]) /\ (t[i].scr = "main" <=> i = Len(t))
             /\ i # 1 => t[i].scr \in Callers
  <2>1. i \in 1..Len(t) /\ 1 \in DOMAIN s
    BY <1>1, <1>2
  <2>2. CASE i = 1
    BY <1>1, <1>2, <1>3, <2>2
  <2>3. CASE i = 2
    BY <1>1, <1>2, <1>3, <2>1, <2>3 DEF StackOK
  <2>4. CASE i >= 3
    <3>1. i - 1 \in DOMAIN s /\ t[i] = s[i - 1]
      BY <1>1, <1>2, <1>3, <2>1, <2>4
    <3> QED BY <1>1, <1>2, <2>1, <3>1 DEF StackOK
  <2> QED BY <2>1, <2>2, <2>3, <2>4
<1> QED BY <1>2, <1>4 DEF StackOK, t

LEMMA ReplacedOK ==
  ASSUME NEW s, StackOK(s), s # <<>>, NEW f, FrameOK(f), f.scr = s[1].scr
  PROVE  StackOK(<<f>> \o Tail(s))
<1> DEFINE t == <<f>> \o Tail(s)
<1>1. s \in Seq(Frames) /\ Len(s) \in Nat /\ Len(s) >= 1 /\ Tail(s) \in Seq(Frames)
  BY DEF StackOK
<1>2. t \in Seq(Frames) /\ Len(t) = Len(s)
  BY <1>1 DEF FrameOK
<1>3. t[1] = f /\ \A i \in 2..Len(t) : t[i] = s[i]
  BY <1>1, <1>2 DEF FrameOK
<1> HIDE DEF t
<1>4. ASSUME NEW i \in DOMAIN t
      PROVE  /\ FrameOK(t[i]) /\ (t[i].scr = "main" <=> i = Len(t))
             /\ i # 1 => t[i].scr \in Callers
  <2>1. i \in 1..Len(t) /\ 1 \in DOMAIN s /\ i \in DOMAIN s
    BY <1>1, <1>2
  <2>2. CASE i = 1
    BY <1>2, <1>3, <2>1, <2>2 DEF StackOK
  <2>3. CASE i >= 2
    BY <1>2, <1>3, <2>1, <2>3 DEF StackOK
  <2> QED BY <2>1, <2>2, <2>3
<1> QED BY <1>2, <1>4 DEF StackOK, t

LEMMA PoppedOK ==
  ASSUME NEW s, StackOK(s), s # <<>>
  PROVE  /\ StackOK(Tail(s))
         /\ s[1].scr # "main" => Tail(s) # <<>> /\ Tail(s)[1].scr \in Callers
<1> DEFINE t == Tail(s)
<1>1. s \in Seq(Frames) /\ Len(s) \in Nat /\ Len(s) >= 1
  BY DEF StackOK
<1>2. t \in Seq(Frames) /\ Len(t) = Len(s) - 1 /\ \A i \in 1..Len(t) : t[i] = s[i + 1]
  BY <1>1
<1> HIDE DEF t
<1>3. ASSUME NEW i \in DOMAIN t
      PROVE  /\ FrameOK(t[i]) /\ (t[i].scr = "main" <=> i = Len(t))
             /\ i # 1 => t[i].scr \in Callers
  <2>1. i \in 1..Len(t) /\ i + 1 \in DOMAIN s
    BY <1>1, <1>2
  <2> QED BY <1>1, <1>2, <2>1 DEF StackOK
<1>4. s[1].scr # "main" => Len(s) >= 2
  <2>1. 1 \in DOMAIN s
    BY <1>1
  <2> QED BY <1>1, <2>1 DEF StackOK
<1>5. s[1].scr # "main" => t # <<>> /\ t[1].scr \in Callers
  <2>1. Len(s) >= 2 => 2 \in DOMAIN s /\ t[1] = s[2] /\ t # <<>>
    BY <1>1, <1>2
  <2> QED BY <1>4, <2>1 DEF StackOK
<1> QED BY <1>2, <1>3, <1>5 DEF StackOK, t

LEMMA IInvNext ==
  ASSUME StackOK(stack'), LanguageIn(current'),
         rc' \in {"key", "back", "quit"}, skin' \in {"gray", "blue"},
         rc' = "back" => stack' # <<>> /\ stack'[1].scr # "main"
  PROVE  IInv'
<1>1. stack' \in Seq(Frames) /\ \A i \in DOMAIN stack' :
        DataOK(stack'[i]) /\ CursorOK(stack'[i])
        /\ (stack'[i].scr = "main" <=> i = Len(stack'))
  BY DEF StackOK, FrameOK
<1>2. TypeOK'
  BY <1>1 DEF TypeOK, LanguageOK, LanguageIn
<1>3. CursorShown'
  BY <1>1 DEF CursorShown
<1> QED BY <1>2, <1>3 DEF IInv, StackOK

(* The shapes of step: a screen is opened, one is changed, one answers.    *)
LEMMA PushStep ==
  ASSUME IInv, rc = "key", stack # <<>>,
         NEW c, FrameOK(c), c.scr = stack[1].scr, c.scr \in Callers,
         NEW f, FrameOK(f), f.scr # "main", Push(c, f)
  PROVE  IInv'
<1>1. StackOK(stack) /\ LanguageIn(current) /\ skin \in {"gray", "blue"}
  BY IInvStack
<1>2. stack' = <<f, c>> \o Tail(stack) /\ current' = AfterDrawing(f, current)
      /\ rc' = rc /\ skin' = skin
  BY DEF Push, Under
<1>3. StackOK(stack')
  BY <1>1, <1>2, PushedOK
<1>4. LanguageIn(current')
  BY <1>1, <1>2, DrawingTyped
<1> QED BY <1>1, <1>2, <1>3, <1>4, IInvNext

LEMMA ReplaceStep ==
  ASSUME IInv, rc = "key", stack # <<>>, skin' \in {"gray", "blue"},
         NEW f, FrameOK(f), f.scr = stack[1].scr, Replace(f)
  PROVE  IInv'
<1>1. StackOK(stack) /\ LanguageIn(current)
  BY IInvStack
<1>2. stack' = <<f>> \o Tail(stack) /\ current' = AfterDrawing(f, current) /\ rc' = rc
  BY DEF Replace, Under
<1>3. StackOK(stack')
  BY <1>1, <1>2, ReplacedOK
<1>4. LanguageIn(current')
  BY <1>1, <1>2, DrawingTyped
<1> QED BY <1>2, <1>3, <1>4, IInvNext

(* The screen on top in an invariant state.                                *)
LEMMA OnTop ==
  ASSUME IInv, stack # <<>>
  PROVE  FrameOK(stack[1])
<1>1. StackOK(stack)
  BY IInvStack
<1>2. 1 \in DOMAIN stack
  BY <1>1 DEF StackOK
<1> QED BY <1>1, <1>2 DEF StackOK

LEMMA ItemsTyped ==
  /\ \A i \in 1..8 : MainCaptions[i] \in Ids
  /\ \A i \in 1..5 : SetupItems[i] \in Ids
  /\ CommError \in Ids
<1>1. ASSUME NEW i \in 1..8
      PROVE  MainCaptions[i] \in Ids
  <2>1. i \in {1, 2, 3, 4, 5, 6, 7, 8}
    OBVIOUS
  <2>2. MainCaptions[1] \in BuiltIn /\ MainCaptions[2] \in BuiltIn
    BY DEF MainCaptions, BuiltIn
  <2>3. MainCaptions[3] \in BuiltIn /\ MainCaptions[4] \in BuiltIn
    BY DEF MainCaptions, BuiltIn
  <2>4. MainCaptions[5] \in BuiltIn /\ MainCaptions[6] \in BuiltIn
    BY DEF MainCaptions, BuiltIn
  <2>5. MainCaptions[7] \in BuiltIn /\ MainCaptions[8] \in BuiltIn
    BY DEF MainCaptions, BuiltIn
  <2> QED BY <2>1, <2>2, <2>3, <2>4, <2>5, UiAssumption
<1>2. ASSUME NEW i \in 1..5
      PROVE  SetupItems[i] \in Ids
  <2>1. i \in {1, 2, 3, 4, 5}
    OBVIOUS
  <2>2. SetupItems[1] \in BuiltIn /\ SetupItems[2] \in BuiltIn
    BY DEF SetupItems, BuiltIn
  <2>3. /\ SetupItems[3] \in BuiltIn
        /\ SetupItems[4] \in BuiltIn
        /\ SetupItems[5] \in BuiltIn
    BY DEF SetupItems, BuiltIn
  <2> QED BY <2>1, <2>2, <2>3, UiAssumption
<1>3. CommError \in Ids
  BY UiAssumption DEF CommError, BuiltIn
<1> QED BY <1>1, <1>2, <1>3

LEMMA OpenVwStep ==
  ASSUME IInv, rc = "key", stack # <<>>, stack[1].scr \in Callers,
         NEW node \in Nat, OpenVw(stack[1], node)
  PROVE  IInv'
<1>1. FrameOK(stack[1]) /\ LanguageIn(current) /\ skin \in {"gray", "blue"}
  BY OnTop, IInvStack
<1>2. CASE IsNode(node)
  <2>1. MenuNodes[node].title \in Ids
    BY <1>2, MenuAssumption, UiAssumption DEF IsNode
  <2> DEFINE f == OpenList("vw", node, MenuNodes[node].title, current, 0)
  <2>2. FrameOK(f) /\ f.scr = "vw"
    <3>1. "vw" \in Lists /\ 0 \in Int
      BY DEF Lists
    <3> QED BY <1>1, <1>2, <2>1, <3>1, OpenListOK
  <2>3. Push(stack[1], f)
    BY <1>2 DEF OpenVw
  <2> HIDE DEF f
  <2> QED BY <1>1, <2>2, <2>3, PushStep
<1>3. CASE ~IsNode(node)
  <2>1. FrameOK(Resumed(stack[1], current)) /\ Resumed(stack[1], current).scr = stack[1].scr
    BY <1>1, ResumedOK
  <2>2. Replace(Resumed(stack[1], current)) /\ skin' = skin
    BY <1>3 DEF OpenVw
  <2> QED BY <1>1, <2>1, <2>2, ReplaceStep
<1> QED BY <1>2, <1>3

LEMMA MessageStep ==
  ASSUME IInv, rc = "key", stack # <<>>, NEW c, FrameOK(c), c.scr = stack[1].scr, c.scr \in Callers,
         NEW id \in Ids, Push(c, Message(id, current))
  PROVE  IInv'
<1>1. LanguageIn(current)
  BY IInvStack
<1> DEFINE f == Message(id, current)
<1>2. FrameOK(f) /\ f.scr = "message"
  BY <1>1, ShownOK DEF Message
<1>3. Push(c, f)
  OBVIOUS
<1> HIDE DEF f
<1> QED BY <1>2, <1>3, PushStep

LEMMA Initially == Init => IInv
<1> SUFFICES ASSUME Init PROVE IInv
  OBVIOUS
<1> DEFINE f == [scr |-> "main", arg |-> 0, id |-> "", title |-> <<NoText, "">>,
                 sel |-> 1, top |-> 0]
<1>1. "" \in Ids
  BY UiAssumption DEF BuiltIn
<1>2. f \in Frames /\ f.scr = "main" /\ f.sel = 1
  <2>1. NoText \in NoText..(table_count - 1)
    BY TableCounts DEF NoText
  <2>2. <<NoText, "">> \in (NoText..(table_count - 1)) \X Ids
    BY <1>1, <2>1
  <2>3. "main" \in Screens /\ 0 \in Nat /\ 1 \in Int /\ 0 \in Int
    BY DEF Screens
  <2> QED BY <1>1, <2>2, <2>3 DEF Frames
<1>4. stack = <<f>> /\ rc = "key" /\ skin = "gray"
  BY DEF Init
<1> HIDE DEF f
<1>3. FrameOK(f)
  BY <1>2 DEF FrameOK, DataOK, CursorOK, Lists
<1>5. StackOK(stack)
  BY <1>2, <1>3, <1>4 DEF StackOK
<1>6. LanguageIn(current)
  <2>1. current = IF english >= 0 THEN english ELSE IF table_count > 0 THEN 0 ELSE -1
    BY DEF Init, str_init
  <2> QED BY <2>1, TableCounts DEF LanguageIn
<1> QED BY <1>4, <1>5, <1>6, IInvStack

LEMMA MoveStep ==
  ASSUME IInv, NEW k \in ListKeys, Move(k)
  PROVE  IInv'
<1>1. /\ rc = "key" /\ stack # <<>> /\ stack[1].scr \in Lists /\ skin' = skin
      /\ LET f   == stack[1]
             row == MovedRow(f.sel, Count(f), k)
         IN  Replace([f EXCEPT !.sel = row, !.top = Scrolled(row, f.top)])
  BY DEF Move, Waiting
<1>2. FrameOK(stack[1]) /\ skin \in {"gray", "blue"}
  BY <1>1, OnTop, IInvStack
<1> DEFINE row == MovedRow(stack[1].sel, Count(stack[1]), k)
           g   == [stack[1] EXCEPT !.sel = row, !.top = Scrolled(row, stack[1].top)]
<1>3. FrameOK(g) /\ g.scr = stack[1].scr
  BY <1>1, <1>2, MovedOK
<1>4. Replace(g)
  BY <1>1
<1> HIDE DEF g
<1> QED BY <1>1, <1>2, <1>3, <1>4, ReplaceStep

LEMMA MoveIconStep ==
  ASSUME IInv, NEW k \in ListKeys, MoveIcon(k)
  PROVE  IInv'
<1> DEFINE f == stack[1]
           g == [f EXCEPT !.sel = MovedIcon(@, k)]
<1>1. rc = "key" /\ stack # <<>> /\ f.scr = "main" /\ skin' = skin /\ Replace(g)
  BY DEF MoveIcon, Waiting
<1>2. FrameOK(f) /\ skin \in {"gray", "blue"}
  BY <1>1, OnTop, IInvStack
<1>3. f.sel \in 0..7
  BY <1>1, <1>2 DEF FrameOK, CursorOK
<1>4. MovedIcon(f.sel, k) \in 0..7
  BY <1>3 DEF MovedIcon, ListKeys
<1> HIDE DEF f
<1>5. g \in Frames /\ g.scr = "main" /\ g.sel \in 0..7
  BY <1>1, <1>2, <1>4 DEF FrameOK, Frames
<1> HIDE DEF g
<1>6. FrameOK(g)
  BY <1>5 DEF FrameOK, DataOK, CursorOK, Lists
<1> QED BY <1>1, <1>2, <1>5, <1>6, ReplaceStep DEF f

(* The screens that are opened from the grid.                              *)
LEMMA OpenStep ==
  ASSUME IInv, rc = "key", stack # <<>>, stack[1].scr \in Callers,
         NEW kind \in {"obd", "setup", "languages"}, NEW id \in Ids, NEW start,
         kind = "languages" => start = current,
         kind # "languages" => start = 0,
         Push(stack[1], OpenList(kind, 0, id, current, start))
  PROVE  IInv'
<1>1. FrameOK(stack[1]) /\ LanguageIn(current)
  BY OnTop, IInvStack
<1> DEFINE f == OpenList(kind, 0, id, current, start)
<1>2. kind \in Lists /\ 0 \in Nat /\ start \in Int
  BY <1>1, TableCounts DEF Lists, LanguageIn
<1>3. FrameOK(f) /\ f.scr = kind
  BY <1>1, <1>2, OpenListOK
<1>4. Push(stack[1], f)
  OBVIOUS
<1> HIDE DEF f
<1> QED BY <1>1, <1>3, <1>4, PushStep

LEMMA ChooseIconStep ==
  ASSUME IInv, ChooseIcon
  PROVE  IInv'
<1> DEFINE f    == stack[1]
           icon == MainCaptions[f.sel + 1]
<1>1. rc = "key" /\ stack # <<>> /\ f.scr = "main" /\ f.scr \in Callers
  BY DEF ChooseIcon, Waiting, Callers
<1>2. FrameOK(f) /\ LanguageIn(current)
  BY <1>1, OnTop, IInvStack
<1>3. icon \in Ids
  <2>1. f.sel + 1 \in 1..8
    BY <1>1, <1>2 DEF FrameOK, CursorOK
  <2> QED BY <2>1, ItemsTyped
<1>4. CASE icon = "OBDII"
  <2>1. Push(f, OpenList("obd", 0, "OBDII", current, 0))
    BY <1>4 DEF ChooseIcon
  <2>2. "OBDII" \in Ids
    BY <1>3, <1>4
  <2> QED BY <1>1, <2>1, <2>2, OpenStep
<1>5. CASE icon = "FOR_VW"
  <2>1. OpenVw(f, 0)
    BY <1>5 DEF ChooseIcon
  <2> QED BY <1>1, <2>1, OpenVwStep DEF Callers
<1>6. CASE icon = "BAT_CHECK"
  <2> DEFINE g == Screen("battery", 0, icon, current, 0, 0)
  <2>1. Push(f, g)
    BY <1>6 DEF ChooseIcon
  <2>2. FrameOK(g) /\ g.scr = "battery"
    BY <1>2, <1>3, ShownOK
  <2> HIDE DEF g
  <2> QED BY <1>1, <1>2, <2>1, <2>2, PushStep
<1>7. CASE icon = "TOOL_SETUP"
  <2>1. Push(f, OpenList("setup", 0, icon, current, 0))
    BY <1>7 DEF ChooseIcon
  <2> QED BY <1>1, <1>3, <2>1, OpenStep
<1>8. CASE icon \notin {"OBDII", "FOR_VW", "BAT_CHECK", "TOOL_SETUP"}
  <2>1. Push(f, Message(CommError, current))
    BY <1>8 DEF ChooseIcon, NoVehicle
  <2> QED BY <1>1, <1>2, <2>1, MessageStep, ItemsTyped
<1> QED BY <1>4, <1>5, <1>6, <1>7, <1>8

(* What OK finds at the selected row of a list.                            *)
LEMMA ChosenRow ==
  ASSUME IInv, NEW kind \in Lists, HasChoice(kind)
  PROVE  /\ rc = "key" /\ stack # <<>> /\ stack[1].scr = kind /\ kind \in Callers
         /\ FrameOK(stack[1]) /\ LanguageIn(current)
         /\ stack[1].sel \in 0..(Count(stack[1]) - 1)
<1>1. /\ rc = "key" /\ stack # <<>> /\ stack[1].scr = kind /\ Count(stack[1]) > 0
  BY DEF HasChoice, Waiting
<1>2. FrameOK(stack[1]) /\ LanguageIn(current)
  BY <1>1, OnTop, IInvStack
<1>3. Count(stack[1]) \in Nat /\ stack[1].sel \in Int /\ stack[1].top \in Int
  BY <1>1, <1>2, CountTyped DEF FrameOK, Frames
<1>4. stack[1].sel >= stack[1].top /\ stack[1].top >= 0 /\ stack[1].sel < Count(stack[1])
  BY <1>1, <1>2 DEF FrameOK, CursorOK
<1> QED BY <1>1, <1>2, <1>3, <1>4 DEF Callers

LEMMA ElementOf ==
  ASSUME NEW S, NEW s \in Seq(S), NEW i \in 1..Len(s)
  PROVE  s[i] \in S
OBVIOUS

LEMMA ChooseVwStep ==
  ASSUME IInv, ChooseVw
  PROVE  IInv'
<1> DEFINE f == stack[1]
           e == menu_entry(f.arg, f.sel)
<1>1. /\ rc = "key" /\ stack # <<>> /\ f.scr = "vw" /\ FrameOK(f) /\ LanguageIn(current)
      /\ f.scr \in Callers
      /\ f.sel \in 0..(Count(f) - 1)
  <2>1. HasChoice("vw") /\ "vw" \in Lists
    BY DEF ChooseVw, Lists
  <2> QED BY <2>1, ChosenRow
<1>2. e \in [caption : Captions, action : Nat, param : Nat]
  <2>1. MenuNodes[f.arg].entries \in Seq([caption : Captions, action : Nat, param : Nat])
    BY <1>1, MenuAssumption DEF FrameOK, DataOK, IsNode
  <2>2. Count(f) = Len(MenuNodes[f.arg].entries)
    BY <1>1 DEF Count, node_count
  <2>3. f.sel + 1 \in 1..Len(MenuNodes[f.arg].entries)
    BY <1>1, <2>1, <2>2
  <2>4. MenuNodes[f.arg].entries[f.sel + 1] \in [caption : Captions, action : Nat, param : Nat]
    BY <2>1, <2>3, ElementOf
  <2> QED BY <2>4 DEF menu_entry
<1>3. CASE EntryKind(e) = "submenu"
  <2>1. OpenVw(f, e.param)
    BY <1>3 DEF ChooseVw
  <2>2. e.param \in Nat
    BY <1>2
  <2> QED BY <1>1, <2>1, <2>2, OpenVwStep
<1>4. CASE EntryKind(e) = "module"
  <2> DEFINE m == ModuleOf(e)
  <2>1. OpenModule(f, m, e.caption)
    BY <1>4 DEF ChooseVw
  <2>2. m \in Nat /\ e.caption \in Ids
    BY <1>2, UiAssumption DEF ModuleOf
  <2> HIDE DEF m, e
  <2>3. CASE HasRecord(m)
    <3> DEFINE g == OpenList("module", m, e.caption, current, 0)
    <3>1. "module" \in Lists /\ 0 \in Int
      BY DEF Lists
    <3>2. FrameOK(g) /\ g.scr = "module"
      BY <1>1, <2>2, <2>3, <3>1, OpenListOK
    <3>3. Push(f, g)
      BY <2>1, <2>3 DEF OpenModule
    <3> HIDE DEF g
    <3> QED BY <1>1, <3>2, <3>3, PushStep
  <2>4. CASE ~HasRecord(m)
    <3>1. Push(f, Message(e.caption, current))
      BY <2>1, <2>4 DEF OpenModule
    <3> QED BY <1>1, <2>2, <3>1, MessageStep
  <2> QED BY <2>3, <2>4
<1>5. CASE EntryKind(e) \notin {"submenu", "module"}
  <2>1. Push(f, Message(CommError, current))
    BY <1>5 DEF ChooseVw, NoVehicle
  <2> QED BY <1>1, <2>1, MessageStep, ItemsTyped
<1> QED BY <1>3, <1>4, <1>5

LEMMA ChooseFunctionStep ==
  ASSUME IInv, ChooseFunction
  PROVE  IInv'
<1> DEFINE f  == stack[1]
           id == FunctionItems(f.arg)[f.sel + 1]
           g  == [f EXCEPT !.title = Text(current, id)]
<1>1. /\ rc = "key" /\ stack # <<>> /\ f.scr = "module" /\ FrameOK(f) /\ LanguageIn(current)
      /\ f.scr \in Callers
      /\ f.sel \in 0..(Count(f) - 1)
  <2>1. HasChoice("module") /\ "module" \in Lists
    BY DEF ChooseFunction, Lists
  <2> QED BY <2>1, ChosenRow
<1>2. id \in Ids
  <2>1. FunctionItems(f.arg) \in Seq(Captions) /\ Count(f) = Len(FunctionItems(f.arg))
    BY <1>1, MenuAssumption DEF FrameOK, DataOK, HasRecord, FunctionItems, Count
  <2>2. f.sel + 1 \in 1..Len(FunctionItems(f.arg))
    BY <1>1, <2>1
  <2> QED BY <2>1, <2>2, UiAssumption
<1>3. Push(g, Message(CommError, current))
  BY DEF ChooseFunction, NoVehicle
<1> HIDE DEF id
<1>4. FrameOK(g) /\ g.scr = f.scr
  BY <1>1, <1>2, RetitledOK
<1> HIDE DEF g
<1> QED BY <1>1, <1>3, <1>4, MessageStep, ItemsTyped

LEMMA ChooseSetupStep ==
  ASSUME IInv, ChooseSetup
  PROVE  IInv'
<1> DEFINE f    == stack[1]
           item == SetupItems[f.sel + 1]
<1>1. /\ rc = "key" /\ stack # <<>> /\ f.scr = "setup" /\ FrameOK(f) /\ LanguageIn(current)
      /\ f.scr \in Callers
      /\ f.sel \in 0..(Count(f) - 1)
  <2>1. HasChoice("setup") /\ "setup" \in Lists
    BY DEF ChooseSetup, Lists
  <2> QED BY <2>1, ChosenRow
<1>2. item \in Ids
  <2>1. Count(f) = 5
    BY <1>1 DEF Count, SetupItems
  <2>2. f.sel + 1 \in 1..5
    BY <1>1, <2>1
  <2> QED BY <2>2, ItemsTyped
<1>3. CASE item = "LANGUAGE"
  <2>1. Push(f, OpenList("languages", 0, item, current, current))
    BY <1>3 DEF ChooseSetup
  <2> QED BY <1>1, <1>2, <2>1, OpenStep
<1>4. CASE item = "SKIN"
  <2>1. ToggleSkin
    BY <1>4 DEF ChooseSetup
  <2>2. Replace(Resumed(f, current)) /\ skin' \in {"gray", "blue"}
    BY <2>1 DEF ToggleSkin
  <2>3. FrameOK(Resumed(f, current)) /\ Resumed(f, current).scr = f.scr
    BY <1>1, ResumedOK DEF Callers, Lists
  <2> QED BY <1>1, <2>2, <2>3, ReplaceStep
<1>5. CASE item \notin {"LANGUAGE", "SKIN"}
  <2>1. Push(f, Message(item, current))
    BY <1>5 DEF ChooseSetup
  <2> QED BY <1>1, <1>2, <2>1, MessageStep
<1> QED BY <1>3, <1>4, <1>5

(* The screen under one that is not the grid goes on in some language.     *)
LEMMA ResumeStep ==
  ASSUME IInv, stack # <<>>, stack[1].scr # "main",
         NEW cur, LanguageIn(cur), current' = cur, rc' = "key", skin' = skin,
         stack' = <<Resumed(Tail(stack)[1], cur)>> \o Tail(Tail(stack))
  PROVE  IInv'
<1> DEFINE s == Tail(stack)
           f == Resumed(s[1], cur)
<1>1. StackOK(s) /\ s # <<>> /\ s[1].scr \in Callers /\ skin \in {"gray", "blue"}
  BY IInvStack, PoppedOK
<1>2. FrameOK(s[1])
  <2>1. 1 \in DOMAIN s
    BY <1>1 DEF StackOK
  <2> QED BY <1>1, <2>1 DEF StackOK
<1>3. FrameOK(f) /\ f.scr = s[1].scr
  BY <1>1, <1>2, ResumedOK
<1>4. stack' = <<f>> \o Tail(s)
  OBVIOUS
<1> HIDE DEF s, f
<1>5. StackOK(stack')
  BY <1>1, <1>3, <1>4, ReplacedOK
<1> QED BY <1>1, <1>5, IInvNext

LEMMA ChooseLanguageStep ==
  ASSUME IInv, ChooseLanguage
  PROVE  IInv'
<1>1. /\ rc = "key" /\ stack # <<>> /\ stack[1].scr = "languages" /\ LanguageIn(current)
      /\ FrameOK(stack[1]) /\ rc' = rc /\ skin' = skin
  <2>1. HasChoice("languages") /\ "languages" \in Lists
    BY DEF ChooseLanguage, Lists
  <2> QED BY <2>1, ChosenRow DEF ChooseLanguage
<1>2. stack[1].sel \in Int
  BY <1>1 DEF FrameOK, Frames
<1>3. LanguageIn(current')
  BY <1>1, <1>2, SelectTyped DEF ChooseLanguage
<1>4. stack \in Seq(Frames) /\ Tail(stack) # <<>>
  BY <1>1, IInvStack, PoppedOK DEF StackOK
<1>5. stack[2] = Tail(stack)[1]
  BY <1>4
<1>6. stack' = <<Resumed(Tail(stack)[1], current')>> \o Tail(Tail(stack))
  BY <1>5 DEF ChooseLanguage, Under
<1> QED BY <1>1, <1>3, <1>6, ResumeStep

LEMMA AnswerStep ==
  ASSUME IInv, stack # <<>>, NEW value \in {"back", "quit"}, Answer(value),
         value = "back" => stack[1].scr # "main"
  PROVE  IInv'
BY IInvStack, IInvNext DEF Answer

LEMMA Stays ==
  ASSUME IInv, UNCHANGED vars
  PROVE  IInv'
BY IInvStack, IInvNext DEF vars

(* Every step keeps the invariant.                                         *)
LEMMA Inductive == IInv /\ [Next]_vars => IInv'
<1> SUFFICES ASSUME IInv, [Next]_vars PROVE IInv'
  OBVIOUS
<1>1. CASE \E k \in ListKeys : Move(k) \/ MoveIcon(k)
  BY <1>1, MoveStep, MoveIconStep
<1>2. CASE ChooseIcon
  BY <1>2, ChooseIconStep
<1>3. CASE Shortcut
  <2>1. /\ rc = "key" /\ stack # <<>> /\ stack[1].scr \in Callers
        /\ Push(stack[1], Message(CommError, current))
    BY <1>3 DEF Shortcut, Waiting, Callers, NoVehicle
  <2>2. FrameOK(stack[1])
    BY <2>1, OnTop
  <2> QED BY <2>1, <2>2, MessageStep, ItemsTyped
<1>4. CASE ChooseVw
  BY <1>4, ChooseVwStep
<1>5. CASE ChooseFunction
  BY <1>5, ChooseFunctionStep
<1>6. CASE ChooseObd
  <2>1. HasChoice("obd") /\ "obd" \in Lists /\ Push(stack[1], Message(CommError, current))
    BY <1>6 DEF ChooseObd, Lists, NoVehicle
  <2>2. /\ rc = "key" /\ stack # <<>> /\ stack[1].scr \in Callers /\ FrameOK(stack[1])
    BY <2>1, ChosenRow
  <2> QED BY <2>1, <2>2, MessageStep, ItemsTyped
<1>7. CASE ChooseSetup
  BY <1>7, ChooseSetupStep
<1>8. CASE ChooseLanguage
  BY <1>8, ChooseLanguageStep
<1>9. CASE Leave
  <2>1. stack # <<>> /\ stack[1].scr # "main" /\ Answer("back")
    BY <1>9 DEF Leave, Waiting, Lists
  <2> QED BY <2>1, AnswerStep
<1>10. CASE Quit
  BY <1>10, AnswerStep DEF Quit
<1>11. CASE ReturnBack
  <2>1. stack # <<>> /\ stack[1].scr # "main" /\ LanguageIn(current)
    BY <1>11, IInvStack DEF ReturnBack
  <2>2. /\ rc' = "key" /\ skin' = skin /\ current' = current
        /\ stack' = <<Resumed(Tail(stack)[1], current)>> \o Tail(Tail(stack))
    BY <1>11 DEF ReturnBack, Under
  <2> QED BY <2>1, <2>2, ResumeStep
<1>12. CASE ReturnQuit
  <2>1. /\ rc = "quit" /\ stack # <<>> /\ stack' = Tail(stack)
        /\ rc' = rc /\ skin' = skin /\ current' = current
    BY <1>12 DEF ReturnQuit, Under
  <2>2. StackOK(stack) /\ LanguageIn(current) /\ skin \in {"gray", "blue"}
    BY IInvStack
  <2>3. StackOK(stack')
    BY <2>1, <2>2, PoppedOK
  <2> QED BY <2>1, <2>2, <2>3, IInvNext
<1>13. CASE Exited
  BY <1>13, Stays DEF Exited
<1>14. CASE UNCHANGED vars
  BY <1>14, Stays
<1> QED BY <1>1, <1>2, <1>3, <1>4, <1>5, <1>6, <1>7, <1>8, <1>9, <1>10, <1>11, <1>12,
           <1>13, <1>14 DEF Next

(* The screens are well typed: there is data behind each menu and module   *)
(* screen, and a language in use whenever the image has one.               *)
THEOREM TypeCorrect == Spec => []TypeOK
<1>1. IInv => TypeOK
  BY DEF IInv
<1> QED BY <1>1, Initially, Inductive, PTL DEF Spec

(* The selected row of every list is one of its rows and on the display,   *)
(* however the display is high and whatever the image holds.               *)
THEOREM CursorStays == Spec => []CursorShown
<1>1. IInv => CursorShown
  BY DEF IInv
<1> QED BY <1>1, Initially, Inductive, PTL DEF Spec
-----------------------------------------------------------------------------
(* Titles.  The one screen that is open while the language changes is      *)
(* setup, right over the grid, and it fetches its title again; the one     *)
(* that puts another text in its title is a module menu, while a message   *)
(* is over it.                                                             *)
PlacesOK(s) ==
  \A i \in DOMAIN s :
    /\ s[i].scr = "languages" => i + 1 \in DOMAIN s /\ s[i + 1].scr = "setup"
    /\ s[i].scr = "setup"     => i + 1 = Len(s)

TitleOK(f, cur)   == f.scr = "main" \/ f.title = Text(cur, f.id)
CoveredOK(f, cur) == TitleOK(f, cur) \/ f.scr = "module"

TitlesOK(s, cur, r) ==
  \A i \in DOMAIN s : /\ CoveredOK(s[i], cur)
                      /\ i = 1 /\ r # "quit" => TitleOK(s[i], cur)

TitleInv == PlacesOK(stack) /\ TitlesOK(stack, current, rc)

(* Drawing a list leaves the language as it was.                           *)
LEMMA DrawingRestores ==
  ASSUME NEW f, FrameOK(f), NEW cur, LanguageIn(cur)
  PROVE  AfterDrawing(f, cur) = cur
<1>1. \A i : str_select(str_select(cur, i), cur) = cur
  BY TableCounts DEF str_select, LanguageIn
<1> QED BY <1>1 DEF AfterDrawing, LangItemText

LEMMA PushTitles ==
  ASSUME NEW s, StackOK(s), s # <<>>, PlacesOK(s), NEW cur, NEW r, TitlesOK(s, cur, r),
         NEW c, FrameOK(c), c.scr = s[1].scr, CoveredOK(c, cur),
         NEW f, FrameOK(f), TitleOK(f, cur),
         f.scr = "languages" => c.scr = "setup",
         f.scr = "setup" => c.scr = "main"
  PROVE  PlacesOK(<<f, c>> \o Tail(s)) /\ TitlesOK(<<f, c>> \o Tail(s), cur, r)
<1> DEFINE t == <<f, c>> \o Tail(s)
<1>1. s \in Seq(Frames) /\ Len(s) \in Nat /\ Len(s) >= 1 /\ Tail(s) \in Seq(Frames)
  BY DEF StackOK
<1>2. DOMAIN t = 1..(Len(s) + 1) /\ Len(t) = Len(s) + 1 /\ DOMAIN s = 1..Len(s)
  BY <1>1 DEF FrameOK
<1>3. t[1] = f /\ t[2] = c /\ \A i \in 3..Len(t) : t[i] = s[i - 1]
  BY <1>1, <1>2 DEF FrameOK
<1> HIDE DEF t
<1>4. c.scr = "main" => Len(s) = 1
  <2>1. 1 \in DOMAIN s
    BY <1>1, <1>2
  <2> QED BY <2>1 DEF StackOK
<1>5. ASSUME NEW i \in DOMAIN t
      PROVE  /\ t[i].scr = "languages" => i + 1 \in DOMAIN t /\ t[i + 1].scr = "setup"
             /\ t[i].scr = "setup"     => i + 1 = Len(t)
             /\ CoveredOK(t[i], cur)
             /\ i = 1 /\ r # "quit" => TitleOK(t[i], cur)
  <2>1. CASE i = 1
    BY <1>1, <1>2, <1>3, <1>4, <2>1 DEF CoveredOK
  <2>2. CASE i = 2
    <3>1. 1 \in DOMAIN s /\ (1 + 1 \in DOMAIN s => t[3] = s[2] /\ 3 \in DOMAIN t)
      BY <1>1, <1>2, <1>3
    <3>2. t[2].scr = s[1].scr
      BY <1>3
    <3>3. /\ s[1].scr = "languages" => 1 + 1 \in DOMAIN s /\ s[1 + 1].scr = "setup"
          /\ s[1].scr = "setup" => 1 + 1 = Len(s)
      BY <3>1 DEF PlacesOK
    <3> QED BY <1>1, <1>2, <1>3, <2>2, <3>1, <3>2, <3>3
  <2>3. CASE i >= 3
    <3>1. i - 1 \in DOMAIN s /\ t[i] = s[i - 1]
      BY <1>1, <1>2, <1>3, <2>3
    <3>2. (i - 1) + 1 \in DOMAIN s => i + 1 \in DOMAIN t /\ t[i + 1] = s[i]
      BY <1>1, <1>2, <1>3, <2>3
    <3>3. t[i].scr = "languages" => i + 1 \in DOMAIN t /\ t[i + 1].scr = "setup"
      <4>1. s[i - 1].scr = "languages" => (i - 1) + 1 \in DOMAIN s /\ s[(i - 1) + 1].scr = "setup"
        BY <3>1 DEF PlacesOK
      <4>2. (i - 1) + 1 = i
        BY <1>2
      <4> QED BY <3>1, <3>2, <4>1, <4>2
    <3>4. t[i].scr = "setup" => i + 1 = Len(t)
      <4>1. s[i - 1].scr = "setup" => (i - 1) + 1 = Len(s)
        BY <3>1 DEF PlacesOK
      <4> QED BY <1>1, <1>2, <3>1, <4>1
    <3> QED BY <2>3, <3>1, <3>3, <3>4 DEF TitlesOK
  <2> QED BY <1>1, <1>2, <2>1, <2>2, <2>3
<1> QED BY <1>5 DEF PlacesOK, TitlesOK, t

LEMMA ReplaceTitles ==
  ASSUME NEW s, StackOK(s), s # <<>>, PlacesOK(s), NEW cur, NEW r, NEW r2, TitlesOK(s, cur, r),
         NEW f, FrameOK(f), f.scr = s[1].scr, TitleOK(f, cur)
  PROVE  PlacesOK(<<f>> \o Tail(s)) /\ TitlesOK(<<f>> \o Tail(s), cur, r2)
<1> DEFINE t == <<f>> \o Tail(s)
<1>1. s \in Seq(Frames) /\ Len(s) \in Nat /\ Len(s) >= 1 /\ Tail(s) \in Seq(Frames)
  BY DEF StackOK
<1>2. DOMAIN t = DOMAIN s /\ Len(t) = Len(s) /\ DOMAIN s = 1..Len(s)
  BY <1>1 DEF FrameOK
<1>3. t[1] = f /\ \A i \in 2..Len(t) : t[i] = s[i]
  BY <1>1, <1>2 DEF FrameOK
<1> HIDE DEF t
<1>4. \A i \in DOMAIN t : t[i].scr = s[i].scr
  BY <1>1, <1>2, <1>3
<1>5. PlacesOK(t)
  BY <1>1, <1>2, <1>4 DEF PlacesOK
<1>6. ASSUME NEW i \in DOMAIN t
      PROVE  /\ CoveredOK(t[i], cur)
             /\ i = 1 /\ r2 # "quit" => TitleOK(t[i], cur)
  <2>1. CASE i = 1
    BY <1>3, <2>1 DEF CoveredOK
  <2>2. CASE i # 1
    BY <1>1, <1>2, <1>3, <2>2 DEF TitlesOK
  <2> QED BY <2>1, <2>2
<1> QED BY <1>5, <1>6 DEF TitlesOK, t

LEMMA PopTitles ==
  ASSUME NEW s, StackOK(s), s # <<>>, PlacesOK(s), NEW cur, NEW r, TitlesOK(s, cur, r)
  PROVE  PlacesOK(Tail(s)) /\ TitlesOK(Tail(s), cur, "quit")
<1> DEFINE t == Tail(s)
<1>1. s \in Seq(Frames) /\ Len(s) \in Nat /\ Len(s) >= 1
  BY DEF StackOK
<1>2. Len(t) = Len(s) - 1 /\ DOMAIN t = 1..(Len(s) - 1) /\ DOMAIN s = 1..Len(s)
  BY <1>1
<1>3. \A i \in DOMAIN t : t[i] = s[i + 1] /\ i + 1 \in DOMAIN s
  BY <1>1, <1>2
<1> HIDE DEF t
<1>4. ASSUME NEW i \in DOMAIN t
      PROVE  /\ t[i].scr = "languages" => i + 1 \in DOMAIN t /\ t[i + 1].scr = "setup"
             /\ t[i].scr = "setup"     => i + 1 = Len(t)
             /\ CoveredOK(t[i], cur)
  <2>1. t[i] = s[i + 1] /\ i + 1 \in DOMAIN s /\ i \in Nat
    BY <1>2, <1>3
  <2>2. /\ s[i + 1].scr = "languages" =>
             (i + 1) + 1 \in DOMAIN s /\ s[(i + 1) + 1].scr = "setup"
        /\ s[i + 1].scr = "setup" => (i + 1) + 1 = Len(s)
    BY <2>1 DEF PlacesOK
  <2>3. (i + 1) + 1 \in DOMAIN s => i + 1 \in DOMAIN t /\ t[i + 1] = s[(i + 1) + 1]
    BY <1>1, <1>2, <1>3, <2>1
  <2>4. (i + 1) + 1 = Len(s) => i + 1 = Len(t)
    BY <1>1, <1>2, <2>1
  <2> QED BY <2>1, <2>2, <2>3, <2>4 DEF TitlesOK
<1> QED BY <1>4 DEF PlacesOK, TitlesOK, t

(* A screen that is opened fetches its title, one that goes on has it.     *)
LEMMA OpenedTitle ==
  ASSUME NEW kind, NEW arg, NEW id, NEW cur, NEW start
  PROVE  /\ TitleOK(OpenList(kind, arg, id, cur, start), cur)
         /\ OpenList(kind, arg, id, cur, start).scr = kind
         /\ TitleOK(Screen(kind, arg, id, cur, 0, 0), cur)
         /\ Screen(kind, arg, id, cur, 0, 0).scr = kind
<1> DEFINE f == Screen(kind, arg, id, cur, 0, 0)
<1>1. f.title = Text(cur, id) /\ f.id = id /\ f.scr = kind
  BY DEF Screen
<1>2. \A row, top : LET g == [f EXCEPT !.sel = row, !.top = top]
                    IN  g.title = Text(cur, id) /\ g.id = id /\ g.scr = kind
  BY DEF Screen
<1> HIDE DEF f
<1>3. LET g == Listed(f, start) IN g.title = Text(cur, id) /\ g.id = id /\ g.scr = kind
  BY <1>2 DEF Listed
<1> QED BY <1>1, <1>3 DEF OpenList, TitleOK, f

LEMMA ResumedTitle ==
  ASSUME NEW f, FrameOK(f), f.scr \in Callers, NEW cur,
         f.scr = "setup" \/ CoveredOK(f, cur)
  PROVE  TitleOK(Resumed(f, cur), cur) /\ Resumed(f, cur).scr = f.scr
<1>1. CASE f.scr = "main"
  BY <1>1 DEF Resumed, TitleOK
<1>2. CASE f.scr # "main"
  <2> DEFINE g == Listed(f, f.sel)
  <2>1. g.title = f.title /\ g.id = f.id /\ g.scr = f.scr /\ DOMAIN g = DOMAIN f
    BY DEF Listed, FrameOK, Frames
  <2>2. Retitled(g, cur).title = Text(cur, f.id) /\ Retitled(g, cur).id = f.id
        /\ Retitled(g, cur).scr = f.scr
    BY DEF Listed, Retitled, FrameOK, Frames
  <2>3. Resumed(f, cur) = IF f.scr \in {"setup", "module"} THEN Retitled(g, cur) ELSE g
    BY <1>2 DEF Resumed
  <2> HIDE DEF g
  <2>4. CASE f.scr \in {"setup", "module"}
    BY <2>2, <2>3, <2>4 DEF TitleOK
  <2>5. CASE f.scr \notin {"setup", "module"}
    BY <2>1, <2>3, <2>5 DEF TitleOK, CoveredOK
  <2> QED BY <2>4, <2>5
<1> QED BY <1>1, <1>2

(* The frames of a step that keeps the invariant are in order, and drawing *)
(* them keeps the language.                                                *)
LEMMA PushKeepsTitles ==
  ASSUME IInv, IInv', TitleInv, rc = "key", stack # <<>>,
         NEW c, c.scr = stack[1].scr, CoveredOK(c, current),
         NEW f, TitleOK(f, current), Push(c, f),
         f.scr = "languages" => c.scr = "setup",
         f.scr = "setup" => c.scr = "main"
  PROVE  TitleInv' /\ current' = current
<1>1. StackOK(stack) /\ LanguageIn(current)
  BY IInvStack
<1>2. stack' = <<f, c>> \o Tail(stack) /\ current' = AfterDrawing(f, current) /\ rc' = rc
  BY DEF Push, Under
<1>3. \A i \in DOMAIN stack' : FrameOK(stack'[i])
  BY DEF IInv, TypeOK, CursorShown, FrameOK
<1>4. FrameOK(f) /\ FrameOK(c)
  <2>1. Tail(stack) \in Seq(Frames)
    BY <1>1 DEF StackOK
  <2> DEFINE S == Frames \cup {f, c}
  <2>2. <<f, c>> \in Seq(S) /\ Tail(stack) \in Seq(S)
    BY <2>1
  <2>3. 1 \in DOMAIN stack' /\ 2 \in DOMAIN stack' /\ stack'[1] = f /\ stack'[2] = c
    BY <1>2, <2>2
  <2> QED BY <1>3, <2>3
<1>5. current' = current
  BY <1>1, <1>2, <1>4, DrawingRestores
<1>6. PlacesOK(stack') /\ TitlesOK(stack', current, rc)
  BY <1>1, <1>2, <1>4, PushTitles DEF TitleInv
<1> QED BY <1>2, <1>5, <1>6 DEF TitleInv

LEMMA ReplaceKeepsTitles ==
  ASSUME IInv, IInv', TitleInv, stack # <<>>,
         NEW f, f.scr = stack[1].scr, TitleOK(f, current), Replace(f)
  PROVE  TitleInv' /\ current' = current
<1>1. StackOK(stack) /\ LanguageIn(current)
  BY IInvStack
<1>2. stack' = <<f>> \o Tail(stack) /\ current' = AfterDrawing(f, current) /\ rc' = rc
  BY DEF Replace, Under
<1>3. \A i \in DOMAIN stack' : FrameOK(stack'[i])
  BY DEF IInv, TypeOK, CursorShown, FrameOK
<1>4. FrameOK(f)
  <2>1. Tail(stack) \in Seq(Frames)
    BY <1>1 DEF StackOK
  <2> DEFINE S == Frames \cup {f}
  <2>2. <<f>> \in Seq(S) /\ Tail(stack) \in Seq(S)
    BY <2>1
  <2>3. 1 \in DOMAIN stack' /\ stack'[1] = f
    BY <1>2, <2>2
  <2> QED BY <1>3, <2>3
<1>5. current' = current
  BY <1>1, <1>2, <1>4, DrawingRestores
<1>6. PlacesOK(stack') /\ TitlesOK(stack', current, rc)
  BY <1>1, <1>2, <1>4, ReplaceTitles DEF TitleInv
<1> QED BY <1>2, <1>5, <1>6 DEF TitleInv

LEMMA TopTitle ==
  ASSUME IInv, TitleInv, rc # "quit", stack # <<>>
  PROVE  TitleOK(stack[1], current)
<1>1. 1 \in DOMAIN stack
  BY IInvStack DEF StackOK
<1> QED BY <1>1 DEF TitleInv, TitlesOK

(* The three ways to open a screen from the one on top.                    *)
LEMMA ListTitles ==
  ASSUME IInv, IInv', TitleInv, rc = "key", stack # <<>>,
         NEW kind \in Lists, NEW arg, NEW id, NEW start,
         kind = "languages" => stack[1].scr = "setup",
         kind = "setup" => stack[1].scr = "main",
         Push(stack[1], OpenList(kind, arg, id, current, start))
  PROVE  TitleInv' /\ current' = current
<1> DEFINE f == OpenList(kind, arg, id, current, start)
<1>1. TitleOK(f, current) /\ f.scr = kind /\ Push(stack[1], f)
  BY OpenedTitle
<1>2. CoveredOK(stack[1], current)
  BY TopTitle DEF CoveredOK
<1> HIDE DEF f
<1> QED BY <1>1, <1>2, PushKeepsTitles

LEMMA ShownTitles ==
  ASSUME IInv, IInv', TitleInv, rc = "key", stack # <<>>,
         NEW kind \in {"message", "battery"}, NEW id,
         NEW c, c.scr = stack[1].scr, CoveredOK(c, current),
         Push(c, Screen(kind, 0, id, current, 0, 0))
  PROVE  TitleInv' /\ current' = current
<1> DEFINE f == Screen(kind, 0, id, current, 0, 0)
<1>1. TitleOK(f, current) /\ f.scr = kind /\ Push(c, f)
  BY OpenedTitle
<1> HIDE DEF f
<1> QED BY <1>1, PushKeepsTitles

LEMMA MessageTitles ==
  ASSUME IInv, IInv', TitleInv, rc = "key", stack # <<>>, NEW id,
         Push(stack[1], Message(id, current))
  PROVE  TitleInv' /\ current' = current
<1>1. CoveredOK(stack[1], current)
  BY TopTitle DEF CoveredOK
<1>2. Push(stack[1], Screen("message", 0, id, current, 0, 0))
  BY DEF Message
<1> QED BY <1>1, <1>2, ShownTitles

LEMMA ResumeTopTitles ==
  ASSUME IInv, IInv', TitleInv, rc = "key", stack # <<>>, stack[1].scr \in Callers,
         Replace(Resumed(stack[1], current))
  PROVE  TitleInv' /\ current' = current
<1> DEFINE f == Resumed(stack[1], current)
<1>1. FrameOK(stack[1]) /\ CoveredOK(stack[1], current)
  BY OnTop, TopTitle DEF CoveredOK
<1>2. TitleOK(f, current) /\ f.scr = stack[1].scr
  BY <1>1, ResumedTitle
<1>3. Replace(f)
  OBVIOUS
<1> HIDE DEF f
<1> QED BY <1>2, <1>3, ReplaceKeepsTitles

LEMMA OpenVwTitles ==
  ASSUME IInv, IInv', TitleInv, rc = "key", stack # <<>>, stack[1].scr \in Callers,
         NEW node, OpenVw(stack[1], node)
  PROVE  TitleInv' /\ current' = current
<1>1. CASE IsNode(node)
  <2>1. Push(stack[1], OpenList("vw", node, MenuNodes[node].title, current, 0))
    BY <1>1 DEF OpenVw
  <2>2. "vw" \in Lists
    BY DEF Lists
  <2> QED BY <2>1, <2>2, ListTitles
<1>2. CASE ~IsNode(node)
  BY <1>2, ResumeTopTitles DEF OpenVw
<1> QED BY <1>1, <1>2

LEMMA ChooseIconTitles ==
  ASSUME IInv, IInv', TitleInv, ChooseIcon
  PROVE  TitleInv' /\ current' = current
<1> DEFINE icon == MainCaptions[stack[1].sel + 1]
<1>1. /\ rc = "key" /\ stack # <<>> /\ stack[1].scr = "main" /\ stack[1].scr \in Callers
  BY DEF ChooseIcon, Waiting, Callers
<1>2. "obd" \in Lists /\ "setup" \in Lists
  BY DEF Lists
<1>3. CASE icon = "OBDII"
  <2>1. Push(stack[1], OpenList("obd", 0, "OBDII", current, 0))
    BY <1>3 DEF ChooseIcon
  <2> QED BY <1>1, <1>2, <2>1, ListTitles
<1>4. CASE icon = "FOR_VW"
  <2>1. OpenVw(stack[1], 0)
    BY <1>4 DEF ChooseIcon
  <2> QED BY <1>1, <2>1, OpenVwTitles
<1>5. CASE icon = "BAT_CHECK"
  <2>1. Push(stack[1], Screen("battery", 0, icon, current, 0, 0))
    BY <1>5 DEF ChooseIcon
  <2>2. CoveredOK(stack[1], current)
    BY <1>1, TopTitle DEF CoveredOK
  <2> QED BY <1>1, <2>1, <2>2, ShownTitles
<1>6. CASE icon = "TOOL_SETUP"
  <2>1. Push(stack[1], OpenList("setup", 0, icon, current, 0))
    BY <1>6 DEF ChooseIcon
  <2> QED BY <1>1, <1>2, <2>1, ListTitles
<1>7. CASE icon \notin {"OBDII", "FOR_VW", "BAT_CHECK", "TOOL_SETUP"}
  <2>1. Push(stack[1], Message(CommError, current))
    BY <1>7 DEF ChooseIcon, NoVehicle
  <2> QED BY <1>1, <2>1, MessageTitles
<1> QED BY <1>3, <1>4, <1>5, <1>6, <1>7

LEMMA ChooseVwTitles ==
  ASSUME IInv, IInv', TitleInv, ChooseVw
  PROVE  TitleInv' /\ current' = current
<1> DEFINE e == menu_entry(stack[1].arg, stack[1].sel)
           m == ModuleOf(e)
<1>1. /\ rc = "key" /\ stack # <<>> /\ stack[1].scr \in Callers
  BY DEF ChooseVw, HasChoice, Waiting, Callers, Lists
<1>2. CASE EntryKind(e) = "submenu"
  <2>1. OpenVw(stack[1], e.param)
    BY <1>2 DEF ChooseVw
  <2> QED BY <1>1, <2>1, OpenVwTitles
<1>3. CASE EntryKind(e) = "module"
  <2>1. OpenModule(stack[1], m, e.caption)
    BY <1>3 DEF ChooseVw
  <2>2. "module" \in Lists
    BY DEF Lists
  <2> HIDE DEF m, e
  <2>3. CASE HasRecord(m)
    <3>1. Push(stack[1], OpenList("module", m, e.caption, current, 0))
      BY <2>1, <2>3 DEF OpenModule
    <3> QED BY <1>1, <2>2, <3>1, ListTitles
  <2>4. CASE ~HasRecord(m)
    <3>1. Push(stack[1], Message(e.caption, current))
      BY <2>1, <2>4 DEF OpenModule
    <3> QED BY <1>1, <3>1, MessageTitles
  <2> QED BY <2>3, <2>4
<1>4. CASE EntryKind(e) \notin {"submenu", "module"}
  <2>1. Push(stack[1], Message(CommError, current))
    BY <1>4 DEF ChooseVw, NoVehicle
  <2> QED BY <1>1, <2>1, MessageTitles
<1> QED BY <1>2, <1>3, <1>4

LEMMA ChooseFunctionTitles ==
  ASSUME IInv, IInv', TitleInv, ChooseFunction
  PROVE  TitleInv' /\ current' = current
<1> DEFINE f == stack[1]
           c == [f EXCEPT !.title = Text(current, FunctionItems(f.arg)[f.sel + 1])]
<1>1. rc = "key" /\ stack # <<>> /\ f.scr = "module" /\ FrameOK(f)
  BY OnTop DEF ChooseFunction, HasChoice, Waiting
<1>2. c.scr = "module"
  BY <1>1 DEF FrameOK, Frames
<1>3. CoveredOK(c, current)
  BY <1>2 DEF CoveredOK
<1>4. Push(c, Screen("message", 0, CommError, current, 0, 0))
  BY DEF ChooseFunction, NoVehicle, Message
<1> HIDE DEF c
<1> QED BY <1>1, <1>2, <1>3, <1>4, ShownTitles

LEMMA ChooseSetupTitles ==
  ASSUME IInv, IInv', TitleInv, ChooseSetup
  PROVE  TitleInv' /\ current' = current
<1> DEFINE item == SetupItems[stack[1].sel + 1]
<1>1. rc = "key" /\ stack # <<>> /\ stack[1].scr = "setup" /\ stack[1].scr \in Callers
  BY DEF ChooseSetup, HasChoice, Waiting, Callers, Lists
<1>2. CASE item = "LANGUAGE"
  <2>1. Push(stack[1], OpenList("languages", 0, item, current, current))
    BY <1>2 DEF ChooseSetup
  <2>2. "languages" \in Lists
    BY DEF Lists
  <2> QED BY <1>1, <2>1, <2>2, ListTitles
<1>3. CASE item = "SKIN"
  <2>1. Replace(Resumed(stack[1], current))
    BY <1>3 DEF ChooseSetup, ToggleSkin
  <2> QED BY <1>1, <2>1, ResumeTopTitles
<1>4. CASE item \notin {"LANGUAGE", "SKIN"}
  <2>1. Push(stack[1], Message(item, current))
    BY <1>4 DEF ChooseSetup
  <2> QED BY <1>1, <2>1, MessageTitles
<1> QED BY <1>2, <1>3, <1>4

LEMMA MoveTitles ==
  ASSUME IInv, IInv', TitleInv, NEW k \in ListKeys, Move(k) \/ MoveIcon(k)
  PROVE  TitleInv' /\ current' = current
<1>1. CASE Move(k)
  <2> DEFINE row == MovedRow(stack[1].sel, Count(stack[1]), k)
             g   == [stack[1] EXCEPT !.sel = row, !.top = Scrolled(row, stack[1].top)]
  <2>1. rc = "key" /\ stack # <<>> /\ Replace(g)
    BY <1>1 DEF Move, Waiting
  <2>2. FrameOK(stack[1]) /\ TitleOK(stack[1], current)
    BY <2>1, OnTop, TopTitle
  <2> HIDE DEF row
  <2>3. g.scr = stack[1].scr /\ g.title = stack[1].title /\ g.id = stack[1].id
    BY <2>2 DEF FrameOK, Frames
  <2> HIDE DEF g
  <2>4. TitleOK(g, current)
    BY <2>2, <2>3 DEF TitleOK
  <2> QED BY <2>1, <2>3, <2>4, ReplaceKeepsTitles
<1>2. CASE MoveIcon(k)
  <2> DEFINE g == [stack[1] EXCEPT !.sel = MovedIcon(@, k)]
  <2>1. rc = "key" /\ stack # <<>> /\ stack[1].scr = "main" /\ Replace(g)
    BY <1>2 DEF MoveIcon, Waiting
  <2>2. FrameOK(stack[1])
    BY <2>1, OnTop
  <2>3. g.scr = "main"
    BY <2>1, <2>2 DEF FrameOK, Frames
  <2> HIDE DEF g
  <2>4. TitleOK(g, current)
    BY <2>3 DEF TitleOK
  <2> QED BY <2>1, <2>3, <2>4, ReplaceKeepsTitles
<1> QED BY <1>1, <1>2

(* A caller that goes on over the one screen that stays.                   *)
LEMMA FrontOfOne ==
  ASSUME NEW S, NEW f \in S, NEW t \in Seq(S), Len(t) = 1, NEW r, r = <<f>> \o t
  PROVE  DOMAIN r = 1..2 /\ Len(r) = 2 /\ r[1] = f /\ r[2] = t[1]
<1>1. <<f>> \in Seq(S) /\ Len(<<f>>) = 1 /\ <<f>>[1] = f
  OBVIOUS
<1> DEFINE q == <<f>>
<1> HIDE DEF q
<1>2. q \in Seq(S) /\ Len(q) = 1 /\ q[1] = f /\ r = q \o t
  BY <1>1 DEF q
<1>3. /\ r \in Seq(S)
      /\ Len(r) = Len(q) + Len(t)
      /\ \A i \in 1..(Len(q) + Len(t)) : r[i] = IF i <= Len(q) THEN q[i] ELSE t[i - Len(q)]
  BY <1>2, ConcatProperties
<1>4. DOMAIN r = 1..Len(r) /\ Len(r) = 2
  BY <1>2, <1>3
<1> QED BY <1>2, <1>3, <1>4

(* The screen under one that is taken off two.                             *)
LEMMA TailOf ==
  ASSUME NEW S, NEW s \in Seq(S), Len(s) = 2
  PROVE  Tail(s) \in Seq(S) /\ Len(Tail(s)) = 1 /\ Tail(s)[1] = s[2]
<1>1. s # <<>>
  OBVIOUS
<1>2. /\ Tail(s) \in Seq(S) /\ Len(Tail(s)) = Len(s) - 1
      /\ \A i \in 1..Len(Tail(s)) : Tail(s)[i] = s[i + 1]
  BY <1>1, HeadTailProperties
<1> QED BY <1>2

(* The list of languages is over setup and setup over the grid, so of the  *)
(* titles that stay open the change concerns the one that is fetched.      *)
LEMMA ChooseLanguageTitles ==
  ASSUME IInv, TitleInv, ChooseLanguage
  PROVE  /\ TitleInv'
         /\ Waiting("languages") /\ current' = stack[1].sel
         /\ stack' # <<>> /\ stack'[1].scr = "setup"
<1> DEFINE s == Tail(stack)
           f == Resumed(s[1], current')
<1>1. /\ Waiting("languages") /\ stack # <<>> /\ stack[1].scr = "languages"
      /\ FrameOK(stack[1]) /\ LanguageIn(current) /\ rc = "key" /\ rc' = rc
      /\ stack[1].sel \in 0..(Count(stack[1]) - 1)
  <2>1. HasChoice("languages") /\ "languages" \in Lists
    BY DEF ChooseLanguage, Lists
  <2> QED BY <2>1, ChosenRow DEF ChooseLanguage, HasChoice
<1>2. current' = stack[1].sel /\ LanguageIn(current')
  <2>1. Count(stack[1]) = table_count
    BY <1>1 DEF Count
  <2>2. current' = str_select(current, stack[1].sel)
    BY DEF ChooseLanguage
  <2> QED BY <1>1, <2>1, <2>2, TableCounts DEF str_select, LanguageIn
<1>3. StackOK(stack) /\ StackOK(s) /\ s # <<>> /\ stack \in Seq(Frames) /\ s \in Seq(Frames)
  BY <1>1, IInvStack, PoppedOK DEF StackOK
<1>4. s[1] = stack[2] /\ Len(stack) = Len(s) + 1 /\ 1 \in DOMAIN s /\ 1 \in DOMAIN stack
      /\ (\A i \in DOMAIN s : s[i] = stack[i + 1] /\ i + 1 \in DOMAIN stack)
  BY <1>3
<1>5. stack[2].scr = "setup" /\ Len(stack) = 3
  <2>1. 1 + 1 \in DOMAIN stack /\ stack[1 + 1].scr = "setup"
    BY <1>1, <1>4 DEF TitleInv, PlacesOK
  <2>2. (1 + 1) + 1 = Len(stack)
    BY <2>1 DEF TitleInv, PlacesOK
  <2> QED BY <2>1, <2>2
<1>6. stack' = <<f>> \o Tail(s)
  BY <1>4 DEF ChooseLanguage, Under
<1>7. FrameOK(s[1]) /\ s[1].scr = "setup"
  BY <1>3, <1>4, <1>5 DEF StackOK
<1>8. FrameOK(f) /\ f.scr = "setup" /\ TitleOK(f, current')
  <2>1. s[1].scr \in Callers
    BY <1>7 DEF Callers, Lists
  <2> QED BY <1>2, <1>7, <2>1, ResumedOK, ResumedTitle
<1>9. s[2].scr = "main" /\ Len(s) = 2
  <2>1. Len(s) \in Nat /\ DOMAIN s = 1..Len(s)
    BY <1>3
  <2>2. Len(s) = 2 /\ 2 \in DOMAIN s
    BY <1>4, <1>5, <2>1
  <2> QED BY <1>3, <2>2 DEF StackOK
<1> HIDE DEF f, s
<1>10. DOMAIN stack' = 1..2 /\ Len(stack') = 2 /\ stack'[1] = f /\ stack'[2] = s[2]
  <2>1. f \in Frames /\ Tail(s) \in Seq(Frames) /\ Len(Tail(s)) = 1 /\ Tail(s)[1] = s[2]
    <3>1. s \in Seq(Frames) /\ Len(s) = 2
      BY <1>3, <1>9
    <3>2. Tail(s) \in Seq(Frames) /\ Len(Tail(s)) = 1 /\ Tail(s)[1] = s[2]
      BY <3>1, TailOf
    <3> QED BY <1>8, <3>2 DEF FrameOK
  <2> DEFINE t == Tail(s)
  <2>2. f \in Frames /\ t \in Seq(Frames) /\ Len(t) = 1 /\ t[1] = s[2] /\ stack' = <<f>> \o t
    BY <1>6, <2>1
  <2> HIDE DEF t
  <2>3. DOMAIN stack' = 1..2 /\ Len(stack') = 2 /\ stack'[1] = f /\ stack'[2] = t[1]
    BY ONLY <2>2, FrontOfOne
  <2> QED BY <2>2, <2>3
<1>11. PlacesOK(stack')
  BY <1>8, <1>9, <1>10 DEF PlacesOK
<1>12. TitlesOK(stack', current', rc')
  BY <1>8, <1>9, <1>10 DEF TitlesOK, CoveredOK, TitleOK
<1>13. stack' # <<>> /\ stack'[1].scr = "setup"
  BY <1>8, <1>10
<1> QED BY <1>1, <1>2, <1>11, <1>12, <1>13 DEF TitleInv

LEMMA ReturnBackTitles ==
  ASSUME IInv, TitleInv, ReturnBack
  PROVE  TitleInv' /\ current' = current
<1> DEFINE s == Tail(stack)
           f == Resumed(s[1], current)
<1>1. /\ rc = "back" /\ rc' = "key" /\ current' = current /\ stack' = <<f>> \o Tail(s)
  BY DEF ReturnBack, Under
<1>2. stack # <<>> /\ stack[1].scr # "main" /\ StackOK(stack) /\ LanguageIn(current)
  BY <1>1, IInvStack
<1>3. StackOK(s) /\ s # <<>> /\ s[1].scr \in Callers
  BY <1>2, PoppedOK
<1>4. PlacesOK(s) /\ TitlesOK(s, current, "quit")
  BY <1>2, PopTitles DEF TitleInv
<1>5. FrameOK(s[1]) /\ CoveredOK(s[1], current)
  <2>1. 1 \in DOMAIN s
    BY <1>3 DEF StackOK
  <2> QED BY <1>3, <1>4, <2>1 DEF StackOK, TitlesOK
<1>6. TitleOK(f, current) /\ FrameOK(f) /\ f.scr = s[1].scr
  BY <1>2, <1>3, <1>5, ResumedOK, ResumedTitle
<1> HIDE DEF f, s
<1>7. PlacesOK(stack') /\ TitlesOK(stack', current, rc')
  BY <1>1, <1>3, <1>4, <1>6, ReplaceTitles
<1> QED BY <1>1, <1>7 DEF TitleInv

(* The only step that changes the language is the choice of one.           *)
LanguageStep ==
  current' # current =>
    /\ Waiting("languages")
    /\ stack' # <<>> /\ stack'[1].scr = "setup"
    /\ current' = stack[1].sel

LEMMA TitlesInductive == IInv /\ TitleInv /\ [Next]_vars => TitleInv' /\ LanguageStep
<1> SUFFICES ASSUME IInv, TitleInv, [Next]_vars PROVE TitleInv' /\ LanguageStep
  OBVIOUS
<1>0. IInv'
  BY Inductive
<1>1. CASE \E k \in ListKeys : Move(k) \/ MoveIcon(k)
  BY <1>0, <1>1, MoveTitles DEF LanguageStep
<1>2. CASE ChooseIcon
  BY <1>0, <1>2, ChooseIconTitles DEF LanguageStep
<1>3. CASE Shortcut \/ ChooseObd
  <2>1. /\ rc = "key" /\ stack # <<>> /\ Push(stack[1], Message(CommError, current))
    BY <1>3 DEF Shortcut, ChooseObd, HasChoice, Waiting, NoVehicle
  <2> QED BY <1>0, <2>1, MessageTitles DEF LanguageStep
<1>4. CASE ChooseVw
  BY <1>0, <1>4, ChooseVwTitles DEF LanguageStep
<1>5. CASE ChooseFunction
  BY <1>0, <1>5, ChooseFunctionTitles DEF LanguageStep
<1>6. CASE ChooseSetup
  BY <1>0, <1>6, ChooseSetupTitles DEF LanguageStep
<1>7. CASE ChooseLanguage
  BY <1>7, ChooseLanguageTitles DEF LanguageStep
<1>8. CASE Leave \/ Quit
  <2>1. /\ stack' = stack /\ current' = current /\ rc = "key"
    BY <1>8 DEF Leave, Quit, Answer, Waiting
  <2> QED BY <2>1 DEF TitleInv, TitlesOK, LanguageStep
<1>9. CASE ReturnBack
  BY <1>9, ReturnBackTitles DEF LanguageStep
<1>10. CASE ReturnQuit
  <2>1. /\ rc = "quit" /\ stack # <<>> /\ stack' = Tail(stack)
        /\ rc' = rc /\ current' = current
    BY <1>10 DEF ReturnQuit, Under
  <2>2. PlacesOK(stack') /\ TitlesOK(stack', current', rc')
    BY <2>1, IInvStack, PopTitles DEF TitleInv
  <2> QED BY <2>1, <2>2 DEF TitleInv, LanguageStep
<1>11. CASE Exited \/ UNCHANGED vars
  BY <1>11 DEF Exited, vars, TitleInv, LanguageStep
<1> QED BY <1>1, <1>2, <1>3, <1>4, <1>5, <1>6, <1>7, <1>8, <1>9, <1>10, <1>11 DEF Next

LEMMA TitlesInitially == Init => TitleInv
<1> SUFFICES ASSUME Init PROVE TitleInv
  OBVIOUS
<1> DEFINE f == [scr |-> "main", arg |-> 0, id |-> "", title |-> <<NoText, "">>,
                 sel |-> 1, top |-> 0]
<1>1. stack = <<f>> /\ f.scr = "main"
  BY DEF Init
<1> HIDE DEF f
<1>2. DOMAIN stack = {1} /\ Len(stack) = 1 /\ stack[1].scr = "main"
  BY <1>1
<1> QED BY <1>2 DEF TitleInv, PlacesOK, TitlesOK, CoveredOK, TitleOK

(* Whatever waits for a key has its title in the language in use.          *)
THEOREM TitlesStayCurrent == Spec => []TitlesCurrent
<1>1. IInv /\ TitleInv => TitlesCurrent
  BY TopTitle DEF TitlesCurrent, TitleOK
<1> QED BY <1>1, Initially, Inductive, TitlesInitially, TitlesInductive, PTL DEF Spec

(* The language changes only to the row chosen in the list of languages.   *)
THEOREM LanguageIsChosen == Spec => LanguageByChoice
<1>1. IInv /\ TitleInv /\ [Next]_vars => [LanguageStep]_vars
  BY TitlesInductive
<1>2. [LanguageStep]_vars =>
        [current' # current =>
           /\ Waiting("languages")
           /\ stack' # <<>> /\ stack'[1].scr = "setup"
           /\ current' = stack[1].sel]_vars
  BY DEF LanguageStep
<1> QED BY <1>1, <1>2, Initially, Inductive, TitlesInitially, TitlesInductive, PTL
        DEF Spec, LanguageByChoice
-----------------------------------------------------------------------------
(* The way back.  A screen that was opened is what the row selected in its *)
(* caller leads to, and nothing changes that row, or what the screen       *)
(* shows, as long as it is open; and only a list with rows opens another   *)
(* screen.                                                                 *)
Linked(s)  == \A i \in 1..(Len(s) - 1) : LeadsTo(s[i + 1], s[i])
HasRows(s) == \A i \in DOMAIN s : i # 1 /\ s[i].scr # "main" => Count(s[i]) > 0

PathInv == Breadcrumbs /\ HasRows(stack)

(* Whether a row leads to a screen depends on nothing else of the two.     *)
SamePlace(f, g)  == f.scr = g.scr /\ f.arg = g.arg
SameScreen(f, g) == SamePlace(f, g) /\ f.id = g.id
SameRow(f, g)    == SamePlace(f, g) /\ f.sel = g.sel

LEMMA SameLink ==
  ASSUME NEW f, NEW f2, SameRow(f, f2), NEW g, NEW g2, SameScreen(g, g2), LeadsTo(f, g)
  PROVE  LeadsTo(f2, g2)
BY DEF LeadsTo, SameRow, SameScreen, SamePlace

LEMMA SameCount ==
  ASSUME NEW f, NEW g, SamePlace(f, g)
  PROVE  Count(f) = Count(g)
BY DEF Count, SamePlace

LEMMA PushedPath ==
  ASSUME NEW s, StackOK(s), s # <<>>, Linked(s), HasRows(s),
         NEW c \in Frames, SameScreen(s[1], c), c.scr = "main" \/ Count(c) > 0,
         NEW f \in Frames, LeadsTo(c, f)
  PROVE  Linked(<<f, c>> \o Tail(s)) /\ HasRows(<<f, c>> \o Tail(s))
<1> DEFINE t == <<f, c>> \o Tail(s)
<1>1. s \in Seq(Frames) /\ Len(s) \in Nat /\ Len(s) >= 1 /\ Tail(s) \in Seq(Frames)
  BY DEF StackOK
<1>2. DOMAIN t = 1..(Len(s) + 1) /\ Len(t) = Len(s) + 1 /\ DOMAIN s = 1..Len(s)
  BY <1>1
<1>3. t[1] = f /\ t[2] = c /\ \A i \in 3..Len(t) : t[i] = s[i - 1]
  BY <1>1, <1>2
<1> HIDE DEF t
<1>4. ASSUME NEW i \in 1..(Len(t) - 1) PROVE LeadsTo(t[i + 1], t[i])
  <2>1. CASE i = 1
    BY <1>3, <2>1
  <2>2. CASE i = 2
    <3>1. 1 \in 1..(Len(s) - 1) /\ t[2 + 1] = s[1 + 1]
      BY <1>1, <1>2, <1>3, <2>2
    <3>2. LeadsTo(s[1 + 1], s[1])
      BY <3>1 DEF Linked
    <3>3. LeadsTo(s[1 + 1], c)
      BY <3>2, SameLink DEF SameRow, SamePlace
    <3> QED BY <1>3, <2>2, <3>1, <3>3
  <2>3. CASE i >= 3
    <3>1. /\ i - 1 \in 1..(Len(s) - 1) /\ t[i] = s[i - 1]
          /\ t[i + 1] = s[(i - 1) + 1]
      BY <1>1, <1>2, <1>3, <2>3
    <3>2. LeadsTo(s[(i - 1) + 1], s[i - 1])
      BY <3>1 DEF Linked
    <3> QED BY <3>1, <3>2
  <2> QED BY <1>1, <1>2, <2>1, <2>2, <2>3
<1>5. ASSUME NEW i \in DOMAIN t, i # 1, t[i].scr # "main" PROVE Count(t[i]) > 0
  <2>1. CASE i = 2
    BY <1>3, <1>5, <2>1
  <2>2. CASE i >= 3
    <3>1. i - 1 \in DOMAIN s /\ i - 1 # 1 /\ t[i] = s[i - 1]
      BY <1>1, <1>2, <1>3, <2>2
    <3> QED BY <1>5, <3>1 DEF HasRows
  <2> QED BY <1>1, <1>2, <1>5, <2>1, <2>2
<1> QED BY <1>4, <1>5 DEF Linked, HasRows, t

LEMMA ReplacedPath ==
  ASSUME NEW s, StackOK(s), s # <<>>, Linked(s), HasRows(s),
         NEW f \in Frames, SameScreen(s[1], f)
  PROVE  Linked(<<f>> \o Tail(s)) /\ HasRows(<<f>> \o Tail(s))
<1> DEFINE t == <<f>> \o Tail(s)
<1>1. s \in Seq(Frames) /\ Len(s) \in Nat /\ Len(s) >= 1 /\ Tail(s) \in Seq(Frames)
  BY DEF StackOK
<1>2. DOMAIN t = DOMAIN s /\ Len(t) = Len(s) /\ DOMAIN s = 1..Len(s)
  BY <1>1
<1>3. t[1] = f /\ \A i \in 2..Len(t) : t[i] = s[i]
  BY <1>1, <1>2
<1> HIDE DEF t
<1>4. ASSUME NEW i \in 1..(Len(t) - 1) PROVE LeadsTo(t[i + 1], t[i])
  <2>1. LeadsTo(s[i + 1], s[i]) /\ t[i + 1] = s[i + 1]
    BY <1>1, <1>2, <1>3 DEF Linked
  <2>2. CASE i = 1
    BY <1>3, <2>1, <2>2, SameLink DEF SameRow, SamePlace
  <2>3. CASE i # 1
    BY <1>1, <1>2, <1>3, <2>1, <2>3
  <2> QED BY <2>2, <2>3
<1>5. HasRows(t)
  BY <1>1, <1>2, <1>3 DEF HasRows
<1> QED BY <1>4, <1>5 DEF Linked, t

LEMMA PoppedPath ==
  ASSUME NEW s, StackOK(s), s # <<>>, Linked(s), HasRows(s)
  PROVE  Linked(Tail(s)) /\ HasRows(Tail(s))
<1> DEFINE t == Tail(s)
<1>1. s \in Seq(Frames) /\ Len(s) \in Nat /\ Len(s) >= 1
  BY DEF StackOK
<1>2. Len(t) = Len(s) - 1 /\ DOMAIN t = 1..(Len(s) - 1) /\ DOMAIN s = 1..Len(s)
  BY <1>1
<1>3. \A i \in DOMAIN t : t[i] = s[i + 1] /\ i + 1 \in DOMAIN s /\ i + 1 # 1
  BY <1>1, <1>2
<1> HIDE DEF t
<1>4. ASSUME NEW i \in 1..(Len(t) - 1) PROVE LeadsTo(t[i + 1], t[i])
  <2>1. /\ i + 1 \in 1..(Len(s) - 1) /\ t[i] = s[i + 1]
        /\ t[i + 1] = s[(i + 1) + 1]
    BY <1>1, <1>2, <1>3
  <2>2. LeadsTo(s[(i + 1) + 1], s[i + 1])
    BY <2>1 DEF Linked
  <2> QED BY <2>1, <2>2
<1>5. HasRows(t)
  BY <1>3 DEF HasRows
<1> QED BY <1>4, <1>5 DEF Linked, t

(* A list entered anew at one of its rows is the screen it was.            *)
LEMMA ListedSame ==
  ASSUME NEW f \in Frames, NEW start
  PROVE  /\ SameScreen(f, Listed(f, start))
         /\ Listed(f, start).sel = Started(start, Count(f))
<1> DEFINE row == Started(start, Count(f))
           g   == [f EXCEPT !.sel = row, !.top = Scrolled(row, 0)]
<1>1. g.scr = f.scr /\ g.arg = f.arg /\ g.id = f.id /\ g.sel = row
  BY DEF Frames
<1>2. Listed(f, start) = g
  BY DEF Listed
<1> HIDE DEF g, row
<1> QED BY <1>1, <1>2 DEF SameScreen, SamePlace, row

LEMMA ResumedSame ==
  ASSUME NEW f, FrameOK(f), f.scr \in Callers, NEW cur
  PROVE  /\ SameScreen(f, Resumed(f, cur))
         /\ f.scr = "main" \/ Count(f) > 0 => SameRow(f, Resumed(f, cur))
<1>1. CASE f.scr = "main"
  BY <1>1 DEF Resumed, SameScreen, SameRow, SamePlace
<1>2. CASE f.scr # "main"
  <2> DEFINE g == Listed(f, f.sel)
  <2>1. f \in Frames /\ f.scr \in Lists
    BY <1>2 DEF FrameOK, Callers
  <2>2. SameScreen(f, g) /\ g.sel = Started(f.sel, Count(f))
    BY <2>1, ListedSame
  <2>3. /\ Retitled(g, cur).scr = g.scr /\ Retitled(g, cur).arg = g.arg
        /\ Retitled(g, cur).id = g.id /\ Retitled(g, cur).sel = g.sel
    BY DEF Listed, Retitled, FrameOK, Frames
  <2>4. Resumed(f, cur) = IF f.scr \in {"setup", "module"} THEN Retitled(g, cur) ELSE g
    BY <1>2 DEF Resumed
  <2>5. Count(f) > 0 => Started(f.sel, Count(f)) = f.sel
    BY <2>1 DEF FrameOK, CursorOK, Started
  <2> HIDE DEF g
  <2> QED BY <1>2, <2>2, <2>3, <2>4, <2>5 DEF SameScreen, SameRow, SamePlace
<1> QED BY <1>1, <1>2

LEMMA OpenedScreen ==
  ASSUME NEW kind, NEW arg, NEW id, NEW cur, NEW start
  PROVE  LET g == OpenList(kind, arg, id, cur, start)
             h == Screen(kind, arg, id, cur, 0, 0)
         IN  /\ g.scr = kind /\ g.arg = arg /\ g.id = id
             /\ h.scr = kind /\ h.arg = arg /\ h.id = id
<1> DEFINE f == Screen(kind, arg, id, cur, 0, 0)
<1>1. f.scr = kind /\ f.arg = arg /\ f.id = id
  BY DEF Screen
<1>2. \A row, top : LET g == [f EXCEPT !.sel = row, !.top = top]
                    IN  g.scr = kind /\ g.arg = arg /\ g.id = id
  BY DEF Screen
<1> HIDE DEF f
<1>3. LET g == Listed(f, start) IN g.scr = kind /\ g.arg = arg /\ g.id = id
  BY <1>2 DEF Listed
<1> QED BY <1>1, <1>3 DEF OpenList, f

(* What a step does to the open screens: it opens one from a row that      *)
(* leads there, or changes the row or the title of the one on top, or      *)
(* closes it.                                                              *)
SameRowStep ==
  Len(stack') < Len(stack) /\ rc' = "key" => SameRow(stack[2], stack'[1])

LEMMA PushKeepsPath ==
  ASSUME IInv, IInv', PathInv, stack # <<>>,
         NEW c, SameScreen(stack[1], c), c.scr = "main" \/ Count(stack[1]) > 0,
         NEW f, LeadsTo(c, f), Push(c, f)
  PROVE  PathInv' /\ SameRowStep
<1>1. StackOK(stack)
  BY IInvStack
<1>2. stack' = <<f, c>> \o Tail(stack)
  BY DEF Push, Under
<1>3. \A i \in DOMAIN stack' : stack'[i] \in Frames
  BY DEF IInv, TypeOK
<1>4. f \in Frames /\ c \in Frames /\ Len(stack') = Len(stack) + 1 /\ Len(stack) \in Nat
  <2>1. stack \in Seq(Frames) /\ Tail(stack) \in Seq(Frames) /\ Len(Tail(stack)) = Len(stack) - 1
        /\ Len(stack) \in Nat
    BY <1>1 DEF StackOK
  <2> DEFINE S == Frames \cup {f, c}
  <2>2. <<f, c>> \in Seq(S) /\ Tail(stack) \in Seq(S)
    BY <2>1
  <2>3. /\ 1 \in DOMAIN stack' /\ 2 \in DOMAIN stack' /\ stack'[1] = f /\ stack'[2] = c
        /\ Len(stack') = Len(stack) + 1
    BY <1>2, <2>1, <2>2
  <2> QED BY <1>3, <2>1, <2>3
<1>5. c.scr = "main" \/ Count(c) > 0
  BY SameCount DEF SameScreen
<1>6. Linked(stack) /\ HasRows(stack)
  BY DEF PathInv, Breadcrumbs, Linked
<1>7. Linked(stack') /\ HasRows(stack')
  BY <1>1, <1>2, <1>4, <1>5, <1>6, PushedPath
<1> QED BY <1>4, <1>7 DEF PathInv, Breadcrumbs, Linked, HasRows, SameRowStep

LEMMA ReplaceKeepsPath ==
  ASSUME IInv, IInv', PathInv, stack # <<>>,
         NEW f, SameScreen(stack[1], f), Replace(f)
  PROVE  PathInv' /\ SameRowStep
<1>1. StackOK(stack)
  BY IInvStack
<1>2. stack' = <<f>> \o Tail(stack)
  BY DEF Replace, Under
<1>3. \A i \in DOMAIN stack' : stack'[i] \in Frames
  BY DEF IInv, TypeOK
<1>4. f \in Frames /\ Len(stack') = Len(stack) /\ Len(stack) \in Nat
  <2>1. stack \in Seq(Frames) /\ Tail(stack) \in Seq(Frames) /\ Len(Tail(stack)) = Len(stack) - 1
        /\ Len(stack) \in Nat
    BY <1>1 DEF StackOK
  <2> DEFINE S == Frames \cup {f}
  <2>2. <<f>> \in Seq(S) /\ Tail(stack) \in Seq(S)
    BY <2>1
  <2>3. 1 \in DOMAIN stack' /\ stack'[1] = f /\ Len(stack') = Len(stack)
    BY <1>2, <2>1, <2>2
  <2> QED BY <1>3, <2>1, <2>3
<1>6. Linked(stack) /\ HasRows(stack)
  BY DEF PathInv, Breadcrumbs, Linked
<1>7. Linked(stack') /\ HasRows(stack')
  BY <1>1, <1>2, <1>4, <1>6, ReplacedPath
<1> QED BY <1>4, <1>7 DEF PathInv, Breadcrumbs, Linked, HasRows, SameRowStep

(* A caller goes on where it was, since it has the row it was left at.     *)
LEMMA ResumeKeepsPath ==
  ASSUME IInv, PathInv, stack # <<>>, stack[1].scr # "main", NEW cur, LanguageIn(cur),
         stack' = <<Resumed(Tail(stack)[1], cur)>> \o Tail(Tail(stack))
  PROVE  PathInv' /\ SameRowStep
<1> DEFINE s == Tail(stack)
           f == Resumed(s[1], cur)
<1>1. StackOK(stack) /\ StackOK(s) /\ s # <<>> /\ s[1].scr \in Callers
  BY IInvStack, PoppedOK
<1>2. /\ s[1] = stack[2] /\ 2 \in DOMAIN stack /\ 1 \in DOMAIN s
      /\ stack \in Seq(Frames) /\ Len(stack) \in Nat
  BY <1>1 DEF StackOK
<1>3. FrameOK(s[1])
  BY <1>1, <1>2 DEF StackOK
<1>4. Linked(stack) /\ HasRows(stack)
  BY DEF PathInv, Breadcrumbs, Linked
<1>5. Linked(s) /\ HasRows(s)
  BY <1>1, <1>4, PoppedPath
<1>6. s[1].scr = "main" \/ Count(s[1]) > 0
  BY <1>2, <1>4 DEF HasRows
<1>7. FrameOK(f) /\ SameScreen(s[1], f) /\ SameRow(s[1], f)
  BY <1>1, <1>3, <1>6, ResumedOK, ResumedSame
<1>8. stack' = <<f>> \o Tail(s)
  OBVIOUS
<1> HIDE DEF f
<1>9. Linked(stack') /\ HasRows(stack')
  BY <1>1, <1>5, <1>7, <1>8, ReplacedPath DEF FrameOK
<1>10. stack'[1] = f
  <2>1. s \in Seq(Frames) /\ Tail(s) \in Seq(Frames) /\ f \in Frames
    BY <1>1, <1>7 DEF StackOK, FrameOK
  <2> QED BY <1>8, <2>1
<1> QED BY <1>2, <1>7, <1>9, <1>10 DEF PathInv, Breadcrumbs, Linked, HasRows, SameRowStep

(* What a row of a menu opens, if it opens anything, is what it leads to.   *)
LEMMA OpenVwPath ==
  ASSUME IInv, IInv', PathInv, stack # <<>>, stack[1].scr \in Callers,
         stack[1].scr = "main" \/ Count(stack[1]) > 0,
         NEW node, OpenVw(stack[1], node),
         \A g : g.scr = "vw" /\ g.arg = node => LeadsTo(stack[1], g)
  PROVE  PathInv' /\ SameRowStep
<1>1. CASE IsNode(node)
  <2> DEFINE g == OpenList("vw", node, MenuNodes[node].title, current, 0)
  <2>1. Push(stack[1], g) /\ g.scr = "vw" /\ g.arg = node
    BY <1>1, OpenedScreen DEF OpenVw
  <2> HIDE DEF g
  <2>2. LeadsTo(stack[1], g)
    BY <2>1
  <2> QED BY <2>1, <2>2, PushKeepsPath DEF SameScreen, SamePlace
<1>2. CASE ~IsNode(node)
  <2> DEFINE g == Resumed(stack[1], current)
  <2>1. Replace(g)
    BY <1>2 DEF OpenVw
  <2>2. SameScreen(stack[1], g)
    BY OnTop, ResumedSame
  <2> HIDE DEF g
  <2> QED BY <2>1, <2>2, ReplaceKeepsPath
<1> QED BY <1>1, <1>2

LEMMA OpenedPath ==
  ASSUME IInv, IInv', PathInv, stack # <<>>,
         stack[1].scr = "main" \/ Count(stack[1]) > 0,
         NEW f, LeadsTo(stack[1], f), Push(stack[1], f)
  PROVE  PathInv' /\ SameRowStep
BY PushKeepsPath DEF SameScreen, SamePlace

LEMMA ChooseIconPath ==
  ASSUME IInv, IInv', PathInv, ChooseIcon
  PROVE  PathInv' /\ SameRowStep
<1> DEFINE f    == stack[1]
           icon == MainCaptions[f.sel + 1]
<1>1. stack # <<>> /\ f.scr = "main" /\ f.scr \in Callers
  BY DEF ChooseIcon, Waiting, Callers
<1>2. f.sel \in 0..7
  BY <1>1, OnTop DEF FrameOK, CursorOK
<1>3. /\ icon = "OBDII" => f.sel = 0
      /\ icon = "FOR_VW" => f.sel = 1
      /\ icon = "BAT_CHECK" => f.sel = 4
      /\ icon = "TOOL_SETUP" => f.sel = 7
  BY <1>2 DEF MainCaptions
<1>4. CASE icon = "OBDII"
  <2> DEFINE g == OpenList("obd", 0, "OBDII", current, 0)
  <2>1. Push(f, g) /\ g.scr = "obd"
    BY <1>4, OpenedScreen DEF ChooseIcon
  <2> HIDE DEF g
  <2>2. LeadsTo(f, g)
    BY <1>1, <1>3, <1>4, <2>1 DEF LeadsTo
  <2> QED BY <1>1, <2>1, <2>2, OpenedPath
<1>5. CASE icon = "FOR_VW"
  <2>1. OpenVw(f, 0)
    BY <1>5 DEF ChooseIcon
  <2>2. \A g : g.scr = "vw" /\ g.arg = 0 => LeadsTo(f, g)
    BY <1>1, <1>3, <1>5 DEF LeadsTo
  <2> QED BY <1>1, <2>1, <2>2, OpenVwPath
<1>6. CASE icon = "BAT_CHECK"
  <2> DEFINE g == Screen("battery", 0, icon, current, 0, 0)
  <2>1. Push(f, g)
    BY <1>6 DEF ChooseIcon
  <2>3. g.scr = "battery"
    BY OpenedScreen
  <2> HIDE DEF g
  <2>2. LeadsTo(f, g)
    BY <1>1, <1>3, <1>6, <2>3 DEF LeadsTo
  <2> QED BY <1>1, <2>1, <2>2, OpenedPath
<1>7. CASE icon = "TOOL_SETUP"
  <2> DEFINE g == OpenList("setup", 0, icon, current, 0)
  <2>1. Push(f, g)
    BY <1>7 DEF ChooseIcon
  <2>3. g.scr = "setup"
    BY OpenedScreen
  <2> HIDE DEF g
  <2>2. LeadsTo(f, g)
    BY <1>1, <1>3, <1>7, <2>3 DEF LeadsTo
  <2> QED BY <1>1, <2>1, <2>2, OpenedPath
<1>8. CASE icon \notin {"OBDII", "FOR_VW", "BAT_CHECK", "TOOL_SETUP"}
  <2> DEFINE g == Message(CommError, current)
  <2>1. Push(f, g) /\ g.scr = "message"
    BY <1>8, OpenedScreen DEF ChooseIcon, NoVehicle, Message
  <2> HIDE DEF g
  <2>2. LeadsTo(f, g)
    BY <1>1, <2>1 DEF LeadsTo
  <2> QED BY <1>1, <2>1, <2>2, OpenedPath
<1> QED BY <1>4, <1>5, <1>6, <1>7, <1>8

LEMMA ChooseVwPath ==
  ASSUME IInv, IInv', PathInv, ChooseVw
  PROVE  PathInv' /\ SameRowStep
<1> DEFINE f == stack[1]
           e == menu_entry(f.arg, f.sel)
           m == ModuleOf(e)
<1>1. stack # <<>> /\ f.scr = "vw" /\ f.scr \in Callers /\ Count(f) > 0
  BY DEF ChooseVw, HasChoice, Waiting, Callers, Lists
<1>l. \A g : \/ e.action = 0 /\ e.param # 0 /\ g.scr = "vw" /\ g.arg = e.param
             \/ e.caption \in ModuleNames /\ g.id = e.caption
             \/ (e.action # 0 \/ e.param = 0) /\ g.id = CommError
             => LeadsTo(f, g)
  BY <1>1 DEF LeadsTo
<1>2. CASE EntryKind(e) = "submenu"
  <2>1. OpenVw(f, e.param)
    BY <1>2 DEF ChooseVw
  <2>2. e.action = 0 /\ e.param # 0
    BY <1>2 DEF EntryKind
  <2>3. \A g : g.scr = "vw" /\ g.arg = e.param => LeadsTo(f, g)
    BY <1>l, <2>2
  <2> QED BY <1>1, <2>1, <2>3, OpenVwPath
<1>3. CASE EntryKind(e) = "module"
  <2>1. OpenModule(f, m, e.caption) /\ e.caption \in ModuleNames
    BY <1>3 DEF ChooseVw, EntryKind
  <2>2. \A g : g.id = e.caption => LeadsTo(f, g)
    BY <1>l, <2>1
  <2> DEFINE g == IF HasRecord(m) THEN OpenList("module", m, e.caption, current, 0)
                  ELSE Message(e.caption, current)
  <2>3. Push(f, g)
    BY <2>1 DEF OpenModule
  <2>4. g.id = e.caption
    BY OpenedScreen DEF Message
  <2> HIDE DEF g
  <2> QED BY <1>1, <2>2, <2>3, <2>4, OpenedPath
<1>4. CASE EntryKind(e) \notin {"submenu", "module"}
  <2> DEFINE g == Message(CommError, current)
  <2>1. Push(f, g) /\ g.id = CommError
    BY <1>4, OpenedScreen DEF ChooseVw, NoVehicle, Message
  <2>2. e.action # 0 \/ e.param = 0
    BY <1>4 DEF EntryKind
  <2> HIDE DEF g
  <2>3. LeadsTo(f, g)
    BY <1>l, <2>1, <2>2
  <2> QED BY <1>1, <2>1, <2>3, OpenedPath
<1> QED BY <1>2, <1>3, <1>4

LEMMA ChooseFunctionPath ==
  ASSUME IInv, IInv', PathInv, ChooseFunction
  PROVE  PathInv' /\ SameRowStep
<1> DEFINE f == stack[1]
           c == [f EXCEPT !.title = Text(current, FunctionItems(f.arg)[f.sel + 1])]
           g == Message(CommError, current)
<1>1. stack # <<>> /\ f.scr = "module" /\ Count(f) > 0 /\ FrameOK(f)
  BY OnTop DEF ChooseFunction, HasChoice, Waiting
<1>2. SameScreen(f, c) /\ c.scr = "module"
  BY <1>1 DEF FrameOK, Frames, SameScreen, SamePlace
<1>3. Push(c, g) /\ g.id = CommError
  BY OpenedScreen DEF ChooseFunction, NoVehicle, Message
<1> HIDE DEF c, g
<1>4. LeadsTo(c, g)
  BY <1>2, <1>3 DEF LeadsTo
<1> QED BY <1>1, <1>2, <1>3, <1>4, PushKeepsPath

LEMMA ChooseSetupPath ==
  ASSUME IInv, IInv', PathInv, ChooseSetup
  PROVE  PathInv' /\ SameRowStep
<1> DEFINE f    == stack[1]
           item == SetupItems[f.sel + 1]
<1>1. stack # <<>> /\ f.scr = "setup" /\ Count(f) > 0 /\ f.scr \in Callers
  BY DEF ChooseSetup, HasChoice, Waiting, Callers, Lists
<1>2. \A g : g.id = item => LeadsTo(f, g)
  BY <1>1 DEF LeadsTo
<1>3. CASE item = "LANGUAGE"
  <2> DEFINE g == OpenList("languages", 0, item, current, current)
  <2>1. Push(f, g) /\ g.id = item
    BY <1>3, OpenedScreen DEF ChooseSetup
  <2> HIDE DEF g
  <2> QED BY <1>1, <1>2, <2>1, OpenedPath
<1>4. CASE item = "SKIN"
  <2> DEFINE g == Resumed(f, current)
  <2>1. Replace(g)
    BY <1>4 DEF ChooseSetup, ToggleSkin
  <2>2. SameScreen(f, g)
    BY <1>1, OnTop, ResumedSame
  <2> HIDE DEF g
  <2> QED BY <1>1, <2>1, <2>2, ReplaceKeepsPath
<1>5. CASE item \notin {"LANGUAGE", "SKIN"}
  <2> DEFINE g == Message(item, current)
  <2>1. Push(f, g) /\ g.id = item
    BY <1>5, OpenedScreen DEF ChooseSetup, Message
  <2> HIDE DEF g
  <2> QED BY <1>1, <1>2, <2>1, OpenedPath
<1> QED BY <1>3, <1>4, <1>5

LEMMA MovePath ==
  ASSUME IInv, IInv', PathInv, NEW k \in ListKeys, Move(k) \/ MoveIcon(k)
  PROVE  PathInv' /\ SameRowStep
<1>1. CASE Move(k)
  <2> DEFINE row == MovedRow(stack[1].sel, Count(stack[1]), k)
             g   == [stack[1] EXCEPT !.sel = row, !.top = Scrolled(row, stack[1].top)]
  <2>1. stack # <<>> /\ Replace(g)
    BY <1>1 DEF Move, Waiting
  <2>2. FrameOK(stack[1])
    BY <2>1, OnTop
  <2> HIDE DEF row
  <2>3. SameScreen(stack[1], g)
    BY <2>2 DEF FrameOK, Frames, SameScreen, SamePlace
  <2> HIDE DEF g
  <2> QED BY <2>1, <2>3, ReplaceKeepsPath
<1>2. CASE MoveIcon(k)
  <2> DEFINE g == [stack[1] EXCEPT !.sel = MovedIcon(@, k)]
  <2>1. stack # <<>> /\ Replace(g)
    BY <1>2 DEF MoveIcon, Waiting
  <2>2. FrameOK(stack[1])
    BY <2>1, OnTop
  <2>3. SameScreen(stack[1], g)
    BY <2>2 DEF FrameOK, Frames, SameScreen, SamePlace
  <2> HIDE DEF g
  <2> QED BY <2>1, <2>3, ReplaceKeepsPath
<1> QED BY <1>1, <1>2

(* Every step keeps the way back, and one that closes a screen goes it.    *)
LEMMA PathInductive == IInv /\ PathInv /\ [Next]_vars => PathInv' /\ SameRowStep
<1> SUFFICES ASSUME IInv, PathInv, [Next]_vars PROVE PathInv' /\ SameRowStep
  OBVIOUS
<1>0. IInv'
  BY Inductive
<1>1. CASE \E k \in ListKeys : Move(k) \/ MoveIcon(k)
  BY <1>0, <1>1, MovePath
<1>2. CASE ChooseIcon
  BY <1>0, <1>2, ChooseIconPath
<1>3. CASE Shortcut \/ ChooseObd
  <2> DEFINE g == Message(CommError, current)
  <2>1. /\ stack # <<>> /\ Push(stack[1], g)
        /\ stack[1].scr = "main" \/ (stack[1].scr = "obd" /\ Count(stack[1]) > 0)
    BY <1>3 DEF Shortcut, ChooseObd, HasChoice, Waiting, NoVehicle
  <2>2. g.scr = "message" /\ g.id = CommError
    BY OpenedScreen DEF Message
  <2> HIDE DEF g
  <2>3. LeadsTo(stack[1], g)
    BY <2>1, <2>2 DEF LeadsTo
  <2> QED BY <1>0, <2>1, <2>3, OpenedPath
<1>4. CASE ChooseVw
  BY <1>0, <1>4, ChooseVwPath
<1>5. CASE ChooseFunction
  BY <1>0, <1>5, ChooseFunctionPath
<1>6. CASE ChooseSetup
  BY <1>0, <1>6, ChooseSetupPath
<1>7. CASE ChooseLanguage
  <2>1. stack # <<>> /\ stack[1].scr = "languages" /\ LanguageIn(current) /\ FrameOK(stack[1])
    <3>1. HasChoice("languages") /\ "languages" \in Lists
      BY <1>7 DEF ChooseLanguage, Lists
    <3> QED BY <3>1, ChosenRow
  <2>2. LanguageIn(current')
    BY <2>1, <1>7, SelectTyped DEF ChooseLanguage, FrameOK, Frames
  <2>3. stack \in Seq(Frames) /\ Tail(stack) # <<>>
    BY <2>1, IInvStack, PoppedOK DEF StackOK
  <2>4. stack[2] = Tail(stack)[1]
    BY <2>3
  <2>5. stack' = <<Resumed(Tail(stack)[1], current')>> \o Tail(Tail(stack))
    BY <1>7, <2>4 DEF ChooseLanguage, Under
  <2> QED BY <2>1, <2>2, <2>5, ResumeKeepsPath
<1>8. CASE Leave \/ Quit
  <2>1. stack' = stack
    BY <1>8 DEF Leave, Quit, Answer
  <2> QED BY <2>1, IInvStack DEF PathInv, Breadcrumbs, HasRows, SameRowStep, StackOK
<1>9. CASE ReturnBack
  <2>1. stack # <<>> /\ stack[1].scr # "main" /\ LanguageIn(current)
    BY <1>9, IInvStack DEF ReturnBack
  <2>2. stack' = <<Resumed(Tail(stack)[1], current)>> \o Tail(Tail(stack))
    BY <1>9 DEF ReturnBack, Under
  <2> QED BY <2>1, <2>2, ResumeKeepsPath
<1>10. CASE ReturnQuit
  <2>1. stack # <<>> /\ stack' = Tail(stack) /\ rc' = "quit"
    BY <1>10 DEF ReturnQuit, Under
  <2>2. Linked(stack') /\ HasRows(stack')
    BY <2>1, IInvStack, PoppedPath DEF PathInv, Breadcrumbs, Linked
  <2> QED BY <2>1, <2>2 DEF PathInv, Breadcrumbs, Linked, HasRows, SameRowStep
<1>11. CASE Exited \/ UNCHANGED vars
  <2>1. stack' = stack
    BY <1>11 DEF Exited, vars
  <2> QED BY <2>1, IInvStack DEF PathInv, Breadcrumbs, HasRows, SameRowStep, StackOK
<1> QED BY <1>1, <1>2, <1>3, <1>4, <1>5, <1>6, <1>7, <1>8, <1>9, <1>10, <1>11 DEF Next

LEMMA PathInitially == Init => PathInv
<1> SUFFICES ASSUME Init PROVE PathInv
  OBVIOUS
<1> DEFINE f == [scr |-> "main", arg |-> 0, id |-> "", title |-> <<NoText, "">>,
                 sel |-> 1, top |-> 0]
<1>1. stack = <<f>>
  BY DEF Init
<1> HIDE DEF f
<1>2. DOMAIN stack = {1} /\ Len(stack) = 1
  BY <1>1
<1> QED BY <1>2 DEF PathInv, Breadcrumbs, HasRows

(* Each open screen is what the row its caller has selected leads to, for  *)
(* every menu and every depth of it (ui.c: the loop of each menu).         *)
THEOREM WayBack == Spec => []Breadcrumbs
<1>1. PathInv => Breadcrumbs
  BY DEF PathInv
<1> QED BY <1>1, Initially, Inductive, PathInitially, PathInductive, PTL DEF Spec

(* A caller that goes on is where it was left, for every menu.             *)
THEOREM GoesOnWhereLeft == Spec => SameRowAgain
<1>1. IInv /\ PathInv /\ [Next]_vars => [SameRowStep]_vars
  BY PathInductive
<1>2. [SameRowStep]_vars =>
        [Len(stack') < Len(stack) /\ rc' = "key" =>
           /\ stack'[1].scr = stack[2].scr
           /\ stack'[1].arg = stack[2].arg
           /\ stack'[1].sel = stack[2].sel]_vars
  BY DEF SameRowStep, SameRow, SamePlace
<1> QED BY <1>1, <1>2, Initially, Inductive, PathInitially, PathInductive, PTL
        DEF Spec, SameRowAgain
-----------------------------------------------------------------------------
(* How many screens are open.  Under a ranked menu each screen has a bound *)
(* on the screens below it: a menu the ranks between the root and itself,  *)
(* a module one more than any menu, a message one more than any module.    *)
(* Nothing is needed of the rows: only of what opens what.                 *)
HeightOK(rank, f, h) ==
  /\ f.scr = "main"                => h <= 0
  /\ f.scr \in {"setup", "obd"}    => h <= 1
  /\ f.scr = "languages"           => h <= 2
  /\ f.scr = "vw"                  => IsNode(0) /\ rank[f.arg] + h <= rank[0] + 1
  /\ f.scr = "module"              => IsNode(0) /\ h <= rank[0] + 2
  /\ f.scr \in {"message", "battery"} => h <= RootRank(rank) + 3

Ranked(rank) == rank \in [DOMAIN MenuNodes -> Nat] /\ Descends(rank)

HeightsOK(rank, s) == \A i \in DOMAIN s : HeightOK(rank, s[i], Len(s) - i)

(* What may open what.                                                     *)
Opens(f, g) ==
  \/ f.scr = "main" /\ g.scr \in {"setup", "obd", "battery"}
  \/ f.scr = "main" /\ g.scr = "vw" /\ g.arg = 0 /\ IsNode(0)
  \/ f.scr = "vw" /\ g.scr = "vw" /\ IsNode(f.arg) /\ IsNode(g.arg) /\ LeadsDown(f.arg, g.arg)
  \/ f.scr = "vw" /\ g.scr = "module"
  \/ f.scr = "setup" /\ g.scr = "languages"
  \/ f.scr \in Callers /\ f.scr # "languages" /\ g.scr = "message"

LEMMA RootRanked ==
  ASSUME NEW rank, Ranked(rank)
  PROVE  RootRank(rank) \in Nat /\ (IsNode(0) => rank[0] \in Nat /\ RootRank(rank) = rank[0])
BY DEF Ranked, RootRank, IsNode

LEMMA OpenedHeight ==
  ASSUME NEW rank, Ranked(rank), NEW f, FrameOK(f), NEW g, Opens(f, g),
         NEW h \in Nat, HeightOK(rank, f, h)
  PROVE  HeightOK(rank, g, h + 1)
<1>0. RootRank(rank) \in Nat /\ (IsNode(0) => rank[0] \in Nat /\ RootRank(rank) = rank[0])
  BY RootRanked
<1>1. CASE f.scr = "main"
  <2>1. h = 0
    BY <1>1 DEF HeightOK
  <2> QED BY <1>0, <1>1, <2>1 DEF Opens, HeightOK
<1>2. CASE f.scr = "vw" /\ g.scr = "vw"
  <2>1. IsNode(f.arg) /\ IsNode(g.arg) /\ LeadsDown(f.arg, g.arg)
    BY <1>2 DEF Opens
  <2>2. rank[g.arg] < rank[f.arg] /\ rank[g.arg] \in Nat /\ rank[f.arg] \in Nat
    BY <2>1 DEF Ranked, Descends, IsNode
  <2>3. IsNode(0) /\ rank[f.arg] + h <= rank[0] + 1
    BY <1>2 DEF HeightOK
  <2>4. rank[g.arg] + (h + 1) <= rank[0] + 1
    BY <1>0, <2>2, <2>3
  <2> QED BY <1>2, <2>3, <2>4 DEF HeightOK
<1>3. CASE f.scr = "vw" /\ g.scr # "vw"
  <2>1. g.scr \in {"module", "message"}
    BY <1>3 DEF Opens
  <2>2. IsNode(0) /\ rank[f.arg] + h <= rank[0] + 1 /\ rank[f.arg] \in Nat
    BY <1>3 DEF HeightOK, FrameOK, DataOK, Ranked, IsNode
  <2>3. h + 1 <= rank[0] + 2
    BY <1>0, <2>2
  <2> QED BY <1>0, <2>1, <2>2, <2>3 DEF HeightOK
<1>4. CASE f.scr \in {"setup", "obd"}
  <2>1. h <= 1 /\ g.scr \in {"languages", "message"}
    BY <1>4 DEF HeightOK, Opens
  <2> QED BY <1>0, <2>1 DEF HeightOK
<1>5. CASE f.scr = "module"
  <2>1. IsNode(0) /\ h <= rank[0] + 2 /\ g.scr = "message"
    BY <1>5 DEF HeightOK, Opens
  <2> QED BY <1>0, <2>1 DEF HeightOK
<1>6. f.scr \in {"main", "vw", "setup", "obd", "module"}
  BY DEF Opens, Callers, Lists
<1> QED BY <1>1, <1>2, <1>3, <1>4, <1>5, <1>6

LEMMA SameHeight ==
  ASSUME NEW rank, NEW f, NEW g, SamePlace(f, g), NEW h, HeightOK(rank, f, h)
  PROVE  HeightOK(rank, g, h)
BY DEF HeightOK, SamePlace

LEMMA PushedHeights ==
  ASSUME NEW rank, Ranked(rank), NEW s, StackOK(s), s # <<>>, HeightsOK(rank, s),
         NEW c \in Frames, SamePlace(s[1], c), NEW f \in Frames, Opens(s[1], f)
  PROVE  HeightsOK(rank, <<f, c>> \o Tail(s))
<1> DEFINE t == <<f, c>> \o Tail(s)
<1>1. s \in Seq(Frames) /\ Len(s) \in Nat /\ Len(s) >= 1 /\ Tail(s) \in Seq(Frames)
  BY DEF StackOK
<1>2. DOMAIN t = 1..(Len(s) + 1) /\ Len(t) = Len(s) + 1 /\ DOMAIN s = 1..Len(s)
  BY <1>1
<1>3. t[1] = f /\ t[2] = c /\ \A i \in 3..Len(t) : t[i] = s[i - 1]
  BY <1>1, <1>2
<1> HIDE DEF t
<1>4. FrameOK(s[1]) /\ HeightOK(rank, s[1], Len(s) - 1) /\ Len(s) - 1 \in Nat
  BY <1>1, <1>2 DEF StackOK, HeightsOK
<1>5. ASSUME NEW i \in DOMAIN t PROVE HeightOK(rank, t[i], Len(t) - i)
  <2>1. CASE i = 1
    <3>1. HeightOK(rank, f, (Len(s) - 1) + 1)
      BY <1>4, OpenedHeight
    <3>2. (Len(s) - 1) + 1 = Len(t) - 1
      BY <1>1, <1>2
    <3> QED BY <1>3, <2>1, <3>1, <3>2
  <2>2. CASE i = 2
    <3>1. Len(t) - 2 = Len(s) - 1
      BY <1>1, <1>2
    <3> QED BY <1>3, <1>4, <2>2, <3>1, SameHeight
  <2>3. CASE i >= 3
    <3>1. /\ i - 1 \in DOMAIN s /\ t[i] = s[i - 1]
          /\ Len(t) - i = Len(s) - (i - 1)
      BY <1>1, <1>2, <1>3, <2>3
    <3>2. HeightOK(rank, s[i - 1], Len(s) - (i - 1))
      BY <3>1 DEF HeightsOK
    <3> QED BY <3>1, <3>2
  <2> QED BY <1>1, <1>2, <2>1, <2>2, <2>3
<1> QED BY <1>5 DEF HeightsOK, t

LEMMA ReplacedHeights ==
  ASSUME NEW rank, NEW s, StackOK(s), s # <<>>, HeightsOK(rank, s),
         NEW f \in Frames, SamePlace(s[1], f)
  PROVE  HeightsOK(rank, <<f>> \o Tail(s))
<1> DEFINE t == <<f>> \o Tail(s)
<1>1. s \in Seq(Frames) /\ Len(s) \in Nat /\ Len(s) >= 1 /\ Tail(s) \in Seq(Frames)
  BY DEF StackOK
<1>2. DOMAIN t = DOMAIN s /\ Len(t) = Len(s) /\ DOMAIN s = 1..Len(s)
  BY <1>1
<1>3. t[1] = f /\ \A i \in 2..Len(t) : t[i] = s[i]
  BY <1>1, <1>2
<1> HIDE DEF t
<1>4. ASSUME NEW i \in DOMAIN t PROVE HeightOK(rank, t[i], Len(t) - i)
  <2>1. HeightOK(rank, s[i], Len(t) - i)
    BY <1>2 DEF HeightsOK
  <2>2. CASE i = 1
    BY <1>3, <2>1, <2>2, SameHeight
  <2>3. CASE i # 1
    BY <1>1, <1>2, <1>3, <2>1, <2>3
  <2> QED BY <2>2, <2>3
<1> QED BY <1>4 DEF HeightsOK, t

LEMMA PoppedHeights ==
  ASSUME NEW rank, NEW s, StackOK(s), s # <<>>, HeightsOK(rank, s)
  PROVE  HeightsOK(rank, Tail(s))
<1> DEFINE t == Tail(s)
<1>1. s \in Seq(Frames) /\ Len(s) \in Nat /\ Len(s) >= 1
  BY DEF StackOK
<1>2. Len(t) = Len(s) - 1 /\ DOMAIN t = 1..(Len(s) - 1) /\ DOMAIN s = 1..Len(s)
  BY <1>1
<1>3. \A i \in DOMAIN t : t[i] = s[i + 1] /\ i + 1 \in DOMAIN s /\ Len(t) - i = Len(s) - (i + 1)
  BY <1>1, <1>2
<1> HIDE DEF t
<1>4. ASSUME NEW i \in DOMAIN t PROVE HeightOK(rank, t[i], Len(t) - i)
  BY <1>3 DEF HeightsOK
<1> QED BY <1>4 DEF HeightsOK, t

LEMMA PushKeepsHeights ==
  ASSUME IInv, IInv', NEW rank, Ranked(rank), HeightsOK(rank, stack), stack # <<>>,
         NEW c, SamePlace(stack[1], c), NEW f, Opens(stack[1], f), Push(c, f)
  PROVE  HeightsOK(rank, stack')
<1>1. StackOK(stack)
  BY IInvStack
<1>2. stack' = <<f, c>> \o Tail(stack)
  BY DEF Push, Under
<1>3. \A i \in DOMAIN stack' : stack'[i] \in Frames
  BY DEF IInv, TypeOK
<1>4. f \in Frames /\ c \in Frames
  <2>1. stack \in Seq(Frames) /\ Tail(stack) \in Seq(Frames)
    BY <1>1 DEF StackOK
  <2> DEFINE S == Frames \cup {f, c}
  <2>2. <<f, c>> \in Seq(S) /\ Tail(stack) \in Seq(S)
    BY <2>1
  <2>3. 1 \in DOMAIN stack' /\ 2 \in DOMAIN stack' /\ stack'[1] = f /\ stack'[2] = c
    BY <1>2, <2>1, <2>2
  <2> QED BY <1>3, <2>3
<1> QED BY <1>1, <1>2, <1>4, PushedHeights

LEMMA ReplaceKeepsHeights ==
  ASSUME IInv, IInv', NEW rank, HeightsOK(rank, stack), stack # <<>>,
         NEW f, SamePlace(stack[1], f), Replace(f)
  PROVE  HeightsOK(rank, stack')
<1>1. StackOK(stack)
  BY IInvStack
<1>2. stack' = <<f>> \o Tail(stack)
  BY DEF Replace, Under
<1>3. \A i \in DOMAIN stack' : stack'[i] \in Frames
  BY DEF IInv, TypeOK
<1>4. f \in Frames
  <2>1. stack \in Seq(Frames) /\ Tail(stack) \in Seq(Frames)
    BY <1>1 DEF StackOK
  <2> DEFINE S == Frames \cup {f}
  <2>2. <<f>> \in Seq(S) /\ Tail(stack) \in Seq(S)
    BY <2>1
  <2>3. 1 \in DOMAIN stack' /\ stack'[1] = f
    BY <1>2, <2>1, <2>2
  <2> QED BY <1>3, <2>3
<1> QED BY <1>1, <1>2, <1>4, ReplacedHeights

LEMMA ResumeKeepsHeights ==
  ASSUME IInv, NEW rank, HeightsOK(rank, stack), stack # <<>>, stack[1].scr # "main",
         NEW cur, LanguageIn(cur),
         stack' = <<Resumed(Tail(stack)[1], cur)>> \o Tail(Tail(stack))
  PROVE  HeightsOK(rank, stack')
<1> DEFINE s == Tail(stack)
           f == Resumed(s[1], cur)
<1>1. StackOK(stack) /\ StackOK(s) /\ s # <<>> /\ s[1].scr \in Callers
  BY IInvStack, PoppedOK
<1>2. FrameOK(s[1])
  <2>1. 1 \in DOMAIN s
    BY <1>1 DEF StackOK
  <2> QED BY <1>1, <2>1 DEF StackOK
<1>3. HeightsOK(rank, s)
  BY <1>1, PoppedHeights
<1>4. FrameOK(f) /\ SamePlace(s[1], f)
  BY <1>1, <1>2, ResumedOK, ResumedSame DEF SameScreen
<1>5. stack' = <<f>> \o Tail(s)
  OBVIOUS
<1> HIDE DEF f, s
<1> QED BY <1>1, <1>3, <1>4, <1>5, ReplacedHeights DEF FrameOK

LEMMA OpenVwHeights ==
  ASSUME IInv, IInv', NEW rank, Ranked(rank), HeightsOK(rank, stack), stack # <<>>,
         stack[1].scr \in Callers, NEW node, OpenVw(stack[1], node),
         IsNode(node) => \A g : g.scr = "vw" /\ g.arg = node => Opens(stack[1], g)
  PROVE  HeightsOK(rank, stack')
<1>1. CASE IsNode(node)
  <2> DEFINE g == OpenList("vw", node, MenuNodes[node].title, current, 0)
  <2>1. Push(stack[1], g) /\ g.scr = "vw" /\ g.arg = node
    BY <1>1, OpenedScreen DEF OpenVw
  <2> HIDE DEF g
  <2>2. Opens(stack[1], g)
    BY <1>1, <2>1
  <2> QED BY <2>1, <2>2, PushKeepsHeights DEF SamePlace
<1>2. CASE ~IsNode(node)
  <2> DEFINE g == Resumed(stack[1], current)
  <2>1. Replace(g)
    BY <1>2 DEF OpenVw
  <2>2. SamePlace(stack[1], g)
    BY OnTop, ResumedSame DEF SameScreen
  <2> HIDE DEF g
  <2> QED BY <2>1, <2>2, ReplaceKeepsHeights
<1> QED BY <1>1, <1>2

LEMMA OpenedHeights ==
  ASSUME IInv, IInv', NEW rank, Ranked(rank), HeightsOK(rank, stack), stack # <<>>,
         NEW f, Opens(stack[1], f), Push(stack[1], f)
  PROVE  HeightsOK(rank, stack')
BY PushKeepsHeights DEF SamePlace

LEMMA MessageHeights ==
  ASSUME IInv, IInv', NEW rank, Ranked(rank), HeightsOK(rank, stack), stack # <<>>,
         stack[1].scr \in Callers, stack[1].scr # "languages",
         NEW c, SamePlace(stack[1], c), NEW id, Push(c, Message(id, current))
  PROVE  HeightsOK(rank, stack')
<1> DEFINE g == Message(id, current)
<1>1. g.scr = "message"
  BY OpenedScreen DEF Message
<1> HIDE DEF g
<1>2. Opens(stack[1], g)
  BY <1>1 DEF Opens
<1> QED BY <1>2, PushKeepsHeights DEF g

LEMMA ChooseIconHeights ==
  ASSUME IInv, IInv', NEW rank, Ranked(rank), HeightsOK(rank, stack), ChooseIcon
  PROVE  HeightsOK(rank, stack')
<1> DEFINE f    == stack[1]
           icon == MainCaptions[f.sel + 1]
<1>1. stack # <<>> /\ f.scr = "main" /\ f.scr \in Callers
  BY DEF ChooseIcon, Waiting, Callers
<1>2. CASE icon = "FOR_VW"
  <2>1. OpenVw(f, 0)
    BY <1>2 DEF ChooseIcon
  <2>2. IsNode(0) => \A g : g.scr = "vw" /\ g.arg = 0 => Opens(f, g)
    BY <1>1 DEF Opens
  <2> QED BY <1>1, <2>1, <2>2, OpenVwHeights
<1>3. CASE icon \in {"OBDII", "BAT_CHECK", "TOOL_SETUP"}
  <2> DEFINE g == CASE icon = "OBDII"     -> OpenList("obd", 0, "OBDII", current, 0)
                    [] icon = "BAT_CHECK" -> Screen("battery", 0, icon, current, 0, 0)
                    [] OTHER              -> OpenList("setup", 0, icon, current, 0)
  <2>1. Push(f, g)
    BY <1>3 DEF ChooseIcon
  <2>2. g.scr \in {"setup", "obd", "battery"}
    BY <1>3, OpenedScreen
  <2> HIDE DEF g
  <2>3. Opens(f, g)
    BY <1>1, <2>2 DEF Opens
  <2> QED BY <1>1, <2>1, <2>3, OpenedHeights
<1>4. CASE icon \notin {"OBDII", "FOR_VW", "BAT_CHECK", "TOOL_SETUP"}
  <2>1. Push(f, Message(CommError, current))
    BY <1>4 DEF ChooseIcon, NoVehicle
  <2> QED BY <1>1, <2>1, MessageHeights DEF SamePlace
<1> QED BY <1>2, <1>3, <1>4

LEMMA ChooseVwHeights ==
  ASSUME IInv, IInv', NEW rank, Ranked(rank), HeightsOK(rank, stack), ChooseVw
  PROVE  HeightsOK(rank, stack')
<1> DEFINE f == stack[1]
           e == menu_entry(f.arg, f.sel)
           m == ModuleOf(e)
<1>1. /\ stack # <<>> /\ f.scr = "vw" /\ f.scr \in Callers /\ FrameOK(f)
      /\ f.sel \in 0..(Count(f) - 1)
  <2>1. HasChoice("vw") /\ "vw" \in Lists
    BY DEF ChooseVw, Lists
  <2> QED BY <2>1, ChosenRow
<1>2. CASE EntryKind(e) = "submenu"
  <2>1. OpenVw(f, e.param)
    BY <1>2 DEF ChooseVw
  <2>2. e.action = 0 /\ e.param # 0
    BY <1>2 DEF EntryKind
  <2>3. IsNode(f.arg) /\ f.sel + 1 \in 1..node_count(f.arg)
    <3>1. node_count(f.arg) = Count(f) /\ IsNode(f.arg)
      BY <1>1 DEF Count, FrameOK, DataOK
    <3>2. Count(f) \in Nat
      BY <1>1, CountTyped DEF FrameOK, Lists
    <3> QED BY <1>1, <3>1, <3>2
  <2>4. LeadsDown(f.arg, e.param)
    BY <2>2, <2>3 DEF LeadsDown, menu_entry
  <2>5. IsNode(e.param) => \A g : g.scr = "vw" /\ g.arg = e.param => Opens(f, g)
    BY <1>1, <2>3, <2>4 DEF Opens
  <2> QED BY <1>1, <2>1, <2>5, OpenVwHeights
<1>3. CASE EntryKind(e) = "module" /\ HasRecord(m)
  <2> DEFINE g == OpenList("module", m, e.caption, current, 0)
  <2>1. Push(f, g)
    BY <1>3 DEF ChooseVw, OpenModule
  <2>2. g.scr = "module"
    BY OpenedScreen
  <2> HIDE DEF g
  <2>3. Opens(f, g)
    BY <1>1, <2>2 DEF Opens
  <2> QED BY <1>1, <2>1, <2>3, OpenedHeights
<1>4. CASE EntryKind(e) = "module" /\ ~HasRecord(m)
  <2>1. Push(f, Message(e.caption, current))
    BY <1>4 DEF ChooseVw, OpenModule
  <2> QED BY <1>1, <2>1, MessageHeights DEF SamePlace
<1>5. CASE EntryKind(e) \notin {"submenu", "module"}
  <2>1. Push(f, Message(CommError, current))
    BY <1>5 DEF ChooseVw, NoVehicle
  <2> QED BY <1>1, <2>1, MessageHeights DEF SamePlace
<1> QED BY <1>2, <1>3, <1>4, <1>5

LEMMA ChooseSetupHeights ==
  ASSUME IInv, IInv', NEW rank, Ranked(rank), HeightsOK(rank, stack), ChooseSetup
  PROVE  HeightsOK(rank, stack')
<1> DEFINE f    == stack[1]
           item == SetupItems[f.sel + 1]
<1>1. stack # <<>> /\ f.scr = "setup" /\ f.scr \in Callers
  BY DEF ChooseSetup, HasChoice, Waiting, Callers, Lists
<1>2. CASE item = "LANGUAGE"
  <2> DEFINE g == OpenList("languages", 0, item, current, current)
  <2>1. Push(f, g) /\ g.scr = "languages"
    BY <1>2, OpenedScreen DEF ChooseSetup
  <2> HIDE DEF g
  <2>2. Opens(f, g)
    BY <1>1, <2>1 DEF Opens
  <2> QED BY <1>1, <2>1, <2>2, OpenedHeights
<1>3. CASE item = "SKIN"
  <2> DEFINE g == Resumed(f, current)
  <2>1. Replace(g)
    BY <1>3 DEF ChooseSetup, ToggleSkin
  <2>2. SamePlace(f, g)
    BY <1>1, OnTop, ResumedSame DEF SameScreen
  <2> HIDE DEF g
  <2> QED BY <1>1, <2>1, <2>2, ReplaceKeepsHeights
<1>4. CASE item \notin {"LANGUAGE", "SKIN"}
  <2>1. Push(f, Message(item, current))
    BY <1>4 DEF ChooseSetup
  <2> QED BY <1>1, <2>1, MessageHeights DEF SamePlace
<1> QED BY <1>2, <1>3, <1>4

LEMMA MoveHeights ==
  ASSUME IInv, IInv', NEW rank, Ranked(rank), HeightsOK(rank, stack),
         NEW k \in ListKeys, Move(k) \/ MoveIcon(k)
  PROVE  HeightsOK(rank, stack')
<1>1. CASE Move(k)
  <2> DEFINE row == MovedRow(stack[1].sel, Count(stack[1]), k)
             g   == [stack[1] EXCEPT !.sel = row, !.top = Scrolled(row, stack[1].top)]
  <2>1. stack # <<>> /\ Replace(g)
    BY <1>1 DEF Move, Waiting
  <2>2. FrameOK(stack[1])
    BY <2>1, OnTop
  <2> HIDE DEF row
  <2>3. SamePlace(stack[1], g)
    BY <2>2 DEF FrameOK, Frames, SamePlace
  <2> HIDE DEF g
  <2> QED BY <2>1, <2>3, ReplaceKeepsHeights
<1>2. CASE MoveIcon(k)
  <2> DEFINE g == [stack[1] EXCEPT !.sel = MovedIcon(@, k)]
  <2>1. stack # <<>> /\ Replace(g)
    BY <1>2 DEF MoveIcon, Waiting
  <2>2. FrameOK(stack[1])
    BY <2>1, OnTop
  <2>3. SamePlace(stack[1], g)
    BY <2>2 DEF FrameOK, Frames, SamePlace
  <2> HIDE DEF g
  <2> QED BY <2>1, <2>3, ReplaceKeepsHeights
<1> QED BY <1>1, <1>2

(* Every step keeps every screen within its height.                        *)
LEMMA HeightsInductive ==
  ASSUME NEW rank, Ranked(rank)
  PROVE  IInv /\ HeightsOK(rank, stack) /\ [Next]_vars => HeightsOK(rank, stack')
<1> SUFFICES ASSUME IInv, HeightsOK(rank, stack), [Next]_vars PROVE HeightsOK(rank, stack')
  OBVIOUS
<1>0. IInv'
  BY Inductive
<1>1. CASE \E k \in ListKeys : Move(k) \/ MoveIcon(k)
  BY <1>0, <1>1, MoveHeights
<1>2. CASE ChooseIcon
  BY <1>0, <1>2, ChooseIconHeights
<1>3. CASE Shortcut \/ ChooseObd
  <2>1. /\ stack # <<>> /\ Push(stack[1], Message(CommError, current))
        /\ stack[1].scr \in Callers /\ stack[1].scr # "languages"
    BY <1>3 DEF Shortcut, ChooseObd, HasChoice, Waiting, NoVehicle, Callers, Lists
  <2> QED BY <1>0, <2>1, MessageHeights DEF SamePlace
<1>4. CASE ChooseVw
  BY <1>0, <1>4, ChooseVwHeights
<1>5. CASE ChooseFunction
  <2> DEFINE f == stack[1]
             c == [f EXCEPT !.title = Text(current, FunctionItems(f.arg)[f.sel + 1])]
  <2>1. stack # <<>> /\ f.scr = "module" /\ FrameOK(f) /\ f.scr \in Callers
    BY <1>5, OnTop DEF ChooseFunction, HasChoice, Waiting, Callers, Lists
  <2>2. SamePlace(f, c)
    BY <2>1 DEF FrameOK, Frames, SamePlace
  <2>3. Push(c, Message(CommError, current))
    BY <1>5 DEF ChooseFunction, NoVehicle
  <2> HIDE DEF c
  <2> QED BY <1>0, <2>1, <2>2, <2>3, MessageHeights
<1>6. CASE ChooseSetup
  BY <1>0, <1>6, ChooseSetupHeights
<1>7. CASE ChooseLanguage
  <2>1. stack # <<>> /\ stack[1].scr = "languages" /\ LanguageIn(current) /\ FrameOK(stack[1])
    <3>1. HasChoice("languages") /\ "languages" \in Lists
      BY <1>7 DEF ChooseLanguage, Lists
    <3> QED BY <3>1, ChosenRow
  <2>2. LanguageIn(current')
    BY <2>1, <1>7, SelectTyped DEF ChooseLanguage, FrameOK, Frames
  <2>3. stack \in Seq(Frames) /\ Tail(stack) # <<>>
    BY <2>1, IInvStack, PoppedOK DEF StackOK
  <2>4. stack[2] = Tail(stack)[1]
    BY <2>3
  <2>5. stack' = <<Resumed(Tail(stack)[1], current')>> \o Tail(Tail(stack))
    BY <1>7, <2>4 DEF ChooseLanguage, Under
  <2> QED BY <2>1, <2>2, <2>5, ResumeKeepsHeights
<1>8. CASE Leave \/ Quit
  <2>1. stack' = stack
    BY <1>8 DEF Leave, Quit, Answer
  <2> QED BY <2>1
<1>9. CASE ReturnBack
  <2>1. stack # <<>> /\ stack[1].scr # "main" /\ LanguageIn(current)
    BY <1>9, IInvStack DEF ReturnBack
  <2>2. stack' = <<Resumed(Tail(stack)[1], current)>> \o Tail(Tail(stack))
    BY <1>9 DEF ReturnBack, Under
  <2> QED BY <2>1, <2>2, ResumeKeepsHeights
<1>10. CASE ReturnQuit
  <2>1. stack # <<>> /\ stack' = Tail(stack)
    BY <1>10 DEF ReturnQuit, Under
  <2> QED BY <2>1, IInvStack, PoppedHeights
<1>11. CASE Exited \/ UNCHANGED vars
  <2>1. stack' = stack
    BY <1>11 DEF Exited, vars
  <2> QED BY <2>1
<1> QED BY <1>1, <1>2, <1>3, <1>4, <1>5, <1>6, <1>7, <1>8, <1>9, <1>10, <1>11 DEF Next

HeightInv == \A rank : Ranked(rank) => HeightsOK(rank, stack)

LEMMA HeightsInitially == Init => HeightInv
<1> SUFFICES ASSUME Init, NEW rank, Ranked(rank) PROVE HeightsOK(rank, stack)
  BY DEF HeightInv
<1> DEFINE f == [scr |-> "main", arg |-> 0, id |-> "", title |-> <<NoText, "">>,
                 sel |-> 1, top |-> 0]
<1>1. stack = <<f>> /\ f.scr = "main"
  BY DEF Init
<1> HIDE DEF f
<1>2. DOMAIN stack = {1} /\ Len(stack) = 1 /\ stack[1].scr = "main"
  BY <1>1
<1> QED BY <1>2 DEF HeightsOK, HeightOK

LEMMA HeightBounds ==
  ASSUME IInv, NEW rank, Ranked(rank), HeightsOK(rank, stack)
  PROVE  Len(stack) <= RootRank(rank) + 4
<1>1. RootRank(rank) \in Nat /\ (IsNode(0) => rank[0] \in Nat /\ RootRank(rank) = rank[0])
  BY RootRanked
<1>2. stack \in Seq(Frames) /\ Len(stack) \in Nat
  BY IInvStack DEF StackOK
<1>3. CASE stack = <<>>
  BY <1>1, <1>3
<1>4. CASE stack # <<>>
  <2>1. HeightOK(rank, stack[1], Len(stack) - 1) /\ FrameOK(stack[1])
    BY <1>2, <1>4, OnTop DEF HeightsOK
  <2>2. stack[1].scr \in Screens
    BY <2>1 DEF FrameOK, Frames
  <2>3. stack[1].scr = "vw" => rank[stack[1].arg] \in Nat
    BY <2>1 DEF FrameOK, DataOK, IsNode, Ranked
  <2> QED BY <1>1, <1>2, <2>1, <2>2, <2>3 DEF HeightOK, Screens, Lists
<1> QED BY <1>3, <1>4

(* The calls of ui_vw_menu, and with them the C stack, are bounded by the  *)
(* ranks of the menu, for every menu that has ranks and every use of it.   *)
THEOREM MenusEnd == Spec => []StackBounded
<1>1. IInv /\ HeightInv /\ [Next]_vars => HeightInv'
  BY HeightsInductive DEF HeightInv
<1>2. IInv /\ HeightInv => StackBounded
  <2> SUFFICES ASSUME IInv, HeightInv,
                      NEW rank \in [DOMAIN MenuNodes -> 0..Cardinality(DOMAIN MenuNodes)],
                      Descends(rank)
               PROVE  Len(stack) <= RootRank(rank) + 4
    BY DEF StackBounded
  <2>1. Cardinality(DOMAIN MenuNodes) \in Nat
    BY MenuAssumption, FS_CardinalityType
  <2>2. 0..Cardinality(DOMAIN MenuNodes) \subseteq Nat
    BY <2>1
  <2>3. Ranked(rank)
    BY <2>2 DEF Ranked
  <2> QED BY <2>3, HeightBounds DEF HeightInv
<1> QED BY <1>1, <1>2, Initially, Inductive, HeightsInitially, PTL DEF Spec
=============================================================================
