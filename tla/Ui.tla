--------------------------------- MODULE Ui ---------------------------------
(***************************************************************************)
(* The screens of the application (firmware/core/ui.c, app_main).  Every   *)
(* screen is a call that waits for keys, so the state between two keys is  *)
(* the stack of open screens.  ui_list and the loop around it are one      *)
(* screen; a message is the screen of ui_message and of no_vehicle.        *)
(*   stack   : open screens, the one that reads the keys first             *)
(*   rc      : "key" while it waits, "back" (-1) and "quit" (-2) while     *)
(*             a call returns                                              *)
(*   skin    : ui_skin                                                     *)
(*   current : the language in use (Strings)                               *)
(***************************************************************************)
EXTENDS Strings, Menu

CONSTANT Rows     (* list rows on the display                              *)

(* The strings of the built in screens; "" is the icon grid, that has none.*)
BuiltIn ==
  {"", "OBDII", "FOR_VW", "OIL_RESET", "EPB_RESET", "BAT_CHECK", "BMS_RESET",
   "ETC_RESET", "TOOL_SETUP", "LANGUAGE", "BEEPER", "UNIT", "SKIN", "DEVICE_INFO",
   "COMMUNICATION_ERROR"}

ASSUME UiAssumption ==
  /\ Rows \in Nat \ {0}
  /\ BuiltIn \subseteq Ids /\ Captions \subseteq Ids

VARIABLES stack, rc, skin

vars == <<stack, rc, skin, current>>

MainCaptions  == <<"OBDII", "FOR_VW", "OIL_RESET", "EPB_RESET", "BAT_CHECK",
                   "BMS_RESET", "ETC_RESET", "TOOL_SETUP">>
obd_count     == 5
SetupItems    == <<"LANGUAGE", "BEEPER", "UNIT", "SKIN", "DEVICE_INFO">>
CommError     == "COMMUNICATION_ERROR"

Lists   == {"vw", "module", "obd", "setup", "languages"}
Screens == Lists \cup {"main", "message", "battery"}

(* A screen: what it shows (arg: menu node or module address), the string  *)
(* of its title, the title as fetched, the selected row and the first row  *)
(* displayed.                                                              *)
Screen(kind, arg, id, lang, sel, top) ==
  [scr |-> kind, arg |-> arg, id |-> id, title |-> Text(lang, id), sel |-> sel, top |-> top]

Count(f) ==
  CASE f.scr = "vw"        -> node_count(f.arg)
    [] f.scr = "module"    -> Len(FunctionItems(f.arg))
    [] f.scr = "obd"       -> obd_count
    [] f.scr = "setup"     -> Len(SetupItems)
    [] f.scr = "languages" -> table_count

(* Mutant: the list scrolls down only.                                     *)
Scrolled_DownOnly(sel, top) == IF sel >= top + Rows THEN sel - Rows + 1 ELSE top

(* The first row displayed, so that the selected one is.                   *)
Scrolled(sel, top) ==
  LET up == IF sel < top THEN sel ELSE top
  IN  IF sel >= up + Rows THEN sel - Rows + 1 ELSE up

Started(start, count) == IF start < count THEN start ELSE 0

(* Mutant: every list starts over at its first row.                        *)
Listed_FromTheTop(f, start) == [f EXCEPT !.sel = 0, !.top = Scrolled(0, 0)]

(* A list entered anew at a row.                                           *)
Listed(f, start) ==
  LET sel == Started(start, Count(f))
  IN  [f EXCEPT !.sel = sel, !.top = Scrolled(sel, 0)]

OpenList(kind, arg, id, lang, start) ==
  Listed(Screen(kind, arg, id, lang, 0, 0), start)

Message(id, lang) == Screen("message", 0, id, lang, 0, 0)
NoVehicle(lang)   == Message(CommError, lang)

(* Mutant: the row's language stays selected.                              *)
LangItemText_Leaves(cur, i) == str_select(cur, i)

(* Drawing the list of languages writes each in its own: every row selects *)
(* its language and then the one before it again, so that the last row     *)
(* drawn decides what stays selected.                                      *)
LangItemText(cur, i) == str_select(str_select(cur, i), cur)
LastDrawn(f)        == IF f.top + Rows <= Count(f) THEN f.top + Rows - 1 ELSE Count(f) - 1
AfterDrawing(f, cur) ==
  IF f.scr = "languages" /\ f.top < Count(f) THEN LangItemText(cur, LastDrawn(f)) ELSE cur

(* Mutant: the title is fetched once, when the screen is opened.           *)
Retitled_Never(f, lang) == f

(* The screen that called the one on top goes on: lists are entered again  *)
(* at the chosen row, and the two that put another title on the display or *)
(* may have changed the language fetch theirs again.                       *)
Retitled(f, lang) == [f EXCEPT !.title = Text(lang, f.id)]
Resumed(f, lang) ==
  IF f.scr = "main" THEN f
  ELSE LET g == Listed(f, f.sel)
       IN  IF f.scr \in {"setup", "module"} THEN Retitled(g, lang) ELSE g
-----------------------------------------------------------------------------
(* Steps of the screen on top.                                             *)
Waiting(kind) == rc = "key" /\ stack # <<>> /\ stack[1].scr = kind
Under         == Tail(stack)

Push(caller, f) ==
  /\ stack' = <<f, caller>> \o Under
  /\ current' = AfterDrawing(f, current)
  /\ UNCHANGED <<rc, skin>>

Replace(f) ==
  /\ stack' = <<f>> \o Under
  /\ current' = AfterDrawing(f, current)
  /\ UNCHANGED rc

Answer(value) ==
  /\ rc' = value
  /\ UNCHANGED <<stack, skin, current>>

ListKeys == {"up", "down", "left", "right"}

MovedRow(sel, count, k) ==
  CASE k = "up"    -> IF count > 0 THEN (sel + count - 1) % count ELSE sel
    [] k = "down"  -> IF count > 0 THEN (sel + 1) % count ELSE sel
    [] k = "left"  -> IF sel >= Rows THEN sel - Rows ELSE 0
    [] k = "right" -> IF sel + Rows < count THEN sel + Rows
                      ELSE IF count > 0 THEN count - 1 ELSE 0

Move(k) ==
  \E kind \in Lists :
    /\ Waiting(kind)
    /\ LET f   == stack[1]
           row == MovedRow(f.sel, Count(f), k)
       IN  Replace([f EXCEPT !.sel = row, !.top = Scrolled(row, f.top)])
    /\ UNCHANGED skin

MovedIcon(sel, k) ==
  CASE k = "left"  -> (sel + 7) % 8
    [] k = "right" -> (sel + 1) % 8
    [] k = "up"    -> IF sel >= 3 THEN sel - 3 ELSE sel
    [] k = "down"  -> IF sel + 3 < 8 THEN sel + 3 ELSE sel

MoveIcon(k) ==
  /\ Waiting("main")
  /\ Replace([stack[1] EXCEPT !.sel = MovedIcon(@, k)])
  /\ UNCHANGED skin

(* OK on the icon grid; the root of the menu file may not be there.        *)
OpenVw(caller, node) ==
  IF IsNode(node)
  THEN Push(caller, OpenList("vw", node, MenuNodes[node].title, current, 0))
  ELSE Replace(Resumed(caller, current)) /\ UNCHANGED skin

ChooseIcon ==
  /\ Waiting("main")
  /\ LET f    == stack[1]
         icon == MainCaptions[f.sel + 1]
     IN  CASE icon = "OBDII"      -> Push(f, OpenList("obd", 0, "OBDII", current, 0))
           [] icon = "FOR_VW"     -> OpenVw(f, 0)
           [] icon = "BAT_CHECK"  -> Push(f, Screen("battery", 0, icon, current, 0, 0))
           [] icon = "TOOL_SETUP" -> Push(f, OpenList("setup", 0, icon, current, 0))
           [] OTHER               -> Push(f, NoVehicle(current))

(* The I/M and DTC keys.                                                   *)
Shortcut == Waiting("main") /\ Push(stack[1], NoVehicle(current))

HasChoice(kind) == Waiting(kind) /\ Count(stack[1]) > 0

(* Mutant: nobody asks whether the module has a record.                    *)
OpenModule_Any(caller, m, caption) ==
  Push(caller, Screen("module", m, caption, current, 0, 0))

OpenModule(caller, m, caption) ==
  IF HasRecord(m)
  THEN Push(caller, OpenList("module", m, caption, current, 0))
  ELSE Push(caller, Message(caption, current))

ChooseVw ==
  /\ HasChoice("vw")
  /\ LET f == stack[1]
         e == menu_entry(f.arg, f.sel)
     IN  CASE EntryKind(e) = "submenu" -> OpenVw(f, e.param)
           [] EntryKind(e) = "module"  -> OpenModule(f, ModuleOf(e), e.caption)
           [] OTHER                    -> Push(f, NoVehicle(current))

(* The title buffer holds the function's caption while it runs.            *)
ChooseFunction ==
  /\ HasChoice("module")
  /\ LET f == stack[1]
     IN  Push([f EXCEPT !.title = Text(current, FunctionItems(f.arg)[f.sel + 1])],
              NoVehicle(current))

ChooseObd == HasChoice("obd") /\ Push(stack[1], NoVehicle(current))

ToggleSkin ==
  /\ skin' = IF skin = "gray" THEN "blue" ELSE "gray"
  /\ Replace(Resumed(stack[1], current))

ChooseSetup ==
  /\ HasChoice("setup")
  /\ LET f    == stack[1]
         item == SetupItems[f.sel + 1]
     IN  CASE item = "LANGUAGE" -> Push(f, OpenList("languages", 0, item, current, current))
           [] item = "SKIN"     -> ToggleSkin
           [] OTHER             -> Push(f, Message(item, current))

(* The chosen language is in use before setup fetches its title.           *)
ChooseLanguage ==
  /\ HasChoice("languages")
  /\ current' = str_select(current, stack[1].sel)
  /\ stack' = <<Resumed(stack[2], current')>> \o Tail(Under)
  /\ UNCHANGED <<rc, skin>>

Leave ==
  \/ \E kind \in Lists : Waiting(kind) /\ Answer("back")
  \/ \E kind \in {"message", "battery"} : Waiting(kind) /\ Answer("back")

Quit == rc = "key" /\ stack # <<>> /\ Answer("quit")

(* The screen on top has answered -1 and its caller goes on.               *)
ReturnBack ==
  /\ rc = "back"
  /\ rc' = "key"
  /\ stack' = <<Resumed(Under[1], current)>> \o Tail(Under)
  /\ UNCHANGED <<skin, current>>

(* Mutant: setup does not ask how the screen it called was left.           *)
ReturnQuit_NotSetup ==
  /\ rc = "quit"
  /\ stack # <<>>
  /\ UNCHANGED <<skin, current>>
  /\ IF Under # <<>> /\ Under[1].scr = "setup"
     THEN rc' = "key" /\ stack' = <<Resumed(Under[1], current)>> \o Tail(Under)
     ELSE rc' = "quit" /\ stack' = Under

(* It has answered -2 and so does every caller.                            *)
ReturnQuit ==
  /\ rc = "quit"
  /\ stack # <<>>
  /\ stack' = Under
  /\ UNCHANGED <<rc, skin, current>>

(* ui_main_menu has returned and so has app_main.                          *)
Exited == stack = <<>> /\ UNCHANGED vars
-----------------------------------------------------------------------------
Init ==
  /\ stack = <<[scr |-> "main", arg |-> 0, id |-> "", title |-> <<NoText, "">>,
                sel |-> 1, top |-> 0]>>
  /\ rc = "key"
  /\ skin = "gray"
  /\ str_init

Next ==
  \/ \E k \in ListKeys : Move(k) \/ MoveIcon(k)
  \/ ChooseIcon \/ Shortcut
  \/ ChooseVw \/ ChooseFunction \/ ChooseObd \/ ChooseSetup \/ ChooseLanguage
  \/ Leave \/ Quit \/ ReturnBack \/ ReturnQuit \/ Exited

Spec == Init /\ [][Next]_vars

(* Returning needs no key.                                                 *)
FairSpec == Spec /\ WF_vars(ReturnBack \/ ReturnQuit)
-----------------------------------------------------------------------------
Frames == [scr : Screens, arg : Nat, id : Ids,
           title : (NoText..(table_count - 1)) \X Ids, sel : Int, top : Int]

(* Types of the state: there is a language in use when there are tables, a *)
(* menu or module screen has its data in the image, and the icon grid is   *)
(* at the bottom and nowhere else.                                         *)
LanguageOK == current \in IF table_count = 0 THEN {-1} ELSE 0..(table_count - 1)
DataOK(f) ==
  /\ f.scr = "vw"     => IsNode(f.arg)
  /\ f.scr = "module" => HasRecord(f.arg)
TypeOK ==
  /\ LanguageOK
  /\ rc \in {"key", "back", "quit"}
  /\ skin \in {"gray", "blue"}
  /\ stack \in Seq(Frames)
  /\ \A i \in DOMAIN stack : DataOK(stack[i]) /\ (stack[i].scr = "main" <=> i = Len(stack))

(* The selected row exists, is displayed and, when there are rows, no list *)
(* begins before its first: what OK chooses is what the cursor shows.      *)
CursorOK(f) ==
  /\ f.scr \in Lists =>
       /\ f.top <= f.sel /\ f.sel < f.top + Rows
       /\ Count(f) > 0 => f.top >= 0 /\ f.sel < Count(f)
  /\ f.scr = "main" => f.sel \in 0..7
CursorShown == \A i \in DOMAIN stack : CursorOK(stack[i])

(* Whatever waits for a key shows its title in the language in use, also   *)
(* after the language was changed two screens further up and after a       *)
(* function's caption had been put in the same buffer.                     *)
TitlesCurrent ==
  rc = "key" /\ stack # <<>> /\ stack[1].scr # "main" =>
    stack[1].title = Text(current, stack[1].id)

(* Each open screen is what the row its caller still has selected leads    *)
(* to, so that going back is always to the entry one came from.            *)
LeadsTo(f, g) ==
  CASE f.scr = "main" ->
         \/ g.scr = "message"
         \/ f.sel = 0 /\ g.scr = "obd"
         \/ f.sel = 1 /\ g.scr = "vw" /\ g.arg = 0
         \/ f.sel = 4 /\ g.scr = "battery"
         \/ f.sel = 7 /\ g.scr = "setup"
    [] f.scr = "vw" ->
         LET e == menu_entry(f.arg, f.sel)
         IN  \/ e.action = 0 /\ e.param # 0 /\ g.scr = "vw" /\ g.arg = e.param
             \/ e.caption \in ModuleNames /\ g.id = e.caption
             \/ (e.action # 0 \/ e.param = 0) /\ g.id = CommError
    [] f.scr \in {"module", "obd"} -> g.id = CommError
    [] f.scr = "setup"             -> g.id = SetupItems[f.sel + 1]
    [] OTHER                       -> FALSE
Breadcrumbs ==
  \A i \in 1..(Len(stack) - 1) : LeadsTo(stack[i + 1], stack[i])

(* Each open menu is another call of ui_vw_menu.  A menu file in which     *)
(* every submenu is ranked below the menu that leads to it opens no more   *)
(* of them than the ranks allow, under a module and a message at most; one *)
(* with a cycle has no such rank, and no bound.                            *)
LeadsDown(n, m) ==
  \E i \in 1..node_count(n) :
    LET e == MenuNodes[n].entries[i] IN e.action = 0 /\ e.param # 0 /\ e.param = m
Descends(rank)  == \A n, m \in DOMAIN MenuNodes : LeadsDown(n, m) => rank[m] < rank[n]
RootRank(rank)  == IF IsNode(0) THEN rank[0] ELSE 0
StackBounded ==
  \A rank \in [DOMAIN MenuNodes -> 0..Cardinality(DOMAIN MenuNodes)] :
    Descends(rank) => Len(stack) <= RootRank(rank) + 4

(* The language in use changes only when a row of the list of languages is *)
(* chosen, and then to that row: drawing that list, which selects each     *)
(* language in turn, and moving in it leave the language alone.            *)
LanguageByChoice ==
  [][current' # current =>
       /\ Waiting("languages")
       /\ stack' # <<>> /\ stack'[1].scr = "setup"
       /\ current' = stack[1].sel]_vars

(* A caller that goes on is where it was left: the same screen at the row  *)
(* that was chosen.                                                        *)
SameRowAgain ==
  [][Len(stack') < Len(stack) /\ rc' = "key" =>
       /\ stack'[1].scr = stack[2].scr
       /\ stack'[1].arg = stack[2].arg
       /\ stack'[1].sel = stack[2].sel]_vars

(* Quitting on any screen ends the program: each call between it and       *)
(* app_main returns.                                                       *)
QuitEnds == rc = "quit" ~> stack = <<>>
=============================================================================
