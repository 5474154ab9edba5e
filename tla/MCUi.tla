-------------------------------- MODULE MCUi --------------------------------
(***************************************************************************)
(* A small image for the screens: four string tables of which three fit,   *)
(* the second in English; a menu of three nodes of which one has entries   *)
(* of every kind.                                                          *)
(***************************************************************************)
EXTENDS Ui

MCCaptions == {"ROOT", "SPECIAL", "EMPTY", "LT3", "ENGINE", "SRS", "GATEWAY", "EPB",
               "SCAN", "VERSION", "READ_DTC", "BASIC"}
MCIds == MCCaptions \cup BuiltIn

File(kind, number, ids) == [kind |-> kind, number |-> number, ids |-> ids]

MCStringFiles ==
  << File("table", 1, {"TOOL_SETUP", "ROOT", "LANGUAGE"}),
     File("other", 3, {}),
     File("table", 3, MCIds \ {"SRS"}),
     File("table", 4, MCIds \ {"SRS"}),
     File("table", 5, {}),
     File("broken", 0, {}),
     File("table", 3, {}) >>

Entry(caption, action, param) ==
  [caption |-> caption, action |-> action, param |-> param]

SpFunc == 1000000

MCMenuNodes ==
  [n \in {0, 48, 148} |->
     CASE n = 0  -> [title   |-> "ROOT",
                     entries |-> << Entry("SPECIAL", 0, 48),
                                    Entry("LT3", 0, 96),
                                    Entry("EMPTY", 0, 148) >>]
       [] n = 48 -> [title   |-> "SPECIAL",
                     entries |-> << Entry("ENGINE", 1, 0),
                                    Entry("SRS", 33048, 0),
                                    Entry("GATEWAY", 25, 0),
                                    Entry("EPB", SpFunc, 148),
                                    Entry("SCAN", 6655, 0),
                                    Entry("VERSION", 0, 0) >>]
       [] n = 148 -> [title |-> "EMPTY", entries |-> << >>]]

MCSpFuncs     == {SpFunc}
MCScans       == {6655}
MCModuleNames == {"ENGINE", "SRS", "GATEWAY"}
MCFuncRecords ==
  [m \in {1, 24} |-> IF m = 1 THEN <<"VERSION", "READ_DTC", "BASIC">> ELSE <<"READ_DTC">>]

(* The same built in screens when the image has none of the files.         *)
NoFiles   == << >>
NoNodes   == [n \in {} |-> << >>]
=============================================================================
