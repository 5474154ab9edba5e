------------------------------- MODULE Commands -------------------------------
(***************************************************************************)
(* The two programs that are run from a command line: the tool mode of the *)
(* firmware (app_tool in firmware/core/app.c) and openphix-tool (module    *)
(* HostTool).  They share nothing; program is the one that runs.  One      *)
(* command of the tool mode evaluates a record of Exp.BIN, looks an id up  *)
(* in an indexed table, or reads one of the databases; before that it opens*)
(* the files ("init").  These share no state here; what belongs to those   *)
(* not asked for stays as it is.                                           *)
(***************************************************************************)
EXTENDS ExpMeaning, Table, Databases, Container, HostTool

CONSTANTS
  TableFiles,   (* the tables looked into                                  *)
  Ids,          (* the ids looked for                                      *)
  NoFlash       (* of Flashes, when the files are not what it is about     *)

VARIABLE tool

toolvars == <<tool, evars, tvars, dvars, cvars>>

NoExp   == asked = 0 /\ NothingRead(<<>>) /\ report = NoReport
NoTable == StartSearch([count |-> 0, size |-> 4, cells |-> <<>>], 0)
NoData  == content = <<>> /\ NotScanned(<<>>) /\ asks = NoQuestion /\ says = <<>>
NoFiles == flash = NoFlash /\ ContainerStarts

ToolInit ==
  \/ tool = "init" /\ ContainerInit /\ NoExp /\ NoTable /\ NoData
  \/ tool = "exp"  /\ ExpInit /\ NoTable /\ NoData /\ NoFiles
  \/ tool = "find" /\ (\E t \in TableFiles, id \in Ids : StartSearch(t, id)) /\ NoExp /\ NoData /\ NoFiles
  \/ tool = "data" /\ DataInit /\ NoExp /\ NoTable /\ NoFiles

app_tool ==
  \/ tool = "init" /\ container  /\ UNCHANGED <<tool, evars, tvars, dvars>>
  \/ tool = "exp"  /\ tool_exp   /\ UNCHANGED <<tool, tvars, dvars, cvars>>
  \/ tool = "find" /\ table_find /\ UNCHANGED <<tool, evars, dvars, cvars>>
  \/ tool = "data" /\ Ask        /\ UNCHANGED <<tool, evars, tvars, cvars>>

ToolSpec == ToolInit /\ [][app_tool]_toolvars

-----------------------------------------------------------------------------
VARIABLE program

allvars == <<program, toolvars, hvars>>

NoHost ==
  cli = <<>> /\ tree = <<>> /\ devices = <<>> /\ raw = <<>> /\ HostStarts

NoTool == tool = "none" /\ NoExp /\ NoTable /\ NoData /\ NoFiles

CommandsInit ==
  \/ program = "firmware" /\ ToolInit /\ NoHost
  \/ program = "openphix-tool" /\ HostInit /\ NoTool

RunProgram ==
  \/ program = "firmware" /\ app_tool /\ UNCHANGED <<program, hvars>>
  \/ program = "openphix-tool" /\ host_tool /\ UNCHANGED <<program, toolvars>>

CommandsSpec == CommandsInit /\ [][RunProgram]_allvars
=============================================================================
