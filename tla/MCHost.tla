-------------------------------- MODULE MCHost --------------------------------
(***************************************************************************)
(* The instance of HostTool for TLC: every command with what it looks at.  *)
(***************************************************************************)
EXTENDS HostTool, TLC

(* The two lines, and something else that is plugged in.                   *)
Line100 == <<1155, 100>>
Line300 == <<1155, 300>>
Mouse   == <<1133, 7>>
MCKnown     == {Line100, Line300}
MCSimulated == ("dm100" :> Line100) @@ ("dm300" :> Line300)

Plugged(id)  == [id |-> id, endpoints |-> Endpoints]
Halved(id)   == [id |-> id, endpoints |-> {"bulk in", "bulk out"}]
MCDevices ==
  { <<>>, <<Plugged(Mouse)>>, <<Halved(Line100)>>, <<Plugged(Mouse), Plugged(Line100)>>,
    <<Plugged(Line300), Plugged(Line100)>> }
OneDevice == <<Plugged(Line100)>>

NoPackage == [dirs |-> {}, files |-> {}, names |-> <<>>]
Cli(cmd, flags) ==
  [options |-> "fine", cmd |-> cmd, simulate |-> "", ids |-> <<>>, dir |-> <<"here">>, flags |-> flags]
HostRun(c) == [cli |-> c, tree |-> NoPackage, devices |-> OneDevice, raw |-> <<>>]

(* Packages in any of three directories, with any of the images.           *)
Images5 == { <<"bin", "DM100", "McuCode.bin">>, <<"bin", "DM300", "McuCode.bin">>,
             <<"bin", "McuCode.bin">>, <<"bin", "ExtFlashDat.bin">>, <<"bin", "DM300", "Erase.bin">> }
Tops    == {{<<>>}, {<<"a">>}, {<<"a">>, <<"b">>}, {}}
MCTrees3 ==
  {[dirs  |-> {<<"here">>} \cup {<<"here">> \o t : t \in {<<"a">>, <<"b">>}}
               \cup {<<"here">> \o t \o <<"bin">> : t \in tops},
    files |-> {<<"here">> \o t \o f : t \in tops, f \in fs}
              \cup {<<"here", "b", "bin", "Erase.bin">> : t \in tops \cap {<<"b">>}},
    names |-> names] :
     tops \in Tops, fs \in SUBSET Images5, names \in {<<"a", "b">>, <<"b", "a">>}}

UpdateFlags == {{"-y"}, {"-y", "--data-only"}, {"--mcu-only"}, {"-y", "--data-only", "--mcu-only"}}

(* Blocks of 16 bytes, with texts anywhere in them and behind them.        *)
D(off, len) == <<off * 3 + len, off, len>>
Block(magic, key, dtcs) == [magic |-> magic, key |-> key, dtcs |-> dtcs]
MCBlocks ==
  {Block(FALSE, 1, <<>>), Block(TRUE, 1, <<>>), Block(TRUE, 2, <<D(0, 1), D(15, 2)>>)}
  \cup {Block(TRUE, 1, <<D(o, l)>>) : o \in {0, 9, 15, 16, 40}, l \in {0, 1, 5, 16, 17, 18}}
MCRaw ==
  {<<b>> : b \in MCBlocks} \cup {<<b, c, Block(TRUE, k, <<D(3, 4)>>)>> :
     b \in MCBlocks, c \in {Block(FALSE, 0, <<>>), Block(TRUE, 2, <<D(8, 9)>>)}, k \in {0, 2}}

MCHostRuns ==
  {HostRun([Cli("info", {}) EXCEPT !.options = o]) : o \in {"help", "wrong"}}
  \cup {HostRun(Cli(c, f)) : c \in {"feedback"}, f \in {{}}}
  \cup {HostRun(Cli("read-flash", f)) : f \in SUBSET {"-o", "-l", "bad"}}
  \cup {HostRun(Cli(c, f)) : c \in {"decrypt", "encrypt"}, f \in SUBSET {"bad"}}
  \cup {[HostRun([Cli(c, {}) EXCEPT !.ids = ids, !.simulate = s]) EXCEPT !.devices = d] :
          c \in {"list", "info"}, ids \in {<<>>, <<Line100>>, <<Mouse>>}, s \in {"", "dm300", "dm1"},
          d \in MCDevices}
  \cup {[HostRun([Cli("update", f) EXCEPT !.simulate = s]) EXCEPT !.tree = t] :
          f \in UpdateFlags, s \in {"dm100", "dm300"}, t \in MCTrees3}
  \cup {[HostRun([Cli(c, {}) EXCEPT !.dir = dir]) EXCEPT !.tree = t] :
          c \in {"package", "update"}, dir \in {<<"here", "a">>, <<"there">>},
          t \in {u \in MCTrees3 : Cardinality(u.files) < 2}}
  \cup {[HostRun([Cli("dtc-review", f) EXCEPT !.simulate = "dm100"]) EXCEPT !.raw = r] :
          f \in {{}, {"-o"}}, r \in MCRaw}
=============================================================================
