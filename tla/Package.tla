------------------------------- MODULE Package -------------------------------
(***************************************************************************)
(* The files of an unzipped update package (package.c).  A tree has the    *)
(* paths of its directories and of its files, and the names in the order   *)
(* readdir gives them; a path is the sequence of its names.                *)
(***************************************************************************)
EXTENDS Sequences, SequencesExt

has_bin(t, dir) == dir \o <<"bin">> \in t.dirs

(* Only the first directory with a bin/ counts.                            *)
find_child_with_bin(t, path) ==
  LET k == SelectInSeq(t.names, LAMBDA n : path \o <<n>> \in t.dirs /\ has_bin(t, path \o <<n>>))
  IN  IF k = 0 THEN <<>> ELSE <<path \o <<t.names[k]>>>>

obd_package_open(t, path) ==
  CASE path \notin t.dirs -> <<>>
    [] has_bin(t, path)   -> <<path>>
    [] OTHER              -> find_child_with_bin(t, path)

first_existing(t, root, names) ==
  LET k == SelectInSeq(names, LAMBDA n : root \o n \in t.files)
  IN  IF k = 0 THEN <<>> ELSE <<root \o names[k]>>

(* Mutant: the images of the two hardware lines are mixed up.              *)
obd_package_mcu_Mixed(t, root, dm100) ==
  first_existing(t, root, << <<"bin", "McuCode.bin">>, <<"bin", "DM300", "McuCode.bin">> >>)
obd_package_mcu(t, root, dm100) ==
  first_existing(t, root, << <<"bin", IF dm100 THEN "DM100" ELSE "DM300", "McuCode.bin">>,
                             <<"bin", "McuCode.bin">> >>)
obd_package_erase(t, root) ==
  first_existing(t, root, << <<"bin", "DM300", "Erase.bin">>, <<"bin", "Erase.bin">> >>)
obd_package_ext(t, root) == first_existing(t, root, << <<"bin", "ExtFlashDat.bin">> >>)
=============================================================================
