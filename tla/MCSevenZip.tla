------------------------------- MODULE MCSevenZip -------------------------------
(***************************************************************************)
(* Bounds for the sessions over 7z: tasks, threads that call cancel(), and  *)
(* an archive of one file.                                                 *)
(***************************************************************************)
EXTENDS SevenZipProperties, TLC

MCOneFile == {<<1>>}
OpSymmetry == Permutations(Ops)
=================================================================================
