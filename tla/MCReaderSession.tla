---------------------------- MODULE MCReaderSession ----------------------------
(***************************************************************************)
(* Two tasks share a reader; the archives have an entry without data (a    *)
(* directory or an empty file) and an entry of several chunks.             *)
(***************************************************************************)
EXTENDS ReaderSessionProperties, TLC

MCArchives == {<<2>>, <<0, 1>>}
MCShortArchives == {<<0, 1>>}
OpSymmetry == Permutations(Ops)
===============================================================================
