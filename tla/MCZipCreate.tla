------------------------------ MODULE MCZipCreate ------------------------------
(***************************************************************************)
(* Bounds for the creation of ZIP archives: files without data, with one   *)
(* and with two chunks, and folders, in volumes that end within or between *)
(* their parts.                                                            *)
(***************************************************************************)
EXTENDS ZipCreateProperties

MCInputs == {<<2>>, <<0, 1>>, <<1, Folder>>, <<Folder, 2>>, <<Folder, 1, 0>>}
MCVolumeSizes == {0, 3, 4, 5, 6, 8, 11}
MCOrigins == {{}, {Output}, {0, 1}}
MCStrangers == {Output, 1}
================================================================================
