----------------------------- MODULE MCExtraction -----------------------------
(***************************************************************************)
(* Two extractors in a destination with a directory and a file in it.  The *)
(* archives have a file that is where another archive has a directory, the *)
(* same path twice, and a directory entry with a file below it.            *)
(***************************************************************************)
EXTENDS ExtractionProperties, TLC

A == <<"a">>
AB == <<"a", "b">>
MCPaths == {A, AB}

FileEntry(p) == [path |-> p, kind |-> "file"]
DirectoryEntry(p) == [path |-> p, kind |-> "directory"]

MCArchives == {
    <<FileEntry(A)>>,
    <<DirectoryEntry(A), FileEntry(AB)>>,
    <<FileEntry(AB), FileEntry(AB)>>}

Tree(a, b) == [p \in MCPaths |-> IF p = A THEN a ELSE b]
MCTrees == {
    Tree(Absent, Absent), Tree(OldFile, Absent), Tree(Link, Absent),
    Tree(Directory, Absent), Tree(Directory, OldFile), Tree(Directory, Link)}

ExtractorSymmetry == Permutations(Extractors)
===============================================================================
