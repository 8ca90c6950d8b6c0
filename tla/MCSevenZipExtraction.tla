-------------------------- MODULE MCSevenZipExtraction --------------------------
(***************************************************************************)
(* Two extractors in one destination.  The archives have a damaged entry,  *)
(* the same path twice, a directory with a file in it, and a file where    *)
(* another archive, or the same one, needs a directory.                    *)
(***************************************************************************)
EXTENDS SevenZipExtractionProperties, TLC

A == <<"a">>
AB == <<"a", "b">>
C == <<"c">>
MCPaths == {A, AB, C}

FileEntry(p) == [path |-> p, kind |-> "file", sound |-> TRUE]
DamagedEntry(p) == [path |-> p, kind |-> "file", sound |-> FALSE]
DirectoryEntry(p) == [path |-> p, kind |-> "directory", sound |-> TRUE]

MCArchives == {
    <<FileEntry(A)>>,
    <<FileEntry(C), FileEntry(AB)>>,
    <<DirectoryEntry(A), FileEntry(AB), FileEntry(AB)>>,
    <<FileEntry(A), DamagedEntry(AB)>>,
    <<FileEntry(A), DamagedEntry(A)>>}

Tree(a, b) == [p \in MCPaths |-> CASE p = A -> a [] p = AB -> b [] p = C -> Absent]
MCTrees == {
    Tree(Absent, Absent), Tree(OldFile, Absent), Tree(Link, Absent),
    Tree(Directory, Absent), Tree(Directory, OldFile), Tree(Directory, Link)}

ExtractorSymmetry == Permutations(Extractors)
================================================================================
