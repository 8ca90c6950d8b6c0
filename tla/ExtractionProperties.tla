------------------------- MODULE ExtractionProperties -------------------------
(***************************************************************************)
(* What holds of the destination while extractors of the C++ core work on  *)
(* it side by side, are cancelled, fail or die.                            *)
(***************************************************************************)
EXTENDS Extraction

Nodes == {Absent, Directory, Link, OldFile}
         \cup [kind : {"file"}, from : Extractors, entry : Nat, chunks : Nat]

\* Every variable keeps its type, and no extractor leaves its archive or the
\* directories its entry requires.
TypeOK ==
    /\ tree \in [Paths -> Nodes]
    /\ origin \in Trees
    /\ archive \in [Extractors -> Archives]
    /\ policy \in [Extractors -> Policies]
    /\ pc \in [Extractors -> Points]
    /\ index \in [Extractors -> Nat]
    /\ \A x \in Extractors : index[x] \in DOMAIN archive[x]
    /\ depth \in [Extractors -> Nat]
    /\ \A x \in Extractors : pc[x] \in Running => depth[x] <= Len(Required(x))
    /\ temp \in [Extractors -> Nat \cup {NoTemp}]
    /\ orphans \in SUBSET (Paths \cup {Root})
    /\ runs \in [Extractors -> 0 .. MaxRuns]
    /\ result \in [Extractors -> {"none", "ok", "error"}]

\* What was in the destination before stays there, and stays what it was,
\* while nobody extracts with the replace policy: a file an extractor leaves
\* alone is not touched by what it does later for another entry, nor by a
\* second extractor that meets half of the first one's work.
OldFilesSurvive ==
    (\A x \in Extractors : policy[x] # "replace")
        => \A p \in Paths : origin[p] # Absent => tree[p] = origin[p]

\* An extractor has a temporary file exactly while it fills or publishes one:
\* whatever ends the call, cancellation and failed rename included, removes
\* it.  Only the death of the process leaves one behind.
NoStrayTemp == \A x \in Extractors : temp[x] # NoTemp <=> pc[x] \in WithTemp

\* When all extractors report success, no file any of them was asked for is
\* missing, although each removes what is in the way before it renames.
AllOkMeansPresent ==
    (\A x \in Extractors : pc[x] = "done" /\ result[x] = "ok")
        => \A x \in Extractors : \A i \in DOMAIN archive[x] :
              archive[x][i].kind = "file" => tree[archive[x][i].path] # Absent

\* Data is only ever written into real directories below the destination: the
\* directory of a temporary file is one from the moment the chain of
\* directories was checked until the file is published, and a link that
\* somebody has put into the destination is not followed.
WritesStayInside ==
    \A x \in Extractors : temp[x] # NoTemp => IsDirectory(Parent(Output(x)))

\* Seen from outside the files appear whole and the tree stays a tree.
Destination == INSTANCE DestinationTree WITH
    Whole <- {File(x, i, Size) : x \in Extractors,
                                 i \in UNION {DOMAIN a : a \in Archives}}
ShowsOnlyWholeFiles == Destination!Spec

===============================================================================
