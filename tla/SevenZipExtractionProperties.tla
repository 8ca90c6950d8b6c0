---------------------- MODULE SevenZipExtractionProperties ----------------------
(***************************************************************************)
(* What holds of the destination, and of what a call reports, while        *)
(* extractions of the 7z backend work beside each other, are cancelled or  *)
(* fail.                                                                   *)
(***************************************************************************)
EXTENDS SevenZipExtraction

Indexes == UNION {DOMAIN a : a \in Archives}
Nodes == {Absent, Directory, Link, OldFile}
         \cup {File(x, i, data) : x \in Extractors, i \in Indexes, data \in Contents}

Published == {p \in Paths : tree[p].kind = "file" /\ tree[p] # OldFile}

\* Every variable keeps its type; plans are in the order of the archive, and
\* no extractor decodes or commits beyond them.
TypeOK ==
    /\ tree \in [Paths -> Nodes]
    /\ archive \in [Extractors -> Archives]
    /\ policy \in [Extractors -> Policies]
    /\ pc \in [Extractors -> Points]
    /\ missing \in [Extractors -> Nat]
    /\ verdict \in [Extractors -> {"ok", "io", "corrupt", "abort"}]
    /\ result \in [Extractors -> Results]
    /\ DOMAIN index = Extractors /\ DOMAIN at = Extractors
    /\ DOMAIN plan = Extractors /\ DOMAIN temp = Extractors
    /\ \A x \in Extractors :
          /\ index[x] \in DOMAIN archive[x]
          /\ pc[x] = "create" => missing[x] \in 1 .. Len(Required(x))
          /\ plan[x] \in Seq(DOMAIN archive[x])
          /\ \A j, k \in DOMAIN plan[x] : j < k => plan[x][j] < plan[x][k]
          /\ temp[x] \in [DOMAIN archive[x] -> Contents]
          /\ pc[x] \in Decoding \cup Committing => at[x] \in DOMAIN plan[x]

\* Whatever ends an extraction, all of its temporary files are gone, those of
\* plans it never came to included, and there is none while it still plans.
NoTempLeft ==
    \A x \in Extractors :
       pc[x] \in {"idle", "done"} \cup Planning => temp[x] = NoTemps(x)

\* Nothing in the destination is lost: what is there stays what it was, unless
\* it is a file and an extractor with the replace policy puts its own there.
\* Two extractors that have both found a path empty do not overwrite each
\* other, since every commit looks again and the move refuses.
NothingLost ==
    [][\A p \in Paths :
          \/ tree[p] = Absent
          \/ tree'[p] = tree[p]
          \/ /\ tree[p].kind = "file"
             /\ \E x \in Extractors : policy[x] = "replace" /\ tree'[p].from = x]_vars

\* Of several entries with one path only one ever shows: the last one under the
\* replace policy, the first one under the others.
Same(x, i) == {j \in DOMAIN archive[x] :
                  archive[x][j].kind = "file" /\ PathOf(x, j) = PathOf(x, i)}
PublishesWinner ==
    \A p \in Published :
        LET x == tree[p].from
        IN \A j \in Same(x, tree[p].entry) :
              IF policy[x] = "replace" THEN j <= tree[p].entry ELSE j >= tree[p].entry

\* An extraction that succeeds has left no path of its files empty.
OkMeansPresent ==
    \A x \in Extractors : result[x] = "ok"
        => \A i \in DOMAIN archive[x] : tree[PathOf(x, i)] # Absent

\* Data that does not match its checksum is only committed when somebody has
\* cancelled: an abort that comes between the last write of the entry and the
\* end of ExtractCallback::process replaces the failure that was found or would
\* have been, and the verification only knows sizes.
DamagedOnlyAfterAbort ==
    \A p \in Published : tree[p].data = "damaged" => verdict[tree[p].from] = "abort"

\* A call is told that the archive is corrupt, or that a file it extracted is
\* missing, only if an entry is damaged or somebody cancelled: the decoding of
\* a sound archive leaves nothing out.
UnverifiedHasCause ==
    \A x \in Extractors : result[x] \in {"corrupt", "missing"}
        => \/ verdict[x] = "abort"
           \/ \E i \in DOMAIN archive[x] : ~archive[x][i].sound

\* An extraction that is found to be incomplete or damaged has committed none
\* of its files: everything is verified before anything is committed.
UnverifiedCommitsNothing ==
    \A x \in Extractors : result[x] \in {"corrupt", "missing"}
        => \A p \in Published : tree[p].from # x

\* Seen from outside the files appear with their full size and the tree stays
\* a tree.
Destination == INSTANCE DestinationTree WITH
    Whole <- {File(x, i, data) : x \in Extractors, i \in Indexes,
                                 data \in {"whole", "damaged"}}
ShowsOnlyWholeFiles == Destination!Spec

================================================================================
