-------------------------------- MODULE VolumeSet --------------------------------
(***************************************************************************)
(* SevenZipVolumeResolver: which files make up a 7z archive, when it was   *)
(* opened by one or some of its volumes.                                   *)
(*                                                                         *)
(* A URL is a record of the set it belongs to (directory and name without  *)
(* the number, in lower case), its number, which is 0 when it is not the   *)
(* name of a volume, and a variant that tells names apart which belong to  *)
(* the same set and have the same number (.001 and .0001, .7z and .7Z).    *)
(***************************************************************************)
EXTENDS Integers, Sequences, FiniteSets, SequencesExt

IsPart(url) == url.number > 0

\* partsByIndex, and whether a second URL was met for an index.
NoParts == [byIndex |-> <<>>, duplicate |-> FALSE]
Indexes(parts) == DOMAIN parts.byIndex

ClashesNever(parts, url) == FALSE
Clashes(parts, url) ==
    url.number \in Indexes(parts) /\ parts.byIndex[url.number] # url

\* add(): a URL of the selected set, unless there is another with its number.
Added(parts, url, selected) ==
    IF ~IsPart(url) \/ url.set # selected.set THEN parts
    ELSE IF Clashes(parts, url) THEN [parts EXCEPT !.duplicate = TRUE]
    ELSE [parts EXCEPT !.byIndex =
             [n \in Indexes(parts) \cup {url.number} |-> IF n = url.number THEN url ELSE @[n]]]

AddedAll(urls, selected) ==
    LET parts[n \in 0 .. Len(urls)] ==
            IF n = 0 THEN NoParts ELSE Added(parts[n - 1], urls[n], selected)
    IN parts[Len(urls)]

Found(urls, error) == [urls |-> urls, error |-> error]

FromOne(numbers) == numbers = 1 .. Cardinality(numbers)

\* resolve(); siblings is what the directory lists, in its order, and is empty
\* when it cannot be read.  Numbers that begin with 1 and have no gaps make the
\* URLs a sequence.
Resolve(candidates, siblings) ==
    LET first == SelectInSeq(candidates, IsPart)
        parts == AddedAll(candidates \o siblings, candidates[first])
    IN IF candidates = <<>> THEN Found(<<>>, "invalidArgument")
       ELSE IF first = 0 THEN Found(<<Head(candidates)>>, "none")
       ELSE IF parts.duplicate \/ ~FromOne(Indexes(parts))
       THEN Found(<<>>, "missingVolume")
       ELSE Found(parts.byIndex, "none")

================================================================================
