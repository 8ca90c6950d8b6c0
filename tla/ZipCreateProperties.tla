-------------------------- MODULE ZipCreateProperties --------------------------
(***************************************************************************)
(* What must hold of the files a ZIP creation leaves behind, and of what   *)
(* it reports.                                                             *)
(***************************************************************************)
EXTENDS ZipCreate

Cell == Nat \X Nat

StreamOK(s) ==
    /\ DOMAIN s = {"disk", "number", "used", "at", "files", "opened", "reopened", "lost"}
    /\ s.disk \in Names /\ s.number \in Names
    /\ s.used \in Nat /\ s.at \in Nat
    /\ DOMAIN s.files \subseteq Names
    /\ \A n \in DOMAIN s.files : s.files[n] \in Seq(Cell)
    /\ s.opened \subseteq Names /\ s.reopened \subseteq s.opened
    /\ s.lost \in BOOLEAN

\* Every variable keeps its type, and the entry stays within the inputs and
\* within its chunks.
TypeOK ==
    /\ inputs \in Inputs /\ volumeSize \in VolumeSizes /\ path \in Paths
    /\ origin \in SUBSET Names /\ ignored \subseteq {"check", "cleanup"}
    /\ StreamOK(stream)
    /\ pc \in {"check", "open", "entry", "header", "chunk", "poll", "end", "close",
               "finish", "done"}
    /\ index \in DOMAIN inputs /\ field \in 0 .. HeaderCells
    /\ chunk \in Nat /\ (pc \in {"chunk", "poll"} => chunk < inputs[index])
    /\ header \in Seq([disk : Names, offset : Nat])
    /\ Len(header) \in {index - 1, index}
    /\ pc \in {"header", "chunk", "poll", "end"} => Len(header) = index
    /\ failed \in BOOLEAN /\ refused \in BOOLEAN /\ cancelled \in BOOLEAN
    /\ unheard \in BOOLEAN
    /\ result \in {"none", "ok", "exists", "unopened", "cancelled", "error"}

\* What was there when the call came is there unchanged at any time after: an
\* archive at the output, a volume of another archive of that name when this
\* one is split, and also when it is not and is cancelled.  A split archive
\* needs a directory that can be listed and whose volumes can be told by it.
Looked == volumeSize = 0 \/ (path # "hidden" /\ "check" \notin ignored)
OldFilesKept == \A n \in origin : n \in DOMAIN stream.files /\ stream.files[n] = <<Other>>
OldFilesSurvive == Looked => OldFilesKept

\* A creation that was cancelled or has failed leaves none of the files it has
\* opened, those included that the closing of the archive still opens, unless
\* a file cannot be removed or the volumes are not beside the output.
NothingLeft ==
    result \in {"cancelled", "error"} => stream.opened \cap DOMAIN stream.files = {}
FailedLeavesNothing ==
    (volumeSize = 0 \/ path # "hidden") /\ "cleanup" \notin ignored => NothingLeft

\* mz_stream_split_read takes what is at a place, and at the end of a volume it
\* goes on to the next, if there is one.
There(place) == /\ Name(place.disk) \in DOMAIN stream.files
                /\ place.offset < Len(stream.files[Name(place.disk)])
CellAt(place) == stream.files[Name(place.disk)][place.offset + 1]
AtEnd(place) == /\ volumeSize > 0 /\ Name(place.disk) \in DOMAIN stream.files
                /\ place.offset = Len(stream.files[Name(place.disk)])
Onto(place) == IF AtEnd(place) THEN [disk |-> place.disk + 1, offset |-> 0] ELSE place
After(place) == [place EXCEPT !.offset = @ + 1]

\* Where a reader is who has taken so many cells of an entry.
Reader(i) ==
    LET at[k \in 0 .. Len(Cells(i))] == IF k = 0 THEN header[i] ELSE After(Onto(at[k - 1]))
    IN at

Complete ==
    \A i \in DOMAIN inputs : \A k \in DOMAIN Cells(i) :
        LET place == Onto(Reader(i)[k - 1])
        IN There(place) /\ CellAt(place) = Cells(i)[k]

\* A split archive that was created with success has each of its entries where
\* the central directory says.  The checksum of a directory is written after
\* its header: when that needs another volume, or the header began at the end
\* of one, volumes are opened again, which empties them.
SplitArchiveIsComplete ==
    result = "ok" /\ path # "bare" /\ ~stream.lost => Complete

\* When each volume was opened once and no error of a write was passed over,
\* every entry is where the central directory says, across any number of
\* volumes and wherever the entry begins, and the central directory is written.
Ended == LET file == stream.files[Output] IN file # <<>> /\ Last(file) = Directory
LossHasCause ==
    result = "ok" /\ stream.reopened = {} /\ ~stream.lost => Complete /\ Ended

\* No volume is larger than was asked for, and none is left out, as long as
\* each is opened once and nothing has failed: rewriting a checksum counts
\* twice, which may close a volume early but never late.
VolumesWithinSize ==
    volumeSize > 0 /\ stream.reopened = {} /\ ~stream.lost /\ ~failed
        => \A n \in stream.opened \cap DOMAIN stream.files \cap Volumes :
              /\ Len(stream.files[n]) <= volumeSize
              /\ 0 .. n \subseteq stream.opened

\* A cancellation is only lost when the last chunk has been reported: inputs
\* without data are not followed by a progress call.
LateCancelOnlyIsLost == result = "ok" /\ cancelled => ~unheard

================================================================================
