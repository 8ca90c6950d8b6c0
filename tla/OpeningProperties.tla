--------------------------- MODULE OpeningProperties ---------------------------
(***************************************************************************)
(* What must hold of an archive that was opened, and of what is read of it *)
(* under the limits.                                                       *)
(***************************************************************************)
EXTENDS LimitedReading

Errors == {"invalidArgument", "openFailed", "missingVolume", "unsupported", "corrupt", "io",
           "password", "unsafePath", "unsafeLink", "resourceLimit"}

\* An entry as list_tar makes it knows the place of its data, too.
ListedEntry == Entry \cup [path : PathNames, kind : Kinds, size : Word, packed : Word, at : Word]
Tar == [at : 0 .. file.size, zeros : 0 .. 2, path : PathNames, size : Word \cup {NoSize},
        end : BOOLEAN]

\* Every variable keeps its type.  The packed size of the entry of a GZIP file
\* is computed by subtraction, and a footer that overlaps the header would make
\* it wrap around.
TypeOK ==
    /\ file \in Files /\ limits \in Limits
    /\ request \in {"auto"} \cup Formats /\ reports \in BOOLEAN
    /\ pc \in {"open", "list", "done"}
    /\ result \in {"none", "ok"} \cup Errors
    /\ outcome \in {"running", "none"} \cup Errors
    /\ format \in Formats \cup {"auto", "iso"}
    /\ backend \in {"core", "libarchive", "sevenZip"}
    /\ pc = "list" => plan # <<>>
    /\ tar \in Tar
    /\ entries \in Seq(ListedEntry)
    /\ result = "ok" /\ format = "gzip" /\ backend = "core"
         => \A e \in ToSet(entries) : e.packed \in 0 .. file.size
    /\ index \in Nat /\ completed \in Word /\ base \in Word
    /\ reading \in {"no", "yes", "ok", "cancelled"} \cup Errors

\* The sums of the first sizes.
Totals(sizes) ==
    LET totals[n \in 0 .. Len(sizes)] == IF n = 0 THEN 0 ELSE totals[n - 1] + sizes[n]
    IN totals
Total(sizes) == Totals(sizes)[Len(sizes)]
SizesOf(es) == [i \in DOMAIN es |-> es[i].size]

Allowed(es) ==
    /\ Len(es) <= limits.count
    /\ Total(SizesOf(es)) <= limits.total
    /\ \A e \in ToSet(es) :
          /\ e.size <= limits.entry
          /\ e.kind \in {"file", "directory"} /\ e.path \notin Unsafe
          /\ ~TooDense(limits, e.size, e.packed)

\* What was handed over up to the i-th entry, without the entries before it that
\* declare no size.
Limited(i) == [j \in 1 .. i |-> IF j < i /\ entries[j].size = 0 THEN 0 ELSE handed[j]]

\* An archive is only opened when it is within the limits, as sums and ratios of
\* whole numbers and not of words, and has files and directories with safe paths
\* only.  What extraction hands over of one entry stays within its limit whatever
\* the entry declares, and together with what the entries before it were allowed
\* by their declared sizes within the total.
WithinLimits ==
    /\ result = "ok" => Allowed(entries)
    /\ \A i \in DOMAIN handed : /\ handed[i] <= limits.entry
                                /\ i <= index => Total(Limited(i)) <= limits.total

\* All that is handed over of an archive stays within the limit for its total
\* size.  The entries of a stream that libarchive lists without a size count 0
\* once they are over.
TotalIsLimited == Total(handed) <= limits.total

Own == IF format = "gzip" /\ backend = "core"
       THEN <<GzipEntry(file.size, file.gzip)>> ELSE file.listed

AsWhatItIs ==
    \/ format = file.kind /\ entries = Own
    \/ format = file.kind /\ format = "tar" /\ backend = "core"
    \/ format = "zip" /\ entries = file.inner
    \/ format = "tar" /\ entries = <<>> /\ file.zeros

\* A file is opened as what it is, with the entries that one lister has found
\* and none that an earlier attempt left behind.  The exceptions: a ZIP archive
\* at the end of a file of another format without a known signature, which
\* counts as data before a ZIP archive, and a file that begins with two blocks
\* of zeros, which is listed as a TAR archive without entries.
OpenedAsWhatItIs == result = "ok" => AsWhatItIs

\* The number that the digits of a field are written for.
Exact(field) ==
    LET value[n \in 0 .. Len(field.digits)] ==
            IF n = 0 THEN 0 ELSE value[n - 1] * field.radix + field.digits[n]
    IN value[Len(field.digits)]

EntryBlocks == {k \in DOMAIN headers : headers[k].block.type \notin Metadata}

\* The metadata between the k-th header and the entry before it.
Before(k) == {j \in 1 .. k - 1 : j .. k - 1 \cap EntryBlocks = {}}

GivesPath(b) == b.type = "longName" \/ (b.type = "pax" /\ b.path # Absent)
GivesSize(b) == b.type = "pax" /\ b.given # NoSize
PathGivers(k) == {j \in Before(k) : GivesPath(headers[j].block)}
SizeGivers(k) == {j \in Before(k) : GivesSize(headers[j].block)}

GivenPath(k) == IF PathGivers(k) = {} THEN Absent ELSE headers[Max(PathGivers(k))].block.path
GivenSize(k) == IF SizeGivers(k) = {} THEN NoSize ELSE headers[Max(SizeGivers(k))].block.given
DataSize(k) == IF GivenSize(k) = NoSize THEN Exact(headers[k].block.size) ELSE GivenSize(k)

\* The entry that the k-th header is for.
Written(k) ==
    LET b == headers[k].block
        path == GivenPath(k)
        size == IF b.type = "directory" THEN 0 ELSE DataSize(k)
    IN [path |-> IF path = Absent THEN b.name ELSE path, kind |-> b.type,
        size |-> size, packed |-> size, at |-> headers[k].at + BlockSize]

\* The headers so far have become the entries, and their data ends before the
\* next header, or before the end.
EntriesUpTo(end) ==
    /\ Len(entries) = Cardinality(EntryBlocks)
    /\ \A k \in EntryBlocks :
          LET next == IF k = Len(headers) THEN end ELSE headers[k + 1].at
          IN /\ entries[Cardinality(EntryBlocks \cap 1 .. k)] = Written(k)
             /\ headers[k].at + BlockSize + DataSize(k) <= next

\* The entries of a TAR archive are its headers in their order, each with the
\* path and size that the metadata just before it gave last, across blocks of
\* zeros and global headers, and with nothing that was meant for another entry.
\* Sizes are those that were written, beyond the range of a word, too; the data
\* lies within the file and before the next header.
TarAsWritten ==
    result = "ok" /\ format = "tar" /\ backend = "core" => EntriesUpTo(file.size)

Selected == file.urls[SelectInSeq(file.urls, IsPart)]
Known == {u \in ToSet(file.urls \o file.siblings) : IsPart(u) /\ u.set = Selected.set}

\* A 7z archive that is opened by some of its volumes is made of all that are
\* known, each once and in order from the first, and it is the same archive
\* whichever of the volumes is opened; two files with one number are never
\* chosen from.
VolumeSetWhole ==
    backend = "sevenZip" /\ (\E u \in ToSet(file.urls) : IsPart(u)) =>
        /\ ToSet(volumes) = Known /\ Len(volumes) = Cardinality(Known)
        /\ \A n \in DOMAIN volumes : volumes[n].number = n
        /\ \A u \in Known : Known \subseteq ToSet(file.siblings)
                               => Resolve(<<u>>, file.siblings).urls = volumes

================================================================================
