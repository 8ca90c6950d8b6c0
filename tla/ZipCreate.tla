------------------------------- MODULE ZipCreate -------------------------------
(***************************************************************************)
(* swiftarchive_zip_create: inputs are appended to a ZIP archive one after *)
(* the other, chunk by chunk, with a progress call after each chunk, and   *)
(* the archive may be split into volumes.  minizip-ng writes through its   *)
(* split stream, which opens a volume whenever it goes to one, and opening *)
(* for writing empties the file.  What is written waits in a buffer, and   *)
(* when a volume is closed nobody looks whether the rest could be written. *)
(*                                                                         *)
(* A file is a sequence of cells.  The cells of an entry are those of its  *)
(* local header, one per chunk of data, and its data descriptor; a         *)
(* directory has a header only, and its checksum field is written again    *)
(* when the entry is closed.                                               *)
(*                                                                         *)
(* A definition that directly precedes the one it varies is a plausible    *)
(* mistake and not part of the specification.                              *)
(***************************************************************************)
EXTENDS Integers, Sequences, SequencesExt

CONSTANTS
    Inputs,         \* sequences of inputs, each the number of its chunks, or Folder
    Folder,
    VolumeSizes,    \* SAZipCreateOptions::volume_size in cells, 0: do not split
    Origins,        \* sets of names that may be in use before the call
    Strangers       \* names that somebody else may use during the call

Output == -1        \* the path given, where the central directory goes
Volumes == Nat      \* .z01, .z02 and so on, without end
Names == {Output} \cup Volumes

ASSUME InputsAssumption == Inputs \subseteq Seq(Nat \cup {Folder}) \ {<<>>}
ASSUME FolderAssumption == Folder \notin Nat
\* The magic number of the first volume leaves room in it.
ASSUME SizesAssumption == VolumeSizes \subseteq Nat \ {1}
ASSUME OriginsAssumption == Origins \subseteq SUBSET Names
ASSUME StrangersAssumption == Strangers \subseteq Names

VARIABLES
    inputs,
    volumeSize,
    path,           \* where the dot of the output path is, see Paths
    origin,         \* names in use before the call
    ignored,        \* errors of the directory that are passed over (history)
    stream,         \* mz_stream_split_s and the files it writes to
    pc,
    index,          \* the input that is written
    field,          \* how many cells of its local header are
    chunk,          \* how many chunks of it are
    header,         \* disk_number and disk_offset of each entry
    failed,         \* result # MZ_OK
    refused,        \* callback_cancelled
    cancelled,      \* ProgressContextForZip.isCancelled
    unheard,        \* a progress call was still to come by then (history)
    result

arguments == <<inputs, volumeSize, path, origin>>
position == <<index, field, chunk, header>>
vars == <<arguments, ignored, stream, pc, position, failed, refused, cancelled, unheard, result>>

--------------------------------------------------------------------------------
(* What is written *)

Magic == <<0, 0>>
Hole == <<0, 1>>
Directory == <<0, 2>>       \* the central directory
Other == <<0, 3>>           \* what somebody else has written

HeaderCells == 4            \* the signature takes two of them
Checksum == 2               \* cells of the header before the checksum
Data(i, j) == <<i, HeaderCells + j>>
Descriptor(i) == Data(i, inputs[i] + 1)
Cells(i) ==
    [k \in 1 .. HeaderCells + (IF inputs[i] = Folder THEN 0 ELSE inputs[i] + 1) |-> <<i, k>>]
MorePolls == \E i \in index .. Len(inputs) :
                /\ inputs[i] \notin {0, Folder}
                /\ i = index => chunk < inputs[i]

--------------------------------------------------------------------------------
(* mz_stream_split *)

\* The name of a volume ends at the last dot of the whole path.  It is plain
\* when that dot begins the extension of the output, and hidden when it begins
\* its name or is in the name of a directory above, where the volumes go then.
\* Without any dot all the volumes have the name of the output.
Paths == {"plain", "hidden", "bare"}
Name(disk) == IF volumeSize = 0 \/ path = "bare" THEN Output ELSE disk

\* mz_stream_split_open_disk; the stream below truncates.
MagicNotCounted == 0
MagicCounted == 1

With(files, n, content) ==
    [m \in DOMAIN files \cup {n} |-> IF m = n THEN content ELSE files[m]]

OpenDisk(s, disk) ==
    LET magic == volumeSize > 0 /\ disk = 0
    IN [s EXCEPT !.disk = disk,
                 !.number = disk,
                 !.used = IF magic THEN MagicCounted ELSE 0,
                 !.at = IF magic THEN 1 ELSE 0,
                 !.files = With(@, Name(disk), IF magic THEN <<Magic>> ELSE <<>>),
                 !.opened = @ \cup {Name(disk)},
                 !.reopened = IF Name(disk) \in s.opened THEN @ \cup {Name(disk)} ELSE @]

GotoDisk(s, disk) == IF volumeSize = 0 \/ disk = s.disk THEN s ELSE OpenDisk(s, disk)

\* A write that starts beyond the end leaves a hole.
Overwritten(file, at, cell) ==
    [k \in 1 .. (IF at < Len(file) THEN Len(file) ELSE at + 1) |->
        IF k = at + 1 THEN cell ELSE IF k <= Len(file) THEN file[k] ELSE Hole]

Full(s) == s.used = volumeSize

\* mz_stream_split_write goes on to the next volume when it comes to write and
\* the volume is full, and to the output for the central directory.
Ready(s) ==
    IF volumeSize > 0 /\ s.number = Output THEN GotoDisk(s, Output)
    ELSE IF volumeSize > 0 /\ Full(s) THEN GotoDisk(s, s.disk + 1)
    ELSE s

Put(s, cell) ==
    LET t == Ready(s)
    IN [t EXCEPT !.files[Name(t.disk)] = Overwritten(@, t.at, cell),
                 !.at = @ + 1,
                 !.used = @ + 1]

\* A write that fails may have opened the volume.
PutFails(s) == {s, Ready(s)}

\* mz_stream_buffered_close: what the buffer still holds is not written when
\* that fails, and the volume counts as closed.
Shortened(s, length) ==
    [s EXCEPT !.files[Name(s.disk)] = SubSeq(@, 1, length), !.lost = TRUE]
Closings(s) == {s} \cup {Shortened(s, k) : k \in 0 .. Len(s.files[Name(s.disk)]) - 1}

\* The next write closes the volume when it goes on to another one.
Puts(s, cell) ==
    {Put(t, cell) : t \in IF Ready(s) = s THEN {s} ELSE Closings(s)}

\* mz_stream_split_seek after MZ_STREAM_PROP_DISK_NUMBER was set.
Seek(s, disk, offset) == [GotoDisk(s, disk) EXCEPT !.number = disk, !.at = offset]

Closed(files) ==
    [disk |-> Output, number |-> Output, used |-> 0, at |-> 0,
     files |-> files, opened |-> {}, reopened |-> {}, lost |-> FALSE]

Init ==
    /\ inputs \in Inputs
    /\ volumeSize \in VolumeSizes
    /\ path \in Paths
    /\ origin \in Origins
    /\ ignored = {}
    /\ stream = Closed([n \in origin |-> <<Other>>])
    /\ pc = "check"
    /\ index = 1
    /\ field = 0
    /\ chunk = 0
    /\ header = <<>>
    /\ failed = FALSE
    /\ refused = FALSE
    /\ cancelled = FALSE
    /\ unheard = FALSE
    /\ result = "none"

--------------------------------------------------------------------------------
(* swiftarchive_zip_create *)

Return(r) ==
    /\ pc' = "done"
    /\ result' = r
    /\ UNCHANGED <<arguments, position, failed, refused, cancelled, unheard>>

\* zip_split_volumes: files beside the output with its stem.
Found == IF volumeSize = 0 \/ path = "hidden" THEN {} ELSE DOMAIN stream.files \cap Volumes

\* Is there something at the output, or a volume of an archive of that name?
OccupiedOutputOnly(found) == Output \in DOMAIN stream.files
Occupied(found) == Output \in DOMAIN stream.files \/ found # {}

\* A directory that cannot be listed has no volumes.  The inputs are collected,
\* too; neither leaves anything behind.
Check ==
    /\ pc = "check"
    /\ \E found \in {Found, {}} :
          /\ ignored' = IF found = Found THEN {} ELSE {"check"}
          /\ \/ Occupied(found) /\ Return("exists")
             \/ ~Occupied(found) /\ Return("error")
             \/ /\ ~Occupied(found)
                /\ pc' = "open"
                /\ UNCHANGED <<arguments, position, failed, refused, cancelled,
                               unheard, result>>
    /\ UNCHANGED stream

\* mz_zip_writer_open_file; nothing is removed when it fails, the first volume
\* neither, which is there when its magic number could not be written.
Open ==
    /\ pc = "open"
    /\ \/ /\ Return("unopened")
          /\ stream' \in {stream, OpenDisk(stream, 0)}
       \/ /\ stream' = OpenDisk(stream, 0)
          /\ pc' = "entry"
          /\ UNCHANGED <<arguments, position, failed, refused, cancelled, unheard, result>>
    /\ UNCHANGED ignored

\* mz_zip_entry_write_open notes where the stream is, not where it will write.
NotedAsCounted == [disk |-> stream.number, offset |-> stream.used]
Noted == [disk |-> stream.number, offset |-> stream.at]

EntryOpen ==
    /\ pc = "entry"
    /\ \/ /\ header' = Append(header, Noted)
          /\ field' = 0
          /\ pc' = "header"
          /\ UNCHANGED failed
       \/ /\ failed' = TRUE
          /\ pc' = "close"
          /\ UNCHANGED <<header, field>>
    /\ UNCHANGED <<arguments, ignored, stream, index, chunk, refused, cancelled, unheard, result>>

\* mz_zip_entry_write_header, one write after the other.
WriteHeader ==
    /\ pc = "header"
    /\ \/ /\ stream' \in Puts(stream, <<index, field + 1>>)
          /\ field' = field + 1
          /\ pc' = IF field + 1 < HeaderCells THEN "header"
                   ELSE IF inputs[index] \in {0, Folder} THEN "end" ELSE "chunk"
          /\ UNCHANGED failed
       \/ /\ failed' = TRUE
          /\ stream' \in PutFails(stream)
          /\ pc' = "close"
          /\ UNCHANGED field
    /\ UNCHANGED <<arguments, ignored, index, chunk, header, refused, cancelled, unheard, result>>

\* A chunk of the input is read and written, or one of the two fails.
WriteChunk ==
    /\ pc = "chunk"
    /\ \/ /\ stream' \in Puts(stream, Data(index, chunk + 1))
          /\ pc' = "poll"
          /\ UNCHANGED failed
       \/ /\ failed' = TRUE
          /\ pc' = "end"
          /\ stream' \in PutFails(stream)
    /\ UNCHANGED <<arguments, ignored, position, refused, cancelled, unheard, result>>

AllowsHandler == TRUE
Allows == ~cancelled

\* The progress call: a cancelled context or the handler refuses.
Poll ==
    /\ pc = "poll"
    /\ chunk' = chunk + 1
    /\ \/ /\ Allows
          /\ pc' = IF chunk + 1 = inputs[index] THEN "end" ELSE "chunk"
          /\ UNCHANGED <<failed, refused>>
       \/ /\ refused' = TRUE
          /\ failed' = TRUE
          /\ pc' = "end"
    /\ UNCHANGED <<arguments, ignored, stream, index, field, header, cancelled, unheard, result>>

\* mz_zip_entry_write_close: the descriptor of a file, the header of a directory
\* once more.  Volumes that are opened for it lose all they have, so that nothing
\* is to be said about how they are closed.
\* A file without data that could not be opened gets a descriptor, too.
Back == Seek(stream, header[index].disk, header[index].offset + Checksum)
ChecksumPut == Put(Back, <<index, Checksum + 1>>)
ChecksumWritten == Seek(ChecksumPut, stream.number, stream.at)
ChecksumFails ==
    {stream} \cup {Seek(s, stream.number, stream.at) : s \in PutFails(Back)}

\* Nobody looks at the error of the seek back; one that has to open a volume is
\* repeated by the next entry.
Checksums ==
    {ChecksumWritten} \cup IF ChecksumPut.disk = stream.disk
                           THEN {[ChecksumPut EXCEPT !.lost = TRUE]} ELSE {}

\* Closing the compressor puts out the end of the data that it has kept, and
\* nobody looks at the error of that either.
IsData(cell) == \E j \in 1 .. inputs[index] : cell = Data(index, j)
Kept(s) ==
    {m \in 1 .. s.used :
        /\ m <= s.at /\ s.at = Len(s.files[Name(s.disk)])
        /\ \A k \in s.at - m + 1 .. s.at : IsData(s.files[Name(s.disk)][k])}
PutOut(s) ==
    {s} \cup {[Shortened(s, s.at - m) EXCEPT !.at = @ - m, !.used = @ - m] : m \in Kept(s)}

IsLastOffByOne == index > Len(inputs)
IsLast == index = Len(inputs)

EntryClose ==
    /\ pc = "end"
    /\ \/ /\ stream' \in IF inputs[index] = Folder THEN Checksums
                         ELSE UNION {Puts(s, Descriptor(index)) : s \in PutOut(stream)}
          /\ UNCHANGED failed
       \/ /\ failed' = TRUE
          /\ stream' \in IF inputs[index] = Folder THEN ChecksumFails
                         ELSE {Put(stream, Descriptor(index))} \cup PutFails(stream)
    /\ IF failed' \/ IsLast
       THEN pc' = "close" /\ UNCHANGED <<index, chunk>>
       ELSE pc' = "entry" /\ index' = index + 1 /\ chunk' = 0
    /\ UNCHANGED <<arguments, ignored, field, header, refused, cancelled, unheard, result>>

\* mz_zip_writer_close writes the central directory, whatever has happened, and
\* closes the output as any volume is closed.
AtDirectory == [stream EXCEPT !.number = Output]
Close ==
    /\ pc = "close"
    /\ \/ /\ stream' \in UNION {Closings(s) : s \in Puts(AtDirectory, Directory)}
          /\ UNCHANGED failed
       \/ /\ failed' = TRUE
          /\ stream' \in {stream} \cup PutFails(AtDirectory)
    /\ pc' = "finish"
    /\ UNCHANGED <<arguments, ignored, position, refused, cancelled, unheard, result>>

\* remove_zip_outputs; the directory may not be listed, and a file may stay.
RemovedOpened == stream.opened \cap {Output}
Removed == {Output} \cup Found

Finish ==
    /\ pc = "finish"
    /\ \/ /\ ~failed
          /\ Return("ok")
          /\ UNCHANGED <<ignored, stream>>
       \/ /\ failed
          /\ Return(IF refused THEN "cancelled" ELSE "error")
          /\ \E gone \in SUBSET (DOMAIN stream.files \cap Removed) :
                /\ stream' = [stream EXCEPT !.files = [n \in DOMAIN @ \ gone |-> @[n]]]
                /\ ignored' = IF DOMAIN stream'.files \cap Removed = {} THEN ignored
                              ELSE ignored \cup {"cleanup"}

--------------------------------------------------------------------------------
(* The task is cancelled, and somebody else uses a name *)

Cancel ==
    /\ pc # "done"
    /\ ~cancelled
    /\ cancelled' = TRUE
    /\ unheard' = MorePolls
    /\ UNCHANGED <<arguments, ignored, stream, pc, position, failed, refused, result>>

\* After the check has been passed.
Appear(n) ==
    /\ pc \notin {"check", "done"}
    /\ n \notin DOMAIN stream.files
    /\ stream' = [stream EXCEPT !.files = With(@, n, <<Other>>)]
    /\ UNCHANGED <<arguments, ignored, pc, position, failed, refused, cancelled, unheard, result>>

Step == \/ Check \/ Open \/ EntryOpen \/ WriteHeader \/ WriteChunk \/ Poll
        \/ EntryClose \/ Close \/ Finish

Next == Step \/ Cancel \/ \E n \in Strangers : Appear(n)

Spec == Init /\ [][Next]_vars

================================================================================
