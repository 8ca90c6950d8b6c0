----------------------------- MODULE LimitedReading -----------------------------
(***************************************************************************)
(* An archive is opened and then extracted, its entries one after the      *)
(* other, in a format whose output is only known once it is decompressed:  *)
(* stream_gzip_entry, and extract_libarchive with                          *)
(* stream_active_libarchive_entry.  What comes out may differ from what    *)
(* was declared.                                                           *)
(***************************************************************************)
EXTENDS Opening

CONSTANTS
    Chunks          \* sizes of what is decompressed at once

ASSUME ChunksAssumption == Chunks \subseteq Nat \ {0}

VARIABLES
    index,          \* the entry that is read
    completed,      \* what was handed over of it
    base,           \* total_base: the declared sizes of the entries before, which
                    \* is all that is known of them
    handed,         \* what was handed over of each entry (history)
    reading         \* "no", "yes", "ok" or the error

readVars == <<index, completed, base, handed, reading>>
vars == <<openVars, readVars>>

Streamed == format = "gzip" \/ backend = "libarchive"

Init ==
    /\ OpenInit
    /\ index = 1 /\ completed = 0 /\ base = 0 /\ handed = <<>> /\ reading = "no"

StartReading ==
    /\ result = "ok" /\ Streamed
    /\ reading = "no"
    /\ reading' = IF entries = <<>> THEN "ok" ELSE "yes"
    /\ handed' = [i \in DOMAIN entries |-> 0]
    /\ UNCHANGED <<openVars, index, completed, base>>

\* An entry of size 0 declares that, or was listed without a size: it may deliver.
MayDeliver == entries[index].kind = "file"

BaseUncounted == 0
BaseCounted == base

\* consumed is what libarchive has read of the file by then.
ChunkError(chunk, consumed) ==
    IF backend = "core" THEN GzipChunkError(limits, entries[index], completed, chunk)
    ELSE StreamChunkError(limits, completed, BaseCounted, chunk, consumed)

\* A chunk is counted and looked at before it is handed over.
Chunk ==
    /\ reading = "yes" /\ MayDeliver
    /\ \E chunk \in Chunks, consumed \in {1, file.size} :
          \/ /\ ChunkError(chunk, consumed) = "none"
             /\ completed' = completed + chunk
             /\ handed' = [handed EXCEPT ![index] = @ + chunk]
             /\ UNCHANGED reading
          \/ /\ ChunkError(chunk, consumed) # "none"
             /\ reading' = ChunkError(chunk, consumed)
             /\ UNCHANGED <<completed, handed>>
    /\ UNCHANGED <<openVars, index, base>>

\* The footer knows the size of a GZIP entry modulo its range; libarchive
\* entries that declare a size have to have it.
SizeMatches ==
    IF backend = "core" THEN completed % FooterRange = entries[index].size % FooterRange
    ELSE entries[index].size > 0 => completed = entries[index].size

GoOn ==
    /\ base' = base + entries[index].size
    /\ completed' = 0
    /\ index' = index + 1
    /\ reading' = IF index = Len(entries) THEN "ok" ELSE "yes"

EndOfEntry ==
    /\ reading = "yes"
    /\ entries[index].kind = "file"
    /\ \/ SizeMatches /\ GoOn
       \/ /\ ~SizeMatches
          /\ reading' = "corrupt"
          /\ UNCHANGED <<index, completed, base>>
    /\ UNCHANGED <<openVars, handed>>

\* A directory, or a file that is there already and kept.
SkipEntry ==
    /\ reading = "yes" /\ completed = 0
    /\ GoOn
    /\ UNCHANGED <<openVars, handed>>

\* The library fails, the consumer refuses, or the task is cancelled.
ReadingFails ==
    /\ reading = "yes"
    /\ reading' \in {"corrupt", "cancelled"}
    /\ UNCHANGED <<openVars, index, completed, base, handed>>

Next == \/ OpenStep /\ UNCHANGED readVars
        \/ StartReading \/ Chunk \/ EndOfEntry \/ SkipEntry \/ ReadingFails

Spec == Init /\ [][Next]_vars

================================================================================
