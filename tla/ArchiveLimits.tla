----------------------------- MODULE ArchiveLimits -----------------------------
(***************************************************************************)
(* The limits an archive is opened and read under: the number of entries,  *)
(* the size of one and of all of them, and the ratio of compression.       *)
(*                                                                         *)
(* Sizes are unsigned words.  A comparison of quotients is one of products *)
(* here; the ratio is a whole number, and 0 means that there is no limit.  *)
(* An entry is a record of its path, kind, size and packed size, and an    *)
(* error the name of its code, or "none".                                  *)
(*                                                                         *)
(* A definition that directly precedes the one it varies is a plausible    *)
(* mistake and not part of the specification.                              *)
(***************************************************************************)
EXTENDS Integers, Sequences, SequencesExt

CONSTANTS
    MaxWord,        \* UINT64_MAX
    RatioFloor      \* output below which the ratio of a stream is not looked at

ASSUME WordAssumption == MaxWord \in Nat
ASSUME FloorAssumption == RatioFloor \in Nat

Word == 0 .. MaxWord
Limits == [count : Word, entry : Word, total : Word, ratio : Nat]

TooDense(limits, size, packed) ==
    packed > 0 /\ limits.ratio > 0 /\ size > limits.ratio * packed

--------------------------------------------------------------------------------
(* When the archive is opened *)

\* Paths that normalized_entry_path refuses, the empty one among them.
Unsafe == {"unsafe", "absent"}

\* validate_entry
EntryError(limits, e) ==
    IF e.path \in Unsafe THEN "unsafePath"
    ELSE IF e.kind \notin {"file", "directory"} THEN "unsafeLink"
    ELSE IF e.size > limits.entry \/ TooDense(limits, e.size, e.packed)
         THEN "resourceLimit"
    ELSE "none"

OverflowsNever(total, size) == FALSE
Overflows(total, size) == MaxWord - total < size

\* One round of the loop of validate_archive_limits, when error is that of the
\* entry itself.
Counted(limits, sum, e, error) ==
    LET total == (sum.total + e.size) % (MaxWord + 1)
    IN IF sum.error # "none" THEN sum
       ELSE IF error # "none" THEN [sum EXCEPT !.error = error]
       ELSE IF Overflows(sum.total, e.size) \/ total > limits.total
       THEN [sum EXCEPT !.error = "resourceLimit"]
       ELSE [sum EXCEPT !.total = total]

\* The sums after the first n rounds.
Sums(limits, entries, errors) ==
    LET sums[n \in 0 .. Len(entries)] ==
            IF n = 0 THEN [total |-> 0, error |-> "none"]
            ELSE Counted(limits, sums[n - 1], entries[n], errors[n])
    IN sums

Sum(limits, entries, errors) == Sums(limits, entries, errors)[Len(entries)]

\* validate_archive_limits
ArchiveError(limits, entries) ==
    IF Len(entries) > limits.count THEN "resourceLimit"
    ELSE Sum(limits, entries, [i \in DOMAIN entries |-> EntryError(limits, entries[i])]).error

\* SevenZipBackend.init looks at the size of an entry before its kind, and at
\* the ratio of the whole archive.
SevenZipEntryError(limits, e) ==
    IF e.path \in Unsafe THEN "unsafePath"
    ELSE IF e.size > limits.entry \/ TooDense(limits, e.size, e.packed)
         THEN "resourceLimit"
    ELSE IF e.kind \notin {"file", "directory"} THEN "unsafeLink"
    ELSE "none"

SevenZipError(limits, entries, archiveSize) ==
    LET sum == Sum(limits, entries,
                   [i \in DOMAIN entries |-> SevenZipEntryError(limits, entries[i])])
    IN IF Len(entries) > limits.count THEN "resourceLimit"
       ELSE IF sum.error # "none" THEN sum.error
       ELSE IF TooDense(limits, sum.total, archiveSize) THEN "resourceLimit"
       ELSE "none"

--------------------------------------------------------------------------------
(* While an entry is read: after a chunk *)

\* stream_gzip_entry
GzipChunkError(limits, e, completed, chunk) ==
    LET most == IF limits.entry < limits.total THEN limits.entry ELSE limits.total
    IN IF \/ chunk > most
          \/ completed > most - chunk
          \/ TooDense(limits, completed + chunk, e.packed)
       THEN "resourceLimit" ELSE "none"

\* stream_active_libarchive_entry and validate_libarchive_runtime_limits; consumed
\* is what libarchive has read of the file.
StreamChunkError(limits, completed, base, chunk, consumed) ==
    IF \/ MaxWord - completed < chunk
       \/ MaxWord - base < completed + chunk
       \/ completed + chunk > limits.entry
       \/ base + completed + chunk > limits.total
       \/ /\ base + completed + chunk >= RatioFloor
          /\ TooDense(limits, base + completed + chunk, consumed)
    THEN "resourceLimit" ELSE "none"

================================================================================
