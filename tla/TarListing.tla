------------------------------- MODULE TarListing -------------------------------
(***************************************************************************)
(* list_tar: a TAR archive is read header by header.  Headers of metadata  *)
(* give the next entry another path or size; they wait until it comes.     *)
(*                                                                         *)
(* What a block holds is known when it is read: the type, whether the      *)
(* checksum is right, the fields, and the path and size that the metadata  *)
(* after it gives.  An empty string is Absent.  The modification time is   *)
(* treated as the size is and left out, except that its field must parse.  *)
(***************************************************************************)
EXTENDS ArchiveLimits

CONSTANTS
    BlockSize,      \* 512
    MaxMetadata     \* the largest metadata that is read: 16 MiB

ASSUME BlockAssumption == BlockSize \in Nat \ {0}
ASSUME MetadataAssumption == MaxMetadata \in Nat

VARIABLES
    file,           \* the file and what is in it
    limits,
    entries,        \* SAArchive::entries
    outcome,        \* of the lister: "running", "none" or an error
    tar,            \* the local variables of list_tar
    headers         \* the headers it has read and their places (history)

Absent == "absent"
Invalid == -1
NoSize == -1

Running == outcome = "running"

--------------------------------------------------------------------------------
(* Fields *)

FittingAlways(value, radix) == TRUE
Fitting(value, radix) == value <= MaxWord \div radix

\* parse_tar_number: octal or, when the first byte says so, base 256.
ParseTarNumber(field) ==
    LET value[n \in 0 .. Len(field.digits)] ==
            IF n = 0 THEN 0
            ELSE IF value[n - 1] = Invalid \/ ~Fitting(value[n - 1], field.radix) THEN Invalid
            ELSE (value[n - 1] * field.radix + field.digits[n]) % (MaxWord + 1)
    IN value[Len(field.digits)]

\* The size in whole blocks, which overflows for the largest sizes.
Padded(size) ==
    (((size + BlockSize - 1) % (MaxWord + 1)) \div BlockSize) * BlockSize

Fits(size, at) == Padded(size) >= size /\ Padded(size) <= file.size - at - BlockSize

--------------------------------------------------------------------------------
(* The loop *)

TarAtStart == [at |-> 0, zeros |-> 0, path |-> Absent, size |-> NoSize, end |-> FALSE]

TarVerdict(end) ==
    IF entries = <<>> /\ ~end THEN "corrupt" ELSE ArchiveError(limits, entries)

HasBlock == tar.at + BlockSize <= file.size

\* Two blocks of zeros, or one at the end of the file, end the archive.
ZeroBlock ==
    /\ Running /\ HasBlock
    /\ tar' = [tar EXCEPT !.zeros = @ + 1, !.end = TRUE, !.at = @ + BlockSize]
    /\ outcome' = IF tar.zeros = 1 \/ tar.at + BlockSize = file.size
                  THEN TarVerdict(TRUE) ELSE "running"
    /\ UNCHANGED <<file, limits, entries, headers>>

LastBlock ==
    /\ Running /\ ~HasBlock
    /\ outcome' = TarVerdict(tar.end)
    /\ UNCHANGED <<file, limits, entries, tar, headers>>

Readable(b) ==
    /\ b.sum
    /\ ParseTarNumber(b.size) # Invalid
    /\ ParseTarNumber(b.time) # Invalid
    /\ Fits(ParseTarNumber(b.size), tar.at)

BadHeader(b) ==
    /\ Running /\ HasBlock
    /\ ~Readable(b)
    /\ outcome' = "corrupt"
    /\ UNCHANGED <<file, limits, entries, tar, headers>>

Metadata == {"longName", "pax", "global"}

\* A long name replaces what is waiting even when it is empty; a PAX header
\* replaces what it gives; a global header is ignored.
Overridden(b) ==
    CASE b.type = "longName" -> [tar EXCEPT !.path = b.path]
      [] b.type = "pax" -> [tar EXCEPT
             !.path = IF b.path = Absent THEN @ ELSE b.path,
             !.size = IF b.given = NoSize THEN @ ELSE b.given]
      [] b.type = "global" -> tar

MetadataHeader(b) ==
    LET size == ParseTarNumber(b.size)
    IN /\ Running /\ HasBlock
       /\ Readable(b) /\ b.type \in Metadata
       /\ IF size > MaxMetadata
          THEN outcome' = "corrupt" /\ UNCHANGED <<tar, headers>>
          ELSE /\ tar' = [Overridden(b) EXCEPT !.zeros = 0,
                                               !.at = @ + BlockSize + Padded(size)]
               /\ headers' = Append(headers, [at |-> tar.at, block |-> b])
               /\ UNCHANGED outcome
       /\ UNCHANGED <<file, limits, entries>>

\* What waits for the next entry is used up by any entry.
UsedUpIfGiven(t) == [t EXCEPT !.path = Absent]
UsedUp(t) == [t EXCEPT !.path = Absent, !.size = NoSize]

EntryHeader(b) ==
    LET size == IF tar.size = NoSize THEN ParseTarNumber(b.size) ELSE tar.size
        listed == IF b.type = "directory" THEN 0 ELSE size
    IN /\ Running /\ HasBlock
       /\ Readable(b) /\ b.type \notin Metadata
       /\ headers' = Append(headers, [at |-> tar.at, block |-> b])
       /\ IF Len(entries) >= limits.count
          THEN outcome' = "resourceLimit" /\ UNCHANGED <<entries, tar>>
          ELSE /\ entries' = Append(entries,
                     [path |-> IF tar.path = Absent THEN b.name ELSE tar.path,
                      kind |-> b.type, size |-> listed, packed |-> listed,
                      at |-> tar.at + BlockSize])
               /\ outcome' = IF Fits(size, tar.at) THEN "running" ELSE "corrupt"
               /\ tar' = [UsedUp(tar) EXCEPT !.zeros = 0,
                                             !.at = IF Fits(size, @)
                                                    THEN @ + BlockSize + Padded(size) ELSE @]
       /\ UNCHANGED <<file, limits>>

================================================================================
