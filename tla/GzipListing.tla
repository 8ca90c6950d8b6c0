------------------------------- MODULE GzipListing -------------------------------
(***************************************************************************)
(* list_gzip: the header of a GZIP file and its footer give the only       *)
(* entry.  A member is a record of the lengths of its parts: what the file *)
(* has of extra data, name and comment with their zero bytes (Missing when *)
(* there is none), whether it has a header checksum, and how many bytes    *)
(* it expands to, of which the footer knows the lowest bits.  A name or    *)
(* comment of more than 1 MiB counts as one that does not end.             *)
(***************************************************************************)
EXTENDS Integers

CONSTANTS
    FooterRange     \* 2^32, the range of the size in the footer

ASSUME FooterAssumption == FooterRange \in Nat \ {0}

Missing == -1
TooShort == -2
Footer == 8
Least == 18

Length(part, prefix) == IF part = Missing THEN 0 ELSE prefix + part

HeaderLengthUnchecked(size, g) ==
    10 + Length(g.extra, 2) + Length(g.name, 0) + Length(g.comment, 0)
       + IF g.checksum THEN 2 ELSE 0

\* Every part is read up to the footer at most; the order is that of the flags.
HeaderLength(size, g) ==
    LET extra == 10 + Length(g.extra, 2)
        named == extra + Length(g.name, 0) + Length(g.comment, 0)
        whole == named + IF g.checksum THEN 2 ELSE 0
    IN IF size < Least \/ whole > size - Footer THEN TooShort ELSE whole

\* The name of the entry is always a safe one.
GzipEntry(size, g) ==
    [path |-> "plain", kind |-> "file",
     size |-> g.content % FooterRange,
     packed |-> size - HeaderLength(size, g) - Footer]

================================================================================
