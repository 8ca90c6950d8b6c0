-------------------------------- MODULE Opening --------------------------------
(***************************************************************************)
(* Opening an archive: ArchiveReader.init chooses between the 7z backend   *)
(* and the core, and swiftarchive_archive_open finds out the format and    *)
(* tries listers one after the other until one succeeds or has an error    *)
(* that settles the matter.                                                *)
(*                                                                         *)
(* list_tar is modelled block by block.  Of the other listers the model    *)
(* knows what their libraries find in the file:                            *)
(*                                                                         *)
(*   urls, siblings  what was opened and what lies beside it               *)
(*   kind            what the file really is                               *)
(*   magic           the format its first bytes name, or "none"            *)
(*   sevenZipName    one of the names is that of a 7z archive              *)
(*   listed          the entries its own library finds                     *)
(*   inner           the entries of a ZIP archive at the end of the file   *)
(*   zeros           it begins with two blocks of zeros                    *)
(*   state           "good", "damaged", "secret" (its directory needs a    *)
(*                   password) or "extended" (ZIP methods that minizip     *)
(*                   cannot read)                                          *)
(*   size, gzip      its length, and the parts of a GZIP header            *)
(***************************************************************************)
EXTENDS TarListing, GzipListing, VolumeSet

CONSTANTS
    PathNames,      \* paths as far as they are told apart
    Calls,          \* what is opened and how: file, limits, request and reports
    Blocks          \* headers that a TAR archive may have

Formats == {"zip", "rar", "tar", "gzip", "other", "sevenZip"}

Kinds == {"file", "directory", "link"}
Entry == [path : PathNames, kind : Kinds, size : Word, packed : Word]
Url == [set : STRING, number : Nat, variant : Nat]
Member == [extra : Nat \cup {Missing}, name : Nat \cup {Missing}, comment : Nat \cup {Missing},
           checksum : BOOLEAN, content : Nat]
Files == [urls : Seq(Url), siblings : Seq(Url), kind : Formats \cup {"iso", "junk"},
          magic : Formats \cup {"none"}, sevenZipName : BOOLEAN,
          listed : Seq(Entry), inner : Seq(Entry), zeros : BOOLEAN,
          state : {"good", "damaged", "secret", "extended"}, size : Word, gzip : Member]
\* Octal, or base 256: the range of a word is a multiple of either.
Field == {f \in [radix : Nat \ {0}, digits : Seq(Nat)] :
             /\ (MaxWord + 1) % f.radix = 0
             /\ \A digit \in ToSet(f.digits) : digit < f.radix}
Block == [type : Kinds \cup Metadata, sum : BOOLEAN, size : Field, time : Field,
          name : PathNames, path : PathNames, given : Word \cup {NoSize}]

ASSUME PathsAssumption == {"plain", Absent} \subseteq PathNames
ASSUME CallsAssumption ==
    \A call \in Calls : /\ call.file \in Files /\ call.limits \in Limits
                        /\ call.request \in {"auto"} \cup Formats /\ call.reports \in BOOLEAN
ASSUME BlocksAssumption == Blocks \subseteq Block
\* The footer of a GZIP file holds a part of a word.
ASSUME RangeAssumption == FooterRange <= MaxWord + 1

VARIABLES
    request,        \* the format asked for, or "auto"
    reports,        \* the caller passed an SAError
    pc,
    plan,           \* the listers that are left, the one at work first
    format,
    backend,        \* "core", "libarchive" or "sevenZip"
    volumes,        \* what SevenZipVolumeResolver has found
    result

arguments == <<file, limits, request, reports>>
listing == <<entries, outcome, tar, headers>>
openVars == <<arguments, listing, pc, plan, format, backend, volumes, result>>

OpenInit ==
    /\ \E call \in Calls :
          /\ file = call.file
          /\ limits = call.limits
          /\ request = call.request
          /\ reports = call.reports
    /\ entries = <<>>
    /\ outcome = "running"
    /\ tar = TarAtStart
    /\ headers = <<>>
    /\ pc = "open"
    /\ plan = <<>>
    /\ format = "auto"
    /\ backend = "core"
    /\ volumes = <<>>
    /\ result = "none"

Done(r) ==
    /\ pc' = "done"
    /\ result' = r

--------------------------------------------------------------------------------
(* The 7z backend *)

ForSevenZip ==
    request = "sevenZip" \/ file.sevenZipName \/ file.magic = "sevenZip"

Broken == {"corrupt", "password"}
          \cup (IF \E url \in ToSet(file.urls) : IsPart(url) THEN {"missingVolume"} ELSE {})

\* The decoder opens all volumes as one stream, which may fail; what it says of
\* a broken one depends on where it breaks.
SevenZipOutcomes(found) ==
    IF found.error # "none" THEN {found.error}
    ELSE {"io"} \cup
         IF file.kind # "sevenZip" \/ file.state # "good" THEN Broken
         ELSE {SevenZipError(limits, file.listed, file.size)}

OpenSevenZip ==
    LET found == Resolve(file.urls, file.siblings)
    IN /\ pc = "open" /\ ForSevenZip
       /\ \/ /\ "none" \in SevenZipOutcomes(found)
             /\ Done("ok")
             /\ entries' = file.listed
             /\ format' = "sevenZip"
             /\ backend' = "sevenZip"
             /\ volumes' = found.urls
          \/ /\ \E error \in SevenZipOutcomes(found) \ {"none"} : Done(error)
             /\ UNCHANGED <<entries, format, backend, volumes>>
       /\ UNCHANGED <<arguments, outcome, tar, headers, plan>>

--------------------------------------------------------------------------------
(* Which listers are tried *)

NoLimits == limits.count = 0 \/ limits.entry = 0 \/ limits.total = 0

Detected == IF request = "auto" THEN file.magic ELSE request

Plan ==
    CASE Detected = "none" -> <<"zip", "rar", "tar", "gzip", "libarchive">>
      [] Detected = "zip" -> <<"zip", "libarchive">>
      [] Detected \in {"rar", "tar", "gzip"} -> <<Detected>>
      [] OTHER -> <<"libarchive">>

\* Detection opens the file for itself, which may fail.
Open ==
    /\ pc = "open" /\ ~ForSevenZip
    /\ \/ /\ NoLimits
          /\ Done("invalidArgument")
          /\ UNCHANGED plan
       \/ /\ ~NoLimits /\ request = "auto"
          /\ Done("openFailed")
          /\ UNCHANGED plan
       \/ /\ ~NoLimits
          /\ pc' = "list"
          /\ plan' = Plan
          /\ UNCHANGED result
    /\ UNCHANGED <<arguments, listing, format, backend, volumes>>

--------------------------------------------------------------------------------
(* The listers *)

Lister == Head(plan)
Working == pc = "list" /\ Running

\* minizip looks for the directory from the end of the file, UnRAR for the
\* signature within the file; libarchive was built without RAR.
Recognised ==
    CASE Lister = "zip" -> file.kind = "zip" \/ file.inner # <<>>
      [] Lister = "libarchive" -> file.kind \notin {"rar", "junk"}
      [] OTHER -> file.kind = Lister

Contents ==
    CASE Lister = "zip" /\ file.kind # "zip" -> file.inner
      [] Lister = "gzip" -> <<GzipEntry(file.size, file.gzip)>>
      [] OTHER -> file.listed

\* What the library has against it before the limits are looked at.
Obstacle ==
    CASE ~Recognised -> "unsupported"
      [] Recognised /\ Lister = "gzip" ->
             IF HeaderLength(file.size, file.gzip) = TooShort THEN "corrupt" ELSE "none"
      [] Recognised /\ Lister = "zip" ->
             IF file.kind # "zip" THEN "none"
             ELSE IF file.state = "damaged" THEN "corrupt"
             ELSE IF file.state = "extended" THEN "unsupported" ELSE "none"
      [] OTHER ->
             IF file.state = "damaged" THEN "corrupt"
             ELSE IF file.state = "secret" THEN "password" ELSE "none"

ListedAs == IF Lister # "libarchive" THEN Lister
            ELSE IF Recognised THEN file.kind ELSE "auto"

\* Any of them may fail to read the file.
Unreadable ==
    /\ Working
    /\ outcome' = "io"
    /\ UNCHANGED <<arguments, entries, tar, headers, pc, plan, format, backend, volumes,
                   result>>

\* list_zip, list_rar, list_gzip and list_libarchive; a damaged directory was
\* read for a part, and an extended one for the whole.
List ==
    /\ Working /\ Lister # "tar"
    /\ format' = ListedAs
    /\ \/ /\ Obstacle = "none"
          /\ entries' = entries \o Contents
          /\ outcome' = ArchiveError(limits, entries')
          /\ backend' = IF Lister = "libarchive" THEN "libarchive" ELSE backend
       \/ /\ Obstacle # "none"
          /\ outcome' = Obstacle
          /\ IF Recognised /\ Obstacle = "unsupported"
             THEN entries' = entries \o Contents
             ELSE IF Recognised /\ Obstacle = "corrupt" /\ Lister # "gzip"
             THEN \E n \in 0 .. Len(Contents) :
                     entries' = entries \o SubSeq(Contents, 1, n)
             ELSE UNCHANGED entries
          /\ UNCHANGED backend
    /\ UNCHANGED <<arguments, tar, headers, pc, plan, volumes, result>>

\* What list_tar finds at a place of the file.
Zeros == file.kind = "tar" \/ file.zeros
Headers == IF file.kind = "tar" THEN Blocks ELSE {[b EXCEPT !.sum = FALSE] : b \in Blocks}

ListTar ==
    /\ Working /\ Lister = "tar"
    /\ \/ Zeros /\ ZeroBlock
       \/ ~file.zeros /\ \E b \in Headers : BadHeader(b) \/ MetadataHeader(b) \/ EntryHeader(b)
       \/ LastBlock
    /\ format' = "tar"
    /\ UNCHANGED <<request, reports, pc, plan, backend, volumes, result>>

--------------------------------------------------------------------------------
(* What becomes of it *)

Conclusive == outcome \in {"password", "unsafePath", "unsafeLink", "resourceLimit"}

\* After ZIP was asked for or detected, the error is looked at in the caller's
\* SAError, and without one nothing is conclusive.
Settled == \/ Len(plan) = 1
           \/ Conclusive /\ (reports \/ Detected = "none")

Accept ==
    /\ pc = "list" /\ outcome = "none"
    /\ Done("ok")
    /\ UNCHANGED <<arguments, listing, plan, format, backend, volumes>>

GiveUp ==
    /\ pc = "list" /\ ~Running /\ outcome # "none"
    /\ Settled
    /\ Done(outcome)
    /\ UNCHANGED <<arguments, listing, plan, format, backend, volumes>>

ClearedNever == entries
Cleared == <<>>

TryNext ==
    /\ pc = "list" /\ ~Running /\ outcome # "none"
    /\ ~Settled
    /\ plan' = Tail(plan)
    /\ entries' = Cleared
    /\ outcome' = "running"
    /\ tar' = TarAtStart
    /\ headers' = <<>>
    /\ UNCHANGED <<arguments, pc, format, backend, volumes, result>>

OpenStep == \/ OpenSevenZip \/ Open \/ List \/ ListTar \/ Unreadable
            \/ Accept \/ GiveUp \/ TryNext

================================================================================
