# SwiftArchive in TLA+

TLA+ modules, TLC configurations and TLAPS proofs for the parts of SwiftArchive
that are hard to get right and hard to test: several tasks that share a reader,
cancellation from every side, extraction into a file system that somebody else
changes, archives that are not what they seem, failures and crashes half way.
Paths are relative to the repository;
`Core` is `Sources/CSwiftArchiveCore/SwiftArchiveCore.cpp`, `Reader`
`Sources/SwiftArchive/ArchiveReader.swift`, `SevenZip`
`Sources/SwiftArchive/Internal/SevenZipBackend.swift`, `minizip` the vendored
`Sources/CMinizipNG`.

## The system and its parts

| part | state it keeps | operations | correct when |
| --- | --- | --- | --- |
| Reader sessions over the C++ core (`Reader`, `Core`) | `operationLock`, `SAArchive::cancelled`, one callback context per call | `extract(to:)`, `extract(_:to:)`, `read`, `data`, `cancel` | calls exclude each other, success is complete, a cancellation has a cause, is heard, and every call returns |
| Publication of files by the core (`prepare_output_path`, `finish_extracted_file`, the loops of each format) | the destination tree, a temporary file per entry | `extract_all`, `extract_entry` | files appear whole and inside the destination, the overwrite policy holds, temporary files go |
| Reader sessions over 7z (`Reader`, `SevenZip`, PLzma's `DecoderImpl`, `ExtractCallback`) | `SevenZipProgressState`, two `std::mutex`, the registered callback, the state of the input stream | the same five, plus `DecoderImpl::process` and `abort` | as above, and nobody deadlocks |
| 7z plan, verification, commit (`SevenZip`, `ExtractCallback`) | plans, temporary files, destination tree | `makePlans`, `commit` | as for the core's publication; nothing is committed before everything is verified; damaged data does not get through |
| ZIP creation (`ZipArchive.swift`, `Core`, `mz_stream_split` in `minizip`) | the volumes on disk, the volume that is open, what is counted in it and what is buffered | `zip_create` | a failure leaves nothing, old files stay, every entry is where the central directory says, write errors are reported, volumes keep their size |
| Opening and detection (`Core`, `Reader`) | format, list of entries, the error so far | `ArchiveReader.init`, `swiftarchive_archive_open` | a file is opened as what it is, nothing is left of an attempt that failed |
| TAR and GZIP listing (`Core`) | PAX/GNU overrides for the next header | `list_tar`, `list_gzip` | overrides reach exactly one entry, no number overflows |
| Limits (`Core`, `SevenZip`) | running totals | `validate_entry`, `validate_archive_limits`, `validate_libarchive_runtime_limits` | nothing beyond a limit is opened or handed over |
| 7z volume sets (`SevenZip`) | none | `SevenZipVolumeResolver` | whole sets only, the same whichever volume is opened |
| ZIP input streams, filename decoding, error mapping, public types | none to speak of | pure functions | tested rather than modelled |
| Decompression libraries (minizip-ng, UnRAR, libarchive, zlib, LZMA SDK) | their own | external | taken to deliver a chunk, to end or to fail |

Interactions: each asynchronous method of `ArchiveReader` builds a callback
context, detaches a task that holds `operationLock` during the whole
synchronous call, and installs an `onCancel` closure that first cancels the
context and then the reader. The core calls back into the context for each
chunk; the context calls the user's handler. `cancel()` on a core reader
stores a flag in the handle which the loops poll; on a 7z reader it calls into
the decoder, which takes two mutexes. Readers do not know of each other: two
of them may extract into one destination.

What is hard: (1) the flag belongs to the handle, not to the operation, and is
reset by the operation that enters, so a cancellation may be early, late, meant
for somebody else, or lost; (2) the loops poll it in different places; (3) the
contexts release their lock between the look and the call of the handler; (4)
the 7z decoder reports from inside a mutex that `abort()` needs; (5) an aborted
7z extraction is reported as done, and hides a failed checksum; (6) the overwrite policy and the chain of
directories are looked at before data is written, and both may have changed by
then; (7) processes die; (8) a split ZIP archive is written by a stream that
empties a volume whenever it returns to it, that names its volumes by a rule of
its own, and that drops the error of the flush when it closes one; (9) listers of several formats work
on one handle, one after the other, and TAR metadata waits for a header that may
be far away; (10) sizes are words, declared by the archive and contradicted by
its data. `PROJECT.json` lists these under "hazards", line by
line.

## Modules

Definitions carry the names of the source where TLA+ allows. A definition that
stands directly before the one it varies (`ResetForgotten` before `Reset`) is a
plausible mistake, used to show that a property notices it; no specification
uses it.

**`ReaderContract`** is the abstract specification of a reader: operations are
submitted, admitted one at a time, give the pieces they owe, and retire `ok`
(nothing owed is missing), `cancelled` (somebody has asked) or `error`. Both
session modules are shown to implement it.

**`ReaderSession`** has one `pc` per call. `Call`, `RejectEntry` and `Lock` are
the Swift side up to `operationLock`; `Enter` is the argument check and the
reset of the flag; `Setup` opens the archive again; `Entry`, `Chunk`,
`EndOfEntry` and `Finish` are the loop over entries and the loop over chunks,
which the six families of loops in the core share up to where they look at the
flag. Those differences are the operators `LooksAtEntry`, `WritesFirst`,
`LooksAtEnd`, `FlagHidesFailure` and `FlagAfterFailure`. `Callback` reads the
context under its lock, `Handler` is the user's answer, a step of its own since
the lock is released in between. `CancelContext` and `CancelReader` are the two
steps of an `onCancel` closure, `ReaderCancel` is anybody who calls `cancel()`.
`asked` and `heard` are history variables.

**`SevenZipSession`** has the same calls over the 7z backend, with every mutex
as a variable and every thread that can hold one: the task of each call, its
`onCancel` closure, and `Callers` of `cancel()`. `Process` to `Processed` are
`DecoderImpl::process` with `ExtractCallback::process` inside; `Report` locks
the callback's mutex and keeps it until `Answered`; `AbortDecoder` and
`AbortCallback` are `DecoderImpl::abort`, nested as in the code. After that the
backend verifies (`Verify`), commits file by file (`Commit`) and reports
completion, or, for `read`, hands over the blocks of the extracted file.
Here the destination is the set of files a call has handed over.

**`DestinationTree`** is what somebody who watches a destination may see:
directories and whole files appear, what is in the way disappears.
**`Extraction`** is the core's way of doing it, one system call per step:
`Chain`/`MakeDirectory` are `ensure_safe_directory_chain`, `Look` the rest of
`prepare_output_path`, `OpenTemp`/`Stream` the temporary file,
`Unlink`/`Rename` the publication, `Crash` the death of the process and `Start`
the next attempt. The formats have copies of this code; the module is what the
copies have in common.

**`SevenZipExtraction`** is the 7z backend on the same kind of tree. `Ensure`
and `Create` are `ensureSafeDirectory`, which climbs to the first ancestor that
exists and makes the rest one by one; `Plan` is the body of `makePlans`, with
duplicates under each policy; `OpenStream` to `Finish` are the decoder's calls
of `ExtractCallback` for each file, with the result that `Abort` overwrites;
`Verify`, `Look`, `Move` and `Replace` are the rest of `extract` and `commit`.
A temporary file is short, whole, or has its size with data that does not match
the checksum. Links of the destination lead to empty directories elsewhere,
`moveItem` and `replaceItemAt` are one step each.

**`ZipCreate`** writes cells to files: those of a local header (`WriteHeader`
writes one of them per step), one for each chunk of data, a descriptor. `Check`
to `Finish` are the statements of `swiftarchive_zip_create`, `Poll` the progress
call, `Removed` what `remove_zip_outputs` deletes; `OpenDisk`, `GotoDisk`,
`Ready`, `Put` and `Seek` are `mz_stream_split`; `ChecksumWritten` is the way
back to the header of a folder, which may also fail on the way, noticed
(`ChecksumFails`) or not (`Checksums`). A write fails when its volume cannot be
opened or takes no data; `PutFails` is the stream it leaves behind. Not every
failure is noticed: what the buffer still holds when a volume is closed may not
reach the file, because the next write goes on to another volume (`Puts`) or
the archive is closed (`Close`), and neither may what the compressor puts out
when it is closed (`PutOut`); `Closings` are the files that such a closing can
leave, and `lost` in `stream` remembers that one was short. `path` says where
the last dot of the output's path is, by which the stream names its volumes:
`plain` in the extension, where `zip_split_volumes` looks for them, `hidden` at
the start of the name or in a directory above, where it does not (`Found`), or
nowhere (`bare`), and then every volume is the output. A directory that cannot be
listed has no volumes for `Check` and `Finish`, and a file that cannot be
removed stays; `ignored` remembers both. `Appear` is somebody else who
uses one of the names meanwhile. `number` and
`disk` are the two fields `number_disk` and `current_disk`, which differ while
the stream is between volumes. A field is one or more cells and a volume may end
within it.

**`ArchiveLimits`**, **`TarListing`**, **`GzipListing`** and **`VolumeSet`** are
the listing algorithms: operators on words `0 .. MaxWord`, and for TAR one
action per kind of header with the local variables of `list_tar` in `tar`.
**`Opening`** joins them: `OpenSevenZip` is the 7z backend's `init`; `Open`
detects the format and makes the `plan`, the listers that
`swiftarchive_archive_open` would try in order; `List` and `ListTar` run the
first of them; `Accept`, `GiveUp` and `TryNext` are what becomes of its error.
What a library finds in a file is given (`MCOpening` enumerates it).
**`LimitedReading`** goes on to read what was opened, in the formats whose
output is only known when it is decompressed: `Chunk` counts, looks at the
limits and hands over, `EndOfEntry` compares with what was declared. An entry
that libarchive lists without a size has size 0 in the list and delivers all the
same (`MayDeliver`); `handed`, a history variable, is what came out of each.

The modules named `...Properties` state what must hold, the `MC` modules give
the constants values, the `Proofs` modules hold the theorems. `Opening` has two
of those, `OpeningProofs` and, on top of it, `ListingProofs`. **`Recursion`** has
the lemmas on induction over numbers and on functions defined from one number to
the next, which the proofs about lists and about volumes share.

## Runs

| run | configuration | shows |
| --- | --- | --- |
| `session` | 2 calls; TAR, GZIP, libarchive, ZIP and RAR loops; archives of one entry with 2 chunks and of an empty and a one-chunk entry | `TypeOK`, `Serialized`, `OkMeansComplete`, `CancelledHasCause`, `AtMostOneCallAfterCancel`, refinement of `ReaderContract` |
| `session_live` | 2 calls; TAR, ZIP, RAR; fairness | `EveryCallReturns` |
| `lost_cancel` | 1 call | counterexample: `cancel()` before the reset is lost |
| `extraction` | 2 extractors, 6 destinations, 3 archives, 2 starts each | policy, temporary files, presence, containment, refinement of `DestinationTree` |
| `sevenzip` | 2 calls and one caller of `cancel()`, one file | left-overs of one call do not reach the next; completeness although an aborted extraction looks like a finished one; refinement of `ReaderContract` |
| `sevenzip_refusal` | 1 call | counterexample: a refusal in a progress report blocks its own task |
| `sevenzip_embrace` | 1 call and one caller | counterexample: `cancel()` and the report lock in opposite order |
| `sevenzip_extraction` | 2 extractors, 6 destinations, 5 archives with damaged entries and duplicates, aborts | nothing lost, one winner per path, all or nothing is verified, damage only gets through behind an abort, refinement of `DestinationTree` |
| `zip_create` | 5 lists of inputs, volumes of 3, 4, 5, 6, 8 and 11 cells and none, the 3 kinds of paths, old files, somebody else, errors of the file system that are noticed or not | old files and clean failures where volumes can be found, losses with a cause, sizes of volumes, cancellation |
| `zip_boundary` | the same | counterexample: a creation succeeds and a volume was emptied |
| `opening` | files of each format, damaged, secret, disguised, nested, 3 to 4 sets of limits | limits, right format, TAR metadata, volume sets, types of what is computed |
| `undeclared_total` | streams whose entries declare no sizes | counterexample: together they hand over more than the limit for the total |

### Bounds, and why they are enough

- Two calls on a reader: everything a call can inherit (flag, progress state,
  registered callback, closed stream) and everything a late canceller can hit
  needs an earlier and a later call; a third adds none of a new kind, and for
  `ReaderSession` the theorems hold for any number.
- Chunks and entries: two chunks let a cancellation fall between two handler
  calls; an empty entry goes from `Entry` to `EndOfEntry` without a callback.
  `deflate64` is left out of the run since the model gives it the looks of the
  libarchive loops.
- Two extractors with three archives over two paths: a file where the other has
  a directory, the same path twice in an archive, a directory with a file in
  it; the destinations have nothing, a file, a link or a directory there.
  `Size = 1` chunk is enough to tell a whole file from an empty one.
  `MaxRuns = 2` is one crash and one second attempt.
- The 7z decoder reports at the start of each file and once at the end; further
  reports within a file behave like the first.
- 7z extraction: two extractors with one archive of up to three entries each.
  The archives have a damaged entry before and after a sound one of the same
  path, a directory with a file planned twice in it, and a file where another
  archive needs a directory; so every branch of `Plan` and `Look` is taken.
- ZIP creation: the model does not bound the number of volumes; the inputs do.
  `Origins` are the names in use before the call (none, the output, two
  volumes), and `Strangers` those that somebody else may take during it. Volumes
  of 3 to 11 cells end within a header, between its parts, between entries and
  after everything. What a closing loses is any end of the volume, a larger part
  than a buffer of 32 KB can hold when the volume is large. A
  header has four cells, two of which are the checksum's, since what matters is
  whether the header, or the way back to it, crosses a boundary. `Appear` makes
  one foreign file at a time.
- Opening: words of five bits (`MaxWord = 31`), blocks of four bytes, files of
  up to six blocks, `MaxMetadata` of one block, `FooterRange = 8`. The fields of
  TAR headers have digits that fit, that exceed a word, and that exceed it after
  padding; a PAX size may point beyond the file. `RatioFloor = 2` stands for the
  1 MiB below which the ratio of a stream is not looked at. With three headers
  there is a metadata header for the same, the next, and no entry. TAR files end
  within a block, after one, and after two blocks of zeros.
- Deadlock is not checked where calls are bounded and the system comes to rest
  (`CHECK_DEADLOCK FALSE` everywhere but in the sessions of the core). In
  `sevenzip` it could not be: the two deadlocks of the 7z backend are real and
  are the subject of `sevenzip_refusal` and `sevenzip_embrace`.

### Fairness

`FairSpec` has weak fairness on the steps of each task: a detached task has a
thread that keeps running, and every loop ends since the archive is finite. It
also means that a user's handler returns. No fairness is given to calls,
cancellations or closures. Weak fairness on `Step(o)` suffices for a call that
waits for the lock: with finitely many calls, each made once, the lock is at
last free for good.

## Findings

Five have a run that ends in a counterexample:

1. `cancel()` between the taking of `operationLock` and the reset of the flag
   is lost (`Core`:2690, run `lost_cancel`).
2. 7z: a progress handler that refuses, or a task cancelled during a report,
   locks the mutex of the callback a second time (`SevenZip`:700, run
   `sevenzip_refusal`). The package builds PLzma with `std::mutex`
   (`plzma_private.h:47`), which is not recursive.
3. 7z: `cancel()` from another thread locks decoder then callback, the
   reporting task callback then decoder (`SevenZip`:159, run
   `sevenzip_embrace`).
4. Split ZIP archives: when the header of a folder meets the end of a volume,
   writing its checksum goes back to a volume that was closed, opens it for
   writing and so empties it; the creation succeeds (`minizip`
   `mz_zip.c`:2223, `mz_strm_split.c`:105, run `zip_boundary`).
5. Entries of a stream that libarchive lists without a size, as those of a
   `.zip.xz` with data descriptors, count 0 in the running total: each may hand
   over what the limit allows, together they exceed `maximumTotalSize`
   (`Core`:1616, run `undeclared_total`).

The others are conditions of properties that hold: the models have the
behaviour, and TLC finds each of them when the condition is left out.

6. ZIP archives, split or not: the error of the flush when a volume or the
   output is closed is dropped, and so are those of the compressor's close
   (`mz_strm_buf.c`:338, `mz_strm_zlib.c`:287, `mz_zip.c`:2166). On a full disk
   a creation may succeed and the end of a file be missing. `LossHasCause` says
   that data is lost by 4, by this (`stream.lost`) or not at all.
7. Split ZIP archives whose output has no extension, but a dot at the start of
   its name or in a directory above (`path = "hidden"`): for `/x/com.app/out`
   the volumes are `/x/com.z01` and so on (`mz_strm_split.c`:82), where neither
   the check for older ones nor the removal after a failure looks
   (`Core`:2408-2447). What has such a name is truncated, and volumes of a
   failed creation stay; `OldFilesSurvive` and `FailedLeavesNothing` except it.
8. A directory that cannot be listed has no volumes for the check and for the
   removal, and errors of a removal are ignored (`Core`:2428, 2444; `ignored`,
   which the same two properties except).
9. A file that begins with two blocks of zeros and has no known signature, such
   as an ISO 9660 image, is opened as an empty TAR archive (`Core`:2561; an
   exception in `OpenedAsWhatItIs`).

Smaller observations, which the models have and no property forbids:

- RAR: a handler that refuses gets `.internal` instead of `.cancelled`
  (`Core`:432; `Refused` and `BreakOutcome` in `ReaderSession`). What must not
  happen is that the call succeeds (`OkMeansComplete`).
- A cancellation of a 7z reader wears it out: an aborted decoder closes its
  stream for good, so that the extractions after it fail. That includes a
  `cancel()` that comes when no call is running, or so late that the call it was
  meant for succeeds. `WearsOutWithCause` says that nothing happens without a
  cancellation, a refusal or a failure, not that the reader can be used again.
- A cancelled 7z extraction may report `.corruptArchive` or `.io`
  (`UnverifiedHasCause` says that nothing else does when the archive is sound).
- An abort hides a failed checksum; the damaged file is committed if it has its
  size (`DamagedOnlyAfterAbort` says that this is the only way).
- `README.md` says that compressed TAR streams are exposed as TAR archives; a
  `.tar.gz` has the signature of GZIP and is opened as GZIP with one entry.
- A caller of the C interface who passes no `SAError` gets the ZIP fallback for
  conclusive errors, too (`Settled`).
- Files that appear at an output name during ZIP creation are overwritten or
  removed.
- A split ZIP archive whose opening fails after its first volume was made leaves
  that volume behind (`Core`:2881); nothing says that it does not.
- A TAR header with a negative time in base 256 makes the archive unreadable.

## Proofs

Every module of proofs has an inductive invariant `IInv`, made of named parts,
that is true at the start, is kept by every step (one lemma for each part, with
one step for each action, or the other way round), and implies the properties
of the runs. The assumptions are those the modules make of their constants; the
theorems hold for every value of the constants that satisfies them.

### Reader sessions over the core: `ReaderSessionProofs`

For any set of calls, any choice of loops and any archives, `TypeOK`,
`Serialized`, `OkMeansComplete`, `CancelledHasCause` and
`AtMostOneCallAfterCancel` are invariants of `Spec`, and `Spec` implements
`ReaderContract`. The assumptions: `NoOp` is no call, the backends are the six
known, an archive is a non-empty sequence of numbers of chunks. None of the
properties is inductive alone. `IInv` adds

- `CursorInv`, where the cursor of a call may stand at each point of its loops:
  without it "return" would not mean that every entry was passed;
- `Complete(o)`, that a call has what it answers for of everything before its
  cursor, which turns into `OkMeansComplete` when the cursor is past the end;
- `CauseInv`, that after the reset the flag is set on behalf of the holder of
  the lock, which needs `Serialized`;
- `HeardInv`, that no handler call that is under way was preceded by one that
  began after the cancellation.

For the refinement there is `AckedInv` besides: what a call has had accepted is
a part of what it owes, and the chunk its handler is asked about is the next
one. So an accepted chunk is a new piece of the contract, and a call retires
`ok` exactly when none is missing. The phases of the contract are a function of
`pc`, so most steps are stutters (`SamePhaseInside`).

### Reader sessions over 7z: `SevenZipSessionProofs`

For any sets of operations and of threads that cancel, and any archives,
`TypeOK`, `CancelReachesRunning`, `WearsOutWithCause`, `CancelledHasCause`,
`OkMeansComplete` and `AtMostOneCallAfterCancel` are invariants, and `Spec`
implements `ReaderContract`. The parts of `IInv`:

- `Serialized` and `CallInv`: one operation is inside, and what a call is about
  is settled when it is made;
- `CancelReachesRunning` itself: the progress state holds the context of the
  operation that has `operationLock`, and a state that was cancelled since has
  that context cancelled;
- `CallbackInv`: the callback that the decoder has is that of an extraction that
  is under way or of one that has failed. So a callback that is left over is that
  of a failure, and an abort that comes late meets no callback but its own;
- `AbortInv`: whoever is on the way to `abort()` was asked for a cancellation, so
  that an aborted decoder, and the closed stream that it ends with, have a cause;
- `CauseInv`: a context, and the progress state from its reset on, are cancelled
  on behalf of their own operation, although the flag outlives it;
- `HeardInv`, as for the core, with the report of the completion and the
  consumer of a read as two more calls;
- `GivenInv`: nothing is handed over before the commit, files of the plan while
  it lasts, and for a read the blocks up to the next one; from the commit on all
  that was planned has been decoded. An abort breaks the last part unless
  `Verify` finds it, which is what `OkMeansComplete` is about.

### Extraction by the core: `ExtractionProofs`

For any number of extractors, any prefix-closed set of paths, any archives and
any destination without dangling paths, `TypeOK`, `NoStrayTemp`,
`OldFilesSurvive`, `WritesStayInside` and `AllOkMeansPresent` are invariants and
`Spec` implements `DestinationTree`. Its `IInv` adds

- `ChainInv`: how many components of the required directory were checked, that
  the last of them is no link (it may have been removed meanwhile, but nothing
  ever makes a link: `NoNewLinks`), that only files are written, and that what
  is about to be published is whole. With it the directory in which a temporary
  file is made is a real one, and it stays one since it is in use;
- `KeepInv`: without the replace policy nothing is written to a path where
  something was. The look at the path and the rename are many steps apart; what
  makes it hold is that nobody else removes anything either;
- `PresentInv`: a file that was asked for and is not there is owed by some
  extractor, which fails or publishes one at that path before it succeeds
  (`StillOwes`). This is why the removal before the rename loses nothing when
  everybody succeeds.

A step of `Extraction` maps to one step of `DestinationTree` or to a stutter
(`StepRefines`), with `tree` mapped to itself.

### Extraction by the 7z backend: `SevenZipExtractionProofs`

For any number of extractors and any archives and destinations, `TypeOK`,
`NoTempLeft`, `PublishesWinner`, `OkMeansPresent`, `DamagedOnlyAfterAbort`,
`UnverifiedHasCause` and `UnverifiedCommitsNothing` are invariants, no step
loses anything of the destination (`NothingLost`), and `Spec` implements
`DestinationTree`. The parts of `IInv`:

- `PlanInv` and `SeenInv`: plans are in the order of the archive and name files;
  of the entries of a path that planning has seen it keeps the one that is to
  show, and it keeps none only where the destination has something already;
- `PlaceInv` and `TreeInv`: a plan has its directory, and what is there has its
  parents. Directories of the destination never go (`StaysDirectory`), so what
  planning found is still true at the commit, however long the decoding takes;
- `DecodedInv`: what the decoder has been through is whole unless the verdict
  says more, and a damaged temporary file is the one whose result is still to
  come, or its result was overwritten by an abort;
- `PublishedInv`: who has published something is past its verification.

### ZIP creation: `ZipCreateProofs`

For any lists of inputs, any sizes of volumes (but one cell, which leaves no
room beside the magic number), any kind of path, any names in use, and any
number of volumes, `TypeOK`, `OldFilesSurvive`, `FailedLeavesNothing`,
`VolumesWithinSize`, `LateCancelOnlyIsLost` and `LossHasCause` are invariants.
They speak of the cases in which the code can keep its promise, and the findings
of the rest: `OldFilesSurvive` of archives that are not split, or whose
volumes are where the check looks, in a directory that could be listed
(`Looked`); `FailedLeavesNothing` of the same, with files that can be removed;
`LossHasCause` of creations that opened nothing twice and passed no error over.
The parts of `IInv`:

- `EntryInv`: how far the header and the chunks are at each point;
- `HeardInv`: a cancellation that came before the last progress call finds one
  that is still to come (`MorePolls`), and there is none left when the archive
  is closed in order;
- `SoundInv`: what was there is there unchanged, what the stream has opened is
  there, too, and has none but names that `remove_zip_outputs` deletes, of which
  none was in use. It relates the names `Check` looks at to those the stream
  opens much later, which is what both `OldFilesSurvive` and
  `FailedLeavesNothing` turn on;
- `SizeInv`: as long as no volume was opened twice and nothing was lost, the
  stream is in the last one, there are no gaps before it, what is counted in it
  is at least what it holds, and the volume of the current header has been
  counted in full.

The stream is a value, not a variable of its own: the lemmas about `OpenDisk`,
`Ready`, `Put` and `Seek` (`...Facts`, `...Sound`, `...Fits`) say what each of
them keeps, and the lemmas about actions cite them. What is short after a closing
(`ShortenedSound`, `ClosingsSane`, `PutsSane`, `PutOutSane`) still has the names
it had, which is all that `SoundInv` asks of it.

`LossHasCause` says what a reader gets who begins where the central
directory says and takes one cell after the other: `Complete` follows it
(`Reader`) with the rule of `mz_stream_split_read`, which takes what is there
and, at the end of a volume, goes on to the next. Its invariant is `LaidInv`,
which says of a creation that has not failed, has opened no volume twice and has
lost nothing:

- the stream is at the end of the last of the volumes 0 to `disk`, all of which
  it has opened (`Appending`);
- every entry that was closed has a way from the place in its header through all
  of its cells (`Entries`), and the current one has a way through the cells that
  were written (`Counted`) to where the stream is (`Reaches`, a sequence of
  `Moves`, each to a cell of the same volume or to the first of the next);
- when the archive is closed, the ways are still there and the last cell of the
  output is the central directory (`Finished`).

A step of the writer lets the last volume grow or opens the next one (`Grows`),
which keeps the ways (`ReachesKept`), and makes one of them longer (`PutMoves`,
`WriteLaid`). The checksum of a folder is the exception: it goes back.
`ChecksumKeeps` shows that, unless it opens a volume again, header and stream are
in one volume, what it writes is what was there, and the stream returns to its
place. Without any dot in the path (`~Dotted`) all volumes have the name of the
output, and closing a split archive always opens it again (`NamelessReopens`).
Closing the archive puts the central directory at the end of the output, unless
that closing loses it (`DirectoryLaid`, `CloseLosesNothing`). In the end the reader
goes the way that there is (`MovesOnto`, `ReaderFollows`).

### Opening, listing and reading: `OpeningProofs`, `ListingProofs`

For any files, limits and requests (`Calls`), any headers (`Blocks`) and paths,
and any width of words and size of blocks, `TypeOK`, `WithinLimits`,
`OpenedAsWhatItIs`, `TarAsWritten` and `VolumeSetWhole` are invariants of `Spec`.
The assumptions: calls and blocks have the fields that the model speaks of,
`PathNames` has a path and the absent one, the ratio floor and the largest
metadata are numbers, a block is not empty, the footer of a GZIP file holds a
part of a word (32 bits of 64), and the fields of TAR headers have digits below
their radix, which divides the range of a word (8 and 256 divide 2^64).

Sums and numbers are computed digit by digit and entry by entry. They are
recursive functions, and what they compute is proved by induction over a set of
numbers (`SetInduction`: what has 0, and with each number the next one, has
all), which follows from the well-foundedness of `<` by `WFMin`;
`RecursionExists` says that there is the function that such a definition speaks
of. Both are in `Recursion`. Out of these come the lemmas the proofs need of the algorithms:

- `SumIsExact`: when `validate_archive_limits` finds no error, its sum in words
  is the sum of the sizes, none of its additions having wrapped, and it is
  within the limit, as is each entry (`ArchiveErrorFacts`);
- `NumberFacts`: what `parse_tar_number` returns is a word, or invalid;
- `FitsFacts`: from a header whose data fits, `list_tar` moves on to a place in
  the file, padding that overflows included;
- `TotalsFacts` and `TotalOfMore`: sums grow with their parts, and by as much as
  a chunk adds to one of them.

The parts of `IInv`:

- `PlanOK`: libarchive is the last lister of every plan, and the backend is the
  core's until libarchive succeeds, so no other lister follows its traces;
- `ListOK`: a lister starts with no entries, which is what `Cleared` is there
  for, and `list_tar` in a file that is no TAR archive can come to an end only
  by the two blocks of zeros;
- `OpenInv`: a lister that ends without an error has found what the file is and
  has passed the limits, and so has an archive that was opened;
- `ReadInv`: what came out of each entry is within the limit of an entry and,
  next to what the entries before it declare, within that of the total; an entry
  that declares a size and is over has delivered no more than that. So `base`,
  which `StreamChunkError` adds to what comes out of the current entry, bounds
  what was handed over of the entries before it that declare a size
  (`TotalsBelow`, `LimitedTotal`). It does not bound the others: `WithinLimits`
  leaves them out of the sum (`Limited`), and `TotalIsLimited`, which does not,
  is violated (finding 5).

`ListingProofs` goes on with what was listed. `TarAsWritten` compares the entries
with the headers that were read (`headers`, a history variable): to the header of
an entry belong the last path and the last size that metadata gave since the
entry before (`GivenPath`, `GivenSize`). `list_tar` never looks back, it carries
both along; `TarInv` relates the two:

- `Waiting`: what waits in `tar` is what is given for the next header, whichever
  it will be (`NothingGiven` after an entry, `MoreGiven` after metadata);
- `EntriesUpTo(tar.at)`: the entries are those of the headers so far
  (`EntriesGrow`, `EntriesStay`), and their data ends before the place in the
  file where the next header is looked for.

`NumberIsExact` adds that a number that was accepted is the one that its digits
stand for: the guard of `parse_tar_number` compares with the largest word divided
by the radix, and only since the radix divides the range of a word does it
exclude a wrap by the digit that is added (`NoWrap`).

`VolumeSetWhole` says that the volumes are all that are known, once each and in
order, and the same whichever of them the archive was opened by. The loop of
`resolve` keeps a dictionary; `Holds` says what it has in it after any list of
URLs, in terms of the set of them alone (`AddedAllHolds`). Without duplicates the
dictionary is determined by that set (`HoldsOnce`), so the order of the listing
and the choice of the volume do not matter (`SameVolumes`), and without gaps it
is a sequence (`HoldsInOrder`).

### What is only model-checked

Liveness (`EveryCallReturns`), which the prover does not reach. Every other
property of the runs that pass is a theorem; those of the runs that end in a
counterexample are what the findings are about.

## Not modelled, and why

- Passwords (one more failing branch of `Enter`/`Prepare`), timestamps (no
  control depends on them), link entries of the core (always an error).
- What the libraries find in a file: minizip, UnRAR and libarchive are inputs of
  `Opening`. The text of PAX records and of number fields is data; the model has
  what they give. Ratios are whole numbers where the code has doubles.
- The collecting of ZIP inputs (recursion over directories that may change), and
  the reading of split archives call by call: a field cut by the end of a volume
  reads short.
- ZIP creation: an output that is itself named `.zNN`; files beside the output
  that the check would find for a `hidden` path, though the stream never uses
  them; what the closings of a creation lose that fails anyhow, since only the
  names of its files matter then; a failed write that leaves a part of a cell; a
  seek back that fails unnoticed while it has to open another volume, which
  empties it in any case.
- A crash during a 7z extraction or a ZIP creation: nothing is recovered, and the
  files that stay are those of `Extraction`'s crash or of the volumes written.
- A cancellation that reaches the 7z backend outside the decoding: it is in
  `SevenZipSession`, not in `SevenZipExtraction`.
- The closing of a stream under a running extraction is a data race in the C++
  sense; the model lets the file in progress come out complete or not.
- Filename decoding, error texts, the decompression libraries themselves.

## Plan

1. `ReaderContract`, `ReaderSession`, its properties, proofs and refinement:
   done.
2. `DestinationTree`, `Extraction`, its properties, proofs and refinement: done.
3. `SevenZipSession`, its locks, left-overs, proofs and refinement: done.
4. `SevenZipExtraction`, its properties, proofs and refinement: done.
5. `ZipCreate` with its volumes, its properties and proofs: done.
6. `ArchiveLimits`, `TarListing`, `GzipListing`, `VolumeSet`, `Opening`,
   `LimitedReading`, their properties and proofs: done.
7. Open: a model of `mz_stream_split_read` call by call, for the field of a
   header that two volumes share, and negative numbers in base 256. The error of
   `create_directory` when another extractor was faster is a hazard that no
   property covers, since no document promises anything about it.
