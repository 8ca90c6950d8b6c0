----------------------------- MODULE ReaderSession -----------------------------
(***************************************************************************)
(* The asynchronous operations of one ArchiveReader over the C++ core.     *)
(*                                                                         *)
(* extract(to:), extract(_:to:), read and data each build a callback       *)
(* context, detach a task that holds operationLock for the whole           *)
(* synchronous call, and on cancellation run a closure of two steps:       *)
(* context.cancel() and then self.cancel(), which stores the flag of the   *)
(* SAArchive handle.  The flag belongs to the handle and not to the        *)
(* operation: the core resets it when an operation enters, and any         *)
(* canceller reaches whichever operation is running.                       *)
(*                                                                         *)
(* The decompression loops of the core differ in where they look at the    *)
(* flag; "backend" says which loop the open archive uses.                  *)
(*                                                                         *)
(* A definition that directly precedes the one it varies (ResetForgotten   *)
(* before Reset) is a plausible mistake, kept to show which property       *)
(* notices it; the specification does not use it.                          *)
(***************************************************************************)
EXTENDS Integers, Sequences

CONSTANTS
    Ops,            \* operations issued on the reader, each called at most once
    NoOp,           \* nobody holds operationLock
    Backends,       \* decompression loops to consider
    Archives        \* archives to consider: the number of chunks of each entry

AllBackends == {"tar", "gzip", "libarchive", "zip", "deflate64", "rar"}

ASSUME NoOpAssumption == NoOp \notin Ops
ASSUME BackendsAssumption == Backends \subseteq AllBackends
ASSUME ArchivesAssumption == Archives \subseteq Seq(Nat) \ {<<>>}

VARIABLES
    backend,        \* fixed by swiftarchive_archive_open
    archive,        \* fixed by swiftarchive_archive_open
    operationLock,  \* ArchiveReader.operationLock: its holder
    cancelled,      \* SAArchive::cancelled
    pc,             \* where the detached task of each operation is
    kind,           \* which method of the reader was called
    last,           \* index of the last entry the operation is about
    at, seen,       \* the entry in progress and the chunks of it handed over
    acked,          \* chunks a handler or consumer accepted, <<entry, chunk>>
    skipped,        \* entries left alone by the skip policy
    context,        \* ProgressContext/DataContext.cancelled of each operation
    canceller,      \* progress of the onCancel closure of each operation
    asked,          \* who has asked the operation to stop (history)
    heard,          \* handler calls that began after context was set (history)
    result

fixed == <<backend, archive>>
work == <<kind, last>>
cursor == <<at, seen, acked, skipped>>
cancelVars == <<context, canceller>>
vars == <<fixed, operationLock, cancelled, pc, work, cursor, cancelVars,
          asked, heard, result>>

--------------------------------------------------------------------------------
(* State *)

Kinds == {"extractAll", "extractOne", "read"}
\* Program points at which the task is inside operationLock
Inside == {"enter", "setup", "entry", "chunk", "callback", "handler",
           "aborted", "return"}
Points == {"idle", "queued", "done"} \cup Inside
Results == {"none", "ok", "cancelled", "error"}
Askers == {"task", "handler", "reader"}

FirstZeroBased(k, i) == IF k = "extractAll" THEN 0 ELSE i
First(k, i) == IF k = "extractAll" THEN 1 ELSE i
Targets(o) == First(kind[o], last[o]) .. last[o]
ChunksOf(a, targets) == UNION {{<<i, j>> : j \in 1 .. a[i]} : i \in targets}
Chunks(o) == ChunksOf(archive, Targets(o))

Init ==
    /\ backend \in Backends
    /\ archive \in {a \in Archives : backend = "gzip" => Len(a) = 1}
    /\ operationLock = NoOp
    /\ cancelled = FALSE
    /\ pc = [o \in Ops |-> "idle"]
    /\ kind = [o \in Ops |-> "extractAll"]
    /\ last = [o \in Ops |-> 0]
    /\ at = [o \in Ops |-> 1]
    /\ seen = [o \in Ops |-> 0]
    /\ acked = [o \in Ops |-> {}]
    /\ skipped = [o \in Ops |-> {}]
    /\ context = [o \in Ops |-> FALSE]
    /\ canceller = [o \in Ops |-> "armed"]
    /\ asked = [o \in Ops |-> {}]
    /\ heard = [o \in Ops |-> 0]
    /\ result = [o \in Ops |-> "none"]

--------------------------------------------------------------------------------
(* Where the loops of the core look at the handle's flag *)

\* extract_zip, extract_libarchive and extract_rar look before each entry.
LooksAtEntry(o) ==
    kind[o] = "extractAll" /\ backend \in {"zip", "deflate64", "libarchive", "rar"}

\* Every loop looks before it hands a chunk over; the plain ZIP extraction has
\* decompressed the chunk and written it by then.
WritesFirst(o) == backend = "zip" /\ kind[o] # "read"

\* The loops that test the flag once more when the entry has no data left.
LooksAtEnd(o) ==
    \/ backend \in {"gzip", "libarchive", "deflate64"}
    \/ (backend = "zip" /\ kind[o] = "read")

\* The functions that look after a decoder has failed and then report a
\* cancellation instead of the failure.
FlagHidesFailure(o) == backend = "rar" \/ WritesFirst(o)

\* A failed write makes the data callback return 0, which most loops store as
\* a refusal; the TAR and GZIP extractors then clear the flag again.
FlagAfterFailure(o) ==
    {cancelled} \cup
    (IF kind[o] = "read" THEN {}
     ELSE CASE backend \in {"libarchive", "deflate64"} -> {TRUE}
            [] backend \in {"tar", "gzip"} -> {FALSE}
            [] OTHER -> {})

--------------------------------------------------------------------------------
(* A call on the reader, up to the native entry point *)

Go(o, point) == pc' = [pc EXCEPT ![o] = point]

Call(o) ==
    /\ pc[o] = "idle"
    /\ \E k \in Kinds, i \in 1 .. Len(archive) :
          /\ k = "extractAll" => i = Len(archive)
          /\ kind' = [kind EXCEPT ![o] = k]
          /\ last' = [last EXCEPT ![o] = i]
          /\ at' = [at EXCEPT ![o] = First(k, i)]
    /\ Go(o, "queued")
    /\ UNCHANGED <<fixed, operationLock, cancelled, seen, acked, skipped,
                   cancelVars, asked, heard, result>>

\* An entry of another archive is rejected before the lock is taken.
RejectEntry(o) ==
    /\ pc[o] = "idle"
    /\ Go(o, "done")
    /\ result' = [result EXCEPT ![o] = "error"]
    /\ UNCHANGED <<fixed, operationLock, cancelled, work, cursor, cancelVars,
                   asked, heard>>

UnlockedNever == TRUE
Unlocked == operationLock = NoOp

Lock(o) ==
    /\ pc[o] = "queued"
    /\ Unlocked
    /\ operationLock' = o
    /\ Go(o, "enter")
    /\ UNCHANGED <<fixed, cancelled, work, cursor, cancelVars, asked, heard, result>>

\* The native call returns r; defer unlocks and the task completes.
UnlockForgotten == UNCHANGED operationLock
Unlock == operationLock' = NoOp

Return(o, r) ==
    /\ Go(o, "done")
    /\ result' = [result EXCEPT ![o] = r]
    /\ Unlock
    /\ UNCHANGED <<fixed, work, cursor, cancelVars>>

Fail(o) == Return(o, "error") /\ UNCHANGED <<cancelled, asked, heard>>

\* The loop found the flag set.
StoppedSilently(o) == Return(o, "ok") /\ UNCHANGED <<cancelled, asked, heard>>
Stopped(o) == Return(o, "cancelled") /\ UNCHANGED <<cancelled, asked, heard>>

ResetForgotten == UNCHANGED cancelled
Reset == cancelled' = FALSE

\* Bad arguments and missing passwords are reported before the flag is reset.
Enter(o) ==
    /\ pc[o] = "enter"
    /\ \/ Fail(o)
       \/ /\ Reset
          /\ Go(o, "setup")
          /\ UNCHANGED <<fixed, operationLock, work, cursor, cancelVars,
                         asked, heard, result>>

\* create_directories, opening the archive again, seeking to the entry.
Setup(o) ==
    /\ pc[o] = "setup"
    /\ \/ Fail(o)
       \/ backend = "rar" /\ cancelled /\ Stopped(o)
       \/ /\ Go(o, "entry")
          /\ UNCHANGED <<fixed, operationLock, cancelled, work, cursor,
                         cancelVars, asked, heard, result>>

--------------------------------------------------------------------------------
(* The loops over the entries and over the chunks of an entry *)

NextEntry(o) ==
    /\ at' = [at EXCEPT ![o] = @ + 1]
    /\ seen' = [seen EXCEPT ![o] = 0]
    /\ Go(o, IF at[o] = last[o] THEN "return" ELSE "entry")

\* prepare_output_path fails, or keeps an existing file, or accepts the entry.
\* RAR prepares the path first and decodes a kept entry for its callbacks.
Entry(o) ==
    /\ pc[o] = "entry"
    /\ LET stop == LooksAtEntry(o) /\ cancelled IN
          \/ stop /\ Stopped(o)
          \/ /\ kind[o] # "read" /\ (stop => backend = "rar")
             /\ Fail(o)
          \/ /\ kind[o] # "read" /\ backend # "rar" /\ ~stop
             /\ NextEntry(o)
             /\ skipped' = [skipped EXCEPT ![o] = @ \cup {at[o]}]
             /\ UNCHANGED <<fixed, operationLock, cancelled, work, acked,
                            cancelVars, asked, heard, result>>
          \/ /\ ~stop
             /\ Go(o, "chunk")
             /\ UNCHANGED <<fixed, operationLock, cancelled, work, cursor,
                            cancelVars, asked, heard, result>>

\* Decompress one more chunk and, when extracting, write it.
Chunk(o) ==
    /\ pc[o] = "chunk"
    /\ seen[o] < archive[at[o]]
    /\ \/ cancelled /\ Stopped(o)
       \/ /\ cancelled => WritesFirst(o)
          /\ Return(o, "error")
          /\ cancelled' \in FlagAfterFailure(o)
          /\ UNCHANGED <<asked, heard>>
       \/ /\ ~cancelled
          /\ Go(o, "callback")
          /\ UNCHANGED <<fixed, operationLock, cancelled, work, cursor,
                         cancelVars, asked, heard, result>>

\* The data of the entry has ended: verify it, close it, publish the file.
EndOfEntry(o) ==
    /\ pc[o] = "chunk"
    /\ seen[o] = archive[at[o]]
    /\ LET stop == LooksAtEnd(o) /\ cancelled IN
          \/ (stop \/ (cancelled /\ FlagHidesFailure(o))) /\ Stopped(o)
          \/ ~stop /\ Fail(o)
          \/ /\ ~stop
             /\ NextEntry(o)
             /\ UNCHANGED <<fixed, operationLock, cancelled, work, acked, skipped,
                            cancelVars, asked, heard, result>>

\* The callback returned 0.  The loops of the core store the flag and report
\* a cancellation; rar_callback only makes UnRAR give up.
Refused(o) ==
    IF backend = "rar"
    THEN /\ Go(o, "aborted")
         /\ UNCHANGED <<fixed, operationLock, cancelled, work, cursor,
                        cancelVars, result>>
    ELSE cancelled' = TRUE /\ Return(o, "cancelled")

\* shouldContinue/consume read the context under its lock, then release it.
ContextIgnored(o) == TRUE
ContextAllows(o) == ~context[o]

Callback(o) ==
    /\ pc[o] = "callback"
    /\ \/ ~ContextAllows(o) /\ Refused(o) /\ UNCHANGED <<asked, heard>>
       \/ /\ ContextAllows(o)
          /\ Go(o, "handler")
          /\ UNCHANGED <<fixed, operationLock, cancelled, work, cursor,
                         cancelVars, asked, heard, result>>

\* The caller's progress handler or consumer answers.
Handler(o) ==
    /\ pc[o] = "handler"
    /\ heard' = [heard EXCEPT ![o] = IF context[o] THEN @ + 1 ELSE @]
    /\ \/ /\ Refused(o)
          /\ asked' = [asked EXCEPT ![o] = @ \cup {"handler"}]
       \/ /\ seen' = [seen EXCEPT ![o] = @ + 1]
          /\ acked' = [acked EXCEPT ![o] = @ \cup {<<at[o], seen[o] + 1>>}]
          /\ Go(o, "chunk")
          /\ UNCHANGED <<fixed, operationLock, cancelled, work, at, skipped,
                         cancelVars, asked, result>>

\* UnRAR came back with ERAR_UNKNOWN, which is SA_ERROR_INTERNAL unless the
\* flag of the handle was set in the meantime.
BreakIsSuccess == IF cancelled THEN "cancelled" ELSE "ok"
BreakOutcome == IF cancelled THEN "cancelled" ELSE "error"

RarAborted(o) ==
    /\ pc[o] = "aborted"
    /\ Return(o, BreakOutcome)
    /\ UNCHANGED <<cancelled, asked, heard>>

\* The RAR functions test the flag once more after the last entry; the ZIP and
\* libarchive walks may find that the directory does not end where it should.
Finish(o) ==
    /\ pc[o] = "return"
    /\ \/ Return(o, IF backend = "rar" /\ cancelled THEN "cancelled" ELSE "ok")
       \/ /\ kind[o] = "extractAll" /\ backend \in {"zip", "deflate64", "libarchive"}
          /\ Return(o, "error")
    /\ UNCHANGED <<cancelled, asked, heard>>

--------------------------------------------------------------------------------
(* Cancellation *)

\* ArchiveReader.cancel(): whoever holds the lock is the one it reaches.
StoreCancelled ==
    /\ cancelled' = TRUE
    /\ asked' = [o \in Ops |-> IF o = operationLock
                               THEN asked[o] \cup {"reader"} ELSE asked[o]]

ReaderCancel ==
    /\ StoreCancelled
    /\ UNCHANGED <<fixed, operationLock, pc, work, cursor, cancelVars, heard, result>>

\* First step of onCancel, once the caller's task is cancelled.
CancelContext(o) ==
    /\ pc[o] \notin {"idle", "done"}
    /\ canceller[o] = "armed"
    /\ canceller' = [canceller EXCEPT ![o] = "context"]
    /\ context' = [context EXCEPT ![o] = TRUE]
    /\ asked' = [asked EXCEPT ![o] = @ \cup {"task"}]
    /\ UNCHANGED <<fixed, operationLock, cancelled, pc, work, cursor, heard, result>>

\* Second step of onCancel: it may come when the lock has changed hands.
CancelReader(o) ==
    /\ canceller[o] = "context"
    /\ canceller' = [canceller EXCEPT ![o] = "done"]
    /\ StoreCancelled
    /\ UNCHANGED <<fixed, operationLock, pc, work, cursor, context, heard, result>>

--------------------------------------------------------------------------------

Step(o) ==
    \/ Lock(o) \/ Enter(o) \/ Setup(o) \/ Entry(o) \/ Chunk(o) \/ EndOfEntry(o)
    \/ Callback(o) \/ Handler(o) \/ RarAborted(o) \/ Finish(o)

Next ==
    \/ \E o \in Ops :
          Call(o) \/ RejectEntry(o) \/ Step(o) \/ CancelContext(o) \/ CancelReader(o)
    \/ ReaderCancel

Spec == Init /\ [][Next]_vars

\* Threads of the detached tasks keep running and handlers return; nothing
\* obliges a task to call, to be cancelled, or a handler to accept.
FairSpec == Spec /\ \A o \in Ops : WF_vars(Step(o))

===============================================================================
