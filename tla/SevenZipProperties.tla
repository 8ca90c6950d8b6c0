--------------------------- MODULE SevenZipProperties ---------------------------
(***************************************************************************)
(* What must hold of the sessions of an ArchiveReader over the 7z backend. *)
(***************************************************************************)
EXTENDS SevenZipSession

\* Every variable keeps its type.
TypeOK ==
    /\ archive \in Archives
    /\ operationLock \in Ops \cup {NoOp}
    /\ decoderMutex \in Threads \cup {Free}
    /\ callbackMutex \in [Ops -> Threads \cup {Free}]
    /\ current \in Ops \cup {NoOp}
    /\ wasCancelled \in BOOLEAN
    /\ callback \in Ops \cup {NoOp}
    /\ verdict \in [Ops -> {"ok", "abort"}]
    /\ aborted \in BOOLEAN /\ closed \in BOOLEAN
    /\ pc \in [Ops -> Points]
    /\ kind \in [Ops -> Kinds]
    /\ last \in [Ops -> 0 .. Len(archive)]
    /\ waived \in [Ops -> SUBSET (1 .. Len(archive))]
    /\ written \in [Ops -> SUBSET (1 .. Len(archive))]
    /\ begun \in [Ops -> BOOLEAN]
    /\ given \in [Ops -> SUBSET (Nat \X Nat)]
    /\ context \in [Ops -> BOOLEAN]
    /\ stage \in [Threads -> Stages]
    /\ moved \in [Threads -> Ops \cup {NoOp}]
    /\ asked \subseteq Ops
    /\ heard \in [Ops -> Nat]
    /\ result \in [Ops -> {"none", "ok", "cancelled", "error"}]

\* The progress state only ever holds the context of the operation that holds
\* operationLock, whatever way the earlier ones ended, and once the state was
\* cancelled since that operation reset it, its context is cancelled as well:
\* a cancellation of the reader marks the running operation until it is over
\* and nobody who comes later.
CancelReachesRunning ==
    current # NoOp => /\ operationLock = current
                      /\ wasCancelled => context[current]

\* A reader wears out only with a cause.  What DecoderImpl::process refuses
\* because a callback is still registered, a call that failed has left behind;
\* and the decoder is aborted, which closes its stream for good at the latest
\* when the extraction ends, only after an operation was told to stop or
\* somebody else has called cancel(), whether a call was running or not.
WearsOutWithCause ==
    /\ callback # NoOp => operationLock = callback \/ result[callback] = "error"
    /\ aborted \/ closed => asked # {} \/ \E c \in Callers : stage[Caller(c)] # "state"

\* A call that succeeds has committed every file it planned and kept, and a
\* read has handed over every block, and what it committed or handed over was
\* decoded to its end: an aborted extraction, which the decoder reports as
\* done, is not taken for a complete one.
OkMeansComplete ==
    \A o \in Ops : result[o] = "ok" => given[o] = Owed(o) /\ Plan(o) \subseteq written[o]

\* Only somebody who asked is told "cancelled", although the flag of the
\* progress state and the aborted decoder outlive the call they were meant for.
CancelledHasCause == \A o \in Ops : result[o] = "cancelled" => o \in asked

\* A handler or consumer is called at most once after the context was
\* cancelled, the report of the completion included.
AtMostOneCallAfterCancel == \A o \in Ops : heard[o] <= 1

\* A handler may refuse, and a cancelled context may be noticed, in a report
\* of the decoder without the task waiting for itself.  ExtractCallback holds
\* its mutex while it reports, and abort() locks that mutex again.
RefusalNeverBlocks ==
    \A o \in Ops : stage[Task(o)] = "abortCallback"
        => callbackMutex[moved[Task(o)]] # Task(o)

\* cancel() may be called from any thread while an operation runs.  It locks
\* the decoder and then the callback; a task that notices the cancellation
\* holds the callback and locks the decoder.
CancelNeverBlocks ==
    \A o \in Ops, t \in Cancellers :
        ~ /\ stage[t] = "abortCallback" /\ moved[t] = o
          /\ callbackMutex[o] = Task(o) /\ stage[Task(o)] = "abort"

\* What an operation of the session is to the contract: files and blocks are
\* the pieces it owes from the moment it is called.
Phase(point) ==
    CASE point = "queued" -> "waiting"
      [] point \in Inside -> "active"
      [] OTHER -> point
phase == [o \in Ops |-> Phase(pc[o])]
owed == [o \in Ops |-> IF last[o] = 0 THEN {} ELSE Owed(o)]
AllPieces == UNION {UNION {{<<i, j>> : j \in 0 .. a[i]} : i \in DOMAIN a} : a \in Archives}

\* The session implements the contract every backend shares.
Contract == INSTANCE ReaderContract WITH
    Pieces <- AllPieces, asked <- asked, outcome <- result

ImplementsContract == Contract!Spec

=================================================================================
