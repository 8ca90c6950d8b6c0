------------------------ MODULE ReaderSessionProperties ------------------------
(***************************************************************************)
(* What must hold of the sessions of an ArchiveReader over the C++ core.   *)
(***************************************************************************)
EXTENDS ReaderSession

\* Every variable keeps its type, and the cursors stay inside the archive.
TypeOK ==
    /\ backend \in AllBackends
    /\ archive \in Seq(Nat) \ {<<>>}
    /\ operationLock \in Ops \cup {NoOp}
    /\ cancelled \in BOOLEAN
    /\ pc \in [Ops -> Points]
    /\ kind \in [Ops -> Kinds]
    /\ last \in [Ops -> 0 .. Len(archive)]
    /\ at \in [Ops -> 1 .. Len(archive) + 1]
    /\ seen \in [Ops -> Nat]
    /\ acked \in [Ops -> SUBSET (Nat \X Nat)]
    /\ skipped \in [Ops -> SUBSET Nat]
    /\ context \in [Ops -> BOOLEAN]
    /\ canceller \in [Ops -> {"armed", "context", "done"}]
    /\ asked \in [Ops -> SUBSET Askers]
    /\ heard \in [Ops -> Nat]
    /\ result \in [Ops -> Results]

\* "An ArchiveReader serializes its operations": a task is between lock and
\* unlock of operationLock exactly when it is the holder, on every path out of
\* the native calls.
Serialized == \A o \in Ops : pc[o] \in Inside <=> operationLock = o

\* A call that succeeds has had every chunk of every entry it was asked for
\* accepted by its handler or consumer, except the entries the skip policy
\* left alone: no cancellation, early or late, makes data(for:) return a
\* truncated value or extract return with files missing.
OkMeansComplete ==
    \A o \in Ops : result[o] = "ok" =>
        {p \in Chunks(o) : p[1] \notin skipped[o]} \subseteq acked[o]

\* A call reports a cancellation only if its own handler refused, its own task
\* was cancelled, or the reader was cancelled while the call held the lock:
\* what was stored in the handle's flag for an earlier operation is forgotten.
CancelledHasCause ==
    \A o \in Ops : result[o] = "cancelled" => asked[o] # {}

\* Once the task of a call is cancelled its handler is called at most once
\* more: the call that had read the context just before.  This holds although
\* the native flag may be reset after the cancellation or never set.
AtMostOneCallAfterCancel == \A o \in Ops : heard[o] <= 1

\* Every call that reached the queue returns: operationLock is released on
\* every path, and no loop waits for the one who cancels it.
EveryCallReturns == \A o \in Ops : pc[o] = "queued" ~> pc[o] = "done"

\* Cancelling the reader while a call holds operationLock stops that call: its
\* handler gets no further chunk.  The cancellation is lost when it comes
\* before the native function has reset the flag.
ReaderCancelStopsCall ==
    [][\A o \in Ops : pc[o] = "chunk" /\ "reader" \in asked[o] => pc'[o] # "callback"]_vars

\* What a call is to the contract: the chunks of its entries are the pieces it
\* owes, but for the entries the skip policy leaves alone, and whatever has asked
\* it to stop counts as one.
Phase(point) ==
    CASE point = "queued" -> "waiting"
      [] point \in Inside -> "active"
      [] OTHER -> point
phase == [o \in Ops |-> Phase(pc[o])]
Owed(o) == {p \in Chunks(o) : p[1] \notin skipped[o]}
owed == [o \in Ops |-> Owed(o)]
stopped == {o \in Ops : asked[o] # {}}
AllPieces == UNION {ChunksOf(a, DOMAIN a) : a \in Archives}

\* The session implements the contract every backend shares.
Contract == INSTANCE ReaderContract WITH
    Pieces <- AllPieces, given <- acked, asked <- stopped, outcome <- result

ImplementsContract == Contract!Spec

===============================================================================
