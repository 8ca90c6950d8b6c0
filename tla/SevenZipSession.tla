---------------------------- MODULE SevenZipSession ----------------------------
(***************************************************************************)
(* The operations of one ArchiveReader over SevenZipBackend and the PLzma  *)
(* decoder, with the four locks their threads meet at: operationLock, the  *)
(* lock of SevenZipProgressState (only held for single steps here), the    *)
(* mutex of DecoderImpl and the mutex of the ExtractCallback that every    *)
(* extraction makes anew.  The mutexes are std::mutex: a thread that locks *)
(* one it holds waits for itself.                                          *)
(*                                                                         *)
(* The decoder reports progress while it holds the mutex of the callback.  *)
(* Whoever cancels calls DecoderImpl::abort, which locks the decoder and,  *)
(* inside, the callback.  One Task runs for each operation, one OnCancel   *)
(* closure stands by for it, and Callers call cancel() on the reader.      *)
(*                                                                         *)
(* A definition that directly precedes the one it varies is a plausible    *)
(* mistake and not part of the specification.                              *)
(***************************************************************************)
EXTENDS Integers, Sequences, FiniteSets

CONSTANTS
    Ops,            \* operations issued on the reader, each called at most once
    NoOp,
    Callers,        \* threads that call ArchiveReader.cancel(), each once
    Archives        \* archives to consider: the blocks of 128 KiB in each file

ASSUME NoOpAssumption == NoOp \notin Ops
ASSUME ArchivesAssumption == Archives \subseteq Seq(Nat) \ {<<>>}

Task(o) == <<"task", o>>
OnCancel(o) == <<"onCancel", o>>
Caller(c) == <<"caller", c>>
Tasks == {Task(o) : o \in Ops}
Cancellers == {OnCancel(o) : o \in Ops} \cup {Caller(c) : c \in Callers}
Threads == Tasks \cup Cancellers
Free == <<"free", NoOp>>

VARIABLES
    archive,        \* SevenZipBackend.entries, the files among them
    operationLock,  \* ArchiveReader.operationLock: the operation that holds it
    decoderMutex,   \* DecoderImpl::_mutex: the thread that holds it
    callbackMutex,  \* ExtractCallback::_mutex of each operation's callback
    current,        \* SevenZipProgressState.context: whose it is
    wasCancelled,   \* SevenZipProgressState.cancelled
    callback,       \* DecoderImpl::_extractCallback: whose it is
    verdict,        \* ExtractCallback::_result of each operation's callback
    aborted,        \* DecoderImpl::_aborted
    closed,         \* the input stream of the decoder is closed
    pc, kind, last, \* the task, the method called, the last entry it is about
    waived,         \* entries that are not planned or not committed (skip)
    written,        \* entries whose temporary file is complete
    begun,          \* GetStream was called for the next entry
    given,          \* files committed <<i, 0>> and blocks consumed <<i, j>>
    context,        \* ProgressContext/DataContext.cancelled of each operation
    stage, moved,   \* a thread inside cancel(): where, with whose callback
    asked,          \* operations somebody has asked to stop (history)
    heard,          \* handler calls that began after context was set (history)
    result

readerVars == <<archive, operationLock>>
progressVars == <<current, wasCancelled, context>>
decoderVars == <<decoderMutex, callback, aborted, closed>>
callbackVars == <<callbackMutex, verdict>>
work == <<kind, last, waived, written, begun, given>>
abortVars == <<stage, moved>>
history == <<asked, heard>>
vars == <<readerVars, progressVars, decoderVars, callbackVars, pc, work,
          abortVars, history, result>>

--------------------------------------------------------------------------------

Inside == {"prepare", "begin", "process", "unusable", "decode", "report",
           "handler", "refused", "answered", "extracted", "verify", "commit",
           "complete", "completing", "consume", "consumer"}
Points == {"idle", "queued", "done"} \cup Inside
Kinds == {"extractAll", "extractOne", "read"}
Stages == {"armed", "state", "abort", "abortCallback", "none"}

TargetsZeroBased(o) == (IF kind[o] = "extractAll" THEN 0 ELSE last[o]) .. last[o]
Targets(o) == (IF kind[o] = "extractAll" THEN 1 ELSE last[o]) .. last[o]
Plan(o) == Targets(o) \ waived[o]
Blocks(a, i) == {<<i, j>> : j \in 1 .. a[i]}
Owed(o) == IF kind[o] = "read" THEN Blocks(archive, last[o])
           ELSE {<<i, 0>> : i \in Plan(o)}

Init ==
    /\ archive \in Archives
    /\ operationLock = NoOp
    /\ decoderMutex = Free
    /\ callbackMutex = [o \in Ops |-> Free]
    /\ current = NoOp
    /\ wasCancelled = FALSE
    /\ callback = NoOp
    /\ verdict = [o \in Ops |-> "ok"]
    /\ aborted = FALSE
    /\ closed = FALSE
    /\ pc = [o \in Ops |-> "idle"]
    /\ kind = [o \in Ops |-> "extractAll"]
    /\ last = [o \in Ops |-> 0]
    /\ waived = [o \in Ops |-> {}]
    /\ written = [o \in Ops |-> {}]
    /\ begun = [o \in Ops |-> FALSE]
    /\ given = [o \in Ops |-> {}]
    /\ context = [o \in Ops |-> FALSE]
    /\ stage = [t \in Threads |-> CASE t \in Tasks -> "none"
                                   [] t \in {OnCancel(o) : o \in Ops} -> "armed"
                                   [] OTHER -> "state"]
    /\ moved = [t \in Threads |-> NoOp]
    /\ asked = {}
    /\ heard = [o \in Ops |-> 0]
    /\ result = [o \in Ops |-> "none"]

--------------------------------------------------------------------------------
(* A call, up to the extraction by the decoder *)

Go(o, point) == pc' = [pc EXCEPT ![o] = point]

Call(o) ==
    /\ pc[o] = "idle"
    /\ \E k \in Kinds, i \in 1 .. Len(archive) :
          /\ k = "extractAll" => i = Len(archive)
          /\ kind' = [kind EXCEPT ![o] = k]
          /\ last' = [last EXCEPT ![o] = i]
    /\ Go(o, "queued")
    /\ UNCHANGED <<readerVars, progressVars, decoderVars, callbackVars, waived,
                   written, begun, given, abortVars, history, result>>

\* An entry of another archive is rejected before the lock is taken.
RejectEntry(o) ==
    /\ pc[o] = "idle"
    /\ Go(o, "done")
    /\ result' = [result EXCEPT ![o] = "error"]
    /\ UNCHANGED <<readerVars, progressVars, decoderVars, callbackVars, work,
                   abortVars, history>>

UnlockedNever == TRUE
Unlocked == operationLock = NoOp

Lock(o) ==
    /\ pc[o] = "queued"
    /\ Unlocked
    /\ operationLock' = o
    /\ Go(o, "prepare")
    /\ UNCHANGED <<archive, progressVars, decoderVars, callbackVars, work,
                   abortVars, history, result>>

\* progressState.end(), the removal of what is left of the temporary files,
\* and the unlocking of operationLock.
EndForgotten == UNCHANGED current
End == current' = NoOp

Return(o, r) ==
    /\ Go(o, "done")
    /\ result' = [result EXCEPT ![o] = r]
    /\ End
    /\ operationLock' = NoOp
    /\ UNCHANGED <<archive, wasCancelled, context, decoderVars, callbackVars,
                   work, abortVars>>

Fail(o) == Return(o, "error") /\ UNCHANGED history
Cancelled(o) == Return(o, "cancelled") /\ UNCHANGED history

Waivable(o) == IF kind[o] = "read" THEN {{}} ELSE SUBSET Targets(o)

\* Passwords, the context of an extraction, the directories and the plan.
Prepare(o) ==
    /\ pc[o] = "prepare"
    /\ \/ Fail(o)
       \/ kind[o] # "read" /\ context[o] /\ Cancelled(o)
       \/ /\ kind[o] # "read" => ~context[o]
          /\ \E w \in Waivable(o) :
                /\ waived' = [waived EXCEPT ![o] = w]
                /\ Go(o, IF w = Targets(o) THEN "complete" ELSE "begin")
          /\ UNCHANGED <<readerVars, progressVars, decoderVars, callbackVars,
                         kind, last, written, begun, given, abortVars,
                         history, result>>

ForgetSkipped == UNCHANGED wasCancelled
Forget == wasCancelled' = FALSE

\* The streams are opened and progressState.begin(context) is called; read
\* extracts without a context.
Begin(o) ==
    /\ pc[o] = "begin"
    /\ \/ Fail(o)
       \/ /\ current' = IF kind[o] = "read" THEN NoOp ELSE o
          /\ Forget
          /\ Go(o, "process")
          /\ UNCHANGED <<readerVars, context, decoderVars, callbackVars, work,
                         abortVars, history, result>>

\* DecoderImpl::process refuses to start while a callback is registered.
Process(o) ==
    /\ pc[o] = "process"
    /\ decoderMutex = Free
    /\ IF callback = NoOp
       THEN callback' = o /\ Go(o, "decode")
       ELSE Go(o, "unusable") /\ UNCHANGED callback
    /\ UNCHANGED <<readerVars, progressVars, decoderMutex, aborted, closed,
                   callbackVars, work, abortVars, history, result>>

Unusable(o) ==
    /\ pc[o] = "unusable"
    /\ IF (kind[o] # "read" /\ context[o]) \/ wasCancelled
       THEN Cancelled(o) ELSE Fail(o)

--------------------------------------------------------------------------------
(* ExtractCallback::process on the task's thread *)

\* The file begun last is decoded and its temporary file closed.  A stream that
\* was closed before the start gives only what needs no input; one that a second
\* abort closes under way may have been read far enough.
Decode(o) ==
    /\ pc[o] = "decode"
    /\ begun[o]
    /\ \E i \in Plan(o) \ written[o] :
          /\ \A j \in Plan(o) \ written[o] : i <= j
          /\ closed => archive[i] = 0 \/ verdict[o] = "abort"
          /\ written' = [written EXCEPT ![o] = @ \cup {i}]
    /\ begun' = [begun EXCEPT ![o] = FALSE]
    /\ UNCHANGED <<readerVars, progressVars, decoderVars, callbackVars, pc, kind,
                   last, waived, given, abortVars, history, result>>

\* Damaged data, a wrong password or a failed write: the exception leaves the
\* callback registered in the decoder.
DecodeFails(o) ==
    /\ pc[o] = "decode"
    /\ verdict[o] = "ok"
    /\ Fail(o)

\* GetStream of the next file, or finish() when there is none, reports with
\* the mutex of the callback held, and not at all once it was aborted.
Report(o) ==
    /\ pc[o] = "decode"
    /\ ~begun[o]
    /\ callbackMutex[o] = Free
    /\ verdict[o] = "ok"
    /\ callbackMutex' = [callbackMutex EXCEPT ![o] = Task(o)]
    /\ begun' = [begun EXCEPT ![o] = TRUE]
    /\ Go(o, "report")
    /\ UNCHANGED <<readerVars, progressVars, decoderVars, verdict, kind, last,
                   waived, written, given, abortVars, history, result>>

ContextIgnored(o) == TRUE
ContextAllows(o) == ~context[o]

\* SevenZipProgressState.report
Consult(o) ==
    /\ pc[o] = "report"
    /\ Go(o, CASE current = NoOp -> "answered"
               [] current # NoOp /\ ContextAllows(o) -> "handler"
               [] current # NoOp /\ ~ContextAllows(o) -> "refused")
    /\ UNCHANGED <<readerVars, progressVars, decoderVars, callbackVars, work,
                   abortVars, history, result>>

Hear(o) == heard' = [heard EXCEPT ![o] = IF context[o] THEN @ + 1 ELSE @]

Handler(o) ==
    /\ pc[o] = "handler"
    /\ Hear(o)
    /\ \/ Go(o, "answered") /\ UNCHANGED asked
       \/ Go(o, "refused") /\ asked' = asked \cup {o}
    /\ UNCHANGED <<readerVars, progressVars, decoderVars, callbackVars, work,
                   abortVars, result>>

\* progressState.cancel(), which also cancels the context it holds.
CancelState ==
    /\ wasCancelled' = TRUE
    /\ context' = [o \in Ops |-> context[o] \/ o = current]
    /\ UNCHANGED current

\* The handler or the context said no: report cancels and calls abort() from
\* inside the report.
Refuse(o) ==
    /\ pc[o] = "refused"
    /\ CancelState
    /\ stage' = [stage EXCEPT ![Task(o)] = "abort"]
    /\ Go(o, "answered")
    /\ UNCHANGED <<readerVars, decoderVars, callbackVars, work, moved, history, result>>

\* The report returns, and with it the callback's method.
Answered(o) ==
    /\ pc[o] = "answered"
    /\ stage[Task(o)] = "none"
    /\ callbackMutex' = [callbackMutex EXCEPT ![o] = Free]
    /\ Go(o, "decode")
    /\ UNCHANGED <<readerVars, progressVars, decoderVars, verdict, work,
                   abortVars, history, result>>

\* The archive is through, or E_ABORT came back; neither is an exception.
Extracted(o) ==
    /\ pc[o] = "decode"
    /\ written[o] = Plan(o) \/ verdict[o] = "abort"
    /\ Go(o, "extracted")
    /\ UNCHANGED <<readerVars, progressVars, decoderVars, callbackVars, work,
                   abortVars, history, result>>

\* The rest of DecoderImpl::process: the callback is dropped.
DropForgotten == UNCHANGED callback
Drop == callback' = NoOp

Processed(o) ==
    /\ pc[o] = "extracted"
    /\ decoderMutex = Free
    /\ Drop
    /\ closed' = (closed \/ aborted)
    /\ Go(o, "verify")
    /\ UNCHANGED <<readerVars, progressVars, decoderMutex, aborted, callbackVars,
                   work, abortVars, history, result>>

--------------------------------------------------------------------------------
(* The rest of SevenZipBackend.extract and of read *)

\* Every planned file must be there and have the size of its entry: what was
\* aborted is told from what is complete by nothing else.
Verified(o) == Plan(o) \subseteq written[o]

Verify(o) ==
    /\ pc[o] = "verify"
    /\ \/ Fail(o)
       \/ /\ Verified(o)
          /\ Go(o, "commit")
          /\ UNCHANGED <<readerVars, progressVars, decoderVars, callbackVars,
                         work, abortVars, history, result>>

UncommittedButLast(o) == {i \in Plan(o) : i < last[o] /\ <<i, 0>> \notin given[o]}
Uncommitted(o) == {i \in Plan(o) : <<i, 0>> \notin given[o]}

\* The plans are committed one after the other; a file that has appeared in
\* the meantime is kept under the skip policy.
Commit(o) ==
    /\ pc[o] = "commit"
    /\ \/ Fail(o)
       \/ /\ IF kind[o] = "read" \/ Uncommitted(o) = {}
             THEN /\ Go(o, IF kind[o] = "read" THEN "consume" ELSE "complete")
                  /\ UNCHANGED <<waived, given>>
             ELSE \E i \in Uncommitted(o) :
                     /\ \A j \in Uncommitted(o) : i <= j
                     /\ \/ /\ given' = [given EXCEPT ![o] = @ \cup {<<i, 0>>}]
                           /\ UNCHANGED waived
                        \/ /\ waived' = [waived EXCEPT ![o] = @ \cup {i}]
                           /\ UNCHANGED given
                     /\ UNCHANGED pc
          /\ UNCHANGED <<readerVars, progressVars, decoderVars, callbackVars, kind,
                         last, written, begun, abortVars, history, result>>

\* reportCompletion: the handler is told, its answer is not looked at.
Complete(o) ==
    /\ pc[o] = "complete"
    /\ \/ ~ContextAllows(o) /\ Return(o, "ok") /\ UNCHANGED history
       \/ /\ ContextAllows(o)
          /\ Go(o, "completing")
          /\ UNCHANGED <<readerVars, progressVars, decoderVars, callbackVars,
                         work, abortVars, history, result>>

Completing(o) ==
    /\ pc[o] = "completing"
    /\ Return(o, "ok")
    /\ Hear(o)
    /\ UNCHANGED asked

\* read hands the blocks of the extracted file to the consumer.
NextBlock(o) == <<last[o], Cardinality(given[o]) + 1>>

Consume(o) ==
    /\ pc[o] = "consume"
    /\ \/ ~ContextAllows(o) /\ Cancelled(o)
       \/ Fail(o)
       \/ /\ ContextAllows(o)
          /\ IF given[o] = Owed(o)
             THEN Return(o, "ok") /\ UNCHANGED history
             ELSE /\ Go(o, "consumer")
                  /\ UNCHANGED <<readerVars, progressVars, decoderVars,
                                 callbackVars, work, abortVars, history, result>>

Consumer(o) ==
    /\ pc[o] = "consumer"
    /\ Hear(o)
    /\ \/ /\ Return(o, "cancelled")
          /\ asked' = asked \cup {o}
       \/ /\ given' = [given EXCEPT ![o] = @ \cup {NextBlock(o)}]
          /\ Go(o, "consume")
          /\ UNCHANGED <<readerVars, progressVars, decoderVars, callbackVars, kind,
                         last, waived, written, begun, abortVars, asked, result>>

--------------------------------------------------------------------------------
(* ArchiveReader.cancel() and DecoderImpl::abort *)

AskHolder == asked' = asked \cup ({operationLock} \ {NoOp})

\* First step of onCancel.
CancelContext(o) ==
    /\ pc[o] \notin {"idle", "done"}
    /\ stage[OnCancel(o)] = "armed"
    /\ stage' = [stage EXCEPT ![OnCancel(o)] = "state"]
    /\ context' = [context EXCEPT ![o] = TRUE]
    /\ asked' = asked \cup {o}
    /\ UNCHANGED <<readerVars, current, wasCancelled, decoderVars, callbackVars,
                   pc, work, moved, heard, result>>

\* SevenZipBackend.cancel() of a closure or of somebody who calls cancel().
Cancel(t) ==
    /\ stage[t] = "state"
    /\ stage' = [stage EXCEPT ![t] = "abort"]
    /\ CancelState
    /\ AskHolder
    /\ UNCHANGED <<readerVars, decoderVars, callbackVars, pc, work, moved, heard, result>>

\* abort() locks the decoder and takes the callback out of it.
AbortDecoder(t) ==
    /\ stage[t] = "abort"
    /\ decoderMutex = Free
    /\ aborted' = TRUE
    /\ callback' = NoOp
    /\ IF callback = NoOp
       THEN /\ closed' = TRUE
            /\ stage' = [stage EXCEPT ![t] = "none"]
            /\ UNCHANGED <<decoderMutex, moved>>
       ELSE /\ decoderMutex' = t
            /\ moved' = [moved EXCEPT ![t] = callback]
            /\ stage' = [stage EXCEPT ![t] = "abortCallback"]
            /\ UNCHANGED closed
    /\ AskHolder
    /\ UNCHANGED <<readerVars, progressVars, callbackVars, pc, work, heard, result>>

\* ExtractCallback::abort, still inside the decoder's mutex.
AbortCallback(t) ==
    /\ stage[t] = "abortCallback"
    /\ callbackMutex[moved[t]] = Free
    /\ verdict' = [verdict EXCEPT ![moved[t]] = "abort"]
    /\ decoderMutex' = Free
    /\ moved' = [moved EXCEPT ![t] = NoOp]
    /\ stage' = [stage EXCEPT ![t] = "none"]
    /\ UNCHANGED <<readerVars, progressVars, callback, aborted, closed,
                   callbackMutex, pc, work, history, result>>

--------------------------------------------------------------------------------

Step(o) ==
    \/ Lock(o) \/ Prepare(o) \/ Begin(o) \/ Process(o) \/ Unusable(o)
    \/ Decode(o) \/ DecodeFails(o) \/ Report(o) \/ Consult(o) \/ Handler(o)
    \/ Refuse(o) \/ Answered(o) \/ Extracted(o) \/ Processed(o) \/ Verify(o)
    \/ Commit(o) \/ Complete(o) \/ Completing(o) \/ Consume(o) \/ Consumer(o)

Next ==
    \/ \E o \in Ops : Call(o) \/ RejectEntry(o) \/ Step(o) \/ CancelContext(o)
    \/ \E t \in Cancellers : Cancel(t)
    \/ \E t \in Threads : AbortDecoder(t) \/ AbortCallback(t)

Spec == Init /\ [][Next]_vars

================================================================================
