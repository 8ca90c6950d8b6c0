------------------------- MODULE SevenZipSessionProofs -------------------------
(***************************************************************************)
(* The sessions over the 7z backend keep their promises for any number of  *)
(* operations and cancelling threads and for any archives.  The inductive  *)
(* invariant adds to the properties who holds operationLock, whose         *)
(* callback the decoder may still have, on whose behalf the two flags are  *)
(* set, and how much of what it owes a call has handed over at each step.  *)
(***************************************************************************)
EXTENDS SevenZipProperties, FiniteSetTheorems, FunctionTheorems, TLAPS

\* An operation is inside exactly while it holds operationLock.
Serialized == \A o \in Ops : pc[o] \in Inside <=> operationLock = o

\* What a call is about is settled when it is made.
Ended == {"idle", "done"}
CallInv == \A o \in Ops :
    /\ pc[o] \notin Ended => last[o] \in 1 .. Len(archive)
    /\ kind[o] = "extractAll" /\ pc[o] \notin Ended => last[o] = Len(archive)
    /\ last[o] = 0 => given[o] = {}
    /\ pc[o] = "idle" => last[o] = 0
    /\ pc[o] \in {"idle", "queued", "prepare"} => waived[o] = {}
    /\ pc[o] # "done" => result[o] = "none"

\* The decoder has the callback of an extraction that is under way, or of one
\* that has failed.
Extracting == {"decode", "report", "handler", "refused", "answered", "extracted"}
CallbackInv == callback # NoOp =>
    \/ pc[callback] \in Extracting
    \/ pc[callback] = "done" /\ result[callback] = "error"

\* The context of an operation, and the progress state once it was reset for
\* the operation, are only cancelled on its behalf.
CauseInv == \A o \in Ops :
    /\ context[o] => o \in asked
    /\ wasCancelled /\ pc[o] \in {"process", "unusable"} => o \in asked
    /\ pc[o] = "refused" => o \in asked

\* The call of a handler or consumer that is about to be made is never the
\* second one after the cancellation.
HeardInv == \A o \in Ops :
    heard[o] # 0 => /\ heard[o] = 1 /\ context[o]
                    /\ pc[o] \notin {"handler", "completing", "consumer"}

\* What a call has handed over: nothing before it commits, files of its plan
\* while it commits, all of them when it is complete, and for a read the blocks
\* up to the next one.
Handed(o, n) == {<<last[o], j>> : j \in 1 .. n}
GivenOK(o) ==
    /\ pc[o] \notin {"commit", "complete", "completing", "consume", "consumer", "done"}
          => given[o] = {}
    /\ pc[o] = "commit" =>
          IF kind[o] = "read" THEN given[o] = {} ELSE given[o] \subseteq Owed(o)
    /\ pc[o] \in {"complete", "completing"} => kind[o] # "read" /\ given[o] = Owed(o)
    /\ pc[o] \in {"consume", "consumer"} =>
          /\ kind[o] = "read"
          /\ \E n \in 0 .. archive[last[o]] :
                given[o] = Handed(o, n) /\ (pc[o] = "consumer" => n < archive[last[o]])
    /\ pc[o] \in {"commit", "complete", "completing", "consume", "consumer"}
          => Plan(o) \subseteq written[o]
    /\ result[o] = "ok" => given[o] = Owed(o) /\ Plan(o) \subseteq written[o]
GivenInv == \A o \in Ops : GivenOK(o)

\* A thread is only past the start of cancel() for an operation that was told to
\* stop, or because somebody called it, and nobody else aborts the decoder.
Wanted == asked # {} \/ \E c \in Callers : stage[Caller(c)] # "state"
AbortInv ==
    /\ \A o \in Ops : stage[Task(o)] # "none" => o \in asked
    /\ \A o \in Ops : stage[OnCancel(o)] # "armed" => o \in asked
    /\ aborted \/ closed => Wanted

IInv ==
    /\ TypeOK /\ Serialized /\ CallInv /\ CancelReachesRunning
    /\ CallbackInv /\ CauseInv /\ CancelledHasCause /\ AbortInv /\ HeardInv
    /\ GivenInv

--------------------------------------------------------------------------------
(* What the helpers return *)

LEMMA HandedFacts ==
    ASSUME NEW o \in Ops, NEW n \in Nat
    PROVE  /\ IsFiniteSet(Handed(o, n)) /\ Cardinality(Handed(o, n)) = n
           /\ Handed(o, n + 1) = Handed(o, n) \cup {<<last[o], n + 1>>}
<1> DEFINE f == [j \in 1 .. n |-> <<last[o], j>>]
<1>1. IsFiniteSet(1 .. n) /\ Cardinality(1 .. n) = n
  BY FS_Interval
<1>2. f \in Bijection(1 .. n, Handed(o, n))
  <2>1. f \in [1 .. n -> Handed(o, n)]
    BY DEF Handed
  <2>2. \A i, j \in 1 .. n : f[i] = f[j] => i = j
    OBVIOUS
  <2>3. \A p \in Handed(o, n) : \E j \in 1 .. n : f[j] = p
    BY DEF Handed
  <2> QED
    BY <2>1, <2>2, <2>3, Fun_IsBij
<1>3. ExistsBijection(1 .. n, Handed(o, n))
  BY <1>2, Fun_ExistsBij
<1>4. Handed(o, n + 1) = Handed(o, n) \cup {<<last[o], n + 1>>}
  <2>1. 1 .. n + 1 = (1 .. n) \cup {n + 1}
    OBVIOUS
  <2> QED
    BY <2>1 DEF Handed
<1> QED
  BY <1>1, <1>3, <1>4, FS_Bijection

\* A call is about entries of the archive, and at least one.
LEMMA TargetFacts ==
    ASSUME TypeOK, CallInv, NEW o \in Ops, pc[o] \notin Ended
    PROVE  /\ last[o] \in 1 .. Len(archive) /\ Len(archive) \in Nat
           /\ archive[last[o]] \in Nat
           /\ last[o] \in Targets(o) /\ Targets(o) \subseteq 1 .. Len(archive)
           /\ Plan(o) \subseteq 1 .. Len(archive)
<1>1. archive \in Seq(Nat) /\ Len(archive) \in Nat
  BY ArchivesAssumption DEF TypeOK
<1>2. last[o] \in 1 .. Len(archive)
  BY DEF CallInv
<1> QED
  BY <1>1, <1>2 DEF Targets, Plan

\* Threads are told apart by what they are for.
LEMMA ThreadFacts ==
    /\ Tasks \subseteq Threads /\ Cancellers \subseteq Threads
    /\ \A o \in Ops : Task(o) \in Threads /\ OnCancel(o) \in Threads
    /\ Free \notin Threads
BY DEF Threads, Tasks, Cancellers, Task, OnCancel, Caller, Free

--------------------------------------------------------------------------------
(* Types *)

LEMMA InitTypes == Init => TypeOK /\ CallInv
<1> SUFFICES ASSUME Init
             PROVE  TypeOK /\ CallInv
  OBVIOUS
<1>1. archive \in Archives /\ Len(archive) \in Nat
  BY ArchivesAssumption DEF Init
<1>2. stage \in [Threads -> Stages]
  BY DEF Init, Stages
<1>3. TypeOK
  <2>1. last \in [Ops -> 0 .. Len(archive)]
    BY <1>1 DEF Init
  <2>2. given \in [Ops -> SUBSET (Nat \X Nat)]
    BY DEF Init
  <2> QED
    BY <1>1, <1>2, <2>1, <2>2 DEF Init, TypeOK, Points, Kinds
<1>4. CallInv
  BY DEF Init, CallInv, Ended
<1> QED
  BY <1>3, <1>4

LEMMA StepTypes ==
    TypeOK /\ CallInv /\ GivenInv /\ [Next]_vars => TypeOK'
<1> SUFFICES ASSUME TypeOK, CallInv, GivenInv, [Next]_vars
             PROVE  TypeOK'
  OBVIOUS
<1> USE DEF readerVars, progressVars, decoderVars, callbackVars, work, abortVars, history
<1>1. ASSUME NEW o \in Ops, NEW r \in {"ok", "cancelled", "error"}, Return(o, r),
             asked' \subseteq Ops, heard' \in [Ops -> Nat]
      PROVE  TypeOK'
  BY <1>1 DEF Return, Go, End, TypeOK, Points
<1>2. ASSUME NEW o \in Ops, Fail(o) \/ Cancelled(o)
      PROVE  TypeOK'
  BY <1>1, <1>2 DEF Fail, Cancelled, TypeOK
\* Most steps of a task move it on and leave the rest alone.
<1>3. ASSUME NEW o \in Ops, NEW p \in Points, Go(o, p),
             UNCHANGED <<readerVars, progressVars, decoderVars, callbackVars, work,
                         abortVars, history, result>>
      PROVE  TypeOK'
  BY <1>3 DEF Go, TypeOK
<1>4. ASSUME NEW o \in Ops, Hear(o)
      PROVE  heard' \in [Ops -> Nat]
  BY <1>4 DEF Hear, TypeOK
<1>5. ASSUME NEW o \in Ops, Call(o)
      PROVE  TypeOK'
  <2>1. PICK k \in Kinds, i \in 1 .. Len(archive) :
            kind' = [kind EXCEPT ![o] = k] /\ last' = [last EXCEPT ![o] = i]
    BY <1>5 DEF Call
  <2>2. i \in 0 .. Len(archive)
    BY ArchivesAssumption DEF TypeOK
  <2> QED
    BY <1>5, <2>1, <2>2 DEF Call, Go, TypeOK, Points
<1>6. ASSUME NEW o \in Ops, RejectEntry(o) \/ Lock(o)
      PROVE  TypeOK'
  BY <1>6 DEF RejectEntry, Lock, Go, TypeOK, Points, Inside
<1>7. ASSUME NEW o \in Ops, Prepare(o)
      PROVE  TypeOK'
  <2>1. CASE Fail(o) \/ Cancelled(o)
    BY <1>2, <2>1
  <2>2. CASE ~(Fail(o) \/ Cancelled(o))
    <3>1. PICK w \in Waivable(o) :
              /\ waived' = [waived EXCEPT ![o] = w]
              /\ Go(o, IF w = Targets(o) THEN "complete" ELSE "begin")
      BY <1>7, <2>2 DEF Prepare
    <3>2. Targets(o) \subseteq 1 .. Len(archive)
      BY <1>7, TargetFacts DEF Prepare, Ended
    <3>3. waived' \in [Ops -> SUBSET (1 .. Len(archive))]
      BY <3>1, <3>2 DEF Waivable, TypeOK
    <3> QED
      BY <1>7, <2>2, <3>1, <3>3 DEF Prepare, Go, TypeOK, Points, Inside
  <2> QED
    BY <2>1, <2>2
<1>8. ASSUME NEW o \in Ops, Begin(o)
      PROVE  TypeOK'
  <2>1. CASE Fail(o)
    BY <1>2, <2>1
  <2>2. CASE ~Fail(o)
    BY <1>8, <2>2 DEF Begin, Forget, Go, TypeOK, Points, Inside
  <2> QED
    BY <2>1, <2>2
<1>9. ASSUME NEW o \in Ops, Process(o)
      PROVE  TypeOK'
  BY <1>9 DEF Process, Go, TypeOK, Points, Inside
<1>10. ASSUME NEW o \in Ops, Unusable(o) \/ DecodeFails(o)
       PROVE  TypeOK'
  BY <1>2, <1>10 DEF Unusable, DecodeFails
<1>11. ASSUME NEW o \in Ops, Decode(o)
       PROVE  TypeOK'
  <2>1. PICK i \in Plan(o) : written' = [written EXCEPT ![o] = @ \cup {i}]
    BY <1>11 DEF Decode
  <2>2. i \in 1 .. Len(archive)
    BY <1>11, TargetFacts DEF Decode, Ended
  <2>3. written' \in [Ops -> SUBSET (1 .. Len(archive))]
    BY <2>1, <2>2 DEF TypeOK
  <2> QED
    BY <1>11, <2>3 DEF Decode, TypeOK
<1>12. ASSUME NEW o \in Ops, Report(o)
       PROVE  TypeOK'
  <2>1. callbackMutex' \in [Ops -> Threads \cup {Free}]
    BY <1>12, ThreadFacts DEF Report, TypeOK
  <2> QED
    BY <1>12, <2>1 DEF Report, Go, TypeOK, Points, Inside
<1>13. ASSUME NEW o \in Ops, Consult(o) \/ Extracted(o)
       PROVE  TypeOK'
  BY <1>3, <1>13 DEF Consult, Extracted, Points, Inside
<1>14. ASSUME NEW o \in Ops, Handler(o)
       PROVE  TypeOK'
  BY <1>4, <1>14 DEF Handler, Go, TypeOK, Points, Inside
<1>15. ASSUME CancelState
       PROVE  /\ wasCancelled' \in BOOLEAN /\ current' \in Ops \cup {NoOp}
              /\ context' \in [Ops -> BOOLEAN]
  BY <1>15 DEF CancelState, TypeOK
<1>16. ASSUME NEW o \in Ops, Refuse(o)
       PROVE  TypeOK'
  <2>1. stage' \in [Threads -> Stages]
    BY <1>16, ThreadFacts DEF Refuse, TypeOK, Stages
  <2> QED
    BY <1>15, <1>16, <2>1 DEF Refuse, Go, TypeOK, Points, Inside
<1>17. ASSUME NEW o \in Ops, Answered(o)
       PROVE  TypeOK'
  <2>1. callbackMutex' \in [Ops -> Threads \cup {Free}]
    BY <1>17 DEF Answered, TypeOK
  <2> QED
    BY <1>17, <2>1 DEF Answered, Go, TypeOK, Points, Inside
<1>18. ASSUME NEW o \in Ops, Processed(o)
       PROVE  TypeOK'
  BY <1>18 DEF Processed, Drop, Go, TypeOK, Points, Inside
<1>19. ASSUME NEW o \in Ops, Verify(o)
       PROVE  TypeOK'
  BY <1>2, <1>3, <1>19 DEF Verify, Points, Inside
<1>20. ASSUME NEW o \in Ops, Commit(o)
       PROVE  TypeOK'
  <2>1. CASE Fail(o)
    BY <1>2, <2>1
  <2>2. CASE Go(o, IF kind[o] = "read" THEN "consume" ELSE "complete")
             /\ UNCHANGED <<waived, given, readerVars, progressVars, decoderVars,
                            callbackVars, kind, last, written, begun, abortVars,
                            history, result>>
    BY <1>3, <2>2 DEF Points, Inside
  <2>3. ASSUME NEW i \in Uncommitted(o),
               UNCHANGED <<pc, readerVars, progressVars, decoderVars,
                           callbackVars, kind, last, written, begun, abortVars,
                           history, result>>,
               \/ given' = [given EXCEPT ![o] = @ \cup {<<i, 0>>}] /\ UNCHANGED waived
               \/ waived' = [waived EXCEPT ![o] = @ \cup {i}] /\ UNCHANGED given
        PROVE  TypeOK'
    <3>1. i \in 1 .. Len(archive) /\ <<i, 0>> \in Nat \X Nat
      BY <1>20, TargetFacts DEF Commit, Ended, Uncommitted
    <3>2. /\ given' \in [Ops -> SUBSET (Nat \X Nat)]
          /\ waived' \in [Ops -> SUBSET (1 .. Len(archive))]
      <4> DEFINE more == given[o] \cup {<<i, 0>>}
                 kept == waived[o] \cup {i}
      <4>1. more \in SUBSET (Nat \X Nat) /\ kept \in SUBSET (1 .. Len(archive))
        BY <3>1 DEF TypeOK
      <4>2. /\ given' = given \/ given' = [given EXCEPT ![o] = more]
            /\ waived' = waived \/ waived' = [waived EXCEPT ![o] = kept]
        BY <2>3
      <4> HIDE DEF more, kept
      <4>3. given' \in [Ops -> SUBSET (Nat \X Nat)]
        BY <4>1, <4>2 DEF TypeOK
      <4>4. waived' \in [Ops -> SUBSET (1 .. Len(archive))]
        BY <4>1, <4>2 DEF TypeOK
      <4> QED
        BY <4>3, <4>4
    <3> QED
      BY <2>3, <3>2 DEF TypeOK
  <2> QED
    BY <1>20, <2>1, <2>2, <2>3 DEF Commit
<1>21. ASSUME NEW o \in Ops, Complete(o)
       PROVE  TypeOK'
  BY <1>1, <1>3, <1>21 DEF Complete, TypeOK, Points, Inside
<1>22. ASSUME NEW o \in Ops, Completing(o)
       PROVE  TypeOK'
  BY <1>1, <1>4, <1>22 DEF Completing, TypeOK
<1>23. ASSUME NEW o \in Ops, Consume(o)
       PROVE  TypeOK'
  BY <1>1, <1>2, <1>3, <1>23 DEF Consume, TypeOK, Points, Inside
<1>24. ASSUME NEW o \in Ops, Consumer(o)
       PROVE  TypeOK'
  <2>1. CASE Return(o, "cancelled") /\ asked' = asked \cup {o}
    BY <1>1, <1>4, <1>24, <2>1 DEF Consumer, TypeOK
  <2>2. CASE given' = [given EXCEPT ![o] = @ \cup {NextBlock(o)}]
             /\ Go(o, "consume")
             /\ UNCHANGED <<readerVars, progressVars, decoderVars, callbackVars, kind,
                            last, waived, written, begun, abortVars, asked, result>>
    <3>1. PICK n \in Nat : given[o] = Handed(o, n)
      BY <1>24 DEF Consumer, GivenInv, GivenOK
    <3>2. NextBlock(o) \in Nat \X Nat
      BY <1>24, <3>1, HandedFacts, TargetFacts DEF Consumer, Ended, NextBlock
    <3>3. given' \in [Ops -> SUBSET (Nat \X Nat)]
      BY <2>2, <3>2 DEF TypeOK
    <3> QED
      BY <1>4, <1>24, <2>2, <3>3 DEF Consumer, Go, TypeOK, Points, Inside
  <2> QED
    BY <1>24, <2>1, <2>2 DEF Consumer
<1>25. ASSUME NEW o \in Ops, CancelContext(o)
       PROVE  TypeOK'
  <2>1. stage' \in [Threads -> Stages] /\ context' \in [Ops -> BOOLEAN]
    BY <1>25 DEF CancelContext, TypeOK, Stages
  <2> QED
    BY <1>25, <2>1 DEF CancelContext, TypeOK
<1>26. ASSUME NEW t \in Cancellers, Cancel(t)
       PROVE  TypeOK'
  <2>1. stage' \in [Threads -> Stages]
    BY <1>26 DEF Cancel, TypeOK, Stages
  <2>2. asked' \subseteq Ops
    BY <1>26 DEF Cancel, AskHolder, TypeOK
  <2> QED
    BY <1>15, <1>26, <2>1, <2>2 DEF Cancel, TypeOK
<1>27. ASSUME NEW t \in Threads, AbortDecoder(t)
       PROVE  TypeOK'
  <2>1. stage' \in [Threads -> Stages] /\ moved' \in [Threads -> Ops \cup {NoOp}]
    BY <1>27 DEF AbortDecoder, TypeOK, Stages
  <2>2. asked' \subseteq Ops
    BY <1>27 DEF AbortDecoder, AskHolder, TypeOK
  <2> QED
    BY <1>27, <2>1, <2>2 DEF AbortDecoder, TypeOK
<1>28. ASSUME NEW t \in Threads, AbortCallback(t)
       PROVE  TypeOK'
  <2>1. stage' \in [Threads -> Stages] /\ moved' \in [Threads -> Ops \cup {NoOp}]
    BY <1>28 DEF AbortCallback, TypeOK, Stages
  <2>2. verdict' \in [Ops -> {"ok", "abort"}]
    BY <1>28 DEF AbortCallback, TypeOK
  <2> QED
    BY <1>28, <2>1, <2>2 DEF AbortCallback, TypeOK
<1>29. CASE UNCHANGED vars
  BY <1>29 DEF vars, TypeOK
<1> QED
  BY <1>5, <1>6, <1>7, <1>8, <1>9, <1>10, <1>11, <1>12, <1>13, <1>14, <1>16, <1>17,
     <1>18, <1>19, <1>20, <1>21, <1>22, <1>23, <1>24, <1>25, <1>26, <1>27, <1>28,
     <1>29 DEF Next, Step

--------------------------------------------------------------------------------
(* Who holds the lock *)

LEMMA StepSerialized ==
    TypeOK /\ Serialized /\ CancelReachesRunning /\ [Next]_vars
        => Serialized' /\ CancelReachesRunning'
<1> SUFFICES ASSUME TypeOK, Serialized, CancelReachesRunning, [Next]_vars
             PROVE  Serialized' /\ CancelReachesRunning'
  OBVIOUS
<1> USE NoOpAssumption
        DEF readerVars, progressVars, decoderVars, callbackVars, work, abortVars, history
<1>1. ASSUME NEW o \in Ops, Call(o) \/ RejectEntry(o)
      PROVE  Serialized' /\ CancelReachesRunning'
  BY <1>1 DEF Call, RejectEntry, Go, TypeOK, Serialized, CancelReachesRunning, Inside
<1>2. ASSUME NEW o \in Ops, Lock(o)
      PROVE  Serialized' /\ CancelReachesRunning'
  BY <1>2 DEF Lock, Unlocked, Go, TypeOK, Serialized, CancelReachesRunning, Inside
<1>3. ASSUME NEW o \in Ops, pc[o] \in Inside, NEW r, Return(o, r)
      PROVE  Serialized' /\ CancelReachesRunning'
  BY <1>3 DEF Return, End, Go, TypeOK, Serialized, CancelReachesRunning, Inside
<1>0. ASSUME CancelState, UNCHANGED operationLock
       PROVE  CancelReachesRunning'
  <2>1. ASSUME current # NoOp
        PROVE  context'[current] /\ operationLock = current
    BY <1>0, <2>1 DEF CancelState, TypeOK, CancelReachesRunning
  <2> QED
    BY <1>0, <2>1 DEF CancelState, CancelReachesRunning
\* The lock and the progress state stay with the operation that moves.
<1>4. ASSUME NEW o \in Ops, pc[o] \in Inside, NEW p \in Inside, Go(o, p),
             UNCHANGED operationLock,
             \/ UNCHANGED progressVars
             \/ CancelState
             \/ current' \in {NoOp, o} /\ ~wasCancelled'
      PROVE  Serialized' /\ CancelReachesRunning'
  <2>1. Serialized'
    BY <1>4 DEF Go, TypeOK, Serialized
  <2>2. CancelReachesRunning'
    BY <1>4, <1>0 DEF TypeOK, Serialized, CancelReachesRunning
  <2> QED
    BY <2>1, <2>2
<1>5. ASSUME UNCHANGED <<pc, operationLock>>,
             \/ UNCHANGED <<current, wasCancelled>> /\ \A x \in Ops : context[x] => context'[x]
             \/ CancelState
      PROVE  Serialized' /\ CancelReachesRunning'
  BY <1>5, <1>0 DEF TypeOK, Serialized, CancelReachesRunning
<1>6. ASSUME NEW o \in Ops, Prepare(o) \/ Begin(o)
      PROVE  Serialized' /\ CancelReachesRunning'
  BY <1>3, <1>4, <1>6 DEF Prepare, Begin, Forget, Fail, Cancelled, Inside
<1>7. ASSUME NEW o \in Ops, Process(o) \/ Unusable(o)
      PROVE  Serialized' /\ CancelReachesRunning'
  BY <1>3, <1>4, <1>7 DEF Process, Unusable, Fail, Cancelled, Inside
<1>8. ASSUME NEW o \in Ops, Decode(o) \/ DecodeFails(o)
      PROVE  Serialized' /\ CancelReachesRunning'
  BY <1>3, <1>5, <1>8 DEF Decode, DecodeFails, Fail, Inside
<1>9. ASSUME NEW o \in Ops, Report(o) \/ Consult(o) \/ Handler(o)
      PROVE  Serialized' /\ CancelReachesRunning'
  BY <1>4, <1>9 DEF Report, Consult, Handler, Inside
<1>10. ASSUME NEW o \in Ops, Refuse(o) \/ Answered(o)
       PROVE  Serialized' /\ CancelReachesRunning'
  BY <1>4, <1>10 DEF Refuse, Answered, Inside
<1>11. ASSUME NEW o \in Ops, Extracted(o) \/ Processed(o)
       PROVE  Serialized' /\ CancelReachesRunning'
  BY <1>4, <1>11 DEF Extracted, Processed, Inside
<1>12. ASSUME NEW o \in Ops, Verify(o) \/ Commit(o)
       PROVE  Serialized' /\ CancelReachesRunning'
  BY <1>3, <1>4, <1>5, <1>12 DEF Verify, Commit, Fail, Inside
<1>13. ASSUME NEW o \in Ops, Complete(o) \/ Completing(o)
       PROVE  Serialized' /\ CancelReachesRunning'
  BY <1>3, <1>4, <1>13 DEF Complete, Completing, Inside
<1>14. ASSUME NEW o \in Ops, Consume(o) \/ Consumer(o)
       PROVE  Serialized' /\ CancelReachesRunning'
  BY <1>3, <1>4, <1>14 DEF Consume, Consumer, Fail, Cancelled, Inside
<1>15. ASSUME NEW o \in Ops, CancelContext(o)
       PROVE  Serialized' /\ CancelReachesRunning'
  BY <1>5, <1>15 DEF CancelContext, TypeOK
<1>16. ASSUME NEW t \in Threads, Cancel(t) \/ AbortDecoder(t) \/ AbortCallback(t)
       PROVE  Serialized' /\ CancelReachesRunning'
  BY <1>5, <1>16 DEF Cancel, AbortDecoder, AbortCallback
<1>17. CASE UNCHANGED vars
  BY <1>5, <1>17 DEF vars
<1> QED
  BY <1>1, <1>2, <1>6, <1>7, <1>8, <1>9, <1>10, <1>11, <1>12, <1>13, <1>14, <1>15,
     <1>16, <1>17, ThreadFacts DEF Next, Step

\* What a call is about does not change after it was made, its answer not once
\* it was given.
LEMMA StepCall == TypeOK /\ CallInv /\ [Next]_vars => CallInv'
<1> SUFFICES ASSUME TypeOK, CallInv, [Next]_vars
             PROVE  CallInv'
  OBVIOUS
<1> USE DEF readerVars, progressVars, decoderVars, callbackVars, work, abortVars, history
<1>1. ASSUME NEW o \in Ops, Call(o)
      PROVE  CallInv'
  <2>1. PICK k \in Kinds, i \in 1 .. Len(archive) :
            /\ k = "extractAll" => i = Len(archive)
            /\ kind' = [kind EXCEPT ![o] = k]
            /\ last' = [last EXCEPT ![o] = i]
    BY <1>1 DEF Call
  <2>2. Len(archive) \in Nat
    BY ArchivesAssumption DEF TypeOK
  <2> QED
    BY <1>1, <2>1, <2>2 DEF Call, Go, TypeOK, CallInv, Ended
<1>2. ASSUME NEW o \in Ops, RejectEntry(o)
      PROVE  CallInv'
  BY <1>2 DEF RejectEntry, Go, TypeOK, CallInv, Ended
<1>3. ASSUME NEW o \in Ops, NEW r, Return(o, r)
      PROVE  CallInv'
  BY <1>3 DEF Return, Go, TypeOK, CallInv, Ended
\* Others hand something over or settle the plan, in the middle of a call.
<1>4. ASSUME NEW o \in Ops, pc[o] \notin Ended, pc'[o] \notin Ended,
             pc' = [pc EXCEPT ![o] = pc'[o]],
             pc'[o] \in {"queued", "prepare"} =>
                 pc[o] \in {"queued", "prepare"} /\ UNCHANGED waived,
             \A x \in Ops \ {o} : given'[x] = given[x] /\ waived'[x] = waived[x],
             UNCHANGED <<archive, kind, last, result>>
      PROVE  CallInv'
  <2>1. last[o] # 0
    BY <1>4 DEF CallInv, Ended
  <2> QED
    BY <1>4, <2>1 DEF TypeOK, CallInv, Ended
<1>5. ASSUME NEW o \in Ops, pc[o] \notin Ended, NEW p, p \notin Ended, Go(o, p),
             p \in {"queued", "prepare"} =>
                 pc[o] \in {"queued", "prepare"} /\ UNCHANGED waived,
             \A x \in Ops \ {o} : given'[x] = given[x] /\ waived'[x] = waived[x],
             UNCHANGED <<archive, kind, last, result>>
      PROVE  CallInv'
  BY <1>4, <1>5 DEF Go, TypeOK
<1>6. ASSUME NEW o \in Ops, Lock(o) \/ Process(o) \/ Report(o) \/ Consult(o) \/ Handler(o)
                            \/ Refuse(o) \/ Answered(o) \/ Extracted(o) \/ Processed(o)
      PROVE  CallInv'
  BY <1>5, <1>6 DEF Lock, Process, Report, Consult, Handler, Refuse, Answered,
                    Extracted, Processed, Ended
<1>7. ASSUME NEW o \in Ops, Prepare(o)
      PROVE  CallInv'
  <2>1. CASE Fail(o) \/ Cancelled(o)
    BY <1>3, <2>1 DEF Fail, Cancelled
  <2>2. CASE ~(Fail(o) \/ Cancelled(o))
    <3>1. \A x \in Ops \ {o} : given'[x] = given[x] /\ waived'[x] = waived[x]
      BY <1>7, <2>2 DEF Prepare, TypeOK
    <3> QED
      BY <1>5, <1>7, <2>2, <3>1 DEF Prepare, Ended
  <2> QED
    BY <2>1, <2>2
<1>8. ASSUME NEW o \in Ops, Begin(o) \/ Verify(o)
      PROVE  CallInv'
  BY <1>3, <1>5, <1>8 DEF Begin, Verify, Fail, Ended
<1>9. ASSUME NEW o \in Ops, Unusable(o) \/ DecodeFails(o)
      PROVE  CallInv'
  BY <1>3, <1>9 DEF Unusable, DecodeFails, Fail, Cancelled
<1>10. ASSUME NEW o \in Ops, Commit(o)
       PROVE  CallInv'
  <2>1. CASE Fail(o)
    BY <1>3, <2>1 DEF Fail
  <2>2. CASE ~Fail(o)
    <3>1. \A x \in Ops \ {o} : given'[x] = given[x] /\ waived'[x] = waived[x]
      BY <1>10, <2>2 DEF Commit, TypeOK
    <3>2. UNCHANGED <<archive, kind, last, result>>
      BY <1>10, <2>2 DEF Commit
    <3>3. pc[o] = "commit" /\ (UNCHANGED pc \/ Go(o, "consume") \/ Go(o, "complete"))
      BY <1>10, <2>2 DEF Commit
    <3>4. CASE UNCHANGED pc
      <4>1. pc' = [pc EXCEPT ![o] = pc'[o]] /\ pc'[o] = "commit" /\ "commit" \notin Ended
        BY <3>3, <3>4 DEF TypeOK, Ended
      <4> QED
        BY <1>4, <3>1, <3>2, <3>3, <4>1
    <3>5. CASE Go(o, "consume") \/ Go(o, "complete")
      BY <1>5, <3>1, <3>2, <3>3, <3>5 DEF Ended
    <3> QED
      BY <3>3, <3>4, <3>5
  <2> QED
    BY <2>1, <2>2
<1>11. ASSUME NEW o \in Ops, Complete(o) \/ Completing(o)
       PROVE  CallInv'
  BY <1>3, <1>5, <1>11 DEF Complete, Completing, Ended
<1>12. ASSUME NEW o \in Ops, Consume(o)
       PROVE  CallInv'
  BY <1>3, <1>5, <1>12 DEF Consume, Cancelled, Fail, Ended
<1>13. ASSUME NEW o \in Ops, Consumer(o)
       PROVE  CallInv'
  <2>1. CASE Return(o, "cancelled")
    BY <1>3, <2>1
  <2>2. CASE ~Return(o, "cancelled")
    <3>1. \A x \in Ops \ {o} : given'[x] = given[x] /\ waived'[x] = waived[x]
      BY <1>13, <2>2 DEF Consumer, TypeOK
    <3> QED
      BY <1>5, <1>13, <2>2, <3>1 DEF Consumer, Ended
  <2> QED
    BY <2>1, <2>2
<1>14. ASSUME UNCHANGED <<archive, pc, kind, last, waived, given, result>>
       PROVE  CallInv'
  BY <1>14 DEF CallInv
<1>15. ASSUME NEW o \in Ops, Decode(o) \/ CancelContext(o)
       PROVE  CallInv'
  BY <1>14, <1>15 DEF Decode, CancelContext
<1>16. ASSUME NEW t \in Threads, Cancel(t) \/ AbortDecoder(t) \/ AbortCallback(t)
       PROVE  CallInv'
  BY <1>14, <1>16 DEF Cancel, AbortDecoder, AbortCallback
<1>17. CASE UNCHANGED vars
  BY <1>14, <1>17 DEF vars
<1> QED
  BY <1>1, <1>2, <1>6, <1>7, <1>8, <1>9, <1>10, <1>11, <1>12, <1>13, <1>15, <1>16,
     <1>17, ThreadFacts DEF Next, Step

--------------------------------------------------------------------------------
(* Whose callback the decoder has *)

LEMMA StepCallback == TypeOK /\ CallbackInv /\ [Next]_vars => CallbackInv'
<1> SUFFICES ASSUME TypeOK, CallbackInv, [Next]_vars
             PROVE  CallbackInv'
  OBVIOUS
<1> USE DEF readerVars, progressVars, decoderVars, callbackVars, work, abortVars, history
<1>1. ASSUME callback' = NoOp
      PROVE  CallbackInv'
  BY <1>1 DEF CallbackInv
\* An operation whose callback this may be leaves the extraction by failing.
<1>2. ASSUME NEW o \in Ops, pc[o] # "done", UNCHANGED callback,
             NEW p, Go(o, p), pc[o] \in Extracting => p \in Extracting,
             UNCHANGED result
      PROVE  CallbackInv'
  BY <1>2 DEF Go, TypeOK, CallbackInv
<1>3. ASSUME NEW o \in Ops, pc[o] # "done", NEW r, Return(o, r),
             pc[o] \in Extracting => r = "error"
      PROVE  CallbackInv'
  BY <1>3 DEF Return, Go, TypeOK, CallbackInv
<1>4. ASSUME UNCHANGED <<pc, callback, result>>
      PROVE  CallbackInv'
  BY <1>4 DEF CallbackInv
<1>5. ASSUME NEW o \in Ops, RejectEntry(o)
      PROVE  CallbackInv'
  BY <1>5 DEF RejectEntry, Go, TypeOK, CallbackInv, Extracting
<1>6. ASSUME NEW o \in Ops, Call(o) \/ Lock(o) \/ Prepare(o) \/ Begin(o)
      PROVE  CallbackInv'
  BY <1>2, <1>3, <1>6 DEF Call, Lock, Prepare, Begin, Fail, Cancelled, Extracting
<1>7. ASSUME NEW o \in Ops, Process(o)
      PROVE  CallbackInv'
  <2>1. CASE callback = NoOp
    BY <1>7, <2>1 DEF Process, Go, TypeOK, CallbackInv, Extracting
  <2>2. CASE callback # NoOp
    BY <1>2, <1>7, <2>2 DEF Process, Extracting
  <2> QED
    BY <2>1, <2>2
<1>8. ASSUME NEW o \in Ops, Unusable(o) \/ DecodeFails(o)
      PROVE  CallbackInv'
  BY <1>3, <1>8 DEF Unusable, DecodeFails, Fail, Cancelled, Extracting
<1>9. ASSUME NEW o \in Ops, Report(o) \/ Consult(o) \/ Handler(o)
      PROVE  CallbackInv'
  BY <1>2, <1>9 DEF Report, Consult, Handler, Extracting
<1>10. ASSUME NEW o \in Ops, Refuse(o) \/ Answered(o) \/ Extracted(o)
       PROVE  CallbackInv'
  BY <1>2, <1>10 DEF Refuse, Answered, Extracted, Extracting
<1>11. ASSUME NEW o \in Ops, Processed(o)
       PROVE  CallbackInv'
  BY <1>1, <1>11 DEF Processed, Drop
<1>12. ASSUME NEW o \in Ops, Verify(o) \/ Commit(o)
       PROVE  CallbackInv'
  BY <1>2, <1>3, <1>4, <1>12 DEF Verify, Commit, Fail, Extracting
<1>13. ASSUME NEW o \in Ops, Complete(o) \/ Completing(o)
       PROVE  CallbackInv'
  BY <1>2, <1>3, <1>13 DEF Complete, Completing, Extracting
<1>14. ASSUME NEW o \in Ops, Consume(o) \/ Consumer(o)
       PROVE  CallbackInv'
  BY <1>2, <1>3, <1>14 DEF Consume, Consumer, Fail, Cancelled, Extracting
<1>15. ASSUME NEW o \in Ops, Decode(o) \/ CancelContext(o)
       PROVE  CallbackInv'
  BY <1>4, <1>15 DEF Decode, CancelContext
<1>16. ASSUME NEW t \in Threads, AbortDecoder(t)
       PROVE  CallbackInv'
  BY <1>1, <1>16 DEF AbortDecoder
<1>17. ASSUME NEW t \in Threads, Cancel(t) \/ AbortCallback(t)
       PROVE  CallbackInv'
  BY <1>4, <1>17 DEF Cancel, CancelState, AbortCallback
<1>18. CASE UNCHANGED vars
  BY <1>4, <1>18 DEF vars
<1> QED
  BY <1>5, <1>6, <1>7, <1>8, <1>9, <1>10, <1>11, <1>12, <1>13, <1>14, <1>15, <1>16,
     <1>17, <1>18, ThreadFacts DEF Next, Step

--------------------------------------------------------------------------------
(* Why a call is cancelled, and what it still hears *)

LEMMA StepCause ==
    TypeOK /\ Serialized /\ CancelReachesRunning /\ CauseInv /\ CancelledHasCause
        /\ [Next]_vars => CauseInv' /\ CancelledHasCause'
<1> SUFFICES ASSUME TypeOK, Serialized, CancelReachesRunning, CauseInv,
                    CancelledHasCause, [Next]_vars
             PROVE  CauseInv' /\ CancelledHasCause'
  OBVIOUS
<1> USE DEF readerVars, progressVars, decoderVars, callbackVars, work, abortVars, history
<1>1. ASSUME NEW o \in Ops, NEW p, Go(o, p), UNCHANGED <<wasCancelled, context, result>>,
             asked \subseteq asked',
             p \in {"process", "unusable"} => pc[o] = "process",
             p = "refused" => o \in asked'
      PROVE  CauseInv' /\ CancelledHasCause'
  BY <1>1 DEF Go, TypeOK, CauseInv, CancelledHasCause
<1>2. ASSUME NEW o \in Ops, NEW r, Return(o, r), asked \subseteq asked',
             r = "cancelled" => o \in asked'
      PROVE  CauseInv' /\ CancelledHasCause'
  BY <1>2 DEF Return, Go, TypeOK, CauseInv, CancelledHasCause
<1>3. ASSUME UNCHANGED <<pc, wasCancelled, context, result>>, asked \subseteq asked'
      PROVE  CauseInv' /\ CancelledHasCause'
  BY <1>3 DEF CauseInv, CancelledHasCause
<1>4. ASSUME NEW o \in Ops, Call(o) \/ Lock(o)
      PROVE  CauseInv' /\ CancelledHasCause'
  BY <1>1, <1>4 DEF Call, Lock
<1>5. ASSUME NEW o \in Ops, RejectEntry(o)
      PROVE  CauseInv' /\ CancelledHasCause'
  BY <1>5 DEF RejectEntry, Go, TypeOK, CauseInv, CancelledHasCause
<1>6. ASSUME NEW o \in Ops, Prepare(o)
      PROVE  CauseInv' /\ CancelledHasCause'
  BY <1>1, <1>2, <1>6 DEF Prepare, Fail, Cancelled, CauseInv
\* The flag of the progress state is reset before the decoder is used.
<1>7. ASSUME NEW o \in Ops, Begin(o)
      PROVE  CauseInv' /\ CancelledHasCause'
  <2>1. CASE Fail(o)
    BY <1>2, <2>1 DEF Fail
  <2>2. CASE ~Fail(o)
    BY <1>7, <2>2 DEF Begin, Forget, Go, TypeOK, CauseInv, CancelledHasCause
  <2> QED
    BY <2>1, <2>2
<1>8. ASSUME NEW o \in Ops, Process(o)
      PROVE  CauseInv' /\ CancelledHasCause'
  BY <1>1, <1>8 DEF Process
<1>9. ASSUME NEW o \in Ops, Unusable(o) \/ DecodeFails(o)
      PROVE  CauseInv' /\ CancelledHasCause'
  BY <1>2, <1>9 DEF Unusable, DecodeFails, Fail, Cancelled, CauseInv
<1>10. ASSUME NEW o \in Ops, Report(o) \/ Consult(o) \/ Handler(o)
       PROVE  CauseInv' /\ CancelledHasCause'
  BY <1>1, <1>10 DEF Report, Consult, Handler, ContextAllows, CauseInv
\* Only the holder can be in the progress state, and it is asked as well.
<1>11. ASSUME CancelState, NEW o \in Ops \cup {NoOp}, o = operationLock,
              asked' = asked \cup ({o} \ {NoOp}), UNCHANGED result,
              \A x \in Ops : pc'[x] \in {"process", "unusable", "refused"}
                                => pc'[x] = pc[x]
       PROVE  CauseInv' /\ CancelledHasCause'
  BY <1>11, NoOpAssumption
     DEF CancelState, TypeOK, Serialized, CancelReachesRunning, CauseInv,
         CancelledHasCause, Inside
<1>12. ASSUME NEW o \in Ops, Refuse(o)
       PROVE  CauseInv' /\ CancelledHasCause'
  <2>1. operationLock = o /\ o \in asked
    BY <1>12 DEF Refuse, Serialized, CauseInv, Inside
  <2>2. asked' = asked \cup ({o} \ {NoOp})
    BY <1>12, <2>1 DEF Refuse
  <2>3. \A x \in Ops : pc'[x] \in {"process", "unusable", "refused"} => pc'[x] = pc[x]
    BY <1>12 DEF Refuse, Go, TypeOK
  <2> QED
    BY <1>11, <1>12, <2>1, <2>2, <2>3 DEF Refuse
<1>13. ASSUME NEW o \in Ops, Answered(o) \/ Extracted(o) \/ Processed(o)
       PROVE  CauseInv' /\ CancelledHasCause'
  BY <1>1, <1>13 DEF Answered, Extracted, Processed
<1>14. ASSUME NEW o \in Ops, Verify(o) \/ Commit(o)
       PROVE  CauseInv' /\ CancelledHasCause'
  BY <1>1, <1>2, <1>3, <1>14 DEF Verify, Commit, Fail
<1>15. ASSUME NEW o \in Ops, Complete(o) \/ Completing(o)
       PROVE  CauseInv' /\ CancelledHasCause'
  BY <1>1, <1>2, <1>15 DEF Complete, Completing
<1>16. ASSUME NEW o \in Ops, Consume(o) \/ Consumer(o)
       PROVE  CauseInv' /\ CancelledHasCause'
  BY <1>1, <1>2, <1>16 DEF Consume, Consumer, Fail, Cancelled, ContextAllows, CauseInv
<1>17. ASSUME NEW o \in Ops, Decode(o)
       PROVE  CauseInv' /\ CancelledHasCause'
  BY <1>3, <1>17 DEF Decode
<1>18. ASSUME NEW o \in Ops, CancelContext(o)
       PROVE  CauseInv' /\ CancelledHasCause'
  BY <1>18 DEF CancelContext, TypeOK, CauseInv, CancelledHasCause
<1>19. ASSUME NEW t \in Threads, Cancel(t)
       PROVE  CauseInv' /\ CancelledHasCause'
  BY <1>11, <1>19 DEF Cancel, AskHolder, TypeOK
<1>20. ASSUME NEW t \in Threads, AbortDecoder(t) \/ AbortCallback(t)
       PROVE  CauseInv' /\ CancelledHasCause'
  BY <1>3, <1>20 DEF AbortDecoder, AskHolder, AbortCallback
<1>21. CASE UNCHANGED vars
  BY <1>3, <1>21 DEF vars
<1> QED
  BY <1>4, <1>5, <1>6, <1>7, <1>8, <1>9, <1>10, <1>12, <1>13, <1>14, <1>15, <1>16,
     <1>17, <1>18, <1>19, <1>20, <1>21, ThreadFacts DEF Next, Step

LEMMA StepAbort == TypeOK /\ CauseInv /\ AbortInv /\ [Next]_vars => AbortInv'
<1> SUFFICES ASSUME TypeOK, CauseInv, AbortInv, [Next]_vars
             PROVE  AbortInv'
  OBVIOUS
<1> USE DEF readerVars, progressVars, decoderVars, callbackVars, work, abortVars, history
<1>1. ASSUME UNCHANGED <<stage, aborted>>, asked \subseteq asked',
             closed' => closed \/ aborted
      PROVE  AbortInv'
  BY <1>1 DEF AbortInv, Wanted
\* One thread goes a step further in cancel(); a caller never goes back to its start.
<1>2. ASSUME NEW t \in Threads, NEW s, stage' = [stage EXCEPT ![t] = s], 
             s # "state" \/ t \notin {Caller(c) : c \in Callers}, asked \subseteq asked',
             \A o \in Ops : t \in {Task(o), OnCancel(o)} => o \in asked',
             aborted' \/ closed' => aborted \/ closed \/ stage[t] = "abort"
      PROVE  AbortInv'
  <2>1. \A x \in Threads \ {t} : stage'[x] = stage[x]
    BY <1>2 DEF TypeOK
  <2>2. \A o \in Ops : Task(o) \in Threads /\ OnCancel(o) \in Threads
    BY DEF Threads, Tasks, Cancellers
  <2>3. \A c \in Callers : Caller(c) \in Threads
    BY DEF Threads, Cancellers
  <2>4. \A c \in Callers : stage[Caller(c)] # "state" => stage'[Caller(c)] # "state"
    BY <1>2, <2>1, <2>3 DEF TypeOK
  <2>5. stage'[t] = s
    BY <1>2 DEF TypeOK
  <2>6. stage[t] = "abort" => Wanted'
    <3>1. CASE \E o \in Ops : t \in {Task(o), OnCancel(o)}
      BY <1>2, <3>1 DEF Wanted
    <3>2. CASE \E c \in Callers : t = Caller(c)
      BY <1>2, <2>5, <3>2 DEF Wanted
    <3> QED
      BY <3>1, <3>2 DEF Threads, Tasks, Cancellers
  <2>7. Wanted => Wanted'
    BY <1>2, <2>4 DEF Wanted
  <2> QED
    BY <1>2, <2>1, <2>2, <2>6, <2>7 DEF AbortInv
<1>3. ASSUME NEW o \in Ops, NEW r, Return(o, r), asked \subseteq asked'
      PROVE  AbortInv'
  BY <1>1, <1>3 DEF Return
<1>4. ASSUME NEW o \in Ops, Call(o) \/ RejectEntry(o) \/ Lock(o) \/ Process(o) \/ Decode(o)
      PROVE  AbortInv'
  BY <1>1, <1>4 DEF Call, RejectEntry, Lock, Process, Decode
<1>5. ASSUME NEW o \in Ops, Prepare(o) \/ Begin(o) \/ Unusable(o) \/ DecodeFails(o)
      PROVE  AbortInv'
  BY <1>1, <1>3, <1>5 DEF Prepare, Begin, Unusable, DecodeFails, Fail, Cancelled
<1>6. ASSUME NEW o \in Ops, Report(o) \/ Consult(o) \/ Handler(o) \/ Answered(o)
      PROVE  AbortInv'
  BY <1>1, <1>6 DEF Report, Consult, Handler, Answered
<1>7. ASSUME NEW o \in Ops, Refuse(o)
      PROVE  AbortInv'
  <2>1. o \in asked /\ Task(o) \in Threads
    BY <1>7 DEF Refuse, CauseInv, Threads, Tasks
  <2>2. \A x \in Ops : Task(o) \in {Task(x), OnCancel(x)} => x = o
    BY DEF Task, OnCancel
  <2> QED
    BY <1>2, <1>7, <2>1, <2>2 DEF Refuse
<1>8. ASSUME NEW o \in Ops, Extracted(o) \/ Processed(o)
      PROVE  AbortInv'
  BY <1>1, <1>8 DEF Extracted, Processed
<1>9. ASSUME NEW o \in Ops, Verify(o) \/ Commit(o) \/ Complete(o) \/ Completing(o)
      PROVE  AbortInv'
  BY <1>1, <1>3, <1>9 DEF Verify, Commit, Complete, Completing, Fail
<1>10. ASSUME NEW o \in Ops, Consume(o) \/ Consumer(o)
       PROVE  AbortInv'
  BY <1>1, <1>3, <1>10 DEF Consume, Consumer, Fail, Cancelled
<1>11. ASSUME NEW o \in Ops, CancelContext(o)
       PROVE  AbortInv'
  <2>1. OnCancel(o) \in Threads /\ OnCancel(o) \notin {Caller(c) : c \in Callers}
    BY DEF OnCancel, Caller, Threads, Cancellers
  <2>2. \A x \in Ops : OnCancel(o) \in {Task(x), OnCancel(x)} => x = o
    BY DEF Task, OnCancel
  <2> QED
    BY <1>2, <1>11, <2>1, <2>2 DEF CancelContext
<1>12. ASSUME NEW t \in Threads, stage[t] \in {"abort", "abortCallback"},
              NEW o \in Ops, t \in {Task(o), OnCancel(o)}
       PROVE  o \in asked
  BY <1>12 DEF AbortInv
<1>13. ASSUME NEW t \in Cancellers, Cancel(t)
       PROVE  AbortInv'
  <2>1. ASSUME NEW o \in Ops, t \in {Task(o), OnCancel(o)}
        PROVE  o \in asked
    BY <1>13, <2>1 DEF Cancel, AbortInv
  <2> QED
    BY <1>2, <1>13, <2>1 DEF Cancel, AskHolder, Threads
<1>14. ASSUME NEW t \in Threads, AbortDecoder(t)
       PROVE  AbortInv'
  BY <1>2, <1>12, <1>14 DEF AbortDecoder, AskHolder
<1>15. ASSUME NEW t \in Threads, AbortCallback(t)
       PROVE  AbortInv'
  BY <1>2, <1>12, <1>15 DEF AbortCallback
<1>16. CASE UNCHANGED vars
  BY <1>1, <1>16 DEF vars
<1> QED
  BY <1>4, <1>5, <1>6, <1>7, <1>8, <1>9, <1>10, <1>11, <1>13, <1>14, <1>15, <1>16
     DEF Next, Step

LEMMA StepHeard == TypeOK /\ HeardInv /\ [Next]_vars => HeardInv'
<1> SUFFICES ASSUME TypeOK, HeardInv, [Next]_vars
             PROVE  HeardInv'
  OBVIOUS
<1> USE DEF readerVars, progressVars, decoderVars, callbackVars, work, abortVars, history
<1> DEFINE Calling == {"handler", "completing", "consumer"}
\* A call of the handler or consumer is only prepared while the context allows it.
<1>1. ASSUME NEW o \in Ops, NEW p, Go(o, p), p \in Calling => ~context[o],
             UNCHANGED <<context, heard>>
      PROVE  HeardInv'
  BY <1>1 DEF Go, TypeOK, HeardInv
\* It is made, and whatever it answers the next has to be prepared again.
<1>2. ASSUME NEW o \in Ops, pc[o] \in Calling, Hear(o), UNCHANGED context,
             NEW p, p \notin Calling, Go(o, p)
      PROVE  HeardInv'
  <2>1. heard[o] = 0 /\ heard'[o] = (IF context[o] THEN 1 ELSE 0)
    BY <1>2 DEF Hear, TypeOK, HeardInv
  <2>2. \A x \in Ops \ {o} : heard'[x] = heard[x]
    BY <1>2 DEF Hear, TypeOK
  <2> QED
    BY <1>2, <2>1, <2>2 DEF Go, TypeOK, HeardInv
<1>3. ASSUME NEW o \in Ops, NEW r, Return(o, r), UNCHANGED heard
      PROVE  HeardInv'
  BY <1>1, <1>3 DEF Return
<1>4. ASSUME UNCHANGED <<pc, heard>>, \A o \in Ops : context[o] => context'[o]
      PROVE  HeardInv'
  BY <1>4 DEF HeardInv
<1>5. ASSUME NEW o \in Ops, Call(o) \/ RejectEntry(o) \/ Lock(o) \/ Process(o) \/ Report(o)
                            \/ Answered(o) \/ Extracted(o) \/ Processed(o)
      PROVE  HeardInv'
  BY <1>1, <1>5 DEF Call, RejectEntry, Lock, Process, Report, Answered, Extracted, Processed
<1>6. ASSUME NEW o \in Ops, Prepare(o) \/ Begin(o) \/ Verify(o) \/ Commit(o)
      PROVE  HeardInv'
  BY <1>1, <1>3, <1>4, <1>6 DEF Prepare, Begin, Verify, Commit, Fail, Cancelled
<1>7. ASSUME NEW o \in Ops, Unusable(o) \/ DecodeFails(o) \/ Decode(o)
      PROVE  HeardInv'
  BY <1>3, <1>4, <1>7 DEF Unusable, DecodeFails, Decode, Fail, Cancelled
<1>8. ASSUME NEW o \in Ops, Consult(o)
      PROVE  HeardInv'
  BY <1>1, <1>8 DEF Consult, ContextAllows
<1>9. ASSUME NEW o \in Ops, Handler(o)
      PROVE  HeardInv'
  BY <1>2, <1>9 DEF Handler
<1>10. ASSUME NEW o \in Ops, Refuse(o)
       PROVE  HeardInv'
  BY <1>10 DEF Refuse, CancelState, Go, TypeOK, HeardInv
<1>11. ASSUME NEW o \in Ops, Complete(o) \/ Consume(o)
       PROVE  HeardInv'
  BY <1>1, <1>3, <1>11 DEF Complete, Consume, ContextAllows, Fail, Cancelled
<1>12. ASSUME NEW o \in Ops, Completing(o) \/ Consumer(o)
       PROVE  HeardInv'
  BY <1>2, <1>12 DEF Completing, Consumer, Return
<1>13. ASSUME NEW o \in Ops, CancelContext(o)
       PROVE  HeardInv'
  BY <1>4, <1>13 DEF CancelContext, TypeOK
<1>14. ASSUME NEW t \in Threads, Cancel(t) \/ AbortDecoder(t) \/ AbortCallback(t)
       PROVE  HeardInv'
  BY <1>4, <1>14 DEF Cancel, CancelState, AbortDecoder, AbortCallback
<1>15. CASE UNCHANGED vars
  BY <1>4, <1>15 DEF vars
<1> QED
  BY <1>5, <1>6, <1>7, <1>8, <1>9, <1>10, <1>11, <1>12, <1>13, <1>14, <1>15,
     ThreadFacts DEF Next, Step

--------------------------------------------------------------------------------
(* What is handed over *)

LEMMA SameCall ==
    ASSUME NEW o \in Ops, UNCHANGED archive, kind'[o] = kind[o], last'[o] = last[o],
           waived'[o] = waived[o]
    PROVE  /\ Plan(o)' = Plan(o) /\ Owed(o)' = Owed(o)
           /\ \A n : Handed(o, n)' = Handed(o, n)
BY DEF Plan, Targets, Owed, Blocks, Handed

Late == {"commit", "complete", "completing", "consume", "consumer", "done"}

\* A call that stays where it is, or ends without claiming success, or moves on
\* before it has handed over anything.
LEMMA SameGiven ==
    ASSUME NEW o \in Ops, GivenOK(o), UNCHANGED archive,
           kind'[o] = kind[o], last'[o] = last[o], given'[o] = given[o],
           written[o] \subseteq written'[o],
           waived'[o] = waived[o] \/ (pc[o] \notin Late /\ result'[o] # "ok"),
           \/ pc'[o] = pc[o]
           \/ pc'[o] = "done"
           \/ pc[o] \notin Late /\ pc'[o] \notin Late,
           result'[o] = result[o] \/ result'[o] # "ok"
    PROVE  GivenOK(o)'
<1>1. CASE waived'[o] = waived[o]
  BY <1>1, SameCall DEF GivenOK, Late
<1>2. CASE pc[o] \notin Late /\ result'[o] # "ok"
  BY <1>2 DEF GivenOK, Late
<1> QED
  BY <1>1, <1>2

LEMMA StepGiven ==
    TypeOK /\ CallInv /\ GivenInv /\ [Next]_vars => GivenInv'
<1> SUFFICES ASSUME TypeOK, CallInv, GivenInv, [Next]_vars
             PROVE  GivenInv'
  OBVIOUS
<1> USE DEF readerVars, progressVars, decoderVars, callbackVars, work, abortVars, history
\* It is enough to look at the operation that moves.
<1>1. ASSUME NEW o \in Ops, GivenOK(o)', UNCHANGED archive,
             \A x \in Ops \ {o} : /\ kind'[x] = kind[x] /\ last'[x] = last[x]
                                  /\ given'[x] = given[x] /\ waived'[x] = waived[x]
                                  /\ written'[x] = written[x] /\ pc'[x] = pc[x]
                                  /\ result'[x] = result[x]
      PROVE  GivenInv'
  BY <1>1, SameGiven DEF GivenInv
<1>2. ASSUME NEW o \in Ops, NEW r, Return(o, r), r # "ok"
      PROVE  GivenInv'
  BY <1>2, SameGiven DEF Return, Go, TypeOK, GivenInv
<1>3. ASSUME NEW o \in Ops, Return(o, "ok"), given[o] = Owed(o), Plan(o) \subseteq written[o]
      PROVE  GivenInv'
  <2>1. Plan(o)' = Plan(o) /\ Owed(o)' = Owed(o)
    BY <1>3, SameCall DEF Return
  <2>2. GivenOK(o)'
    BY <1>3, <2>1 DEF Return, Go, TypeOK, GivenOK
  <2> QED
    BY <1>1, <1>3, <2>2 DEF Return, Go, TypeOK
\* The call has not come to the point where it hands something over.
<1>4. ASSUME NEW o \in Ops, NEW p, Go(o, p), pc[o] \notin Late, p \notin Late,
             UNCHANGED <<archive, kind, last, waived, written, given, result>>
      PROVE  GivenInv'
  BY <1>4, SameGiven DEF Go, TypeOK, GivenInv
<1>5. ASSUME UNCHANGED <<archive, pc, work, result>>
      PROVE  GivenInv'
  BY <1>5, SameGiven DEF GivenInv
<1>6. ASSUME NEW o \in Ops, Call(o)
      PROVE  GivenInv'
  <2>1. pc[o] = "idle" /\ pc'[o] = "queued" /\ given'[o] = {} /\ result'[o] = "none"
    BY <1>6 DEF Call, Go, TypeOK, CallInv, GivenInv, GivenOK
  <2>2. GivenOK(o)'
    BY <2>1 DEF GivenOK
  <2> QED
    BY <1>1, <1>6, <2>2 DEF Call, Go, TypeOK
<1>7. ASSUME NEW o \in Ops, RejectEntry(o)
      PROVE  GivenInv'
  BY <1>7, SameGiven DEF RejectEntry, Go, TypeOK, GivenInv
<1>8. ASSUME NEW o \in Ops, Lock(o) \/ Process(o) \/ Report(o) \/ Consult(o) \/ Handler(o)
                            \/ Refuse(o) \/ Answered(o) \/ Extracted(o) \/ Processed(o)
      PROVE  GivenInv'
  BY <1>4, <1>8 DEF Lock, Process, Report, Consult, Handler, Refuse, Answered,
                    Extracted, Processed, Late
<1>9. ASSUME NEW o \in Ops, Prepare(o)
      PROVE  GivenInv'
  <2>1. CASE Fail(o) \/ Cancelled(o)
    BY <1>2, <2>1 DEF Fail, Cancelled
  <2>2. CASE ~(Fail(o) \/ Cancelled(o))
    <3>1. PICK w \in Waivable(o) :
              /\ waived' = [waived EXCEPT ![o] = w]
              /\ Go(o, IF w = Targets(o) THEN "complete" ELSE "begin")
      BY <1>9, <2>2 DEF Prepare
    <3>2. UNCHANGED <<archive, kind, last, written, given, result>>
      BY <1>9, <2>2 DEF Prepare
    <3>3. waived'[o] = w /\ pc'[o] = (IF w = Targets(o) THEN "complete" ELSE "begin")
      BY <3>1 DEF Go, TypeOK
    <3>4. given'[o] = {} /\ result'[o] = "none"
      BY <1>9, <3>2 DEF Prepare, GivenInv, GivenOK, CallInv
    <3>5. CASE w # Targets(o)
      BY <1>1, <3>1, <3>2, <3>3, <3>4, <3>5 DEF GivenOK, Go, TypeOK
    <3>6. CASE w = Targets(o)
      <4>1. last[o] \in Targets(o)
        BY <1>9, TargetFacts DEF Prepare, Ended
      <4>2. kind[o] # "read"
        BY <3>6, <4>1 DEF Waivable
      <4>3. Plan(o)' = {}
        BY <3>2, <3>3, <3>6 DEF Plan, Targets
      <4>4. Owed(o)' = {}
        BY <3>2, <4>2, <4>3 DEF Owed
      <4>5. GivenOK(o)'
        BY <3>2, <3>3, <3>4, <3>6, <4>2, <4>3, <4>4 DEF GivenOK
      <4> QED
        BY <1>1, <3>1, <3>2, <4>5 DEF Go, TypeOK
    <3> QED
      BY <3>5, <3>6
  <2> QED
    BY <2>1, <2>2
<1>10. ASSUME NEW o \in Ops, Begin(o)
       PROVE  GivenInv'
  BY <1>2, <1>4, <1>10 DEF Begin, Fail, Late
<1>11. ASSUME NEW o \in Ops, Unusable(o) \/ DecodeFails(o)
       PROVE  GivenInv'
  BY <1>2, <1>11 DEF Unusable, DecodeFails, Fail, Cancelled
<1>12. ASSUME NEW o \in Ops, Decode(o)
       PROVE  GivenInv'
  <2>1. \A x \in Ops : written[x] \subseteq written'[x]
    BY <1>12 DEF Decode, TypeOK
  <2> QED
    BY <1>12, <2>1, SameGiven DEF Decode, GivenInv
<1>13. ASSUME NEW o \in Ops, Verify(o)
       PROVE  GivenInv'
  <2>1. CASE Fail(o)
    BY <1>2, <2>1 DEF Fail
  <2>2. CASE ~Fail(o)
    <3>1. Plan(o)' = Plan(o) /\ Owed(o)' = Owed(o)
      BY <1>13, <2>2, SameCall DEF Verify
    <3>2. pc'[o] = "commit" /\ given'[o] = {} /\ result'[o] = "none"
      BY <1>13, <2>2 DEF Verify, Go, TypeOK, GivenInv, GivenOK, CallInv
    <3>3. GivenOK(o)'
      BY <1>13, <2>2, <3>1, <3>2 DEF Verify, Verified, GivenOK
    <3> QED
      BY <1>1, <1>13, <2>2, <3>3 DEF Verify, Go, TypeOK
  <2> QED
    BY <2>1, <2>2
<1>14. ASSUME NEW o \in Ops, Commit(o)
       PROVE  GivenInv'
  <2>1. CASE Fail(o)
    BY <1>2, <2>1 DEF Fail
  <2>2. CASE ~Fail(o)
    <3>1. UNCHANGED <<archive, kind, last, written, result>>
      BY <1>14, <2>2 DEF Commit
    <3>2. /\ pc[o] = "commit" /\ result[o] = "none" /\ Plan(o) \subseteq written[o]
          /\ kind[o] = "read" => given[o] = {}
          /\ kind[o] # "read" => given[o] \subseteq Owed(o)
      BY <1>14 DEF Commit, GivenInv, GivenOK, CallInv
    <3>3. CASE /\ kind[o] = "read" \/ Uncommitted(o) = {}
               /\ Go(o, IF kind[o] = "read" THEN "consume" ELSE "complete")
               /\ UNCHANGED <<waived, given>>
      <4>1. /\ Plan(o)' = Plan(o) /\ Owed(o)' = Owed(o)
            /\ \A n : Handed(o, n)' = Handed(o, n)
        BY <3>1, <3>3, SameCall
      <4>2. pc'[o] = (IF kind[o] = "read" THEN "consume" ELSE "complete")
        BY <3>3 DEF Go, TypeOK
      <4>3. CASE kind[o] # "read"
        <5>1. given[o] = Owed(o)
          BY <3>2, <3>3, <4>3 DEF Owed, Uncommitted
        <5> QED
          BY <1>1, <3>1, <3>2, <3>3, <4>1, <4>2, <4>3, <5>1 DEF GivenOK, Go, TypeOK
      <4>4. CASE kind[o] = "read"
        <5>1. given'[o] = Handed(o, 0)
          BY <3>2, <3>3, <4>4 DEF Handed
        <5>2. archive[last[o]] \in Nat
          BY <3>2, TargetFacts DEF Ended
        <5>3. 0 \in 0 .. archive[last[o]]
          BY <5>2
        <5>4. GivenOK(o)'
          BY <3>1, <3>2, <3>3, <4>1, <4>2, <4>4, <5>1, <5>3 DEF GivenOK
        <5> QED
          BY <1>1, <3>1, <3>3, <5>4 DEF Go, TypeOK
      <4> QED
        BY <4>3, <4>4
    <3>4. ASSUME NEW i \in Uncommitted(o), kind[o] # "read", UNCHANGED pc,
                 \/ given' = [given EXCEPT ![o] = @ \cup {<<i, 0>>}] /\ UNCHANGED waived
                 \/ waived' = [waived EXCEPT ![o] = @ \cup {i}] /\ UNCHANGED given
          PROVE  GivenInv'
      <4>1. i \in Plan(o) /\ <<i, 0>> \notin given[o]
        BY <3>4 DEF Uncommitted
      <4>2. CASE given' = [given EXCEPT ![o] = @ \cup {<<i, 0>>}] /\ UNCHANGED waived
        <5>1. Plan(o)' = Plan(o) /\ Owed(o)' = Owed(o)
          BY <3>1, <4>2, SameCall
        <5>2. given'[o] = given[o] \cup {<<i, 0>>} /\ <<i, 0>> \in Owed(o)
          BY <3>4, <4>1, <4>2 DEF Owed, TypeOK
        <5>3. GivenOK(o)'
          BY <3>1, <3>2, <3>4, <5>1, <5>2 DEF GivenOK
        <5> QED
          BY <1>1, <3>1, <3>4, <4>2, <5>3 DEF TypeOK
      <4>3. CASE waived' = [waived EXCEPT ![o] = @ \cup {i}] /\ UNCHANGED given
        <5>1. waived'[o] = waived[o] \cup {i}
          BY <4>3 DEF TypeOK
        <5>2. Plan(o)' = Plan(o) \ {i}
          BY <3>1, <5>1 DEF Plan, Targets
        <5>3. given'[o] \subseteq Owed(o)'
          BY <3>1, <3>2, <3>4, <4>1, <4>3, <5>2 DEF Owed
        <5>4. GivenOK(o)'
          BY <3>1, <3>2, <3>4, <5>2, <5>3 DEF GivenOK
        <5> QED
          BY <1>1, <3>1, <3>4, <4>3, <5>4 DEF TypeOK
      <4> QED
        BY <3>4, <4>2, <4>3
    <3> QED
      BY <1>14, <2>2, <3>3, <3>4 DEF Commit
  <2> QED
    BY <2>1, <2>2
<1>15. ASSUME NEW o \in Ops, Complete(o)
       PROVE  GivenInv'
  <2>1. pc[o] = "complete" /\ result[o] # "ok"
    BY <1>15 DEF Complete, CallInv
  <2>2. CASE Return(o, "ok")
    BY <1>3, <2>1, <2>2 DEF GivenInv, GivenOK
  <2>3. CASE Go(o, "completing")
             /\ UNCHANGED <<readerVars, progressVars, decoderVars, callbackVars,
                            work, abortVars, history, result>>
    <3>1. Plan(o)' = Plan(o) /\ Owed(o)' = Owed(o)
      BY <2>3, SameCall
    <3>2. pc'[o] = "completing"
      BY <2>3 DEF Go, TypeOK
    <3>3. GivenOK(o)'
      BY <2>1, <2>3, <3>1, <3>2 DEF GivenInv, GivenOK
    <3> QED
      BY <1>1, <2>3, <3>3 DEF Go, TypeOK
  <2> QED
    BY <1>15, <2>2, <2>3 DEF Complete
<1>16. ASSUME NEW o \in Ops, Completing(o)
       PROVE  GivenInv'
  BY <1>3, <1>16 DEF Completing, GivenInv, GivenOK
<1>17. ASSUME NEW o \in Ops, Consume(o)
       PROVE  GivenInv'
  <2>1. CASE Fail(o) \/ Cancelled(o)
    BY <1>2, <2>1 DEF Fail, Cancelled
  <2>2. CASE Return(o, "ok") /\ given[o] = Owed(o)
    BY <1>3, <1>17, <2>2 DEF Consume, GivenInv, GivenOK
  <2>3. CASE Go(o, "consumer") /\ given[o] # Owed(o)
             /\ UNCHANGED <<readerVars, progressVars, decoderVars, callbackVars,
                            work, abortVars, history, result>>
    <3>0. pc[o] = "consume" /\ kind[o] = "read" /\ result[o] # "ok"
      BY <1>17 DEF Consume, GivenInv, GivenOK, CallInv
    <3>1. PICK n \in 0 .. archive[last[o]] : given[o] = Handed(o, n)
      BY <3>0 DEF GivenInv, GivenOK
    <3>2. Owed(o) = Handed(o, archive[last[o]])
      BY <3>0 DEF Owed, Blocks, Handed
    <3>3. archive[last[o]] \in Nat
      BY <3>0, TargetFacts DEF Ended
    <3>4. n < archive[last[o]]
      BY <2>3, <3>1, <3>2, <3>3
    <3>5. Plan(o)' = Plan(o) /\ \A m : Handed(o, m)' = Handed(o, m)
      BY <2>3, SameCall
    <3>6. pc'[o] = "consumer"
      BY <2>3 DEF Go, TypeOK
    <3>7. Plan(o) \subseteq written[o]
      BY <3>0 DEF GivenInv, GivenOK
    <3>8. GivenOK(o)'
      BY <2>3, <3>0, <3>1, <3>4, <3>5, <3>6, <3>7 DEF GivenOK
    <3> QED
      BY <1>1, <2>3, <3>8 DEF Go, TypeOK
  <2> QED
    BY <1>17, <2>1, <2>2, <2>3 DEF Consume
<1>18. ASSUME NEW o \in Ops, Consumer(o)
       PROVE  GivenInv'
  <2>1. CASE Return(o, "cancelled")
    BY <1>2, <2>1
  <2>2. CASE /\ given' = [given EXCEPT ![o] = @ \cup {NextBlock(o)}]
             /\ Go(o, "consume")
             /\ UNCHANGED <<readerVars, progressVars, decoderVars, callbackVars, kind,
                            last, waived, written, begun, abortVars, asked, result>>
    <3>0. pc[o] = "consumer" /\ kind[o] = "read" /\ result[o] # "ok"
          /\ Plan(o) \subseteq written[o]
      BY <1>18 DEF Consumer, GivenInv, GivenOK, CallInv
    <3>1. PICK n \in 0 .. archive[last[o]] :
              given[o] = Handed(o, n) /\ n < archive[last[o]]
      BY <3>0 DEF GivenInv, GivenOK
    <3>2. archive[last[o]] \in Nat
      BY <3>0, TargetFacts DEF Ended
    <3>3. NextBlock(o) = <<last[o], n + 1>>
      BY <3>1, HandedFacts DEF NextBlock
    <3>4. given'[o] = Handed(o, n + 1)
      <4>1. given'[o] = given[o] \cup {NextBlock(o)}
        BY <2>2 DEF TypeOK
      <4>2. Handed(o, n + 1) = Handed(o, n) \cup {<<last[o], n + 1>>}
        BY HandedFacts
      <4> QED
        BY <3>1, <3>3, <4>1, <4>2
    <3>5. n + 1 \in 0 .. archive[last[o]]
      BY <3>1, <3>2
    <3>6. Plan(o)' = Plan(o) /\ \A m : Handed(o, m)' = Handed(o, m)
      BY <2>2, SameCall
    <3>7. pc'[o] = "consume"
      BY <2>2 DEF Go, TypeOK
    <3>8. GivenOK(o)'
      BY <2>2, <3>0, <3>4, <3>5, <3>6, <3>7 DEF GivenOK
    <3> QED
      BY <1>1, <2>2, <3>8 DEF Go, TypeOK
  <2> QED
    BY <1>18, <2>1, <2>2 DEF Consumer
<1>19. ASSUME NEW o \in Ops, CancelContext(o)
       PROVE  GivenInv'
  BY <1>5, <1>19 DEF CancelContext
<1>20. ASSUME NEW t \in Threads, Cancel(t) \/ AbortDecoder(t) \/ AbortCallback(t)
       PROVE  GivenInv'
  BY <1>5, <1>20 DEF Cancel, AbortDecoder, AbortCallback
<1>21. CASE UNCHANGED vars
  BY <1>5, <1>21 DEF vars
<1> QED
  BY <1>6, <1>7, <1>8, <1>9, <1>10, <1>11, <1>12, <1>13, <1>14, <1>15, <1>16, <1>17,
     <1>18, <1>19, <1>20, <1>21, ThreadFacts DEF Next, Step

--------------------------------------------------------------------------------
(* The theorems *)

LEMMA InitIInv == Init => IInv
<1> SUFFICES ASSUME Init
             PROVE  IInv
  OBVIOUS
<1>1. TypeOK /\ CallInv
  BY InitTypes
<1>2. Serialized /\ CancelReachesRunning /\ CallbackInv
  BY NoOpAssumption DEF Init, Serialized, CancelReachesRunning, CallbackInv, Inside
<1>3. CauseInv /\ CancelledHasCause /\ HeardInv /\ GivenInv
  BY DEF Init, CauseInv, CancelledHasCause, HeardInv, GivenInv, GivenOK
<1>4. AbortInv
  <2>1. ASSUME NEW o \in Ops
        PROVE  stage[Task(o)] = "none" /\ stage[OnCancel(o)] = "armed"
    <3>1. Task(o) \in Threads /\ Task(o) \in Tasks /\ OnCancel(o) \in Threads
      BY DEF Threads, Tasks, Cancellers
    <3>2. /\ Task(o) \notin {OnCancel(x) : x \in Ops}
          /\ OnCancel(o) \notin Tasks /\ OnCancel(o) \in {OnCancel(x) : x \in Ops}
      BY DEF Tasks, Task, OnCancel
    <3>3. ASSUME NEW t \in Threads
          PROVE  stage[t] = CASE t \in Tasks -> "none"
                              [] t \in {OnCancel(x) : x \in Ops} -> "armed"
                              [] OTHER -> "state"
      BY DEF Init
    <3>4. stage[Task(o)] = "none"
      BY <3>1, <3>2, <3>3, Zenon
    <3>5. stage[OnCancel(o)] = "armed"
      BY <3>1, <3>2, <3>3, Zenon
    <3> QED
      BY <3>4, <3>5
  <2> QED
    BY <2>1 DEF Init, AbortInv
<1> QED
  BY <1>1, <1>2, <1>3, <1>4 DEF IInv

LEMMA StepIInv == IInv /\ [Next]_vars => IInv'
BY StepTypes, StepSerialized, StepCall, StepCallback, StepCause, StepAbort, StepHeard,
   StepGiven DEF IInv

\* The variables keep their types, whatever the archive and however many
\* operations and cancelling threads there are.
THEOREM TypeCorrect == Spec => []TypeOK
<1>1. IInv => TypeOK
  BY DEF IInv
<1> QED
  BY InitIInv, StepIInv, <1>1, PTL DEF Spec

\* The progress state holds no context but that of the operation that runs, on
\* any way out of the earlier calls, and whoever cancels the state has cancelled
\* that context.
THEOREM CancellationReachesRunning == Spec => []CancelReachesRunning
<1>1. IInv => CancelReachesRunning
  BY DEF IInv
<1> QED
  BY InitIInv, StepIInv, <1>1, PTL DEF Spec

\* What makes every later extraction of a reader fail has a cause: a registered
\* callback, a call that failed; an aborted or closed decoder, somebody who
\* cancelled or refused.
THEOREM WearingOutHasCause == Spec => []WearsOutWithCause
<1>1. ASSUME IInv, callback # NoOp
      PROVE  operationLock = callback \/ result[callback] = "error"
  <2>1. callback \in Ops
    BY <1>1 DEF IInv, TypeOK
  <2>2. pc[callback] \in Inside \/ result[callback] = "error"
    BY <1>1 DEF IInv, CallbackInv, Extracting, Inside
  <2> QED
    BY <1>1, <2>1, <2>2 DEF IInv, Serialized
<1>2. IInv => WearsOutWithCause
  BY <1>1 DEF IInv, AbortInv, Wanted, WearsOutWithCause
<1> QED
  BY InitIInv, StepIInv, <1>2, PTL DEF Spec

\* Nobody is told "cancelled" who did not ask and was not cancelled, although
\* the flags of the decoder and of the progress state outlive a call.
THEOREM NoSpuriousCancellation == Spec => []CancelledHasCause
<1>1. IInv => CancelledHasCause
  BY DEF IInv
<1> QED
  BY InitIInv, StepIInv, <1>1, PTL DEF Spec

\* Success means that every planned file was decoded to its end and committed,
\* and every block of a read accepted, for files of any number and length.
THEOREM SuccessIsComplete == Spec => []OkMeansComplete
<1>1. IInv => OkMeansComplete
  BY DEF IInv, GivenInv, GivenOK, OkMeansComplete
<1> QED
  BY InitIInv, StepIInv, <1>1, PTL DEF Spec

\* At most one call of a handler or consumer begins after the cancellation.
THEOREM CancellationIsHeard == Spec => []AtMostOneCallAfterCancel
<1>1. ASSUME IInv, NEW o \in Ops
      PROVE  heard[o] <= 1
  <2>1. heard[o] = 0 \/ heard[o] = 1
    BY <1>1 DEF IInv, HeardInv
  <2> QED
    BY <2>1
<1>2. IInv => AtMostOneCallAfterCancel
  BY <1>1 DEF AtMostOneCallAfterCancel
<1> QED
  BY InitIInv, StepIInv, <1>2, PTL DEF Spec

--------------------------------------------------------------------------------
(* The contract *)

LEMMA InitRefines == Init => Contract!Init
<1> SUFFICES ASSUME Init
             PROVE  Contract!Init
  OBVIOUS
<1>1. Phase("idle") = "idle"
  BY DEF Phase, Inside
<1>2. phase = [o \in Ops |-> "idle"]
  BY <1>1 DEF Init, phase
<1>3. owed = [o \in Ops |-> {}]
  BY DEF Init, owed
<1> QED
  BY <1>2, <1>3 DEF Init, Contract!Init

\* What is owed are pieces of the archive.
LEMMA OwedFacts ==
    ASSUME TypeOK, CallInv, NEW o \in Ops, pc[o] \notin Ended
    PROVE  Owed(o) \subseteq AllPieces
<1>1. archive \in Archives /\ archive \in Seq(Nat) /\ DOMAIN archive = 1 .. Len(archive)
  BY ArchivesAssumption DEF TypeOK
<1>2. ASSUME NEW i \in DOMAIN archive, NEW j \in 0 .. archive[i]
      PROVE  <<i, j>> \in AllPieces
  BY <1>1, <1>2 DEF AllPieces
<1>3. CASE kind[o] = "read"
  <2>1. last[o] \in DOMAIN archive /\ archive[last[o]] \in Nat
    BY <1>1, TargetFacts
  <2>2. \A j \in 1 .. archive[last[o]] : j \in 0 .. archive[last[o]]
    BY <2>1
  <2> QED
    BY <1>2, <1>3, <2>1, <2>2 DEF Owed, Blocks
<1>4. CASE kind[o] # "read"
  <2>1. \A i \in Plan(o) : i \in DOMAIN archive /\ 0 \in 0 .. archive[i]
    BY <1>1, TargetFacts
  <2> QED
    BY <1>2, <1>4, <2>1 DEF Owed
<1> QED
  BY <1>3, <1>4

\* The phase of an operation follows its program counter, and what it owes the
\* plan; the others do not change.
LEMMA SamePhase == UNCHANGED pc => UNCHANGED phase
BY DEF phase

LEMMA SameOwed == UNCHANGED <<archive, kind, last, waived>> => UNCHANGED owed
BY DEF owed, Owed, Plan, Targets, Blocks

LEMMA PhaseMoves ==
    ASSUME TypeOK, NEW o \in Ops, NEW p, Go(o, p)
    PROVE  phase' = [phase EXCEPT ![o] = Phase(p)]
BY DEF Go, TypeOK, phase

\* An operation that goes on inside keeps its phase.
LEMMA SamePhaseInside ==
    ASSUME TypeOK, NEW o \in Ops, pc[o] \in Inside, NEW p \in Inside, Go(o, p)
    PROVE  UNCHANGED phase
BY DEF Go, TypeOK, phase, Phase, Inside

LEMMA StepRefines == IInv /\ [Next]_vars => [Contract!Next]_(Contract!contractVars)
<1> SUFFICES ASSUME IInv, [Next]_vars
             PROVE  Contract!Next \/ UNCHANGED Contract!contractVars
  OBVIOUS
<1> USE DEF readerVars, progressVars, decoderVars, callbackVars, work, abortVars, history
<1>0. /\ TypeOK /\ CallInv /\ Serialized /\ CancelReachesRunning
      /\ CauseInv /\ GivenInv
  BY DEF IInv
<1>1. ASSUME UNCHANGED <<archive, pc, kind, last, waived, given, asked, result>>
      PROVE  UNCHANGED Contract!contractVars
  BY <1>1, SamePhase, SameOwed DEF Contract!contractVars
<1>2. ASSUME NEW o \in Ops, pc[o] \in Inside, NEW p \in Inside, Go(o, p),
             UNCHANGED <<archive, kind, last, waived, given, asked, result>>
      PROVE  UNCHANGED Contract!contractVars
  BY <1>0, <1>2, SamePhaseInside, SameOwed DEF Contract!contractVars
<1>3. ASSUME NEW S \in SUBSET Ops, asked' = asked \cup S, UNCHANGED <<phase, owed, given, result>>
      PROVE  Contract!Next
  <2>1. Contract!Ask(S)
    BY <1>3 DEF Contract!Ask
  <2> QED
    BY <2>1 DEF Contract!Next
<1>4. ASSUME NEW o \in Ops, pc[o] \in Inside, NEW r \in {"ok", "cancelled", "error"},
             Return(o, r), r = "ok" => given[o] = Owed(o),
             asked' \in {asked, asked \cup {o}}, r = "cancelled" => o \in asked'
      PROVE  Contract!Next
  <2>1. phase[o] = "active"
    BY <1>4 DEF phase, Phase, Inside
  <2>2. phase' = [phase EXCEPT ![o] = "done"]
    BY <1>0, <1>4, PhaseMoves DEF Return, Phase, Inside
  <2>3. UNCHANGED owed
    BY <1>4, SameOwed DEF Return
  <2>4. owed[o] = Owed(o)
    BY <1>0, <1>4 DEF CallInv, Ended, Inside, owed
  <2>5. Contract!Retire(o, r)
    BY <1>4, <2>1, <2>2, <2>3, <2>4 DEF Return, Contract!Retire
  <2> QED
    BY <2>5 DEF Contract!Next
<1>5. ASSUME NEW o \in Ops, pc[o] \in Inside, Fail(o)
      PROVE  Contract!Next
  BY <1>4, <1>5 DEF Fail
<1>6. ASSUME NEW o \in Ops, pc[o] \in Inside, Cancelled(o), o \in asked
      PROVE  Contract!Next
  BY <1>4, <1>6 DEF Cancelled
<1>7. ASSUME NEW o \in Ops, Call(o)
      PROVE  Contract!Next
  <2>1. PICK k \in Kinds, i \in 1 .. Len(archive) :
            kind' = [kind EXCEPT ![o] = k] /\ last' = [last EXCEPT ![o] = i]
    BY <1>7 DEF Call
  <2>2. phase' = [phase EXCEPT ![o] = "waiting"]
    <3>1. phase' = [phase EXCEPT ![o] = Phase("queued")]
      BY <1>0, <1>7, PhaseMoves DEF Call
    <3>2. Phase("queued") = "waiting"
      BY DEF Phase, Inside
    <3> QED
      BY <3>1, <3>2
  <2>3. phase[o] = "idle"
    BY <1>7 DEF Call, phase, Phase, Inside
  <2>4. UNCHANGED <<archive, waived, given, asked, result>>
    BY <1>7 DEF Call
  <2>5. TypeOK' /\ CallInv' /\ pc'[o] \notin Ended
    BY <1>0, <1>7, StepTypes, StepCall DEF Call, Go, TypeOK, Ended
  <2>6. Owed(o)' \subseteq AllPieces
    <3>1. (TypeOK /\ CallInv /\ pc[o] \notin Ended => Owed(o) \subseteq AllPieces)'
      BY OwedFacts, PTL
    <3> QED
      BY <2>5, <3>1 DEF AllPieces
  <2>7. owed' = [owed EXCEPT ![o] = Owed(o)']
    <3>1. last'[o] # 0
      BY <1>0, <2>1, <2>4, ArchivesAssumption DEF TypeOK
    <3>2. \A x \in Ops \ {o} : Owed(x)' = Owed(x) /\ last'[x] = last[x]
      BY <1>0, <2>1, <2>4 DEF TypeOK, Owed, Plan, Targets, Blocks
    <3> HIDE DEF Owed
    <3> QED
      BY <3>1, <3>2 DEF owed
  <2>8. Contract!Submit(o, Owed(o)')
    BY <2>2, <2>3, <2>4, <2>7 DEF Contract!Submit
  <2> QED
    BY <2>6, <2>8 DEF Contract!Next
<1>8. ASSUME NEW o \in Ops, RejectEntry(o)
      PROVE  Contract!Next
  <2>1. phase[o] = "idle"
    BY <1>8 DEF RejectEntry, phase, Phase, Inside
  <2>2. phase' = [phase EXCEPT ![o] = "done"]
    BY <1>0, <1>8, PhaseMoves DEF RejectEntry, Phase, Inside
  <2>3. UNCHANGED owed
    BY <1>8, SameOwed DEF RejectEntry
  <2>4. Contract!Retire(o, "error")
    BY <1>8, <2>1, <2>2, <2>3 DEF RejectEntry, Contract!Retire
  <2> QED
    BY <2>4 DEF Contract!Next
<1>9. ASSUME NEW o \in Ops, Lock(o)
      PROVE  Contract!Next
  <2>1. phase[o] = "waiting"
    BY <1>9 DEF Lock, phase, Phase, Inside
  <2>2. phase' = [phase EXCEPT ![o] = "active"]
    BY <1>0, <1>9, PhaseMoves DEF Lock, Phase, Inside
  <2>3. UNCHANGED owed
    BY <1>9, SameOwed DEF Lock
  <2>4. ASSUME NEW x \in Ops
        PROVE  phase[x] # "active"
    <3>1. pc[x] \notin Inside
      BY <1>0, <1>9, NoOpAssumption DEF Lock, Unlocked, Serialized
    <3> QED
      BY <3>1, <1>0 DEF phase, Phase, TypeOK, Points
  <2>5. Contract!Admit(o)
    BY <1>9, <2>1, <2>2, <2>3, <2>4 DEF Lock, Contract!Admit, Contract!Idle
  <2> QED
    BY <2>5 DEF Contract!Next
\* Entries that are skipped are waived.
<1>10. ASSUME NEW o \in Ops, pc[o] \in Inside, kind[o] # "read",
              NEW w \in SUBSET Targets(o), waived' = [waived EXCEPT ![o] = @ \cup w],
              \A i \in w : <<i, 0>> \notin given[o],
              UNCHANGED <<phase, archive, kind, last, given, asked, result>>
       PROVE  Contract!Next
  <2> DEFINE W == {<<i, 0>> : i \in w}
  <2>1. last[o] # 0 /\ pc[o] \notin Ended
    BY <1>0, <1>10 DEF CallInv, Ended, Inside
  <2>2. W \subseteq AllPieces
    <3>1. archive \in Archives /\ archive \in Seq(Nat) /\ DOMAIN archive = 1 .. Len(archive)
      BY <1>0, ArchivesAssumption DEF TypeOK
    <3>2. \A i \in w : i \in DOMAIN archive /\ 0 \in 0 .. archive[i]
      BY <1>0, <2>1, <3>1, TargetFacts
    <3> QED
      BY <3>1, <3>2 DEF AllPieces
  <2>3. Plan(o)' = Plan(o) \ w
    BY <1>0, <1>10 DEF Plan, Targets, TypeOK
  <2>4. Owed(o)' = Owed(o) \ W
    BY <1>10, <2>3 DEF Owed
  <2>5. owed' = [owed EXCEPT ![o] = @ \ W]
    <3>1. \A x \in Ops \ {o} : Owed(x)' = Owed(x)
      BY <1>0, <1>10 DEF Owed, Plan, Targets, Blocks, TypeOK
    <3> QED
      BY <1>10, <2>1, <2>4, <3>1 DEF owed
  <2>6. given[o] \cap W = {}
    BY <1>10
  <2>7. phase[o] = "active"
    BY <1>10 DEF phase, Phase, Inside
  <2>8. Contract!Waive(o, W)
    BY <1>10, <2>5, <2>6, <2>7 DEF Contract!Waive
  <2> QED
    BY <2>2, <2>8 DEF Contract!Next
<1>11. ASSUME NEW o \in Ops, Prepare(o)
       PROVE  Contract!Next \/ UNCHANGED Contract!contractVars
  <2>0. pc[o] \in Inside
    BY <1>11 DEF Prepare, Inside
  <2>1. CASE Fail(o)
    BY <1>5, <2>0, <2>1
  <2>2. CASE context[o] /\ Cancelled(o)
    BY <1>0, <1>6, <2>0, <2>2 DEF CauseInv
  <2>3. CASE ~Fail(o) /\ ~Cancelled(o)
    <3>1. PICK w \in Waivable(o) :
              /\ waived' = [waived EXCEPT ![o] = w]
              /\ Go(o, IF w = Targets(o) THEN "complete" ELSE "begin")
      BY <1>11, <2>3 DEF Prepare
    <3>2. UNCHANGED <<archive, kind, last, given, asked, result>>
      BY <1>11, <2>3 DEF Prepare
    <3>3. UNCHANGED phase
      BY <1>0, <2>0, <3>1, SamePhaseInside DEF Inside
    <3>4. given[o] = {} /\ waived[o] = {}
      BY <1>0, <1>11 DEF Prepare, GivenInv, GivenOK, CallInv
    <3>5. CASE kind[o] # "read"
      <4>1. waived' = [waived EXCEPT ![o] = @ \cup w] /\ w \in SUBSET Targets(o)
        BY <3>1, <3>4, <3>5 DEF Waivable
      <4> QED
        BY <1>10, <2>0, <3>2, <3>3, <3>4, <3>5, <4>1
    <3>6. CASE kind[o] = "read"
      <4>1. waived' = waived
        BY <1>0, <3>1, <3>4, <3>6 DEF Waivable, TypeOK
      <4> QED
        BY <3>2, <3>3, <4>1, SameOwed DEF Contract!contractVars
    <3> QED
      BY <3>5, <3>6
  <2>4. \/ Fail(o)
        \/ context[o] /\ Cancelled(o)
        \/ ~Fail(o) /\ ~Cancelled(o)
    <3>1. CASE Cancelled(o)
      <4>1. result'[o] = "cancelled"
        BY <1>0, <3>1 DEF Cancelled, Return, TypeOK
      <4>2. result'[o] # result[o]
        BY <1>0, <1>11, <4>1 DEF CallInv, Prepare
      <4> QED
        BY <1>11, <3>1, <4>2 DEF Prepare
    <3> QED
      BY <3>1
  <2> QED
    BY <2>1, <2>2, <2>3, <2>4
<1>12. ASSUME NEW o \in Ops, Begin(o) \/ Verify(o)
       PROVE  Contract!Next \/ UNCHANGED Contract!contractVars
  BY <1>2, <1>5, <1>12 DEF Begin, Verify, Inside
<1>13. ASSUME NEW o \in Ops, Process(o) \/ Report(o) \/ Consult(o) \/ Refuse(o)
                             \/ Answered(o) \/ Extracted(o) \/ Processed(o)
       PROVE  UNCHANGED Contract!contractVars
  BY <1>2, <1>13 DEF Process, Report, Consult, Refuse, Answered, Extracted, Processed, Inside
<1>14. ASSUME NEW o \in Ops, Unusable(o) \/ DecodeFails(o)
       PROVE  Contract!Next
  BY <1>0, <1>5, <1>6, <1>14 DEF Unusable, DecodeFails, CauseInv, Inside
<1>15. ASSUME NEW o \in Ops, Handler(o)
       PROVE  Contract!Next \/ UNCHANGED Contract!contractVars
  <2>1. CASE UNCHANGED asked
    BY <1>2, <1>15, <2>1 DEF Handler, Inside
  <2>2. CASE asked' = asked \cup {o}
    <3>1. UNCHANGED phase
      BY <1>0, <1>15, SamePhaseInside DEF Handler, Inside
    <3>2. UNCHANGED <<owed, given, result>>
      BY <1>15, SameOwed DEF Handler
    <3> QED
      BY <1>3, <2>2, <3>1, <3>2
  <2> QED
    BY <1>15, <2>1, <2>2 DEF Handler
\* What is handed over was owed and not there yet.
<1>16. ASSUME NEW o \in Ops, pc[o] \in Inside, NEW p, p \in Owed(o) \ given[o],
              given' = [given EXCEPT ![o] = @ \cup {p}],
              UNCHANGED <<phase, archive, kind, last, waived, asked, result>>
       PROVE  Contract!Next
  <2>1. phase[o] = "active"
    BY <1>16 DEF phase, Phase, Inside
  <2>2. owed[o] = Owed(o) /\ p \in AllPieces
    BY <1>0, <1>16, OwedFacts DEF CallInv, Ended, Inside, owed
  <2>3. Contract!Give(o, p)
    BY <1>16, <2>1, <2>2, SameOwed DEF Contract!Give
  <2> QED
    BY <2>2, <2>3 DEF Contract!Next
<1>17. ASSUME NEW o \in Ops, Commit(o)
       PROVE  Contract!Next \/ UNCHANGED Contract!contractVars
  <2>0. pc[o] \in Inside
    BY <1>17 DEF Commit, Inside
  <2>1. CASE Fail(o)
    BY <1>5, <2>0, <2>1
  <2>2. CASE ~Fail(o)
    <3>1. UNCHANGED <<archive, kind, last, asked, result>>
      BY <1>17, <2>2 DEF Commit
    <3>2. CASE /\ Go(o, IF kind[o] = "read" THEN "consume" ELSE "complete")
               /\ UNCHANGED <<waived, given>>
      BY <1>2, <2>0, <3>1, <3>2 DEF Inside
    <3>3. ASSUME NEW i \in Uncommitted(o), kind[o] # "read", UNCHANGED pc,
                 given' = [given EXCEPT ![o] = @ \cup {<<i, 0>>}], UNCHANGED waived
          PROVE  Contract!Next
      <4>1. <<i, 0>> \in Owed(o) \ given[o]
        BY <3>3 DEF Uncommitted, Owed
      <4> QED
        BY <1>16, <2>0, <3>1, <3>3, <4>1, SamePhase
    <3>4. ASSUME NEW i \in Uncommitted(o), kind[o] # "read", UNCHANGED pc,
                 waived' = [waived EXCEPT ![o] = @ \cup {i}], UNCHANGED given
          PROVE  Contract!Next
      <4>1. {i} \in SUBSET Targets(o) /\ \A k \in {i} : <<k, 0>> \notin given[o]
        BY <3>4 DEF Uncommitted, Plan
      <4> QED
        BY <1>10, <2>0, <3>1, <3>4, <4>1, SamePhase
    <3> QED
      BY <1>17, <2>2, <3>2, <3>3, <3>4 DEF Commit
  <2> QED
    BY <2>1, <2>2
<1>18. ASSUME NEW o \in Ops, Complete(o) \/ Completing(o)
       PROVE  Contract!Next \/ UNCHANGED Contract!contractVars
  <2>1. given[o] = Owed(o) /\ pc[o] \in Inside
    BY <1>0, <1>18 DEF Complete, Completing, GivenInv, GivenOK, Inside
  <2> QED
    BY <1>2, <1>4, <1>18, <2>1 DEF Complete, Completing, Inside
<1>19. ASSUME NEW o \in Ops, Consume(o)
       PROVE  Contract!Next \/ UNCHANGED Contract!contractVars
  <2>0. pc[o] \in Inside
    BY <1>19 DEF Consume, Inside
  <2>1. CASE Cancelled(o) /\ ~ContextAllows(o)
    BY <1>0, <1>6, <2>0, <2>1 DEF ContextAllows, CauseInv
  <2>2. CASE Return(o, "ok") /\ given[o] = Owed(o) /\ UNCHANGED asked
    BY <1>4, <2>0, <2>2
  <2> QED
    BY <1>2, <1>5, <1>19, <2>0, <2>1, <2>2 DEF Consume, Inside
<1>20. ASSUME NEW o \in Ops, Consumer(o)
       PROVE  Contract!Next
  <2>0. pc[o] \in Inside
    BY <1>20 DEF Consumer, Inside
  <2>1. CASE Return(o, "cancelled") /\ asked' = asked \cup {o}
    BY <1>4, <2>0, <2>1
  <2>2. CASE /\ given' = [given EXCEPT ![o] = @ \cup {NextBlock(o)}]
             /\ Go(o, "consume")
             /\ UNCHANGED <<readerVars, progressVars, decoderVars, callbackVars, kind,
                            last, waived, written, begun, abortVars, asked, result>>
    <3>1. kind[o] = "read" /\ \E n \in 0 .. archive[last[o]] :
              given[o] = Handed(o, n) /\ n < archive[last[o]]
      BY <1>0, <1>20 DEF Consumer, GivenInv, GivenOK
    <3>2. PICK n \in 0 .. archive[last[o]] :
              given[o] = Handed(o, n) /\ n < archive[last[o]]
      BY <3>1
    <3>3. archive[last[o]] \in Nat
      BY <1>0, <2>0, TargetFacts DEF Ended, Inside
    <3>4. NextBlock(o) = <<last[o], n + 1>>
      BY <3>2, HandedFacts DEF NextBlock
    <3>5. NextBlock(o) \in Owed(o) \ given[o]
      BY <3>1, <3>2, <3>3, <3>4 DEF Owed, Blocks, Handed
    <3>6. UNCHANGED phase
      BY <1>0, <2>0, <2>2, SamePhaseInside DEF Inside
    <3> QED
      BY <1>16, <2>0, <2>2, <3>5, <3>6
  <2> QED
    BY <1>20, <2>1, <2>2 DEF Consumer
<1>21. ASSUME NEW o \in Ops, Decode(o)
       PROVE  UNCHANGED Contract!contractVars
  BY <1>1, <1>21 DEF Decode
<1>22. ASSUME NEW S \in SUBSET Ops, asked' = asked \cup S,
              UNCHANGED <<archive, pc, work, result>>
       PROVE  Contract!Next
  BY <1>3, <1>22, SamePhase, SameOwed
<1>23. ASSUME NEW o \in Ops, CancelContext(o)
       PROVE  Contract!Next
  BY <1>22, <1>23 DEF CancelContext
<1>24. ASSUME NEW t \in Threads, Cancel(t) \/ AbortDecoder(t)
       PROVE  Contract!Next
  <2>1. {operationLock} \ {NoOp} \in SUBSET Ops
    BY <1>0 DEF TypeOK
  <2> QED
    BY <1>22, <1>24, <2>1 DEF Cancel, AbortDecoder, AskHolder
<1>25. ASSUME NEW t \in Threads, AbortCallback(t)
       PROVE  UNCHANGED Contract!contractVars
  BY <1>1, <1>25 DEF AbortCallback
<1>26. CASE UNCHANGED vars
  BY <1>1, <1>26 DEF vars
<1> QED
  BY <1>7, <1>8, <1>9, <1>11, <1>12, <1>13, <1>14, <1>15, <1>17, <1>18, <1>19, <1>20,
     <1>21, <1>23, <1>24, <1>25, <1>26, ThreadFacts DEF Next, Step

\* Sessions over the 7z backend keep the contract of every backend, for any
\* archive: operations one at a time, nothing handed over that is not owed, and
\* each of the three answers only with its reason.
THEOREM SessionImplementsContract == Spec => ImplementsContract
<1>1. IInv /\ [Next]_vars => IInv' /\ [Contract!Next]_(Contract!contractVars)
  BY StepIInv, StepRefines
<1> QED
  BY InitIInv, InitRefines, <1>1, PTL DEF Spec, ImplementsContract, Contract!Spec

================================================================================
