-------------------------- MODULE ReaderSessionProofs --------------------------
(***************************************************************************)
(* The safety properties of the sessions hold for any number of            *)
(* operations, any set of archives and every choice of backends.  The      *)
(* inductive invariant adds to TypeOK and Serialized where the cursor of a *)
(* call is, what has been accepted up to the cursor, why the flag of the   *)
(* handle is set, and when a handler may still be called.  For the         *)
(* refinement of ReaderContract it also has that nothing was accepted      *)
(* which is not owed.                                                      *)
(***************************************************************************)
EXTENDS ReaderSessionProperties, TLAPS

\* A call that has not left its loops stands at one of its entries; on
\* "return" it has passed the last.
CursorInv == \A o \in Ops :
    /\ pc[o] \in {"queued", "enter", "setup", "entry", "chunk", "callback", "handler"}
          => First(kind[o], last[o]) <= at[o] /\ at[o] <= last[o]
    /\ pc[o] = "return" => at[o] = last[o] + 1
    /\ pc[o] = "idle" => seen[o] = 0
    /\ pc[o] # "done" => result[o] = "none"

\* The chunks before the cursor that the call answers for.
Passed(o) == {p \in Chunks(o) : /\ p[1] \notin skipped[o]
                                /\ p[1] < at[o] \/ (p[1] = at[o] /\ p[2] <= seen[o])}

\* Past the reset, the flag of the handle is set on behalf of the holder.
CauseInv == \A o \in Ops :
    /\ context[o] => asked[o] # {}
    /\ cancelled /\ pc[o] \in Inside \ {"enter"} => asked[o] # {}

\* A handler call in progress is never the second one after the cancellation.
HeardInv == \A o \in Ops :
    heard[o] # 0 => heard[o] = 1 /\ context[o] /\ pc[o] # "handler"

--------------------------------------------------------------------------------

LEMMA InitTypes == Init => TypeOK /\ CursorInv
<1> SUFFICES ASSUME Init
             PROVE  TypeOK /\ CursorInv
  OBVIOUS
<1>1. archive \in Seq(Nat) \ {<<>>} /\ backend \in AllBackends
  BY BackendsAssumption, ArchivesAssumption DEF Init
<1>2. Len(archive) \in Nat
  BY <1>1
<1>3. last \in [Ops -> 0 .. Len(archive)] /\ at \in [Ops -> 1 .. Len(archive) + 1]
  BY <1>2 DEF Init
<1>4. TypeOK
  BY <1>1, <1>3 DEF Init, TypeOK, Points, Kinds, Results
<1>5. CursorInv
  BY DEF Init, CursorInv
<1> QED
  BY <1>4, <1>5

\* NextEntry leaves the cursor on an entry of the call or just past the last.
LEMMA NextEntryTypes ==
    ASSUME TypeOK, CursorInv, NEW o \in Ops, pc[o] \in {"entry", "chunk"}, NextEntry(o)
    PROVE  /\ pc' \in [Ops -> Points]
           /\ at' \in [Ops -> 1 .. Len(archive) + 1]
           /\ seen' \in [Ops -> Nat]
           /\ pc'[o] = "entry" => First(kind[o], last[o]) <= at'[o] /\ at'[o] <= last[o]
           /\ pc'[o] = "return" => at'[o] = last[o] + 1
           /\ pc'[o] \in {"entry", "return"}
           /\ \A x \in Ops \ {o} : pc'[x] = pc[x] /\ at'[x] = at[x] /\ seen'[x] = seen[x]
<1>1. First(kind[o], last[o]) <= at[o] /\ at[o] <= last[o]
  BY DEF CursorInv
<1>2. last[o] \in 0 .. Len(archive) /\ at[o] \in 1 .. Len(archive) + 1
      /\ First(kind[o], last[o]) \in Int /\ Len(archive) \in Nat
  BY DEF TypeOK, First
<1> QED
  BY <1>1, <1>2 DEF NextEntry, Go, TypeOK, Points, Inside

LEMMA StepTypes == TypeOK /\ CursorInv /\ [Next]_vars => (TypeOK /\ CursorInv)'
<1> SUFFICES ASSUME TypeOK, CursorInv, [Next]_vars
             PROVE  TypeOK' /\ CursorInv'
  OBVIOUS
<1> USE DEF fixed, work, cursor, cancelVars
<1>1. ASSUME NEW o \in Ops, Call(o)
      PROVE  TypeOK' /\ CursorInv'
  <2>1. PICK k \in Kinds, i \in 1 .. Len(archive) :
            /\ kind' = [kind EXCEPT ![o] = k]
            /\ last' = [last EXCEPT ![o] = i]
            /\ at' = [at EXCEPT ![o] = First(k, i)]
    BY <1>1 DEF Call
  <2>2. First(k, i) \in 1 .. Len(archive) /\ First(k, i) <= i /\ Len(archive) \in Nat
    BY DEF First, TypeOK
  <2>3. pc' = [pc EXCEPT ![o] = "queued"] /\ UNCHANGED <<backend, archive,
          operationLock, cancelled, seen, acked, skipped, context, canceller,
          asked, heard, result>> /\ pc[o] = "idle"
    BY <1>1 DEF Call, Go
  <2>4. TypeOK'
    <3>1. last' \in [Ops -> 0 .. Len(archive)] /\ at' \in [Ops -> 1 .. Len(archive) + 1]
      BY <2>1, <2>2 DEF TypeOK
    <3>2. pc' \in [Ops -> Points] /\ kind' \in [Ops -> Kinds]
      BY <2>1, <2>3 DEF TypeOK, Points
    <3> QED
      BY <2>3, <3>1, <3>2 DEF TypeOK
  <2>5. CursorInv'
    BY <2>1, <2>2, <2>3 DEF TypeOK, CursorInv
  <2> QED
    BY <2>4, <2>5
<1>2. ASSUME NEW o \in Ops, RejectEntry(o)
      PROVE  TypeOK' /\ CursorInv'
  BY <1>2 DEF RejectEntry, Go, TypeOK, CursorInv, Points, Inside, Results
<1>3. ASSUME NEW o \in Ops, Lock(o)
      PROVE  TypeOK' /\ CursorInv'
  BY <1>3 DEF Lock, Go, TypeOK, CursorInv, Points, Inside
<1>4. ASSUME NEW o \in Ops, NEW r \in Results, Return(o, r), cancelled' \in BOOLEAN,
             asked' \in [Ops -> SUBSET Askers], heard' \in [Ops -> Nat]
      PROVE  TypeOK' /\ CursorInv'
  BY <1>4 DEF Return, Unlock, Go, TypeOK, CursorInv, Points, Inside
<1>5. ASSUME NEW o \in Ops, Fail(o) \/ Stopped(o)
      PROVE  TypeOK' /\ CursorInv'
  BY <1>4, <1>5 DEF Fail, Stopped, TypeOK, Results
<1>6. ASSUME NEW o \in Ops, Enter(o)
      PROVE  TypeOK' /\ CursorInv'
  <2>1. CASE Fail(o)
    BY <1>5, <2>1
  <2>2. CASE ~Fail(o)
    BY <1>6, <2>2 DEF Enter, Reset, Go, TypeOK, CursorInv, Points, Inside
  <2> QED
    BY <2>1, <2>2
<1>7. ASSUME NEW o \in Ops, Setup(o)
      PROVE  TypeOK' /\ CursorInv'
  <2>1. CASE Fail(o) \/ Stopped(o)
    BY <1>5, <2>1
  <2>2. CASE ~(Fail(o) \/ Stopped(o))
    BY <1>7, <2>2 DEF Setup, Go, TypeOK, CursorInv, Points, Inside
  <2> QED
    BY <2>1, <2>2
<1>8. ASSUME NEW o \in Ops, pc[o] \in {"entry", "chunk"}, NextEntry(o),
             skipped' \in [Ops -> SUBSET Nat],
             UNCHANGED <<fixed, operationLock, cancelled, work, acked,
                         cancelVars, asked, heard, result>>
      PROVE  TypeOK' /\ CursorInv'
  <2>1. TypeOK'
    BY <1>8, NextEntryTypes DEF TypeOK
  <2>2. CursorInv'
    BY <1>8, NextEntryTypes DEF CursorInv, TypeOK
  <2> QED
    BY <2>1, <2>2
<1>9. ASSUME NEW o \in Ops, Entry(o)
      PROVE  TypeOK' /\ CursorInv'
  <2>1. CASE Fail(o) \/ Stopped(o)
    BY <1>5, <2>1
  <2>2. CASE NextEntry(o) /\ skipped' = [skipped EXCEPT ![o] = @ \cup {at[o]}]
             /\ UNCHANGED <<fixed, operationLock, cancelled, work, acked,
                            cancelVars, asked, heard, result>>
    <3>1. skipped' \in [Ops -> SUBSET Nat]
      BY <2>2 DEF TypeOK
    <3> QED
      BY <1>8, <1>9, <2>2, <3>1 DEF Entry
  <2>3. CASE Go(o, "chunk")
             /\ UNCHANGED <<fixed, operationLock, cancelled, work, cursor,
                            cancelVars, asked, heard, result>>
    BY <1>9, <2>3 DEF Entry, Go, TypeOK, CursorInv, Points, Inside
  <2> QED
    BY <1>9, <2>1, <2>2, <2>3 DEF Entry
<1>10. ASSUME NEW o \in Ops, Chunk(o)
       PROVE  TypeOK' /\ CursorInv'
  <2>1. CASE Stopped(o)
    BY <1>5, <2>1
  <2>2. CASE Return(o, "error") /\ cancelled' \in FlagAfterFailure(o)
             /\ UNCHANGED <<asked, heard>>
    <3>1. cancelled' \in BOOLEAN
      BY <2>2 DEF FlagAfterFailure, TypeOK
    <3> QED
      BY <1>4, <2>2, <3>1 DEF TypeOK, Results
  <2>3. CASE Go(o, "callback")
             /\ UNCHANGED <<fixed, operationLock, cancelled, work, cursor,
                            cancelVars, asked, heard, result>>
    BY <1>10, <2>3 DEF Chunk, Go, TypeOK, CursorInv, Points, Inside
  <2> QED
    BY <1>10, <2>1, <2>2, <2>3 DEF Chunk
<1>11. ASSUME NEW o \in Ops, EndOfEntry(o)
       PROVE  TypeOK' /\ CursorInv'
  <2>1. CASE Fail(o) \/ Stopped(o)
    BY <1>5, <2>1
  <2>2. CASE NextEntry(o)
             /\ UNCHANGED <<fixed, operationLock, cancelled, work, acked, skipped,
                            cancelVars, asked, heard, result>>
    BY <1>8, <1>11, <2>2 DEF EndOfEntry, TypeOK
  <2> QED
    BY <1>11, <2>1, <2>2 DEF EndOfEntry
<1>12. ASSUME NEW o \in Ops, pc[o] \in {"callback", "handler"}, Refused(o),
              asked' \in [Ops -> SUBSET Askers], heard' \in [Ops -> Nat]
       PROVE  TypeOK' /\ CursorInv'
  <2>1. CASE backend = "rar"
    BY <1>12, <2>1 DEF Refused, Go, TypeOK, CursorInv, Points, Inside
  <2>2. CASE backend # "rar"
    BY <1>4, <1>12, <2>2 DEF Refused, Results
  <2> QED
    BY <2>1, <2>2
<1>13. ASSUME NEW o \in Ops, Callback(o)
       PROVE  TypeOK' /\ CursorInv'
  <2>1. CASE Refused(o) /\ UNCHANGED <<asked, heard>>
    BY <1>12, <1>13, <2>1 DEF Callback, TypeOK
  <2>2. CASE Go(o, "handler")
             /\ UNCHANGED <<fixed, operationLock, cancelled, work, cursor,
                            cancelVars, asked, heard, result>>
    BY <1>13, <2>2 DEF Callback, Go, TypeOK, CursorInv, Points, Inside
  <2> QED
    BY <1>13, <2>1, <2>2 DEF Callback
<1>14. ASSUME NEW o \in Ops, Handler(o)
       PROVE  TypeOK' /\ CursorInv'
  <2>1. heard' \in [Ops -> Nat] /\ pc[o] = "handler"
    BY <1>14 DEF Handler, TypeOK
  <2>2. CASE Refused(o) /\ asked' = [asked EXCEPT ![o] = @ \cup {"handler"}]
    <3>1. asked' \in [Ops -> SUBSET Askers]
      BY <2>2 DEF TypeOK, Askers
    <3> QED
      BY <1>12, <2>1, <2>2, <3>1
  <2>3. CASE /\ seen' = [seen EXCEPT ![o] = @ + 1]
             /\ acked' = [acked EXCEPT ![o] = @ \cup {<<at[o], seen[o] + 1>>}]
             /\ Go(o, "chunk")
             /\ UNCHANGED <<fixed, operationLock, cancelled, work, at, skipped,
                            cancelVars, asked, result>>
    <3>1. acked' \in [Ops -> SUBSET (Nat \X Nat)] /\ seen' \in [Ops -> Nat]
      <4>1. <<at[o], seen[o] + 1>> \in Nat \X Nat
        BY DEF TypeOK
      <4> QED
        BY <2>3, <4>1 DEF TypeOK
    <3>2. TypeOK'
      BY <2>1, <2>3, <3>1 DEF Go, TypeOK, Points, Inside
    <3>3. CursorInv'
      BY <2>1, <2>3 DEF Go, TypeOK, CursorInv
    <3> QED
      BY <3>2, <3>3
  <2> QED
    BY <1>14, <2>2, <2>3 DEF Handler
<1>15. ASSUME NEW o \in Ops, RarAborted(o) \/ Finish(o)
       PROVE  TypeOK' /\ CursorInv'
  <2>1. \E r \in Results : Return(o, r)
    BY <1>15 DEF RarAborted, Finish, BreakOutcome, Results
  <2>2. UNCHANGED <<cancelled, asked, heard>>
    BY <1>15 DEF RarAborted, Finish
  <2> QED
    BY <1>4, <2>1, <2>2 DEF TypeOK
<1>16. ASSUME StoreCancelled, UNCHANGED <<fixed, operationLock, pc, work, cursor,
              heard, result>>, context' = context,
              canceller' \in [Ops -> {"armed", "context", "done"}]
       PROVE  TypeOK' /\ CursorInv'
  <2>1. asked' \in [Ops -> SUBSET Askers] /\ cancelled' \in BOOLEAN
    BY <1>16 DEF StoreCancelled, TypeOK, Askers
  <2> QED
    BY <1>16, <2>1 DEF TypeOK, CursorInv
<1>17. CASE ReaderCancel
  BY <1>16, <1>17 DEF ReaderCancel, TypeOK
<1>18. ASSUME NEW o \in Ops, CancelReader(o)
       PROVE  TypeOK' /\ CursorInv'
  BY <1>16, <1>18 DEF CancelReader, TypeOK
<1>19. ASSUME NEW o \in Ops, CancelContext(o)
       PROVE  TypeOK' /\ CursorInv'
  BY <1>19 DEF CancelContext, TypeOK, CursorInv, Askers
<1>20. CASE UNCHANGED vars
  BY <1>20 DEF vars, TypeOK, CursorInv
<1> QED
  BY <1>1, <1>2, <1>3, <1>6, <1>7, <1>9, <1>10, <1>11, <1>13, <1>14, <1>15,
     <1>17, <1>18, <1>19, <1>20 DEF Next, Step

--------------------------------------------------------------------------------

LEMMA StepSerialized == TypeOK /\ Serialized /\ [Next]_vars => Serialized'
<1> SUFFICES ASSUME TypeOK, Serialized, [Next]_vars
             PROVE  Serialized'
  OBVIOUS
<1> USE NoOpAssumption DEF fixed, work, cursor, cancelVars
<1>1. ASSUME NEW o \in Ops, Call(o) \/ RejectEntry(o)
      PROVE  Serialized'
  BY <1>1 DEF Call, RejectEntry, Go, TypeOK, Serialized, Inside
<1>2. ASSUME NEW o \in Ops, Lock(o)
      PROVE  Serialized'
  BY <1>2 DEF Lock, Unlocked, Go, TypeOK, Serialized, Inside
<1>3. ASSUME NEW o \in Ops, NEW r \in Results, pc[o] \in Inside, Return(o, r)
      PROVE  Serialized'
  BY <1>3 DEF Return, Unlock, Go, TypeOK, Serialized, Inside
<1>4. ASSUME NEW o \in Ops, pc[o] \in Inside, Fail(o) \/ Stopped(o)
      PROVE  Serialized'
  BY <1>3, <1>4 DEF Fail, Stopped, Results
<1>5. ASSUME NEW o \in Ops, NEW p \in Inside, pc[o] \in Inside, Go(o, p),
             UNCHANGED operationLock
      PROVE  Serialized'
  BY <1>5 DEF Go, TypeOK, Serialized
<1>6. ASSUME NEW o \in Ops, pc[o] \in Inside, NextEntry(o), UNCHANGED operationLock
      PROVE  Serialized'
  <2>1. \E p \in {"return", "entry"} : Go(o, p)
    BY <1>6 DEF NextEntry
  <2> QED
    BY <1>5, <1>6, <2>1 DEF Inside
<1>7. ASSUME NEW o \in Ops, pc[o] \in Inside, Refused(o)
      PROVE  Serialized'
  BY <1>3, <1>5, <1>7 DEF Refused, Inside, Results
<1>8. ASSUME NEW o \in Ops, Step(o)
      PROVE  Serialized'
  <2>1. CASE Lock(o)
    BY <1>2, <2>1
  <2>2. CASE Enter(o) \/ Setup(o)
    BY <1>4, <1>5, <2>2 DEF Enter, Setup, Inside
  <2>3. CASE Entry(o)
    BY <1>4, <1>5, <1>6, <2>3 DEF Entry, Inside
  <2>4. CASE Chunk(o)
    BY <1>3, <1>4, <1>5, <2>4 DEF Chunk, Inside, Results
  <2>5. CASE EndOfEntry(o)
    BY <1>4, <1>6, <2>5 DEF EndOfEntry, Inside
  <2>6. CASE Callback(o)
    BY <1>5, <1>7, <2>6 DEF Callback, Inside
  <2>7. CASE Handler(o)
    BY <1>5, <1>7, <2>7 DEF Handler, Inside
  <2>8. CASE RarAborted(o) \/ Finish(o)
    BY <1>3, <2>8 DEF RarAborted, Finish, BreakOutcome, Inside, Results
  <2> QED
    BY <1>8, <2>1, <2>2, <2>3, <2>4, <2>5, <2>6, <2>7, <2>8 DEF Step
<1>9. ASSUME UNCHANGED <<pc, operationLock>>
      PROVE  Serialized'
  BY <1>9 DEF Serialized
<1>10. CASE ReaderCancel
  BY <1>9, <1>10 DEF ReaderCancel
<1>11. ASSUME NEW o \in Ops, CancelContext(o) \/ CancelReader(o)
       PROVE  Serialized'
  BY <1>9, <1>11 DEF CancelContext, CancelReader
<1>12. CASE UNCHANGED vars
  BY <1>9, <1>12 DEF vars
<1> QED
  BY <1>1, <1>8, <1>10, <1>11, <1>12 DEF Next

LEMMA StepHeard == TypeOK /\ HeardInv /\ [Next]_vars => HeardInv'
<1> SUFFICES ASSUME TypeOK, HeardInv, [Next]_vars
             PROVE  HeardInv'
  OBVIOUS
<1> USE DEF fixed, work, cursor, cancelVars
\* Most steps leave history and context alone and do not start a handler call.
<1>1. ASSUME NEW o \in Ops, NEW p \in Points \ {"handler"}, Go(o, p),
             UNCHANGED <<context, heard>>
      PROVE  HeardInv'
  BY <1>1 DEF Go, TypeOK, HeardInv
<1>2. ASSUME NEW o \in Ops, NEW r \in Results, Return(o, r), UNCHANGED heard
      PROVE  HeardInv'
  BY <1>1, <1>2 DEF Return, Points
<1>3. ASSUME NEW o \in Ops, Fail(o) \/ Stopped(o)
      PROVE  HeardInv'
  BY <1>2, <1>3 DEF Fail, Stopped, Results
<1>4. ASSUME NEW o \in Ops, NextEntry(o), UNCHANGED <<context, heard>>
      PROVE  HeardInv'
  <2>1. \E p \in {"return", "entry"} : Go(o, p)
    BY <1>4 DEF NextEntry
  <2> QED
    BY <1>1, <1>4, <2>1 DEF Points, Inside
<1>5. ASSUME NEW o \in Ops, Call(o) \/ RejectEntry(o) \/ Lock(o)
      PROVE  HeardInv'
  BY <1>1, <1>5 DEF Call, RejectEntry, Lock, Points, Inside
<1>6. ASSUME NEW o \in Ops, Enter(o) \/ Setup(o)
      PROVE  HeardInv'
  BY <1>1, <1>3, <1>6 DEF Enter, Setup, Points, Inside
<1>7. ASSUME NEW o \in Ops, Entry(o)
      PROVE  HeardInv'
  BY <1>1, <1>3, <1>4, <1>7 DEF Entry, Points, Inside
<1>8. ASSUME NEW o \in Ops, Chunk(o)
      PROVE  HeardInv'
  BY <1>1, <1>2, <1>3, <1>8 DEF Chunk, Points, Inside, Results
<1>9. ASSUME NEW o \in Ops, EndOfEntry(o)
      PROVE  HeardInv'
  BY <1>3, <1>4, <1>9 DEF EndOfEntry
<1>10. ASSUME NEW o \in Ops, Callback(o)
       PROVE  HeardInv'
  <2>1. CASE Refused(o) /\ UNCHANGED <<asked, heard>>
    BY <1>1, <1>2, <2>1 DEF Refused, Points, Inside, Results
  <2>2. CASE ~Refused(o)
    \* The context was clear, so no call has been counted yet.
    BY <1>10, <2>2 DEF Callback, ContextAllows, Go, TypeOK, HeardInv
  <2> QED
    BY <1>10, <2>1, <2>2 DEF Callback
<1>11. ASSUME NEW o \in Ops, Handler(o)
       PROVE  HeardInv'
  <2>1. heard[o] = 0
    BY <1>11 DEF Handler, HeardInv
  <2>2. heard' = [heard EXCEPT ![o] = IF context[o] THEN @ + 1 ELSE @]
    BY <1>11 DEF Handler
  <2>3. context' = context
    BY <1>11 DEF Handler, Refused, Return
  <2>4. \E p \in {"aborted", "done", "chunk"} : Go(o, p)
    BY <1>11 DEF Handler, Refused, Return
  <2> QED
    BY <2>1, <2>2, <2>3, <2>4 DEF Go, TypeOK, HeardInv
<1>12. ASSUME NEW o \in Ops, RarAborted(o) \/ Finish(o)
       PROVE  HeardInv'
  BY <1>2, <1>12 DEF RarAborted, Finish, BreakOutcome, Results
<1>13. ASSUME NEW o \in Ops, CancelContext(o)
       PROVE  HeardInv'
  BY <1>13 DEF CancelContext, TypeOK, HeardInv
<1>14. ASSUME UNCHANGED <<pc, context, heard>>
       PROVE  HeardInv'
  BY <1>14 DEF HeardInv
<1>15. CASE ReaderCancel \/ (\E o \in Ops : CancelReader(o)) \/ UNCHANGED vars
  BY <1>14, <1>15 DEF ReaderCancel, CancelReader, vars
<1> QED
  BY <1>5, <1>6, <1>7, <1>8, <1>9, <1>10, <1>11, <1>12, <1>13, <1>15 DEF Next, Step

--------------------------------------------------------------------------------

LEMMA StepCause ==
    TypeOK /\ Serialized /\ CauseInv /\ CancelledHasCause /\ [Next]_vars
        => (CauseInv /\ CancelledHasCause)'
<1> SUFFICES ASSUME TypeOK, Serialized, CauseInv, CancelledHasCause, [Next]_vars
             PROVE  CauseInv' /\ CancelledHasCause'
  OBVIOUS
<1> USE DEF fixed, work, cursor, cancelVars
\* A step inside operationLock that does not end the call nor set the flag.
<1>1. ASSUME NEW o \in Ops, NEW p \in Points, pc[o] \in Inside \ {"enter"} \/ p \in {"enter", "queued"},
             Go(o, p), UNCHANGED <<cancelled, context, result>>,
             \A x \in Ops : asked[x] \subseteq asked'[x]
      PROVE  CauseInv' /\ CancelledHasCause'
  BY <1>1 DEF Go, TypeOK, CauseInv, CancelledHasCause, Inside
\* The holder returns: nobody else is inside, whatever the flag has become.
<1>2. ASSUME NEW o \in Ops, NEW r \in Results, pc[o] \in Inside, Return(o, r),
             \A x \in Ops : asked[x] \subseteq asked'[x],
             r = "cancelled" => asked'[o] # {}
      PROVE  CauseInv' /\ CancelledHasCause'
  <2>1. \A x \in Ops : pc'[x] \notin Inside
    BY <1>2 DEF Return, Go, TypeOK, Serialized, Inside
  <2>2. context' = context /\ result' = [result EXCEPT ![o] = r]
    BY <1>2 DEF Return
  <2> QED
    BY <1>2, <2>1, <2>2 DEF TypeOK, CauseInv, CancelledHasCause
<1>3. ASSUME NEW o \in Ops, pc[o] \in Inside, Fail(o)
      PROVE  CauseInv' /\ CancelledHasCause'
  BY <1>2, <1>3 DEF Fail, Results
<1>4. ASSUME NEW o \in Ops, pc[o] \in Inside \ {"enter"}, cancelled, Stopped(o)
      PROVE  CauseInv' /\ CancelledHasCause'
  BY <1>2, <1>4 DEF Stopped, Results, CauseInv
<1>5. ASSUME NEW o \in Ops, pc[o] \in {"entry", "chunk"}, NextEntry(o),
             UNCHANGED <<cancelled, context, asked, result>>
      PROVE  CauseInv' /\ CancelledHasCause'
  <2>1. \E p \in {"return", "entry"} : Go(o, p)
    BY <1>5 DEF NextEntry
  <2> QED
    BY <1>1, <1>5, <2>1 DEF Points, Inside
<1>6. ASSUME NEW o \in Ops, pc[o] \in {"callback", "handler"}, Refused(o),
             \A x \in Ops : asked[x] \subseteq asked'[x], asked'[o] # {}
      PROVE  CauseInv' /\ CancelledHasCause'
  BY <1>1, <1>2, <1>6 DEF Refused, Points, Inside, Results
<1>7. ASSUME NEW o \in Ops, Call(o) \/ Lock(o)
      PROVE  CauseInv' /\ CancelledHasCause'
  BY <1>1, <1>7 DEF Call, Lock, Points, Inside
<1>8. ASSUME NEW o \in Ops, RejectEntry(o)
      PROVE  CauseInv' /\ CancelledHasCause'
  BY <1>8 DEF RejectEntry, Go, TypeOK, CauseInv, CancelledHasCause, Inside
<1>9. ASSUME NEW o \in Ops, Enter(o)
      PROVE  CauseInv' /\ CancelledHasCause'
  <2>1. CASE Fail(o)
    BY <1>3, <1>9, <2>1 DEF Enter, Inside
  <2>2. CASE ~Fail(o)
    BY <1>9, <2>2 DEF Enter, Reset, Go, TypeOK, CauseInv, CancelledHasCause
  <2> QED
    BY <2>1, <2>2
<1>10. ASSUME NEW o \in Ops, Setup(o)
       PROVE  CauseInv' /\ CancelledHasCause'
  BY <1>1, <1>3, <1>4, <1>10 DEF Setup, Points, Inside
<1>11. ASSUME NEW o \in Ops, Entry(o)
       PROVE  CauseInv' /\ CancelledHasCause'
  BY <1>1, <1>3, <1>4, <1>5, <1>11 DEF Entry, Points, Inside
<1>12. ASSUME NEW o \in Ops, Chunk(o)
       PROVE  CauseInv' /\ CancelledHasCause'
  BY <1>1, <1>2, <1>4, <1>12 DEF Chunk, Points, Inside, Results
<1>13. ASSUME NEW o \in Ops, EndOfEntry(o)
       PROVE  CauseInv' /\ CancelledHasCause'
  BY <1>3, <1>4, <1>5, <1>13 DEF EndOfEntry, Inside
<1>14. ASSUME NEW o \in Ops, Callback(o)
       PROVE  CauseInv' /\ CancelledHasCause'
  <2>1. CASE ~ContextAllows(o) /\ Refused(o) /\ UNCHANGED <<asked, heard>>
    BY <1>6, <1>14, <2>1 DEF Callback, ContextAllows, CauseInv
  <2>2. CASE Go(o, "handler")
             /\ UNCHANGED <<fixed, operationLock, cancelled, work, cursor,
                            cancelVars, asked, heard, result>>
    BY <1>1, <1>14, <2>2 DEF Callback, Points, Inside
  <2> QED
    BY <1>14, <2>1, <2>2 DEF Callback
<1>15. ASSUME NEW o \in Ops, Handler(o)
       PROVE  CauseInv' /\ CancelledHasCause'
  <2>1. CASE Refused(o) /\ asked' = [asked EXCEPT ![o] = @ \cup {"handler"}]
    <3>1. asked'[o] # {} /\ \A x \in Ops : asked[x] \subseteq asked'[x]
      BY <2>1 DEF TypeOK
    <3> QED
      BY <1>6, <1>15, <2>1, <3>1 DEF Handler
  <2>2. CASE Go(o, "chunk")
             /\ UNCHANGED <<fixed, operationLock, cancelled, work, at, skipped,
                            cancelVars, asked, result>>
    BY <1>1, <1>15, <2>2 DEF Handler, Points, Inside
  <2> QED
    BY <1>15, <2>1, <2>2 DEF Handler
<1>16. ASSUME NEW o \in Ops, RarAborted(o) \/ Finish(o)
       PROVE  CauseInv' /\ CancelledHasCause'
  <2>1. pc[o] \in Inside \ {"enter"} /\ UNCHANGED <<cancelled, asked, heard>>
    BY <1>16 DEF RarAborted, Finish, Inside
  <2>2. PICK r \in Results : Return(o, r) /\ (r = "cancelled" => cancelled)
    BY <1>16 DEF RarAborted, Finish, BreakOutcome, Results
  <2>3. r = "cancelled" => asked'[o] # {}
    BY <2>1, <2>2 DEF CauseInv
  <2> QED
    BY <1>2, <2>1, <2>2, <2>3
\* Whoever stores the flag does it on behalf of the holder.
<1>17. ASSUME StoreCancelled, UNCHANGED <<pc, context, result>>
       PROVE  CauseInv' /\ CancelledHasCause'
  BY <1>17 DEF StoreCancelled, TypeOK, Serialized, CauseInv, CancelledHasCause
<1>18. ASSUME ReaderCancel \/ \E o \in Ops : CancelReader(o)
       PROVE  CauseInv' /\ CancelledHasCause'
  BY <1>17, <1>18 DEF ReaderCancel, CancelReader
<1>19. ASSUME NEW o \in Ops, CancelContext(o)
       PROVE  CauseInv' /\ CancelledHasCause'
  BY <1>19 DEF CancelContext, TypeOK, CauseInv, CancelledHasCause
<1>20. CASE UNCHANGED vars
  BY <1>20 DEF vars, CauseInv, CancelledHasCause
<1> QED
  BY <1>7, <1>8, <1>9, <1>10, <1>11, <1>12, <1>13, <1>14, <1>15, <1>16, <1>18,
     <1>19, <1>20 DEF Next, Step

--------------------------------------------------------------------------------

\* The chunks of a call lie at its entries and within their lengths.
LEMMA ChunkPosition ==
    ASSUME NEW o \in Ops, NEW p \in Chunks(o)
    PROVE  p[1] \in Targets(o) /\ p[2] \in 1 .. archive[p[1]] /\ p = <<p[1], p[2]>>
BY DEF Chunks, ChunksOf

\* What a call is about and where it stands determine its chunks.
LEMMA SameChunks ==
    ASSUME NEW o \in Ops, UNCHANGED archive, kind'[o] = kind[o], last'[o] = last[o]
    PROVE  Chunks(o)' = Chunks(o)
BY DEF Chunks, ChunksOf, Targets

\* A call has what it answers for: all that it passed while it runs, all that
\* it was asked for once it says so.
Complete(o) ==
    /\ pc[o] \notin {"idle", "done"} => Passed(o) \subseteq acked[o]
    /\ result[o] = "ok" => {p \in Chunks(o) : p[1] \notin skipped[o]} \subseteq acked[o]

LEMMA SameComplete ==
    ASSUME NEW o \in Ops, Complete(o), UNCHANGED archive,
           kind'[o] = kind[o], last'[o] = last[o], acked'[o] = acked[o],
           skipped'[o] = skipped[o], at'[o] = at[o], seen'[o] = seen[o],
           pc'[o] \in {"idle", "done"} \/ pc[o] \notin {"idle", "done"},
           result'[o] = result[o] \/ result'[o] # "ok"
    PROVE  Complete(o)'
BY SameChunks DEF Complete, Passed

LEMMA StepComplete ==
    TypeOK /\ CursorInv /\ (\A o \in Ops : Complete(o)) /\ [Next]_vars
        => \A o \in Ops : Complete(o)'
<1> SUFFICES ASSUME TypeOK, CursorInv, \A o \in Ops : Complete(o), [Next]_vars
             PROVE  \A o \in Ops : Complete(o)'
  OBVIOUS
<1> USE DEF fixed, work, cursor, cancelVars
\* Only Finish says "ok", and it has passed every entry.
<1>1. ASSUME NEW o \in Ops, NEW r \in Results \ {"ok"}, Return(o, r)
      PROVE  \A x \in Ops : Complete(x)'
  BY <1>1, SameComplete DEF Return, Go, TypeOK
<1>2. ASSUME NEW o \in Ops, Fail(o) \/ Stopped(o)
      PROVE  \A x \in Ops : Complete(x)'
  BY <1>1, <1>2 DEF Fail, Stopped, Results
<1>3. ASSUME NEW o \in Ops, NEW p \in Points, pc[o] \notin {"idle", "done"}, Go(o, p),
             UNCHANGED <<fixed, work, cursor, result>>
      PROVE  \A x \in Ops : Complete(x)'
  BY <1>3, SameComplete DEF Go, TypeOK
<1>4. ASSUME NEW o \in Ops, Call(o)
      PROVE  \A x \in Ops : Complete(x)'
  <2>1. \A x \in Ops \ {o} : Complete(x)'
    BY <1>4, SameComplete DEF Call, Go, TypeOK
  <2>2. PICK k \in Kinds, i \in 1 .. Len(archive) :
            /\ kind' = [kind EXCEPT ![o] = k]
            /\ last' = [last EXCEPT ![o] = i]
            /\ at' = [at EXCEPT ![o] = First(k, i)]
    BY <1>4 DEF Call
  <2>3. kind'[o] = k /\ last'[o] = i /\ at'[o] = First(k, i) /\ seen'[o] = 0
        /\ result'[o] = "none" /\ archive' = archive
    BY <1>4, <2>2 DEF Call, TypeOK, CursorInv
  <2>4. Targets(o)' = First(k, i) .. i
    BY <2>3 DEF Targets
  <2>5. ASSUME NEW p \in Chunks(o)'
        PROVE  p[1] \in First(k, i) .. i /\ p[2] \in 1 .. archive[p[1]]
    BY <2>3, <2>4, <2>5 DEF Chunks, ChunksOf
  <2>6. First(k, i) \in Nat
    BY DEF First, TypeOK
  <2>7. Passed(o)' = {}
    BY <2>3, <2>5, <2>6 DEF Passed
  <2>8. Complete(o)'
    BY <2>3, <2>7 DEF Complete
  <2> QED
    BY <2>1, <2>8
<1>5. ASSUME NEW o \in Ops, RejectEntry(o)
      PROVE  \A x \in Ops : Complete(x)'
  BY <1>5, SameComplete DEF RejectEntry, Go, TypeOK
<1>6. ASSUME NEW o \in Ops, Lock(o) \/ Enter(o) \/ Setup(o)
      PROVE  \A x \in Ops : Complete(x)'
  BY <1>2, <1>3, <1>6 DEF Lock, Enter, Setup, Points, Inside
\* An entry is left behind when it was skipped or has no data left.
<1>7. ASSUME NEW o \in Ops, pc[o] \in {"entry", "chunk"}, NextEntry(o),
             UNCHANGED <<fixed, work, acked, result>>,
             \A x \in Ops \ {o} : skipped'[x] = skipped[x],
             skipped[o] \subseteq skipped'[o],
             at[o] \in skipped'[o] \/ seen[o] = archive[at[o]]
      PROVE  \A x \in Ops : Complete(x)'
  <2>1. \A x \in Ops \ {o} : Complete(x)'
    BY <1>7, SameComplete DEF NextEntry, Go, TypeOK
  <2>2. at'[o] = at[o] + 1 /\ seen'[o] = 0 /\ at[o] \in Nat
    BY <1>7 DEF NextEntry, TypeOK
  <2>3. Chunks(o)' = Chunks(o) /\ archive' = archive /\ acked' = acked
    BY <1>7, SameChunks
  <2>4. ASSUME NEW p \in Passed(o)'
        PROVE  p \in acked[o]
    <3>1. p \in Chunks(o) /\ p[1] \notin skipped'[o]
          /\ (p[1] < at[o] + 1 \/ (p[1] = at[o] + 1 /\ p[2] <= 0))
      BY <2>2, <2>3, <2>4 DEF Passed
    <3>2. p[1] \in Targets(o) /\ p[2] \in 1 .. archive[p[1]]
      BY <3>1, ChunkPosition
    <3>3. p[1] \in Int /\ p[2] \in Int /\ p[2] >= 1
      BY <3>2 DEF Targets
    <3>4. p[1] < at[o] \/ (p[1] = at[o] /\ p[2] <= seen[o])
      BY <1>7, <2>2, <3>1, <3>2, <3>3
    <3> QED
      BY <1>7, <3>1, <3>4 DEF Passed, Complete
  <2>5. result'[o] # "ok"
    BY <1>7 DEF CursorInv
  <2> QED
    BY <2>1, <2>3, <2>4, <2>5 DEF Complete
<1>8. ASSUME NEW o \in Ops, Entry(o)
      PROVE  \A x \in Ops : Complete(x)'
  <2>1. CASE Fail(o) \/ Stopped(o)
    BY <1>2, <2>1
  <2>2. CASE NextEntry(o) /\ skipped' = [skipped EXCEPT ![o] = @ \cup {at[o]}]
             /\ UNCHANGED <<fixed, operationLock, cancelled, work, acked,
                            cancelVars, asked, heard, result>>
    <3>1. at[o] \in skipped'[o] /\ skipped[o] \subseteq skipped'[o]
          /\ \A x \in Ops \ {o} : skipped'[x] = skipped[x]
      BY <2>2 DEF TypeOK
    <3> QED
      BY <1>7, <1>8, <2>2, <3>1 DEF Entry
  <2>3. CASE Go(o, "chunk")
             /\ UNCHANGED <<fixed, operationLock, cancelled, work, cursor,
                            cancelVars, asked, heard, result>>
    BY <1>3, <1>8, <2>3 DEF Entry, Points, Inside
  <2> QED
    BY <1>8, <2>1, <2>2, <2>3 DEF Entry
<1>9. ASSUME NEW o \in Ops, Chunk(o)
      PROVE  \A x \in Ops : Complete(x)'
  BY <1>1, <1>2, <1>3, <1>9 DEF Chunk, Points, Inside, Results
<1>10. ASSUME NEW o \in Ops, EndOfEntry(o)
       PROVE  \A x \in Ops : Complete(x)'
  BY <1>2, <1>7, <1>10 DEF EndOfEntry
<1>11. ASSUME NEW o \in Ops, pc[o] \in {"callback", "handler"}, Refused(o)
       PROVE  \A x \in Ops : Complete(x)'
  <2>1. CASE backend = "rar"
    BY <1>3, <1>11, <2>1 DEF Refused, Points, Inside
  <2>2. CASE backend # "rar"
    BY <1>1, <1>11, <2>2 DEF Refused, Results
  <2> QED
    BY <2>1, <2>2
<1>12. ASSUME NEW o \in Ops, Callback(o)
       PROVE  \A x \in Ops : Complete(x)'
  BY <1>3, <1>11, <1>12 DEF Callback, Points, Inside
<1>13. ASSUME NEW o \in Ops, Handler(o)
       PROVE  \A x \in Ops : Complete(x)'
  <2>1. CASE Refused(o)
    BY <1>11, <1>13, <2>1 DEF Handler
  <2>2. CASE /\ seen' = [seen EXCEPT ![o] = @ + 1]
             /\ acked' = [acked EXCEPT ![o] = @ \cup {<<at[o], seen[o] + 1>>}]
             /\ Go(o, "chunk")
             /\ UNCHANGED <<fixed, operationLock, cancelled, work, at, skipped,
                            cancelVars, asked, result>>
    <3>1. \A x \in Ops \ {o} : Complete(x)'
      BY <2>2, SameComplete DEF Go, TypeOK
    <3>2. seen'[o] = seen[o] + 1 /\ acked'[o] = acked[o] \cup {<<at[o], seen[o] + 1>>}
          /\ at[o] \in Nat /\ seen[o] \in Nat
      BY <2>2 DEF TypeOK
    <3>3. Chunks(o)' = Chunks(o)
      BY <2>2, SameChunks
    <3>4. ASSUME NEW p \in Passed(o)'
          PROVE  p \in acked'[o]
      <4>1. p \in Chunks(o) /\ p[1] \notin skipped[o]
            /\ (p[1] < at[o] \/ (p[1] = at[o] /\ p[2] <= seen[o] + 1))
        BY <2>2, <3>2, <3>3, <3>4 DEF Passed
      <4>2. p = <<p[1], p[2]>> /\ p[2] \in Int
        BY <4>1, ChunkPosition
      <4>3. CASE p[1] = at[o] /\ p[2] = seen[o] + 1
        BY <3>2, <4>2, <4>3
      <4>4. CASE p[1] < at[o] \/ (p[1] = at[o] /\ p[2] <= seen[o])
        BY <1>13, <3>2, <4>1, <4>4 DEF Handler, Passed, Complete
      <4> QED
        BY <3>2, <4>1, <4>2, <4>3, <4>4
    <3>5. result'[o] # "ok"
      BY <1>13, <2>2 DEF Handler, CursorInv
    <3> QED
      BY <3>1, <3>4, <3>5 DEF Complete
  <2> QED
    BY <1>13, <2>1, <2>2 DEF Handler
<1>14. ASSUME NEW o \in Ops, RarAborted(o)
       PROVE  \A x \in Ops : Complete(x)'
  BY <1>1, <1>14 DEF RarAborted, BreakOutcome, Results
<1>15. ASSUME NEW o \in Ops, Finish(o)
       PROVE  \A x \in Ops : Complete(x)'
  <2>1. CASE \E r \in Results \ {"ok"} : Return(o, r)
    BY <1>1, <2>1
  <2>2. CASE Return(o, "ok")
    <3>1. \A x \in Ops \ {o} : Complete(x)'
      BY <2>2, SameComplete DEF Return, Go, TypeOK
    <3>2. Chunks(o)' = Chunks(o) /\ UNCHANGED <<skipped, acked>> /\ pc'[o] = "done"
      BY <2>2, SameChunks DEF Return, Go, TypeOK
    <3>3. {p \in Chunks(o) : p[1] \notin skipped[o]} \subseteq acked[o]
      <4>1. at[o] = last[o] + 1 /\ last[o] \in Int /\ pc[o] = "return"
        BY <1>15 DEF Finish, CursorInv, TypeOK
      <4>2. \A p \in Chunks(o) : p[1] < at[o]
        BY <4>1, ChunkPosition DEF Targets
      <4> QED
        BY <4>1, <4>2 DEF Complete, Passed
    <3> QED
      BY <3>1, <3>2, <3>3 DEF Complete
  <2> QED
    BY <1>15, <2>1, <2>2 DEF Finish, Results
<1>16. ASSUME UNCHANGED <<fixed, pc, work, cursor, result>>
       PROVE  \A x \in Ops : Complete(x)'
  BY <1>16, SameComplete
<1>17. CASE ReaderCancel \/ (\E o \in Ops : CancelContext(o) \/ CancelReader(o))
            \/ UNCHANGED vars
  BY <1>16, <1>17 DEF ReaderCancel, CancelContext, CancelReader, vars
<1> QED
  BY <1>4, <1>5, <1>6, <1>8, <1>9, <1>10, <1>12, <1>13, <1>14, <1>15, <1>17 DEF Next, Step

--------------------------------------------------------------------------------

IInv ==
    /\ TypeOK /\ CursorInv /\ Serialized /\ HeardInv
    /\ CauseInv /\ CancelledHasCause
    /\ \A o \in Ops : Complete(o)

LEMMA InitIInv == Init => IInv
<1> SUFFICES ASSUME Init
             PROVE  IInv
  OBVIOUS
<1>1. TypeOK /\ CursorInv
  BY InitTypes
<1>2. Serialized /\ HeardInv /\ CauseInv /\ CancelledHasCause
  BY NoOpAssumption DEF Init, Serialized, HeardInv, CauseInv, CancelledHasCause, Inside
<1>3. \A o \in Ops : Complete(o)
  BY DEF Init, Complete
<1> QED
  BY <1>1, <1>2, <1>3 DEF IInv

LEMMA StepIInv == IInv /\ [Next]_vars => IInv'
BY StepTypes, StepSerialized, StepHeard, StepCause, StepComplete DEF IInv

\* The variables keep their types and no cursor leaves its archive, however
\* long the archive is and however many calls share the reader.
THEOREM TypeCorrect == Spec => []TypeOK
<1>1. IInv => TypeOK
  BY DEF IInv
<1> QED
  BY InitIInv, StepIInv, <1>1, PTL DEF Spec

\* operationLock serializes any number of calls on every path through the
\* native functions: a call is inside exactly while it is the holder.
THEOREM MutualExclusion == Spec => []Serialized
<1>1. IInv => Serialized
  BY DEF IInv
<1> QED
  BY InitIInv, StepIInv, <1>1, PTL DEF Spec

\* For every archive, backend and number of concurrent calls and cancellations,
\* a call that returns success has had every chunk accepted that is not in an
\* entry the skip policy left alone.
THEOREM SuccessIsComplete == Spec => []OkMeansComplete
<1>1. IInv => OkMeansComplete
  BY DEF IInv, Complete, OkMeansComplete
<1> QED
  BY InitIInv, StepIInv, <1>1, PTL DEF Spec

\* No call is answered "cancelled" unless its handler refused, its task was
\* cancelled or the reader was cancelled while it held the lock.
THEOREM NoSpuriousCancellation == Spec => []CancelledHasCause
<1>1. IInv => CancelledHasCause
  BY DEF IInv
<1> QED
  BY InitIInv, StepIInv, <1>1, PTL DEF Spec

\* At most one handler call begins after the task was cancelled, wherever the
\* two steps of the onCancel closure fall among the steps of other calls.
THEOREM CancellationIsHeard == Spec => []AtMostOneCallAfterCancel
<1>1. ASSUME IInv, NEW o \in Ops
      PROVE  heard[o] <= 1
  <2>1. heard[o] = 0 \/ heard[o] = 1
    BY <1>1 DEF IInv, HeardInv
  <2> QED
    BY <2>1
<1>2. IInv => AtMostOneCallAfterCancel
  BY <1>1 DEF AtMostOneCallAfterCancel
<1> QED
  BY InitIInv, StepIInv, <1>2, PTL DEF Spec

--------------------------------------------------------------------------------
(* The contract *)

\* What has been accepted is owed and lies before the cursor, skipped entries
\* lie behind it, and a callback is about a chunk the entry has.
AckedOK(o) ==
    /\ acked[o] \subseteq Passed(o)
    /\ \A i \in skipped[o] : i < at[o]
    /\ pc[o] = "idle" => acked[o] = {} /\ skipped[o] = {}
    /\ pc[o] \in {"queued", "enter", "setup", "entry"} => seen[o] = 0
    /\ pc[o] \in {"callback", "handler"} => seen[o] < archive[at[o]]

AckedInv == archive \in Archives /\ \A o \in Ops : AckedOK(o)

\* The chunk a handler is asked about is one of the call's.
LEMMA OwedNext ==
    ASSUME TypeOK, CursorInv, NEW o \in Ops, AckedOK(o), pc[o] \in {"callback", "handler"}
    PROVE  <<at[o], seen[o] + 1>> \in Chunks(o) /\ at[o] \notin skipped[o]
<1>1. at[o] \in Nat /\ seen[o] \in Nat /\ last[o] \in Nat /\ skipped[o] \subseteq Nat
  BY DEF TypeOK
<1>2. at[o] \in Targets(o)
  BY <1>1 DEF CursorInv, Targets, First
<1>3. at[o] \in DOMAIN archive
  BY <1>2 DEF TypeOK, CursorInv
<1>4. archive[at[o]] \in Nat /\ seen[o] < archive[at[o]]
  BY <1>3 DEF TypeOK, AckedOK
<1>5. seen[o] + 1 \in 1 .. archive[at[o]]
  BY <1>1, <1>4
<1>6. \A i \in skipped[o] : i < at[o]
  BY DEF AckedOK
<1> QED
  BY <1>1, <1>2, <1>5, <1>6 DEF Chunks, ChunksOf

LEMMA SameAcked ==
    ASSUME NEW o \in Ops, AckedOK(o), UNCHANGED archive,
           kind'[o] = kind[o], last'[o] = last[o], acked'[o] = acked[o],
           skipped'[o] = skipped[o], at'[o] = at[o], seen'[o] = seen[o],
           \/ pc'[o] = pc[o]
           \/ pc'[o] \in {"chunk", "aborted", "done", "return"}
           \/ pc'[o] \in {"queued", "enter", "setup", "entry"} /\ seen[o] = 0
           \/ pc'[o] \in {"callback", "handler"} /\ seen[o] < archive[at[o]]
    PROVE  AckedOK(o)'
BY SameChunks DEF AckedOK, Passed

LEMMA StepAcked == TypeOK /\ CursorInv /\ AckedInv /\ [Next]_vars => AckedInv'
<1> SUFFICES ASSUME TypeOK, CursorInv, AckedInv, [Next]_vars
             PROVE  AckedInv'
  OBVIOUS
<1> USE DEF fixed, work, cursor, cancelVars
<1>0. \A o \in Ops : AckedOK(o)
  BY DEF AckedInv
\* Most steps move one call on and leave its cursor.
<1>1. ASSUME NEW o \in Ops, NEW p \in Points, Go(o, p), UNCHANGED <<fixed, work, cursor>>,
             \/ p \in {"chunk", "aborted", "done", "return"}
             \/ p \in {"queued", "enter", "setup", "entry"} /\ seen[o] = 0
             \/ p \in {"callback", "handler"} /\ seen[o] < archive[at[o]]
      PROVE  AckedInv'
  <2>1. ASSUME NEW x \in Ops
        PROVE  AckedOK(x)'
    BY <1>0, <1>1, SameAcked DEF Go, TypeOK
  <2> QED
    BY <1>1, <2>1 DEF AckedInv
<1>2. ASSUME NEW o \in Ops, NEW r \in Results, Return(o, r)
      PROVE  AckedInv'
  BY <1>1, <1>2 DEF Return, Points
<1>3. ASSUME NEW o \in Ops, Fail(o) \/ Stopped(o)
      PROVE  AckedInv'
  BY <1>2, <1>3 DEF Fail, Stopped, Results
<1>4. ASSUME NEW o \in Ops, Call(o)
      PROVE  AckedInv'
  <2>1. \A x \in Ops \ {o} : AckedOK(x)'
    BY <1>0, <1>4, SameAcked DEF Call, Go, TypeOK
  <2>2. acked'[o] = {} /\ skipped'[o] = {} /\ seen'[o] = 0 /\ pc'[o] = "queued"
    BY <1>0, <1>4 DEF Call, Go, TypeOK, CursorInv, AckedOK
  <2>3. AckedOK(o)'
    BY <2>2 DEF AckedOK
  <2> QED
    BY <1>4, <2>1, <2>3 DEF AckedInv, Call
<1>5. ASSUME NEW o \in Ops, RejectEntry(o)
      PROVE  AckedInv'
  BY <1>1, <1>5 DEF RejectEntry, Points
<1>6. ASSUME NEW o \in Ops, Lock(o) \/ Enter(o) \/ Setup(o)
      PROVE  AckedInv'
  <2>1. CASE Fail(o) \/ Stopped(o)
    BY <1>3, <2>1
  <2>2. CASE ~(Fail(o) \/ Stopped(o))
    <3>1. seen[o] = 0
      BY <1>0, <1>6 DEF Lock, Enter, Setup, AckedOK
    <3> QED
      BY <1>1, <1>6, <2>2, <3>1 DEF Lock, Enter, Setup, Points, Inside
  <2> QED
    BY <2>1, <2>2
\* An entry that is left behind stays before the cursor, skipped or complete.
<1>7. ASSUME NEW o \in Ops, pc[o] \in {"entry", "chunk"}, NextEntry(o),
             UNCHANGED <<fixed, work, acked>>,
             \A x \in Ops \ {o} : skipped'[x] = skipped[x],
             \/ skipped'[o] = skipped[o]
             \/ skipped'[o] = skipped[o] \cup {at[o]} /\ pc[o] = "entry"
      PROVE  AckedInv'
  <2>1. \A x \in Ops \ {o} : AckedOK(x)'
    BY <1>0, <1>7, SameAcked DEF NextEntry, Go, TypeOK
  <2>2. at'[o] = at[o] + 1 /\ seen'[o] = 0 /\ at[o] \in Nat
        /\ pc'[o] \in {"entry", "return"}
    BY <1>7 DEF NextEntry, Go, TypeOK
  <2>3. Chunks(o)' = Chunks(o) /\ acked' = acked
    BY <1>7, SameChunks
  <2>4. AckedOK(o)
    BY <1>0
  <2>5. ASSUME NEW p \in acked[o]
        PROVE  p \in Passed(o)'
    <3>1. p \in Chunks(o) /\ p[1] \notin skipped[o]
          /\ (p[1] < at[o] \/ (p[1] = at[o] /\ p[2] <= seen[o]))
      BY <2>4, <2>5 DEF AckedOK, Passed
    <3>2. p[1] \in Int /\ p[2] \in Int /\ p[2] >= 1
      BY <3>1, ChunkPosition DEF Targets
    <3>3. p[1] \notin skipped'[o]
      <4>1. CASE pc[o] = "entry"
        BY <1>7, <2>2, <2>4, <3>1, <3>2, <4>1 DEF AckedOK
      <4> QED
        BY <1>7, <3>1, <4>1
    <3> QED
      BY <2>2, <2>3, <3>1, <3>2, <3>3 DEF Passed
  <2>6. skipped[o] \subseteq Nat
    BY DEF TypeOK
  <2>7. \A i \in skipped'[o] : i < at'[o]
    BY <1>7, <2>2, <2>4, <2>6 DEF AckedOK
  <2>8. AckedOK(o)'
    BY <2>2, <2>3, <2>5, <2>7 DEF AckedOK
  <2> QED
    BY <1>7, <2>1, <2>8 DEF AckedInv
<1>8. ASSUME NEW o \in Ops, Entry(o)
      PROVE  AckedInv'
  <2>1. CASE Fail(o) \/ Stopped(o)
    BY <1>3, <2>1
  <2>2. CASE NextEntry(o) /\ skipped' = [skipped EXCEPT ![o] = @ \cup {at[o]}]
             /\ UNCHANGED <<fixed, operationLock, cancelled, work, acked,
                            cancelVars, asked, heard, result>>
    <3>1. skipped'[o] = skipped[o] \cup {at[o]} /\ \A x \in Ops \ {o} : skipped'[x] = skipped[x]
      BY <2>2 DEF TypeOK
    <3> QED
      BY <1>7, <1>8, <2>2, <3>1 DEF Entry
  <2>3. CASE Go(o, "chunk")
             /\ UNCHANGED <<fixed, operationLock, cancelled, work, cursor,
                            cancelVars, asked, heard, result>>
    BY <1>1, <2>3 DEF Points, Inside
  <2> QED
    BY <1>8, <2>1, <2>2, <2>3 DEF Entry
<1>9. ASSUME NEW o \in Ops, Chunk(o)
      PROVE  AckedInv'
  BY <1>1, <1>2, <1>3, <1>9 DEF Chunk, Points, Inside, Results
<1>10. ASSUME NEW o \in Ops, EndOfEntry(o)
       PROVE  AckedInv'
  BY <1>3, <1>7, <1>10 DEF EndOfEntry
<1>11. ASSUME NEW o \in Ops, pc[o] \in {"callback", "handler"}, Refused(o)
       PROVE  AckedInv'
  BY <1>1, <1>2, <1>11 DEF Refused, Points, Inside, Results
<1>12. ASSUME NEW o \in Ops, Callback(o)
       PROVE  AckedInv'
  BY <1>0, <1>1, <1>11, <1>12 DEF Callback, AckedOK, Points, Inside
<1>13. ASSUME NEW o \in Ops, Handler(o)
       PROVE  AckedInv'
  <2>1. CASE Refused(o)
    BY <1>11, <1>13, <2>1 DEF Handler
  <2>2. CASE /\ seen' = [seen EXCEPT ![o] = @ + 1]
             /\ acked' = [acked EXCEPT ![o] = @ \cup {<<at[o], seen[o] + 1>>}]
             /\ Go(o, "chunk")
             /\ UNCHANGED <<fixed, operationLock, cancelled, work, at, skipped,
                            cancelVars, asked, result>>
    <3>1. \A x \in Ops \ {o} : AckedOK(x)'
      BY <1>0, <2>2, SameAcked DEF Go, TypeOK
    <3>2. seen'[o] = seen[o] + 1 /\ acked'[o] = acked[o] \cup {<<at[o], seen[o] + 1>>}
          /\ at[o] \in Nat /\ seen[o] \in Nat /\ pc'[o] = "chunk"
      BY <2>2 DEF Go, TypeOK
    <3>3. Chunks(o)' = Chunks(o)
      BY <2>2, SameChunks
    <3>4. AckedOK(o)
      BY <1>0
    <3>5. <<at[o], seen[o] + 1>> \in Passed(o)'
      BY <1>13, <2>2, <3>2, <3>3, <3>4, OwedNext DEF Handler, Passed, AckedOK
    <3>6. ASSUME NEW p \in acked[o]
          PROVE  p \in Passed(o)'
      <4>1. p \in Chunks(o) /\ p[1] \notin skipped[o]
            /\ (p[1] < at[o] \/ (p[1] = at[o] /\ p[2] <= seen[o]))
        BY <3>4, <3>6 DEF AckedOK, Passed
      <4>2. p[2] \in Int
        BY <4>1, ChunkPosition
      <4> QED
        BY <2>2, <3>2, <3>3, <4>1, <4>2 DEF Passed
    <3>7. AckedOK(o)'
      BY <2>2, <3>2, <3>4, <3>5, <3>6 DEF AckedOK
    <3> QED
      BY <2>2, <3>1, <3>7 DEF AckedInv
  <2> QED
    BY <1>13, <2>1, <2>2 DEF Handler
<1>14. ASSUME NEW o \in Ops, RarAborted(o) \/ Finish(o)
       PROVE  AckedInv'
  BY <1>2, <1>14 DEF RarAborted, Finish, BreakOutcome, Results
<1>15. ASSUME UNCHANGED <<fixed, pc, work, cursor>>
       PROVE  AckedInv'
  BY <1>0, <1>15, SameAcked DEF AckedInv
<1>16. CASE ReaderCancel \/ (\E o \in Ops : CancelContext(o) \/ CancelReader(o))
            \/ UNCHANGED vars
  BY <1>15, <1>16 DEF ReaderCancel, CancelContext, CancelReader, vars
<1> QED
  BY <1>4, <1>5, <1>6, <1>8, <1>9, <1>10, <1>12, <1>13, <1>14, <1>16 DEF Next, Step

--------------------------------------------------------------------------------
(* The steps of the contract *)

LEMMA InitRefines == Init => Contract!Init /\ AckedInv
<1> SUFFICES ASSUME Init
             PROVE  Contract!Init /\ AckedInv
  OBVIOUS
<1>1. Phase("idle") = "idle"
  BY DEF Phase, Inside
<1>2. phase = [o \in Ops |-> "idle"]
  BY <1>1 DEF Init, phase
<1>3. ASSUME NEW o \in Ops
      PROVE  Targets(o) = {}
  <2>1. kind[o] = "extractAll" /\ last[o] = 0
    BY DEF Init
  <2>2. Targets(o) = 1 .. 0
    BY <2>1 DEF Targets, First
  <2> QED
    BY <2>2
<1>4. owed = [o \in Ops |-> {}]
  BY <1>3 DEF owed, Owed, Chunks, ChunksOf
<1>5. stopped = {}
  BY DEF Init, stopped
<1>6. AckedInv
  BY DEF Init, AckedInv, AckedOK
<1> QED
  BY <1>2, <1>4, <1>5, <1>6 DEF Init, Contract!Init

\* What a call owes are chunks of the archive.
LEMMA OwedFacts ==
    ASSUME TypeOK, archive \in Archives, NEW o \in Ops, last[o] # 0
    PROVE  Owed(o) \subseteq AllPieces
<1>1. DOMAIN archive = 1 .. Len(archive) /\ last[o] \in 0 .. Len(archive) /\ Len(archive) \in Nat
  BY DEF TypeOK
<1>2. Targets(o) \subseteq DOMAIN archive
  BY <1>1 DEF Targets, First
<1> QED
  BY <1>2 DEF Owed, Chunks, ChunksOf, AllPieces

\* The phase of a call follows its program counter, and what it owes follows
\* what it is about and what was skipped.
LEMMA SamePhase == UNCHANGED pc => UNCHANGED phase
BY DEF phase

LEMMA SameOwed == UNCHANGED <<archive, work, skipped>> => UNCHANGED owed
BY DEF owed, Owed, Chunks, ChunksOf, Targets, work

LEMMA PhaseMoves ==
    ASSUME TypeOK, NEW o \in Ops, NEW p, Go(o, p)
    PROVE  phase' = [phase EXCEPT ![o] = Phase(p)]
BY DEF Go, TypeOK, phase

LEMMA SamePhaseInside ==
    ASSUME TypeOK, NEW o \in Ops, pc[o] \in Inside, NEW p \in Inside, Go(o, p)
    PROVE  UNCHANGED phase
BY DEF Go, TypeOK, phase, Phase, Inside

\* Nobody who was asked to stop is forgotten.
LEMMA MoreStopped ==
    ASSUME NEW S \in SUBSET Ops, \A o \in Ops : asked'[o] # {} <=> asked[o] # {} \/ o \in S
    PROVE  stopped' = stopped \cup S
BY DEF stopped

LEMMA StepRefines ==
    IInv /\ AckedInv /\ IInv' /\ [Next]_vars => [Contract!Next]_(Contract!contractVars)
<1> SUFFICES ASSUME IInv, AckedInv, IInv', [Next]_vars
             PROVE  Contract!Next \/ UNCHANGED Contract!contractVars
  OBVIOUS
<1> USE DEF fixed, work, cursor, cancelVars
<1>0. /\ TypeOK /\ CursorInv /\ Serialized /\ CancelledHasCause'
      /\ \A o \in Ops : AckedOK(o)
      /\ \A o \in Ops : Complete(o)'
  BY DEF IInv, AckedInv
<1>1. ASSUME UNCHANGED <<archive, pc, work, skipped, acked, asked, result>>
      PROVE  UNCHANGED Contract!contractVars
  BY <1>1, SamePhase, SameOwed DEF Contract!contractVars, stopped
<1>2. ASSUME NEW o \in Ops, pc[o] \in Inside, NEW p \in Inside, Go(o, p),
             UNCHANGED <<archive, work, skipped, acked, asked, result>>
      PROVE  UNCHANGED Contract!contractVars
  BY <1>0, <1>2, SamePhaseInside, SameOwed DEF Contract!contractVars, stopped
<1>3. ASSUME NEW S \in SUBSET Ops, stopped' = stopped \cup S,
             UNCHANGED <<phase, owed, acked, result>>
      PROVE  Contract!Next
  <2>1. Contract!Ask(S)
    BY <1>3 DEF Contract!Ask
  <2> QED
    BY <2>1 DEF Contract!Next
\* A call returns: what an ok and a cancellation promise is in the invariant.
<1>4. ASSUME NEW o \in Ops, pc[o] \in Inside, NEW r \in {"ok", "cancelled", "error"},
             Return(o, r), stopped' \in {stopped, stopped \cup {o}}
      PROVE  Contract!Next
  <2>1. phase[o] = "active"
    BY <1>4 DEF phase, Phase, Inside
  <2>2. phase' = [phase EXCEPT ![o] = "done"]
    BY <1>0, <1>4, PhaseMoves DEF Return, Phase, Inside
  <2>3. UNCHANGED owed
    BY <1>4, SameOwed DEF Return
  <2>4. result'[o] = r
    BY <1>0, <1>4 DEF Return, TypeOK
  <2>5. r = "cancelled" => o \in stopped'
    BY <1>0, <2>4 DEF CancelledHasCause, stopped
  <2>6. ASSUME r = "ok"
        PROVE  acked[o] = owed[o]
    <3>1. owed'[o] \subseteq acked'[o]
      BY <1>0, <2>4, <2>6 DEF Complete, owed, Owed
    <3>2. acked[o] \subseteq owed[o]
      BY <1>0 DEF AckedOK, Passed, owed, Owed
    <3> QED
      BY <1>4, <2>3, <3>1, <3>2 DEF Return
  <2>7. Contract!Retire(o, r)
    BY <1>4, <2>1, <2>2, <2>3, <2>5, <2>6 DEF Return, Contract!Retire
  <2> QED
    BY <2>7 DEF Contract!Next
<1>5. ASSUME NEW o \in Ops, pc[o] \in Inside, Fail(o) \/ Stopped(o)
      PROVE  Contract!Next
  BY <1>4, <1>5 DEF Fail, Stopped, stopped
<1>6. ASSUME NEW o \in Ops, Call(o)
      PROVE  Contract!Next
  <2>1. PICK k \in Kinds, i \in 1 .. Len(archive) :
            kind' = [kind EXCEPT ![o] = k] /\ last' = [last EXCEPT ![o] = i]
    BY <1>6 DEF Call
  <2>2. phase' = [phase EXCEPT ![o] = "waiting"]
    <3>1. phase' = [phase EXCEPT ![o] = Phase("queued")]
      BY <1>0, <1>6, PhaseMoves DEF Call
    <3>2. Phase("queued") = "waiting"
      BY DEF Phase, Inside
    <3> QED
      BY <3>1, <3>2
  <2>3. phase[o] = "idle"
    BY <1>6 DEF Call, phase, Phase, Inside
  <2>4. UNCHANGED <<archive, skipped, acked, asked, result>>
    BY <1>6 DEF Call
  <2>5. kind'[o] = k /\ last'[o] = i /\ archive' \in Archives /\ TypeOK'
    BY <1>0, <2>1, <2>4 DEF IInv, AckedInv, TypeOK
  <2>6. Owed(o)' \subseteq AllPieces
    <3>1. (TypeOK /\ archive \in Archives /\ last[o] # 0 => Owed(o) \subseteq AllPieces)'
      BY OwedFacts, PTL
    <3>2. last'[o] # 0
      BY <2>5
    <3> QED
      BY <2>5, <3>1, <3>2 DEF AllPieces
  <2>7. owed' = [owed EXCEPT ![o] = Owed(o)']
    <3>1. \A x \in Ops \ {o} : Owed(x)' = Owed(x)
      BY <1>0, <2>1, <2>4, SameChunks DEF TypeOK, Owed
    <3> HIDE DEF Owed
    <3> QED
      BY <3>1 DEF owed
  <2>8. Contract!Submit(o, Owed(o)')
    BY <2>2, <2>3, <2>4, <2>7 DEF Contract!Submit, stopped
  <2> QED
    BY <2>6, <2>8 DEF Contract!Next
<1>7. ASSUME NEW o \in Ops, RejectEntry(o)
      PROVE  Contract!Next
  <2>1. phase[o] = "idle"
    BY <1>7 DEF RejectEntry, phase, Phase, Inside
  <2>2. phase' = [phase EXCEPT ![o] = "done"]
    BY <1>0, <1>7, PhaseMoves DEF RejectEntry, Phase, Inside
  <2>3. UNCHANGED owed
    BY <1>7, SameOwed DEF RejectEntry
  <2>4. Contract!Retire(o, "error")
    BY <1>7, <2>1, <2>2, <2>3 DEF RejectEntry, Contract!Retire, stopped
  <2> QED
    BY <2>4 DEF Contract!Next
<1>8. ASSUME NEW o \in Ops, Lock(o)
      PROVE  Contract!Next
  <2>1. phase[o] = "waiting"
    BY <1>8 DEF Lock, phase, Phase, Inside
  <2>2. phase' = [phase EXCEPT ![o] = "active"]
    BY <1>0, <1>8, PhaseMoves DEF Lock, Phase, Inside
  <2>3. UNCHANGED owed
    BY <1>8, SameOwed DEF Lock
  <2>4. ASSUME NEW x \in Ops
        PROVE  phase[x] # "active"
    <3>1. pc[x] \notin Inside
      BY <1>0, <1>8, NoOpAssumption DEF Lock, Unlocked, Serialized
    <3> QED
      BY <3>1, <1>0 DEF phase, Phase, TypeOK, Points
  <2>5. Contract!Admit(o)
    BY <1>8, <2>1, <2>2, <2>3, <2>4 DEF Lock, Contract!Admit, Contract!Idle, stopped
  <2> QED
    BY <2>5 DEF Contract!Next
<1>9. ASSUME NEW o \in Ops, Enter(o) \/ Setup(o)
      PROVE  Contract!Next \/ UNCHANGED Contract!contractVars
  BY <1>2, <1>5, <1>9 DEF Enter, Setup, Inside
<1>10. ASSUME NEW o \in Ops, pc[o] \in Inside, NextEntry(o)
       PROVE  UNCHANGED phase
  BY <1>0, <1>10, SamePhaseInside DEF NextEntry, Inside
\* An entry that is skipped is waived: nothing of it has been accepted.
<1>11. ASSUME NEW o \in Ops, Entry(o)
       PROVE  Contract!Next \/ UNCHANGED Contract!contractVars
  <2>0. pc[o] \in Inside
    BY <1>11 DEF Entry, Inside
  <2>1. CASE Fail(o) \/ Stopped(o)
    BY <1>5, <2>0, <2>1
  <2>2. CASE NextEntry(o) /\ skipped' = [skipped EXCEPT ![o] = @ \cup {at[o]}]
             /\ UNCHANGED <<fixed, operationLock, cancelled, work, acked,
                            cancelVars, asked, heard, result>>
    <3> DEFINE W == {p \in Owed(o) : p[1] = at[o]}
    <3>1. W \in SUBSET AllPieces
      <4>1. last[o] # 0
        BY <1>0, <1>11 DEF Entry, CursorInv, TypeOK
      <4> QED
        BY <1>0, <4>1, OwedFacts DEF AckedInv
    <3>2. acked[o] \cap W = {}
      <4>1. ASSUME NEW p \in acked[o], p[1] = at[o]
            PROVE  FALSE
        <5>1. p \in Chunks(o) /\ p[2] <= 0 /\ at[o] \in Nat
          BY <1>0, <1>11, <4>1 DEF Entry, AckedOK, Passed, TypeOK
        <5> QED
          BY <5>1, ChunkPosition
      <4> QED
        BY <4>1
    <3>3. owed' = [owed EXCEPT ![o] = @ \ W]
      <4>1. \A x \in Ops : Chunks(x)' = Chunks(x)
        BY <2>2, SameChunks
      <4>2. skipped'[o] = skipped[o] \cup {at[o]}
            /\ \A x \in Ops \ {o} : skipped'[x] = skipped[x]
        BY <1>0, <2>2 DEF TypeOK
      <4>3. \A x \in Ops \ {o} : Owed(x)' = Owed(x)
        BY <4>1, <4>2 DEF Owed
      <4>4. Owed(o)' = Owed(o) \ W
        BY <4>1, <4>2 DEF Owed
      <4> HIDE DEF Owed, W
      <4> QED
        BY <4>3, <4>4 DEF owed
    <3>4. phase[o] = "active"
      BY <2>0 DEF phase, Phase, Inside
    <3>5. UNCHANGED phase
      BY <1>10, <2>0, <2>2
    <3>6. Contract!Waive(o, W)
      BY <2>2, <3>2, <3>3, <3>4, <3>5 DEF Contract!Waive, stopped
    <3> QED
      BY <3>1, <3>6 DEF Contract!Next
  <2>3. CASE Go(o, "chunk")
             /\ UNCHANGED <<fixed, operationLock, cancelled, work, cursor,
                            cancelVars, asked, heard, result>>
    BY <1>2, <2>0, <2>3 DEF Inside
  <2> QED
    BY <1>11, <2>1, <2>2, <2>3 DEF Entry
<1>12. ASSUME NEW o \in Ops, Chunk(o)
       PROVE  Contract!Next \/ UNCHANGED Contract!contractVars
  BY <1>2, <1>4, <1>5, <1>12 DEF Chunk, Inside, stopped
<1>13. ASSUME NEW o \in Ops, EndOfEntry(o)
       PROVE  Contract!Next \/ UNCHANGED Contract!contractVars
  <2>0. pc[o] \in Inside
    BY <1>13 DEF EndOfEntry, Inside
  <2>1. CASE Fail(o) \/ Stopped(o)
    BY <1>5, <2>0, <2>1
  <2>2. CASE NextEntry(o)
             /\ UNCHANGED <<fixed, operationLock, cancelled, work, acked, skipped,
                            cancelVars, asked, heard, result>>
    BY <1>10, <2>0, <2>2, SameOwed DEF Contract!contractVars, stopped
  <2> QED
    BY <1>13, <2>1, <2>2 DEF EndOfEntry
<1>14. ASSUME NEW o \in Ops, pc[o] \in Inside, Refused(o),
              NEW S \in SUBSET {o}, stopped' = stopped \cup S
       PROVE  Contract!Next
  <2>1. CASE backend = "rar"
    BY <1>0, <1>3, <1>14, <2>1, SamePhaseInside, SameOwed DEF Refused, Inside
  <2>2. CASE backend # "rar"
    BY <1>4, <1>14, <2>2 DEF Refused
  <2> QED
    BY <2>1, <2>2
<1>15. ASSUME NEW o \in Ops, Callback(o)
       PROVE  Contract!Next \/ UNCHANGED Contract!contractVars
  <2>0. pc[o] \in Inside
    BY <1>15 DEF Callback, Inside
  <2>1. CASE Refused(o) /\ UNCHANGED <<asked, heard>>
    <3>1. stopped' = stopped \cup {}
      BY <2>1 DEF stopped
    <3> QED
      BY <1>14, <2>0, <2>1, <3>1
  <2>2. CASE ~(Refused(o) /\ UNCHANGED <<asked, heard>>)
    BY <1>2, <1>15, <2>0, <2>2 DEF Callback, Inside
  <2> QED
    BY <2>1, <2>2
\* A chunk that is accepted was owed and not given before.
<1>16. ASSUME NEW o \in Ops, Handler(o)
       PROVE  Contract!Next
  <2>0. pc[o] \in Inside
    BY <1>16 DEF Handler, Inside
  <2>1. CASE Refused(o) /\ asked' = [asked EXCEPT ![o] = @ \cup {"handler"}]
    <3>1. stopped' = stopped \cup {o}
      BY <1>0, <2>1, MoreStopped DEF TypeOK
    <3> QED
      BY <1>14, <2>0, <2>1, <3>1
  <2>2. CASE /\ acked' = [acked EXCEPT ![o] = @ \cup {<<at[o], seen[o] + 1>>}]
             /\ Go(o, "chunk")
             /\ UNCHANGED <<fixed, operationLock, cancelled, work, at, skipped,
                            cancelVars, asked, result>>
    <3> DEFINE p == <<at[o], seen[o] + 1>>
    <3>1. at[o] \in Nat /\ seen[o] \in Nat /\ AckedOK(o)
      BY <1>0 DEF TypeOK
    <3>2. p \in owed[o]
      BY <1>0, <1>16, <3>1, OwedNext DEF Handler, AckedOK, owed, Owed
    <3>3. p \notin acked[o]
      BY <3>1 DEF AckedOK, Passed
    <3>4. last[o] # 0
      BY <1>0, <1>16 DEF Handler, CursorInv, TypeOK
    <3>5. p \in AllPieces
      BY <1>0, <3>2, <3>4, OwedFacts DEF AckedInv, owed
    <3>6. phase[o] = "active"
      BY <2>0 DEF phase, Phase, Inside
    <3>7. UNCHANGED <<phase, owed, stopped>>
      BY <1>0, <2>0, <2>2, SamePhaseInside, SameOwed DEF Inside, stopped
    <3>8. Contract!Give(o, p)
      BY <2>2, <3>2, <3>3, <3>6, <3>7 DEF Contract!Give
    <3> QED
      BY <3>5, <3>8 DEF Contract!Next
  <2> QED
    BY <1>16, <2>1, <2>2 DEF Handler
<1>17. ASSUME NEW o \in Ops, RarAborted(o) \/ Finish(o)
       PROVE  Contract!Next
  BY <1>4, <1>17 DEF RarAborted, Finish, BreakOutcome, Inside, stopped
\* A cancellation counts for the call it reaches, if any.
<1>18. ASSUME StoreCancelled, UNCHANGED <<archive, pc, work, skipped, acked, result>>
       PROVE  Contract!Next
  <2> DEFINE S == {operationLock} \ {NoOp}
  <2>1. S \in SUBSET Ops
    BY <1>0 DEF TypeOK
  <2>2. stopped' = stopped \cup S
    BY <1>18, <2>1, MoreStopped, NoOpAssumption DEF StoreCancelled
  <2> QED
    BY <1>3, <1>18, <2>1, <2>2, SamePhase, SameOwed
<1>19. ASSUME ReaderCancel \/ \E o \in Ops : CancelReader(o)
       PROVE  Contract!Next
  BY <1>18, <1>19 DEF ReaderCancel, CancelReader
<1>20. ASSUME NEW o \in Ops, CancelContext(o)
       PROVE  Contract!Next
  <2>1. stopped' = stopped \cup {o}
    BY <1>0, <1>20, MoreStopped DEF CancelContext, TypeOK
  <2> QED
    BY <1>3, <1>20, <2>1, SamePhase, SameOwed DEF CancelContext
<1>21. CASE UNCHANGED vars
  BY <1>1, <1>21 DEF vars
<1> QED
  BY <1>6, <1>7, <1>8, <1>9, <1>11, <1>12, <1>13, <1>15, <1>16, <1>17, <1>19, <1>20,
     <1>21 DEF Next, Step

\* Sessions over the C++ core keep the contract of every backend, for any
\* archive, any loops and any number of calls: one at a time, nothing is handed
\* over twice or unasked, ok means all of it, cancelled means somebody asked.
THEOREM SessionImplementsContract == Spec => ImplementsContract
<1>1. IInv /\ AckedInv /\ [Next]_vars
        => IInv' /\ AckedInv' /\ [Contract!Next]_(Contract!contractVars)
  <2>1. IInv => TypeOK /\ CursorInv
    BY DEF IInv
  <2> QED
    BY <2>1, StepIInv, StepAcked, StepRefines
<1> QED
  BY InitIInv, InitRefines, <1>1, PTL DEF Spec, ImplementsContract, Contract!Spec

===============================================================================
