---------------------------- MODULE ReaderContract ----------------------------
(***************************************************************************)
(* What an ArchiveReader promises the tasks that use it, whatever backend  *)
(* decodes the archive.  Operations are admitted one at a time, hand over  *)
(* the chunks they owe one by one, and retire with one of three outcomes.  *)
(* "ok" is a promise that nothing owed is missing, "cancelled" is only an  *)
(* answer to somebody who asked.  ReaderSession and SevenZipSession are    *)
(* shown to implement this module.                                         *)
(***************************************************************************)
CONSTANTS
    Ops,        \* the operations (extract, read, data) called on one reader
    Pieces      \* every piece of output any operation can be asked to produce

VARIABLES
    phase,      \* [Ops -> {"idle", "waiting", "active", "done"}]
    owed,       \* [Ops -> SUBSET Pieces], what the operation must still account for
    given,      \* [Ops -> SUBSET Pieces], what the caller has accepted
    asked,      \* the operations somebody asked to stop
    outcome     \* [Ops -> {"none", "ok", "cancelled", "error"}]

contractVars == <<phase, owed, given, asked, outcome>>

Init ==
    /\ phase = [o \in Ops |-> "idle"]
    /\ owed = [o \in Ops |-> {}]
    /\ given = [o \in Ops |-> {}]
    /\ asked = {}
    /\ outcome = [o \in Ops |-> "none"]

Idle == {o \in Ops : phase[o] = "active"} = {}

\* A task calls the reader; W is the output the call is about.
Submit(o, W) ==
    /\ phase[o] = "idle"
    /\ phase' = [phase EXCEPT ![o] = "waiting"]
    /\ owed' = [owed EXCEPT ![o] = W]
    /\ UNCHANGED <<given, asked, outcome>>

\* The reader serializes its operations: nobody is admitted beside another.
Admit(o) ==
    /\ phase[o] = "waiting"
    /\ Idle
    /\ phase' = [phase EXCEPT ![o] = "active"]
    /\ UNCHANGED <<owed, given, asked, outcome>>

\* An existing file is kept under the skip policy: its pieces are not owed.
Waive(o, W) ==
    /\ phase[o] = "active"
    /\ given[o] \cap W = {}
    /\ owed' = [owed EXCEPT ![o] = @ \ W]
    /\ UNCHANGED <<phase, given, asked, outcome>>

Give(o, p) ==
    /\ phase[o] = "active"
    /\ p \in owed[o] \ given[o]
    /\ given' = [given EXCEPT ![o] = @ \cup {p}]
    /\ UNCHANGED <<phase, owed, asked, outcome>>

\* A handler refuses, a task is cancelled or the reader is.
Ask(S) ==
    /\ asked' = asked \cup S
    /\ UNCHANGED <<phase, owed, given, outcome>>

Retire(o, r) ==
    /\ \/ phase[o] = "active"
       \/ phase[o] = "idle" /\ r = "error"
    /\ r = "ok" => given[o] = owed[o]
    /\ r = "cancelled" => o \in asked'
    /\ phase' = [phase EXCEPT ![o] = "done"]
    /\ outcome' = [outcome EXCEPT ![o] = r]
    /\ asked' \in {asked, asked \cup {o}}
    /\ UNCHANGED <<owed, given>>

Next ==
    \/ \E o \in Ops :
          \/ \E W \in SUBSET Pieces : Submit(o, W) \/ Waive(o, W)
          \/ Admit(o)
          \/ \E p \in Pieces : Give(o, p)
          \/ \E r \in {"ok", "cancelled", "error"} : Retire(o, r)
    \/ \E S \in SUBSET Ops : Ask(S)

Spec == Init /\ [][Next]_contractVars
===============================================================================
