--------------------------- MODULE SevenZipExtraction ---------------------------
(***************************************************************************)
(* SevenZipBackend.extract as steps on a directory tree: all entries are   *)
(* planned first, then decoded into temporary files beside their           *)
(* destinations, then verified by size, then committed one after the       *)
(* other.  The checksum of an entry is looked at only where the decoder    *)
(* reports its result to ExtractCallback, and not at all once the callback *)
(* was aborted.                                                            *)
(*                                                                         *)
(* Extractors are readers of their own, or processes, with one             *)
(* destination.  SevenZipSession has the locks and the decoder that one    *)
(* reader's calls share; here an abort falls into the decoding, and the    *)
(* decoder is fresh.                                                       *)
(*                                                                         *)
(* A definition that directly precedes the one it varies is a plausible    *)
(* mistake and not part of the specification.                              *)
(***************************************************************************)
EXTENDS Integers, SequencesExt

CONSTANTS
    Extractors,
    Paths,          \* the names that exist or may come to exist, prefix-closed
    Archives,       \* sequences of entries to choose from
    Trees           \* destinations to start from, functions on Paths

Root == <<>>
Parent(p) == SubSeq(p, 1, Len(p) - 1)

Absent == [kind |-> "absent"]
Directory == [kind |-> "directory"]
Link == [kind |-> "link"]
OldFile == [kind |-> "file", from |-> "before"]
File(x, i, data) == [kind |-> "file", from |-> x, entry |-> i, data |-> data]

Entries == [path : Paths, kind : {"file", "directory"}, sound : BOOLEAN]
Policies == {"error", "replace", "skip"}

ASSUME PathsAssumption ==
    /\ Paths \subseteq Seq(STRING) \ {Root}
    /\ \A p \in Paths : \A n \in 1 .. Len(p) : SubSeq(p, 1, n) \in Paths
ASSUME ArchivesAssumption == Archives \subseteq Seq(Entries) \ {<<>>}
\* A link leads to an empty directory elsewhere.
ASSUME TreesAssumption ==
    /\ Trees \subseteq [Paths -> {Absent, Directory, Link, OldFile}]
    /\ \A t \in Trees, p \in Paths :
          t[p] # Absent /\ Parent(p) # Root => t[Parent(p)] = Directory

VARIABLES
    tree,           \* what is at each path
    archive,        \* SevenZipBackend.entries of each extractor
    policy,         \* ArchiveExtractionOptions.overwritePolicy
    pc,             \* the next step of each extractor
    index,          \* the entry it plans
    missing,        \* directories ensureSafeDirectory has still to make
    plan,           \* the entries planned, a sequence of their indexes
    at,             \* the plan it decodes or commits
    temp,           \* the temporary file of each entry
    verdict,        \* ExtractCallback::_result
    result

inputs == <<archive, policy>>
planning == <<index, missing, plan>>
vars == <<tree, inputs, pc, planning, at, temp, verdict, result>>

--------------------------------------------------------------------------------

Planning == {"ensure", "create", "plan"}
Decoding == {"open", "write", "result", "finish"}
Committing == {"look", "move", "replace"}
Points == {"idle", "verify", "done"} \cup Planning \cup Decoding \cup Committing
\* No temporary file, one that is short of its entry's size, one that has it,
\* and one that has it with data that does not match the checksum.
Contents == {"none", "short", "whole", "damaged"}
Results == {"none", "ok", "corrupt", "missing", "exists", "unsafe", "io"}

Entry(x) == archive[x][index[x]]
Required(x) == IF Entry(x).kind = "directory" THEN Entry(x).path ELSE Parent(Entry(x).path)
Ancestor(x, n) == SubSeq(Required(x), 1, n)
Planned(x) == plan[x][at[x]]
PathOf(x, i) == archive[x][i].path
Final(x) == PathOf(x, Planned(x))
NoTemps(x) == [i \in DOMAIN archive[x] |-> "none"]

Init ==
    /\ tree \in Trees
    /\ archive \in [Extractors -> Archives]
    /\ policy \in [Extractors -> Policies]
    /\ pc = [x \in Extractors |-> "idle"]
    /\ index = [x \in Extractors |-> 1]
    /\ missing = [x \in Extractors |-> 0]
    /\ plan = [x \in Extractors |-> <<>>]
    /\ at = [x \in Extractors |-> 1]
    /\ temp = [x \in Extractors |-> NoTemps(x)]
    /\ verdict = [x \in Extractors |-> "ok"]
    /\ result = [x \in Extractors |-> "none"]

--------------------------------------------------------------------------------
(* extract and makePlans *)

Go(x, point) == pc' = [pc EXCEPT ![x] = point]

\* The defer of extract: what is left of the temporary files of all plans goes.
RemoveTempsOfCommitted(x) ==
    temp' = [temp EXCEPT ![x] = [i \in DOMAIN @ |->
                IF \E k \in 1 .. at[x] : k \in DOMAIN plan[x] /\ plan[x][k] = i
                THEN "none" ELSE @[i]]]
RemoveTemps(x) == temp' = [temp EXCEPT ![x] = NoTemps(x)]

Return(x, r) ==
    /\ Go(x, "done")
    /\ result' = [result EXCEPT ![x] = r]
    /\ RemoveTemps(x)
    /\ UNCHANGED <<inputs, planning, at, verdict>>

Fail(x, r) == Return(x, r) /\ UNCHANGED tree

Start(x) ==
    /\ pc[x] = "idle"
    /\ Go(x, "ensure")
    /\ UNCHANGED <<tree, inputs, planning, at, temp, verdict, result>>

\* ensureSafeDirectory climbs to the first ancestor that exists, which has to
\* be a directory and no link.
SafeFollowing(node) == node.kind \in {"directory", "link"}
Safe(node) == node = Directory

Ensure(x) ==
    /\ pc[x] = "ensure"
    /\ \E n \in 0 .. Len(Required(x)) :
          /\ n > 0 => tree[Ancestor(x, n)] # Absent
          /\ \A m \in n + 1 .. Len(Required(x)) : tree[Ancestor(x, m)] = Absent
          /\ \/ /\ n > 0 /\ ~Safe(tree[Ancestor(x, n)])
                /\ Fail(x, "unsafe")
             \/ /\ n > 0 => Safe(tree[Ancestor(x, n)])
                /\ missing' = [missing EXCEPT ![x] = Len(Required(x)) - n]
                /\ Go(x, IF n = Len(Required(x)) THEN "plan" ELSE "create")
                /\ UNCHANGED <<tree, inputs, index, plan, at, temp, verdict, result>>

\* createDirectory without intermediate directories fails when somebody else
\* has made the directory meanwhile.
Create(x) ==
    /\ pc[x] = "create"
    /\ LET p == Ancestor(x, Len(Required(x)) - missing[x] + 1)
       IN \/ Fail(x, "io")
          \/ /\ tree[p] = Absent
             /\ tree' = [tree EXCEPT ![p] = Directory]
             /\ missing' = [missing EXCEPT ![x] = @ - 1]
             /\ Go(x, IF missing[x] = 1 THEN "plan" ELSE "create")
             /\ UNCHANGED <<inputs, index, plan, at, temp, verdict, result>>

\* On to the next entry with the plans made so far, or to the decoder, or out
\* when nothing is planned.
NextEntry(x, plans) ==
    /\ plan' = [plan EXCEPT ![x] = plans]
    /\ IF index[x] < Len(archive[x])
       THEN /\ index' = [index EXCEPT ![x] = @ + 1]
            /\ Go(x, "ensure")
            /\ UNCHANGED result
       ELSE /\ Go(x, IF plans = <<>> THEN "done" ELSE "open")
            /\ result' = [result EXCEPT ![x] = IF plans = <<>> THEN "ok" ELSE @]
            /\ UNCHANGED index
    /\ UNCHANGED <<tree, inputs, missing, at, temp, verdict>>

Duplicate(x) == \E k \in DOMAIN plan[x] : PathOf(x, plan[x][k]) = Entry(x).path
\* plans.remove(at: existingIndex), the index that planIndexByPath has.
DuplicateAt(x) == CHOOSE k \in DOMAIN plan[x] : PathOf(x, plan[x][k]) = Entry(x).path
WithoutDuplicateKept(x) == plan[x]
WithoutDuplicate(x) == IF Duplicate(x) THEN RemoveAt(plan[x], DuplicateAt(x)) ELSE plan[x]

InTheWay(x) == tree[Entry(x).path]

\* A directory is made where it belongs at once; a file is planned unless the
\* archive has planned its path already or the destination has something there.
Plan(x) ==
    /\ pc[x] = "plan"
    /\ \/ /\ Entry(x).kind = "directory"
          /\ NextEntry(x, plan[x])
       \/ /\ Entry(x).kind = "file"
          /\ \/ /\ Duplicate(x) /\ policy[x] = "error"
                /\ Fail(x, "exists")
             \/ /\ Duplicate(x) /\ policy[x] = "skip"
                /\ NextEntry(x, plan[x])
             \/ /\ Duplicate(x) => policy[x] = "replace"
                /\ \/ /\ InTheWay(x) = Link
                      /\ Fail(x, "unsafe")
                   \/ /\ \/ InTheWay(x) = Directory
                         \/ InTheWay(x).kind = "file" /\ policy[x] = "error"
                      /\ Fail(x, "exists")
                   \/ /\ InTheWay(x).kind = "file" /\ policy[x] = "skip"
                      /\ NextEntry(x, plan[x])
                   \/ /\ \/ InTheWay(x) = Absent
                         \/ InTheWay(x).kind = "file" /\ policy[x] = "replace"
                      /\ NextEntry(x, Append(WithoutDuplicate(x), index[x]))

--------------------------------------------------------------------------------
(* The decoder and ExtractCallback *)

SetTemp(x, data) == temp' = [temp EXCEPT ![x] = [@ EXCEPT ![Planned(x)] = data]]

\* GetStream and PrepareOperation of the next file create its temporary file.
OpenStream(x) ==
    /\ pc[x] = "open"
    /\ verdict[x] = "ok"
    /\ \/ /\ SetTemp(x, "short")
          /\ Go(x, "write")
          /\ UNCHANGED verdict
       \/ /\ verdict' = [verdict EXCEPT ![x] = "io"]
          /\ Go(x, "finish")
          /\ UNCHANGED temp
    /\ UNCHANGED <<tree, inputs, planning, at, result>>

\* Data arrives.  A damaged entry may break off, or have its size and not its
\* checksum.
Write(x) ==
    /\ pc[x] = "write"
    /\ IF archive[x][Planned(x)].sound
       THEN SetTemp(x, "whole")
       ELSE SetTemp(x, "damaged") \/ UNCHANGED temp
    /\ Go(x, "result")
    /\ UNCHANGED <<tree, inputs, planning, at, verdict, result>>

\* SetOperationResult looks at the decoder's result unless there is one already.
Unnoticed(x) == TRUE
Passes(x) == archive[x][Planned(x)].sound

LastDecodedTooLate(x) == at[x] > Len(plan[x])
LastDecodedEarly(x) == at[x] >= Len(plan[x]) - 1
LastDecoded(x) == at[x] = Len(plan[x])

SetOperationResult(x) ==
    /\ pc[x] = "result"
    /\ verdict[x] = "ok"
    /\ IF Passes(x)
       THEN /\ Go(x, IF LastDecoded(x) THEN "finish" ELSE "open")
            /\ at' = [at EXCEPT ![x] = IF LastDecoded(x) THEN @ ELSE @ + 1]
            /\ UNCHANGED verdict
       ELSE /\ verdict' = [verdict EXCEPT ![x] = "corrupt"]
            /\ Go(x, "finish")
            /\ UNCHANGED at
    /\ UNCHANGED <<tree, inputs, planning, temp, result>>

\* Somebody cancels: ExtractCallback::abort overwrites what was found so far.
Abort(x) ==
    /\ pc[x] \in Decoding
    /\ verdict' = [verdict EXCEPT ![x] = "abort"]
    /\ UNCHANGED <<tree, inputs, pc, planning, at, temp, result>>

\* The callback's next method or report hands E_ABORT to the decoder.
Stop(x) ==
    /\ pc[x] \in {"open", "write", "result"}
    /\ verdict[x] = "abort"
    /\ Go(x, "finish")
    /\ UNCHANGED <<tree, inputs, planning, at, temp, verdict, result>>

\* The end of ExtractCallback::process: a failure is thrown, an abort is not.
Finish(x) ==
    /\ pc[x] = "finish"
    /\ \/ /\ verdict[x] \in {"io", "corrupt"}
          /\ Fail(x, verdict[x])
       \/ /\ verdict[x] \in {"ok", "abort"}
          /\ Go(x, "verify")
          /\ at' = [at EXCEPT ![x] = 1]
          /\ UNCHANGED <<tree, inputs, planning, temp, verdict, result>>

--------------------------------------------------------------------------------
(* Verification and commit *)

HasSize(data) == data \in {"whole", "damaged"}

\* Every planned file has to be there with its size before one is committed;
\* the first that is not decides the error.
VerifiesFirst(x) == {1}
Verifies(x) == DOMAIN plan[x]

Verify(x) ==
    /\ pc[x] = "verify"
    /\ \/ /\ \A k \in Verifies(x) : HasSize(temp[x][plan[x][k]])
          /\ Go(x, "look")
          /\ UNCHANGED <<tree, inputs, planning, at, temp, verdict, result>>
       \/ \E k \in Verifies(x) :
             /\ ~HasSize(temp[x][plan[x][k]])
             /\ \A j \in 1 .. k - 1 : HasSize(temp[x][plan[x][j]])
             /\ Fail(x, IF temp[x][plan[x][k]] = "none" THEN "missing" ELSE "corrupt")

LastCommittedEarly(x) == at[x] >= Len(plan[x]) - 1
LastCommitted(x) == at[x] = Len(plan[x])

\* Verification is over when the first plan is committed.
NextToCommitVerified == "verify"
NextToCommit == "look"

\* The plan is committed, or given up under the skip policy: in both cases its
\* temporary file is gone.
NextPlan(x) ==
    IF LastCommitted(x)
    THEN Return(x, "ok")
    ELSE /\ at' = [at EXCEPT ![x] = @ + 1]
         /\ Go(x, NextToCommit)
         /\ SetTemp(x, "none")
         /\ UNCHANGED <<inputs, planning, verdict, result>>

\* commit looks at the destination again.
Look(x) ==
    /\ pc[x] = "look"
    /\ LET node == tree[Final(x)]
       IN \/ /\ node = Link
             /\ Fail(x, "unsafe")
          \/ /\ \/ node.kind \in {"file", "directory"} /\ policy[x] = "error"
                \/ node = Directory /\ policy[x] = "replace"
             /\ Fail(x, "exists")
          \/ /\ node.kind \in {"file", "directory"} /\ policy[x] = "skip"
             /\ NextPlan(x)
             /\ UNCHANGED tree
          \/ /\ node = Absent \/ (node.kind = "file" /\ policy[x] = "replace")
             /\ Go(x, IF node = Absent THEN "move" ELSE "replace")
             /\ UNCHANGED <<tree, inputs, planning, at, temp, verdict, result>>

Publish(x) == tree' = [tree EXCEPT ![Final(x)] = File(x, Planned(x), temp[x][Planned(x)])]

\* moveItem refuses a destination that has come into being since.
MayMoveOver(x) == tree[Final(x)] # Directory
MayMove(x) == tree[Final(x)] = Absent

Move(x) ==
    /\ pc[x] = "move"
    /\ \/ Fail(x, "io")
       \/ /\ MayMove(x)
          /\ Publish(x)
          /\ NextPlan(x) \/ Return(x, "io")     \* the date could not be set

\* replaceItemAt exchanges the two files.
Replace(x) ==
    /\ pc[x] = "replace"
    /\ \/ Fail(x, "io")
       \/ /\ tree[Final(x)].kind = "file"
          /\ Publish(x)
          /\ NextPlan(x) \/ Return(x, "io")

--------------------------------------------------------------------------------

Step(x) ==
    \/ Start(x) \/ Ensure(x) \/ Create(x) \/ Plan(x)
    \/ OpenStream(x) \/ Write(x) \/ SetOperationResult(x) \/ Stop(x) \/ Finish(x)
    \/ Verify(x) \/ Look(x) \/ Move(x) \/ Replace(x)

Next == \E x \in Extractors : Step(x) \/ Abort(x)

Spec == Init /\ [][Next]_vars

================================================================================
