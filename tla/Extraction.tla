------------------------------ MODULE Extraction ------------------------------
(***************************************************************************)
(* extract_all and extract_entry of the C++ core, as steps on a directory  *)
(* tree: prepare_output_path, a temporary file beside the output, the      *)
(* stream of data into it, and the removal and rename that publish it.     *)
(*                                                                         *)
(* Each extractor is a reader of its own (or a process of its own): an     *)
(* ArchiveReader serializes only its own operations, so two of them may    *)
(* extract into one destination, step by step beside each other.  A        *)
(* process may die between two steps and the extraction be started again.  *)
(*                                                                         *)
(* A definition that directly precedes the one it varies is a plausible    *)
(* mistake and not part of the specification.                              *)
(***************************************************************************)
EXTENDS Integers, Sequences

CONSTANTS
    Extractors,
    Paths,          \* the names that exist or may come to exist, prefix-closed
    Archives,       \* sequences of entries to choose from
    Trees,          \* destinations to start from, functions on Paths
    Size,           \* chunks of data in every file entry
    MaxRuns         \* how often an extraction is started, crashes included

Root == <<>>
Parent(p) == SubSeq(p, 1, Len(p) - 1)
Children(p) == {q \in Paths : Parent(q) = p}

Absent == [kind |-> "absent"]
Directory == [kind |-> "directory"]
Link == [kind |-> "link"]
OldFile == [kind |-> "file", from |-> "before"]
File(x, i, n) == [kind |-> "file", from |-> x, entry |-> i, chunks |-> n]

Entries == [path : Paths, kind : {"file", "directory"}]
Policies == {"error", "replace", "skip"}

ASSUME PathsAssumption ==
    /\ Paths \subseteq Seq(STRING) \ {Root}
    /\ \A p \in Paths : \A n \in 1 .. Len(p) : SubSeq(p, 1, n) \in Paths
ASSUME ArchivesAssumption == Archives \subseteq Seq(Entries) \ {<<>>}
ASSUME TreesAssumption ==
    /\ Trees \subseteq [Paths -> {Absent, Directory, Link, OldFile}]
    /\ \A t \in Trees, p \in Paths :
          t[p] # Absent /\ Parent(p) # Root => t[Parent(p)] = Directory
ASSUME BoundsAssumption == Size \in Nat /\ MaxRuns \in Nat \ {0}

VARIABLES
    tree,           \* what is at each path
    origin,         \* what was there at the beginning (history)
    archive,        \* SAArchive::entries of each extractor
    policy,         \* SAExtractionOptions::overwrite_policy
    pc,             \* the next step of each extractor
    index,          \* the entry it is working on
    depth,          \* components of the required directory that are ensured
    temp,           \* chunks in its temporary file, or NoTemp
    orphans,        \* directories in which a crash left a temporary file
    runs,           \* how often the extraction was started
    result

inputs == <<origin, archive, policy>>
vars == <<tree, inputs, pc, index, depth, temp, orphans, runs, result>>

--------------------------------------------------------------------------------

NoTemp == -1
Points == {"idle", "chain", "mkdir", "look", "open", "write", "unlink",
           "rename", "done", "crashed"}
Running == Points \ {"idle", "done", "crashed"}
WithTemp == {"write", "unlink", "rename"}

Entry(x) == archive[x][index[x]]
Output(x) == Entry(x).path
\* prepare_output_path ensures the directory of an entry, or of its parent.
Required(x) == IF Entry(x).kind = "directory" THEN Output(x) ELSE Parent(Output(x))
Component(x) == SubSeq(Required(x), 1, depth[x] + 1)

IsDirectory(p) == p # Root => tree[p] = Directory
\* A directory that holds something cannot be removed.
InUse(p) ==
    \/ \E q \in Children(p) : tree[q] # Absent
    \/ p \in orphans
    \/ \E x \in Extractors : temp[x] # NoTemp /\ Parent(Output(x)) = p

Init ==
    /\ tree \in Trees
    /\ origin = tree
    /\ archive \in [Extractors -> Archives]
    /\ policy \in [Extractors -> Policies]
    /\ pc = [x \in Extractors |-> "idle"]
    /\ index = [x \in Extractors |-> 1]
    /\ depth = [x \in Extractors |-> 0]
    /\ temp = [x \in Extractors |-> NoTemp]
    /\ orphans = {}
    /\ runs = [x \in Extractors |-> 0]
    /\ result = [x \in Extractors |-> "none"]

--------------------------------------------------------------------------------

Go(x, point) == pc' = [pc EXCEPT ![x] = point]

\* std::remove(temporary) on every path that gives up.
RemoveTempForgotten(x) == UNCHANGED temp
RemoveTemp(x) == temp' = [temp EXCEPT ![x] = NoTemp]

Fail(x) ==
    /\ Go(x, "done")
    /\ result' = [result EXCEPT ![x] = "error"]
    /\ RemoveTemp(x)
    /\ UNCHANGED <<tree, inputs, index, depth, orphans, runs>>

IsLastOffByOne(x) == index[x] > Len(archive[x])
IsLast(x) == index[x] = Len(archive[x])

NextEntry(x) ==
    /\ depth' = [depth EXCEPT ![x] = 0]
    /\ IF IsLast(x)
       THEN /\ Go(x, "done")
            /\ result' = [result EXCEPT ![x] = "ok"]
            /\ UNCHANGED index
       ELSE /\ Go(x, "chain")
            /\ index' = [index EXCEPT ![x] = @ + 1]
            /\ UNCHANGED result

\* A call, or another one after the process has died.
Start(x) ==
    /\ pc[x] \in {"idle", "crashed"}
    /\ runs[x] < MaxRuns
    /\ runs' = [runs EXCEPT ![x] = @ + 1]
    /\ index' = [index EXCEPT ![x] = 1]
    /\ depth' = [depth EXCEPT ![x] = 0]
    /\ Go(x, "chain")
    /\ UNCHANGED <<tree, inputs, temp, orphans, result>>

\* ensure_safe_directory_chain looks at one component after the other.
SafeFollowing(node) == node.kind \in {"directory", "link"}
Safe(node) == node = Directory

Chain(x) ==
    /\ pc[x] = "chain"
    /\ \/ /\ depth[x] = Len(Required(x))
          /\ Go(x, "look")
          /\ UNCHANGED <<tree, inputs, index, depth, temp, orphans, runs, result>>
       \/ /\ depth[x] < Len(Required(x))
          /\ \/ /\ Safe(tree[Component(x)])
                /\ depth' = [depth EXCEPT ![x] = @ + 1]
                /\ UNCHANGED <<tree, inputs, pc, index, temp, orphans, runs, result>>
             \/ /\ tree[Component(x)] = Absent
                /\ Go(x, "mkdir")
                /\ UNCHANGED <<tree, inputs, index, depth, temp, orphans, runs, result>>
             \/ /\ ~Safe(tree[Component(x)]) /\ tree[Component(x)] # Absent
                /\ Fail(x)

\* create_directory returns false when somebody else has made it meanwhile.
MakeDirectory(x) ==
    /\ pc[x] = "mkdir"
    /\ \/ Fail(x)
       \/ /\ tree[Component(x)] = Absent
          /\ IsDirectory(Parent(Component(x)))
          /\ tree' = [tree EXCEPT ![Component(x)] = Directory]
          /\ depth' = [depth EXCEPT ![x] = @ + 1]
          /\ Go(x, "chain")
          /\ UNCHANGED <<inputs, index, temp, orphans, runs, result>>

\* The rest of prepare_output_path: is something in the way, and what does
\* the overwrite policy say?
InTheWay(x) ==
    /\ tree[Output(x)] # Absent
    /\ ~(Entry(x).kind = "directory" /\ tree[Output(x)] = Directory)

RefusedUnderReplaceOnly(x) == policy[x] = "replace" /\ tree[Output(x)] = Directory
Refused(x) ==
    \/ policy[x] = "error"
    \/ policy[x] = "replace" /\ tree[Output(x)] = Directory

Look(x) ==
    /\ pc[x] = "look"
    /\ \/ /\ InTheWay(x) /\ Refused(x)
          /\ Fail(x)
       \/ /\ \/ InTheWay(x) /\ policy[x] = "skip"
             \/ Entry(x).kind = "directory" /\ ~(InTheWay(x) /\ Refused(x))
          /\ \/ /\ NextEntry(x)
                /\ UNCHANGED <<tree, inputs, temp, orphans, runs>>
             \/ Fail(x)     \* the data of the entry is passed over and is damaged
       \/ /\ Entry(x).kind = "file"
          /\ InTheWay(x) => policy[x] # "skip" /\ ~Refused(x)
          /\ Go(x, "open")
          /\ UNCHANGED <<tree, inputs, index, depth, temp, orphans, runs, result>>

\* fopen of the temporary file follows a link among its parents.
OpenTemp(x) ==
    /\ pc[x] = "open"
    /\ \/ Fail(x)
       \/ /\ Parent(Output(x)) # Root
             => tree[Parent(Output(x))].kind \in {"directory", "link"}
          /\ temp' = [temp EXCEPT ![x] = 0]
          /\ Go(x, "write")
          /\ UNCHANGED <<tree, inputs, index, depth, orphans, runs, result>>

\* The stream delivers a chunk, or ends, or fails: damaged data, a full disk,
\* a limit, a cancellation.
StreamedTruncated(x) == TRUE
Streamed(x) == temp[x] = Size

Stream(x) ==
    /\ pc[x] = "write"
    /\ \/ Fail(x)
       \/ /\ temp[x] < Size
          /\ temp' = [temp EXCEPT ![x] = @ + 1]
          /\ UNCHANGED <<tree, inputs, pc, index, depth, orphans, runs, result>>
       \/ /\ Streamed(x)
          /\ Go(x, "unlink")
          /\ UNCHANGED <<tree, inputs, index, depth, temp, orphans, runs, result>>

\* fs::remove(output): a file, a link or an empty directory goes; the error
\* code of a removal that fails is not looked at.
Unlink(x) ==
    /\ pc[x] = "unlink"
    /\ \/ UNCHANGED tree
       \/ /\ ~InUse(Output(x))
          /\ tree' = [tree EXCEPT ![Output(x)] = Absent]
    /\ Go(x, "rename")
    /\ UNCHANGED <<inputs, index, depth, temp, orphans, runs, result>>

CannotFinishIgnored(x) ==
    RemoveTemp(x) /\ NextEntry(x) /\ UNCHANGED <<tree, inputs, orphans, runs>>
CannotFinish(x) == Fail(x)

\* fs::rename(temporary, output) never replaces a directory by a file.
Rename(x) ==
    /\ pc[x] = "rename"
    /\ \/ CannotFinish(x)
       \/ /\ tree[Output(x)] # Directory
          /\ tree' = [tree EXCEPT ![Output(x)] = File(x, index[x], temp[x])]
          /\ RemoveTemp(x)
          /\ NextEntry(x)
          /\ UNCHANGED <<inputs, orphans, runs>>

\* The process dies: nobody removes the temporary file any more.
Crash(x) ==
    /\ pc[x] \in Running
    /\ Go(x, "crashed")
    /\ orphans' = IF temp[x] = NoTemp THEN orphans
                  ELSE orphans \cup {Parent(Output(x))}
    /\ temp' = [temp EXCEPT ![x] = NoTemp]
    /\ UNCHANGED <<tree, inputs, index, depth, runs, result>>

--------------------------------------------------------------------------------

Step(x) ==
    \/ Start(x) \/ Chain(x) \/ MakeDirectory(x) \/ Look(x) \/ OpenTemp(x)
    \/ Stream(x) \/ Unlink(x) \/ Rename(x)

Next == \E x \in Extractors : Step(x) \/ Crash(x)

Spec == Init /\ [][Next]_vars

===============================================================================
