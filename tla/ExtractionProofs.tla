---------------------------- MODULE ExtractionProofs ----------------------------
(***************************************************************************)
(* What the extractors do to a destination is right for any number of      *)
(* extractors, any destination and any archives.  The inductive invariant  *)
(* adds to the properties where an extractor stands in its chain of        *)
(* directories, that no link appears where there was none, and who still   *)
(* has to publish a file that is not there.                                *)
(***************************************************************************)
EXTENDS ExtractionProperties, TLAPS

Writing == {"open"} \cup WithTemp
Ensured == {"look"} \cup Writing

\* How far the chain of directories is checked, and what was found there.
ChainOK(x) ==
    /\ pc[x] \in Ensured => depth[x] = Len(Required(x))
    /\ pc[x] = "mkdir" => depth[x] < Len(Required(x))
    /\ pc[x] \in Running /\ depth[x] > 0
          => tree[SubSeq(Required(x), 1, depth[x])] # Link
    /\ pc[x] \in Writing => Entry(x).kind = "file"
    /\ pc[x] \in {"unlink", "rename"} => temp[x] = Size
ChainInv == \A x \in Extractors : ChainOK(x)

\* Unless somebody replaces, what is being written has nothing to replace.
KeepInv == (\A x \in Extractors : policy[x] # "replace")
    => \A x \in Extractors : pc[x] \in Writing => origin[Output(x)] = Absent

\* y fails, or publishes a file at p before it can succeed.
Owes(y, p) ==
    \/ pc[y] = "done" /\ result[y] = "error"
    \/ \E j \in DOMAIN archive[y] :
          /\ archive[y][j].kind = "file" /\ archive[y][j].path = p
          /\ pc[y] \in {"idle", "crashed"} \/ (pc[y] \in Running /\ index[y] <= j)
\* A file that is not there will be published by somebody.
PresentInv == \A x \in Extractors : \A i \in DOMAIN archive[x] :
    archive[x][i].kind = "file" /\ tree[archive[x][i].path] = Absent
        => \E y \in Extractors : Owes(y, archive[x][i].path)

--------------------------------------------------------------------------------
(* Entries and paths *)

LEMMA PathFacts ==
    /\ Root \notin Paths
    /\ \A p \in Paths : /\ p \in Seq(STRING) /\ Len(p) \in Nat \ {0}
                        /\ Parent(p) \in Paths \cup {Root}
                        /\ Parent(p) # Root => Len(Parent(p)) \in Nat \ {0}
    /\ \A p \in Paths : SubSeq(p, 1, Len(p)) = p
<1>1. \A p \in Paths : p \in Seq(STRING) /\ p # <<>> /\ Len(p) \in Nat \ {0}
  BY PathsAssumption DEF Root
<1>2. ASSUME NEW p \in Paths
      PROVE  Parent(p) \in Paths \cup {Root}
  <2>1. CASE Len(p) = 1
    BY <2>1, <1>1 DEF Parent, Root
  <2>2. CASE Len(p) # 1
    <3>1. \A n \in Nat \ {0} : n # 1 => n - 1 \in 1 .. n
      OBVIOUS
    <3>2. Len(p) - 1 \in 1 .. Len(p)
      BY <2>2, <1>1, <3>1
    <3> QED
      BY <3>2, PathsAssumption DEF Parent
  <2> QED
    BY <2>1, <2>2
<1>3. \A p \in Paths : SubSeq(p, 1, Len(p)) = p
  BY <1>1
<1> QED
  BY <1>1, <1>2, <1>3, PathsAssumption DEF Root

LEMMA EntryFacts ==
    ASSUME NEW a \in Archives, NEW i \in DOMAIN a
    PROVE  a[i] \in Entries /\ Len(a) \in Nat \ {0} /\ DOMAIN a = 1 .. Len(a)
<1>1. a \in Seq(Entries) /\ a # <<>>
  BY ArchivesAssumption
<1> QED
  BY <1>1

LEMMA OutputFacts ==
    ASSUME TypeOK, NEW x \in Extractors
    PROVE  /\ Entry(x) \in Entries
           /\ Output(x) \in Paths
           /\ Required(x) \in Paths \cup {Root}
           /\ Len(Required(x)) \in Nat
           /\ Len(archive[x]) \in Nat \ {0} /\ index[x] \in 1 .. Len(archive[x])
<1>1. archive[x] \in Archives /\ index[x] \in DOMAIN archive[x]
  BY DEF TypeOK
<1>2. /\ Entry(x) \in Entries /\ Len(archive[x]) \in Nat \ {0}
      /\ index[x] \in 1 .. Len(archive[x])
  BY <1>1, EntryFacts DEF Entry
<1>3. Output(x) \in Paths
  BY <1>2 DEF Output, Entries
<1>4. Required(x) \in Paths \cup {Root}
  BY <1>3, PathFacts DEF Required
<1>5. Len(Root) = 0
  BY DEF Root
<1> QED
  BY <1>2, <1>3, <1>4, <1>5, PathFacts

\* Every prefix of the required directory is a path.
LEMMA PrefixFacts ==
    ASSUME TypeOK, NEW x \in Extractors, NEW n \in Nat, 0 < n, n <= Len(Required(x))
    PROVE  SubSeq(Required(x), 1, n) \in Paths
<1>1. Required(x) # Root
  BY DEF Root
<1>2. Required(x) \in Paths
  BY <1>1, OutputFacts
<1>3. n \in 1 .. Len(Required(x))
  BY OutputFacts
<1> QED
  BY <1>2, <1>3, PathsAssumption

\* The nodes are told apart by their kinds.
LEMMA NodeFacts ==
    /\ Absent # Directory /\ Absent # Link /\ Directory # Link /\ OldFile # Absent
    /\ \A n \in Nodes : n.kind = "directory" => n = Directory
    /\ \A n \in Nodes : n.kind = "link" => n = Link
    /\ \A x, i, c : /\ File(x, i, c) # Link /\ File(x, i, c) # Absent
                    /\ File(x, i, c) # Directory
BY DEF Absent, Directory, Link, OldFile, File, Nodes

--------------------------------------------------------------------------------
(* Types, temporary files and the chain of directories *)

LEMMA InitTypes == Init => TypeOK /\ NoStrayTemp /\ ChainInv
<1> SUFFICES ASSUME Init
             PROVE  TypeOK /\ NoStrayTemp /\ ChainInv
  OBVIOUS
<1>1. \A x \in Extractors : 1 \in DOMAIN archive[x]
  <2> SUFFICES ASSUME NEW x \in Extractors
               PROVE  1 \in DOMAIN archive[x]
    OBVIOUS
  <2>1. archive[x] \in Seq(Entries) /\ archive[x] # <<>>
    BY ArchivesAssumption DEF Init
  <2> QED
    BY <2>1
<1>2. tree \in [Paths -> Nodes]
  BY TreesAssumption DEF Init, Nodes
<1>3. TypeOK
  BY <1>1, <1>2, BoundsAssumption DEF Init, TypeOK, Points, Running, NoTemp
<1>4. NoStrayTemp /\ ChainInv
  BY DEF Init, NoStrayTemp, ChainInv, ChainOK, WithTemp, Ensured, Writing, Running, NoTemp
<1> QED
  BY <1>3, <1>4

\* NextEntry goes on to an entry of the archive, or ends.
LEMMA NextEntryTypes ==
    ASSUME TypeOK, NEW x \in Extractors, NextEntry(x), UNCHANGED archive
    PROVE  /\ pc' \in [Extractors -> Points]
           /\ pc'[x] \in {"done", "chain"}
           /\ depth' \in [Extractors -> Nat] /\ depth'[x] = 0
           /\ index' \in [Extractors -> Nat]
           /\ \A y \in Extractors : index'[y] \in DOMAIN archive[y]
           /\ \A y \in Extractors \ {x} :
                 pc'[y] = pc[y] /\ index'[y] = index[y] /\ depth'[y] = depth[y]
           /\ result' \in [Extractors -> {"none", "ok", "error"}]
<1>1. Len(archive[x]) \in Nat /\ index[x] \in 1 .. Len(archive[x])
  BY OutputFacts
<1>2. \A y \in Extractors : index[y] \in DOMAIN archive[y]
  BY DEF TypeOK
<1>3. DOMAIN archive[x] = 1 .. Len(archive[x])
  BY EntryFacts DEF TypeOK
<1>4. CASE IsLast(x)
  BY <1>1, <1>2, <1>4 DEF NextEntry, Go, TypeOK, Points, Running
<1>5. CASE ~IsLast(x)
  <2>1. index[x] + 1 \in 1 .. Len(archive[x])
    BY <1>1, <1>5 DEF IsLast
  <2>2. index' = [index EXCEPT ![x] = index[x] + 1]
    BY <1>5 DEF NextEntry
  <2>3. index' \in [Extractors -> Nat] /\ \A y \in Extractors : index'[y] \in DOMAIN archive[y]
    BY <2>1, <2>2, <1>2, <1>3 DEF TypeOK
  <2> QED
    BY <1>5, <2>2, <2>3 DEF NextEntry, Go, TypeOK, Points, Running
<1> QED
  BY <1>4, <1>5

\* The steps that keep the entry of each extractor keep what follows from it.
LEMMA SameEntry ==
    ASSUME UNCHANGED archive, NEW x \in Extractors, index'[x] = index[x]
    PROVE  Entry(x)' = Entry(x) /\ Output(x)' = Output(x) /\ Required(x)' = Required(x)
BY DEF Entry, Output, Required

LEMMA StepTypes ==
    TypeOK /\ NoStrayTemp /\ ChainInv /\ [Next]_vars => TypeOK' /\ NoStrayTemp'
<1> SUFFICES ASSUME TypeOK, NoStrayTemp, ChainInv, [Next]_vars
             PROVE  TypeOK' /\ NoStrayTemp'
  OBVIOUS
<1> USE DEF inputs
\* It is enough that the extractor that moves keeps its own types.
<1>1. ASSUME NEW x \in Extractors, UNCHANGED inputs,
             tree' \in [Paths -> Nodes],
             pc' \in [Extractors -> Points],
             index' \in [Extractors -> Nat],
             index'[x] \in DOMAIN archive[x],
             depth' \in [Extractors -> Nat],
             pc'[x] \in Running => \/ depth'[x] = 0
                                   \/ index'[x] = index[x] /\ depth'[x] <= Len(Required(x)),
             temp' \in [Extractors -> Nat \cup {NoTemp}],
             temp'[x] # NoTemp <=> pc'[x] \in WithTemp,
             \A y \in Extractors \ {x} : /\ pc'[y] = pc[y] /\ index'[y] = index[y]
                                         /\ depth'[y] = depth[y] /\ temp'[y] = temp[y],
             orphans' \in SUBSET (Paths \cup {Root}),
             runs' \in [Extractors -> 0 .. MaxRuns],
             result' \in [Extractors -> {"none", "ok", "error"}]
      PROVE  TypeOK' /\ NoStrayTemp'
  <2>1. \A y \in Extractors : index'[y] \in DOMAIN archive[y]
    BY <1>1 DEF TypeOK
  <2>2. ASSUME NEW y \in Extractors, pc'[y] \in Running
        PROVE  depth'[y] <= Len(Required(y))'
    <3>1. CASE y = x /\ index'[x] = index[x] /\ depth'[x] <= Len(Required(x))
      BY <3>1, <1>1, SameEntry
    <3>3. CASE y = x /\ depth'[x] = 0
      <4>1. archive'[x] \in Archives /\ index'[x] \in DOMAIN archive'[x]
        BY <1>1 DEF TypeOK
      <4>2. Entry(x)' \in Entries
        BY <4>1, EntryFacts DEF Entry
      <4>3. Output(x)' \in Paths
        BY <4>2 DEF Output, Entries
      <4>4. Required(x)' \in Paths \cup {Root}
        BY <4>3, PathFacts DEF Required
      <4>5. Len(Root) = 0
        BY DEF Root
      <4> QED
        BY <3>3, <4>4, <4>5, PathFacts
    <3>2. CASE y # x
      BY <3>2, <2>2, <1>1, SameEntry DEF TypeOK
    <3> QED
      BY <3>1, <3>2, <3>3, <2>2, <1>1
  <2> QED
    BY <1>1, <2>1, <2>2 DEF TypeOK, NoStrayTemp
<1>2. ASSUME NEW x \in Extractors, Fail(x), pc[x] \in Running
      PROVE  TypeOK' /\ NoStrayTemp'
  BY <1>1, <1>2 DEF Fail, Go, RemoveTemp, TypeOK, Points, Running, WithTemp, NoTemp
<1>3. ASSUME NEW x \in Extractors, Start(x)
      PROVE  TypeOK' /\ NoStrayTemp'
  <2>1. 1 \in DOMAIN archive[x]
    BY OutputFacts, EntryFacts DEF TypeOK
  <2>2. runs[x] + 1 \in 0 .. MaxRuns
    BY <1>3, BoundsAssumption DEF Start, TypeOK
  <2>3. temp[x] = NoTemp
    BY <1>3 DEF Start, NoStrayTemp, WithTemp
  <2> QED
    BY <1>1, <1>3, <2>1, <2>2, <2>3 DEF Start, Go, TypeOK, Points, Running, WithTemp
<1>4. ASSUME NEW x \in Extractors, Chain(x)
      PROVE  TypeOK' /\ NoStrayTemp'
  <2>1. CASE Fail(x)
    BY <1>2, <1>4, <2>1 DEF Chain, Running, Points
  <2>2. CASE /\ depth[x] = Len(Required(x)) /\ Go(x, "look")
             /\ UNCHANGED <<tree, inputs, index, depth, temp, orphans, runs, result>>
    BY <1>1, <1>4, <2>2 DEF Chain, Go, TypeOK, NoStrayTemp, Points, Running, WithTemp
  <2>3. CASE /\ depth[x] < Len(Required(x)) /\ depth' = [depth EXCEPT ![x] = @ + 1]
             /\ UNCHANGED <<tree, inputs, pc, index, temp, orphans, runs, result>>
    <3>1. depth[x] + 1 <= Len(Required(x))
      BY <2>3, OutputFacts DEF TypeOK
    <3>2. /\ depth' \in [Extractors -> Nat] /\ depth'[x] = depth[x] + 1
          /\ \A y \in Extractors \ {x} : depth'[y] = depth[y]
      BY <2>3 DEF TypeOK
    <3> QED
      BY <1>1, <2>3, <3>1, <3>2 DEF TypeOK, NoStrayTemp
  <2>4. CASE /\ Go(x, "mkdir")
             /\ UNCHANGED <<tree, inputs, index, depth, temp, orphans, runs, result>>
    BY <1>1, <1>4, <2>4 DEF Chain, Go, TypeOK, NoStrayTemp, Points, Running, WithTemp
  <2> QED
    BY <1>4, <2>1, <2>2, <2>3, <2>4 DEF Chain
<1>5. ASSUME NEW x \in Extractors, MakeDirectory(x)
      PROVE  TypeOK' /\ NoStrayTemp'
  <2>1. CASE Fail(x)
    BY <1>2, <1>5, <2>1 DEF MakeDirectory, Running, Points
  <2>2. CASE ~Fail(x)
    <3>1. depth[x] + 1 <= Len(Required(x))
      BY <1>5, OutputFacts DEF MakeDirectory, ChainInv, ChainOK, TypeOK
    <3>2. tree' \in [Paths -> Nodes]
      BY <1>5, <2>2 DEF MakeDirectory, TypeOK, Nodes
    <3> QED
      <4>1. /\ depth' \in [Extractors -> Nat] /\ depth'[x] = depth[x] + 1
            /\ \A y \in Extractors \ {x} : depth'[y] = depth[y]
        <5>1. depth' = [depth EXCEPT ![x] = depth[x] + 1]
          BY <1>5, <2>2 DEF MakeDirectory
        <5>2. depth \in [Extractors -> Nat]
          BY DEF TypeOK
        <5> QED
          BY <5>1, <5>2
      <4>2. /\ pc' \in [Extractors -> Points] /\ pc'[x] = "chain"
            /\ \A y \in Extractors \ {x} : pc'[y] = pc[y]
        BY <1>5, <2>2 DEF MakeDirectory, Go, TypeOK, Points, Running
      <4>3. UNCHANGED <<inputs, index, temp, orphans, runs, result>> /\ temp[x] = NoTemp
        BY <1>5, <2>2 DEF MakeDirectory, NoStrayTemp, WithTemp
      <4> QED
        <5>1. temp' \in [Extractors -> Nat \cup {NoTemp}] /\ temp'[x] = NoTemp
          BY <4>3 DEF TypeOK
        <5>2. /\ index' \in [Extractors -> Nat] /\ index'[x] \in DOMAIN archive[x]
              /\ orphans' \in SUBSET (Paths \cup {Root})
              /\ runs' \in [Extractors -> 0 .. MaxRuns]
              /\ result' \in [Extractors -> {"none", "ok", "error"}]
          BY <4>3 DEF TypeOK
        <5> QED
          BY <1>1, <3>1, <3>2, <4>1, <4>2, <4>3, <5>1, <5>2 DEF WithTemp
  <2> QED
    BY <2>1, <2>2
\* The entry is done: on to the next one without a temporary file.
<1>6. ASSUME NEW x \in Extractors, pc[x] \in Running, NextEntry(x),
             UNCHANGED <<inputs, orphans, runs>>, tree' \in [Paths -> Nodes],
             temp' = [temp EXCEPT ![x] = NoTemp]
      PROVE  TypeOK' /\ NoStrayTemp'
  <2>1. temp' \in [Extractors -> Nat \cup {NoTemp}] /\ temp'[x] = NoTemp
    BY <1>6 DEF TypeOK
  <2>2. \A y \in Extractors \ {x} : temp'[y] = temp[y]
    BY <1>6 DEF TypeOK
  <2>3. pc'[x] \notin WithTemp
    BY <1>6, NextEntryTypes DEF WithTemp
  <2> QED
    <3>1. /\ pc' \in [Extractors -> Points]
          /\ depth' \in [Extractors -> Nat] /\ depth'[x] = 0
          /\ index' \in [Extractors -> Nat]
          /\ \A y \in Extractors : index'[y] \in DOMAIN archive[y]
          /\ \A y \in Extractors \ {x} :
                pc'[y] = pc[y] /\ index'[y] = index[y] /\ depth'[y] = depth[y]
          /\ result' \in [Extractors -> {"none", "ok", "error"}]
      BY <1>6, NextEntryTypes
    <3>2. /\ orphans' \in SUBSET (Paths \cup {Root})
          /\ runs' \in [Extractors -> 0 .. MaxRuns]
      BY <1>6 DEF TypeOK
    <3> QED
      BY <1>1, <1>6, <2>1, <2>2, <2>3, <3>1, <3>2
<1>7. ASSUME NEW x \in Extractors, Look(x)
      PROVE  TypeOK' /\ NoStrayTemp'
  <2>0. pc[x] \in Running /\ temp[x] = NoTemp
    BY <1>7 DEF Look, NoStrayTemp, WithTemp, Running, Points
  <2>1. CASE Fail(x)
    BY <1>2, <2>0, <2>1
  <2>2. CASE NextEntry(x) /\ UNCHANGED <<tree, inputs, temp, orphans, runs>>
    BY <1>6, <2>0, <2>2 DEF TypeOK
  <2>3. CASE /\ Go(x, "open")
             /\ UNCHANGED <<tree, inputs, index, depth, temp, orphans, runs, result>>
    BY <1>1, <2>0, <2>3 DEF Go, TypeOK, NoStrayTemp, Points, Running, WithTemp
  <2> QED
    BY <1>7, <2>1, <2>2, <2>3 DEF Look
<1>8. ASSUME NEW x \in Extractors, OpenTemp(x) \/ Stream(x)
      PROVE  TypeOK' /\ NoStrayTemp'
  <2>0. pc[x] \in Running
    BY <1>8 DEF OpenTemp, Stream, Running, Points
  <2>1. CASE Fail(x)
    BY <1>2, <2>0, <2>1
  <2>2. CASE OpenTemp(x) /\ ~Fail(x)
    <3>1. /\ temp' \in [Extractors -> Nat \cup {NoTemp}] /\ temp'[x] # NoTemp
          /\ \A y \in Extractors \ {x} : temp'[y] = temp[y]
      <4>1. temp' = [temp EXCEPT ![x] = 0]
        BY <2>2 DEF OpenTemp
      <4>2. temp \in [Extractors -> Nat \cup {NoTemp}]
        BY DEF TypeOK
      <4>3. 0 # NoTemp
        BY DEF NoTemp
      <4> QED
        BY <4>1, <4>2, <4>3
    <3>2. /\ pc' \in [Extractors -> Points] /\ pc'[x] = "write"
          /\ \A y \in Extractors \ {x} : pc'[y] = pc[y]
      BY <2>2 DEF OpenTemp, Go, TypeOK, Points, Running
    <3>3. UNCHANGED <<tree, inputs, index, depth, orphans, runs, result>>
      BY <2>2 DEF OpenTemp
    <3> QED
      BY <1>1, <2>0, <3>1, <3>2, <3>3 DEF TypeOK, WithTemp
  <2>3. CASE Stream(x) /\ ~Fail(x)
    <3>1. temp[x] \in Nat
      BY <2>3 DEF Stream, NoStrayTemp, WithTemp, TypeOK
    <3>2. temp[x] + 1 \in Nat /\ temp[x] # NoTemp /\ temp[x] + 1 # NoTemp
      BY <3>1 DEF NoTemp
    <3>3. /\ temp' \in [Extractors -> Nat \cup {NoTemp}] /\ temp'[x] # NoTemp
          /\ \A y \in Extractors \ {x} : temp'[y] = temp[y]
      <4>1. temp' = temp \/ temp' = [temp EXCEPT ![x] = temp[x] + 1]
        BY <2>3 DEF Stream
      <4>2. temp \in [Extractors -> Nat \cup {NoTemp}]
        BY DEF TypeOK
      <4>3. CASE temp' = temp
        BY <3>2, <4>2, <4>3
      <4>4. CASE temp' = [temp EXCEPT ![x] = temp[x] + 1]
        BY <3>2, <4>2, <4>4
      <4> QED
        BY <4>1, <4>3, <4>4
    <3>4. /\ pc' \in [Extractors -> Points] /\ pc'[x] \in {"write", "unlink"}
          /\ \A y \in Extractors \ {x} : pc'[y] = pc[y]
      BY <2>3 DEF Stream, Go, TypeOK, Points, Running
    <3>5. UNCHANGED <<tree, inputs, index, depth, orphans, runs, result>>
      BY <2>3 DEF Stream
    <3> QED
      BY <1>1, <2>0, <3>3, <3>4, <3>5 DEF TypeOK, WithTemp
  <2> QED
    BY <1>8, <2>1, <2>2, <2>3
<1>9. ASSUME NEW x \in Extractors, Unlink(x)
      PROVE  TypeOK' /\ NoStrayTemp'
  <2>1. tree' \in [Paths -> Nodes]
    BY <1>9 DEF Unlink, TypeOK, Nodes
  <2> QED
    BY <1>1, <1>9, <2>1 DEF Unlink, Go, TypeOK, NoStrayTemp, Points, Running, WithTemp
<1>10. ASSUME NEW x \in Extractors, Rename(x)
       PROVE  TypeOK' /\ NoStrayTemp'
  <2>0. pc[x] \in Running
    BY <1>10 DEF Rename, Running, Points
  <2>1. CASE Fail(x)
    BY <1>2, <2>0, <2>1
  <2>2. CASE ~Fail(x)
    <3>1. temp[x] \in Nat /\ index[x] \in Nat
      BY <1>10 DEF Rename, NoStrayTemp, WithTemp, TypeOK
    <3>2. File(x, index[x], temp[x]) \in Nodes
      BY <3>1 DEF File, Nodes
    <3>3. tree' \in [Paths -> Nodes]
      BY <1>10, <2>2, <3>2 DEF Rename, CannotFinish, TypeOK
    <3> QED
      BY <1>6, <1>10, <2>0, <2>2, <3>3 DEF Rename, CannotFinish, RemoveTemp
  <2> QED
    BY <2>1, <2>2
<1>11. ASSUME NEW x \in Extractors, Crash(x)
       PROVE  TypeOK' /\ NoStrayTemp'
  <2>1. Parent(Output(x)) \in Paths \cup {Root}
    BY OutputFacts, PathFacts
  <2>2. orphans' \in SUBSET (Paths \cup {Root})
    BY <1>11, <2>1 DEF Crash, TypeOK
  <2> QED
    BY <1>1, <1>11, <2>2 DEF Crash, Go, TypeOK, NoStrayTemp, Points, Running, WithTemp
<1>12. CASE UNCHANGED vars
  BY <1>12 DEF vars, TypeOK, NoStrayTemp, Entry, Output, Required
<1> QED
  BY <1>3, <1>4, <1>5, <1>7, <1>8, <1>9, <1>10, <1>11, <1>12 DEF Next, Step

LEMMA NoNewLinks ==
    ASSUME TypeOK, [Next]_vars, NEW p \in Paths, tree[p] # Link
    PROVE  tree'[p] # Link
<1>1. CASE UNCHANGED tree
  BY <1>1
<1>2. ASSUME NEW x \in Extractors, MakeDirectory(x)
      PROVE  tree'[p] # Link
  BY <1>2, NodeFacts DEF MakeDirectory, Fail, TypeOK
<1>3. ASSUME NEW x \in Extractors, Unlink(x)
      PROVE  tree'[p] # Link
  BY <1>3, NodeFacts DEF Unlink, TypeOK
<1>4. ASSUME NEW x \in Extractors, Rename(x)
      PROVE  tree'[p] # Link
  BY <1>4, NodeFacts DEF Rename, CannotFinish, Fail, TypeOK
<1> QED
  BY <1>1, <1>2, <1>3, <1>4
     DEF Next, Step, Start, Chain, Look, OpenTemp, Stream, Crash, Fail, vars

\* What was checked of the chain stays checked while the entry is the same.
LEMMA SameChain ==
    ASSUME TypeOK, [Next]_vars, UNCHANGED archive, NEW x \in Extractors, ChainOK(x),
           pc'[x] \in Running => pc[x] \in Running,
           index'[x] = index[x], depth'[x] = depth[x], depth[x] <= Len(Required(x))
    PROVE  pc'[x] \in Running /\ depth'[x] > 0
              => tree'[SubSeq(Required(x)', 1, depth'[x])] # Link
<1> SUFFICES ASSUME pc'[x] \in Running, depth[x] > 0
             PROVE  tree'[SubSeq(Required(x), 1, depth[x])] # Link
  BY SameEntry
<1>1. depth[x] \in Nat
  BY DEF TypeOK
<1>2. SubSeq(Required(x), 1, depth[x]) \in Paths
  BY <1>1, PrefixFacts
<1> QED
  BY <1>2, NoNewLinks DEF ChainOK

LEMMA StepChain ==
    TypeOK /\ NoStrayTemp /\ ChainInv /\ [Next]_vars => ChainInv'
<1> SUFFICES ASSUME TypeOK, NoStrayTemp, ChainInv, [Next]_vars
             PROVE  ChainInv'
  OBVIOUS
<1> USE DEF inputs
\* The extractors that do not move.
<1>1. ASSUME NEW x \in Extractors, UNCHANGED inputs,
             pc'[x] = pc[x], index'[x] = index[x], depth'[x] = depth[x], temp'[x] = temp[x]
      PROVE  ChainOK(x)'
  <2>1. ChainOK(x)
    BY DEF ChainInv
  <2>2. pc[x] \in Running => depth[x] <= Len(Required(x))
    BY DEF TypeOK
  <2>3. pc'[x] \in Running /\ depth'[x] > 0
              => tree'[SubSeq(Required(x)', 1, depth'[x])] # Link
    BY <1>1, <2>1, <2>2, SameChain
  <2> QED
    BY <1>1, <2>1, <2>3, SameEntry DEF ChainOK
<1>2. ASSUME NEW x \in Extractors, UNCHANGED inputs, ChainOK(x)',
             pc' = [pc EXCEPT ![x] = pc'[x]], index' = [index EXCEPT ![x] = index'[x]],
             depth' = [depth EXCEPT ![x] = depth'[x]], temp' = [temp EXCEPT ![x] = temp'[x]]
      PROVE  ChainInv'
  <2>1. ASSUME NEW y \in Extractors, y # x
        PROVE  ChainOK(y)'
    BY <1>1, <1>2, <2>1 DEF TypeOK
  <2> QED
    BY <1>2, <2>1 DEF ChainInv
<1>3. ASSUME NEW x \in Extractors, Fail(x)
      PROVE  ChainInv'
  <2>1. pc'[x] = "done"
    BY <1>3 DEF Fail, Go, TypeOK
  <2>2. ChainOK(x)'
    BY <2>1 DEF ChainOK, Running, Ensured, Writing, WithTemp
  <2> QED
    BY <1>2, <1>3, <2>2 DEF Fail, Go, RemoveTemp, TypeOK
<1>4. ASSUME NEW x \in Extractors, Start(x)
      PROVE  ChainInv'
  <2>1. pc'[x] = "chain" /\ depth'[x] = 0
    BY <1>4 DEF Start, Go, TypeOK
  <2>2. ChainOK(x)'
    BY <2>1 DEF ChainOK, Running, Ensured, Writing, WithTemp
  <2> QED
    BY <1>2, <1>4, <2>2 DEF Start, Go, TypeOK
<1>5. ASSUME NEW x \in Extractors, NextEntry(x), UNCHANGED inputs,
             temp' = [temp EXCEPT ![x] = temp'[x]]
      PROVE  ChainInv'
  <2>1. pc'[x] \in {"chain", "done"} /\ depth'[x] = 0
    BY <1>5, NextEntryTypes
  <2>2. ChainOK(x)'
    BY <2>1 DEF ChainOK, Running, Ensured, Writing, WithTemp
  <2> QED
    BY <1>2, <1>5, <2>2 DEF NextEntry, Go, TypeOK
\* x stays at its entry and at its place in the chain.
<1>6. ASSUME NEW x \in Extractors, NEW point \in Points, pc[x] \in Running, Go(x, point),
             UNCHANGED <<inputs, index, depth>>,
             temp' = [temp EXCEPT ![x] = temp'[x]],
             point \in Ensured => depth[x] = Len(Required(x)),
             point = "mkdir" => depth[x] < Len(Required(x)),
             point \in Writing => Entry(x).kind = "file",
             point \in {"unlink", "rename"} => temp'[x] = Size
      PROVE  ChainInv'
  <2>1. ChainOK(x) /\ depth[x] <= Len(Required(x))
    BY <1>6 DEF ChainInv, TypeOK
  <2>2. pc'[x] = point
    BY <1>6 DEF Go, TypeOK
  <2>3. pc'[x] \in Running /\ depth'[x] > 0
              => tree'[SubSeq(Required(x)', 1, depth'[x])] # Link
    BY <1>6, <2>1, SameChain
  <2>4. ChainOK(x)'
    BY <1>6, <2>2, <2>3, SameEntry DEF ChainOK
  <2> QED
    BY <1>2, <1>6, <2>4 DEF Go, TypeOK
\* x has found or made the next directory of its chain.
<1>7. ASSUME NEW x \in Extractors, depth[x] < Len(Required(x)),
             UNCHANGED <<inputs, index, temp>>, Go(x, "chain"),
             depth' = [depth EXCEPT ![x] = @ + 1], tree'[Component(x)] = Directory
      PROVE  ChainInv'
  <2>1. pc'[x] = "chain" /\ depth'[x] = depth[x] + 1
    BY <1>7 DEF Go, TypeOK
  <2>2. SubSeq(Required(x)', 1, depth'[x]) = Component(x)
    BY <1>7, <2>1, SameEntry DEF Component
  <2>3. ChainOK(x)'
    BY <1>7, <2>1, <2>2, NodeFacts DEF ChainOK, Ensured, Writing, WithTemp
  <2> QED
    BY <1>2, <1>7, <2>3 DEF Go, TypeOK
<1>8. ASSUME NEW x \in Extractors, Chain(x)
      PROVE  ChainInv'
  <2>0. pc[x] \in Running
    BY <1>8 DEF Chain, Running, Points
  <2>1. CASE Fail(x)
    BY <1>3, <2>1
  <2>2. CASE /\ depth[x] = Len(Required(x)) /\ Go(x, "look")
             /\ UNCHANGED <<tree, inputs, index, depth, temp, orphans, runs, result>>
    BY <1>6, <2>0, <2>2 DEF Points, Running, Writing, WithTemp, TypeOK
  <2>3. CASE /\ depth[x] < Len(Required(x)) /\ Safe(tree[Component(x)])
             /\ depth' = [depth EXCEPT ![x] = @ + 1]
             /\ UNCHANGED <<tree, inputs, pc, index, temp, orphans, runs, result>>
    <3>1. Go(x, "chain")
      BY <1>8, <2>3 DEF Chain, Go, TypeOK
    <3> QED
      BY <1>7, <2>3, <3>1 DEF Safe
  <2>4. CASE /\ depth[x] < Len(Required(x)) /\ Go(x, "mkdir")
             /\ UNCHANGED <<tree, inputs, index, depth, temp, orphans, runs, result>>
    BY <1>6, <2>0, <2>4 DEF Points, Running, Ensured, Writing, WithTemp, TypeOK
  <2> QED
    BY <1>8, <2>1, <2>2, <2>3, <2>4 DEF Chain
<1>9. ASSUME NEW x \in Extractors, MakeDirectory(x)
      PROVE  ChainInv'
  <2>1. CASE Fail(x)
    BY <1>3, <2>1
  <2>2. CASE ~Fail(x)
    <3>1. depth[x] < Len(Required(x)) /\ depth[x] \in Nat
      BY <1>9 DEF MakeDirectory, ChainInv, ChainOK, TypeOK
    <3>2. Component(x) \in Paths
      <4>1. depth[x] + 1 \in Nat /\ 0 < depth[x] + 1 /\ depth[x] + 1 <= Len(Required(x))
        BY <3>1, OutputFacts
      <4> QED
        BY <4>1, PrefixFacts DEF Component
    <3>3. tree'[Component(x)] = Directory
      BY <1>9, <2>2, <3>2 DEF MakeDirectory, TypeOK
    <3> QED
      BY <1>7, <1>9, <2>2, <3>1, <3>3 DEF MakeDirectory
  <2> QED
    BY <2>1, <2>2
<1>10. ASSUME NEW x \in Extractors, Look(x)
       PROVE  ChainInv'
  <2>1. CASE Fail(x)
    BY <1>3, <2>1
  <2>2. CASE NextEntry(x) /\ UNCHANGED <<tree, inputs, temp, orphans, runs>>
    BY <1>5, <2>2 DEF TypeOK
  <2>3. CASE /\ Entry(x).kind = "file" /\ Go(x, "open")
             /\ UNCHANGED <<tree, inputs, index, depth, temp, orphans, runs, result>>
    <3>1. pc[x] = "look" /\ pc[x] \in Running
      BY <1>10 DEF Look, Running, Points
    <3>2. depth[x] = Len(Required(x))
      BY <3>1 DEF ChainInv, ChainOK, Ensured
    <3> QED
      BY <1>6, <2>3, <3>1, <3>2 DEF Points, Running, TypeOK
  <2> QED
    BY <1>10, <2>1, <2>2, <2>3 DEF Look
<1>11. ASSUME NEW x \in Extractors, OpenTemp(x) \/ Stream(x) \/ Unlink(x)
       PROVE  ChainInv'
  <2>1. CASE Fail(x)
    BY <1>3, <2>1
  <2>2. CASE ~Fail(x)
    <3>1. pc[x] \in Writing /\ pc[x] \in Running
      BY <1>11 DEF OpenTemp, Stream, Unlink, Writing, WithTemp, Running, Points
    <3>2. depth[x] = Len(Required(x)) /\ Entry(x).kind = "file"
      BY <3>1 DEF ChainInv, ChainOK, Ensured
    <3>3. UNCHANGED <<inputs, index, depth>> /\ temp' = [temp EXCEPT ![x] = temp'[x]]
      BY <1>11, <2>2 DEF OpenTemp, Stream, Unlink, TypeOK
    <3>4. PICK point \in {"write", "unlink", "rename"} : Go(x, point)
      BY <1>11, <2>2 DEF OpenTemp, Stream, Unlink, Go, TypeOK
    <3>5. point \in {"unlink", "rename"} => temp'[x] = Size
      <4>1. CASE Unlink(x)
        BY <4>1 DEF Unlink, ChainInv, ChainOK
      <4>2. CASE Stream(x)
        BY <4>2, <2>2, <3>4 DEF Stream, Streamed, Go, TypeOK
      <4>3. CASE OpenTemp(x)
        BY <4>3, <2>2, <3>4 DEF OpenTemp, Go, TypeOK
      <4> QED
        BY <1>11, <4>1, <4>2, <4>3
    <3>6. point \in Points /\ point # "mkdir"
      BY DEF Points, Running
    <3> QED
      BY <1>6, <3>1, <3>2, <3>3, <3>4, <3>5, <3>6
  <2> QED
    BY <2>1, <2>2
<1>12. ASSUME NEW x \in Extractors, Rename(x)
       PROVE  ChainInv'
  <2>1. CASE Fail(x)
    BY <1>3, <2>1
  <2>2. CASE ~Fail(x)
    BY <1>5, <1>12, <2>2 DEF Rename, CannotFinish, RemoveTemp, TypeOK
  <2> QED
    BY <2>1, <2>2
<1>13. ASSUME NEW x \in Extractors, Crash(x)
       PROVE  ChainInv'
  <2>1. pc'[x] = "crashed"
    BY <1>13 DEF Crash, Go, TypeOK
  <2>2. ChainOK(x)'
    BY <2>1 DEF ChainOK, Running, Ensured, Writing, WithTemp
  <2> QED
    BY <1>2, <1>13, <2>2 DEF Crash, Go, TypeOK
<1>14. CASE UNCHANGED vars
  BY <1>1, <1>14 DEF vars, ChainInv
<1> QED
  BY <1>4, <1>8, <1>9, <1>10, <1>11, <1>12, <1>13, <1>14 DEF Next, Step

--------------------------------------------------------------------------------
(* Old files, and data that stays inside *)

LEMMA StepOld ==
    TypeOK /\ KeepInv /\ OldFilesSurvive /\ [Next]_vars => (KeepInv /\ OldFilesSurvive)'
<1> SUFFICES ASSUME TypeOK, KeepInv, OldFilesSurvive, [Next]_vars,
                    \A x \in Extractors : policy'[x] # "replace"
             PROVE  /\ \A x \in Extractors : pc'[x] \in Writing => (origin[Output(x)] = Absent)'
                    /\ \A p \in Paths : origin'[p] # Absent => tree'[p] = origin'[p]
  BY DEF KeepInv, OldFilesSurvive
<1>1. UNCHANGED inputs
  BY DEF Next, Step, Start, Chain, MakeDirectory, Look, OpenTemp, Stream, Unlink,
         Rename, CannotFinish, Crash, Fail, vars
<1>2. /\ \A x \in Extractors : pc[x] \in Writing => origin[Output(x)] = Absent
      /\ \A p \in Paths : origin[p] # Absent => tree[p] = origin[p]
  BY <1>1 DEF KeepInv, OldFilesSurvive, inputs
<1>3. ASSUME NEW p \in Paths, origin[p] # Absent
      PROVE  tree'[p] = origin[p]
  <2>1. tree[p] = origin[p] /\ tree[p] # Absent
    BY <1>2, <1>3
  <2>2. ASSUME NEW x \in Extractors, Unlink(x) \/ Rename(x)
        PROVE  Output(x) # p
    BY <1>2, <1>3, <2>2 DEF Unlink, Rename, Writing, WithTemp
  <2>3. tree'[p] = tree[p]
    BY <2>1, <2>2, NodeFacts
       DEF Next, Step, Start, Chain, MakeDirectory, Look, OpenTemp, Stream, Unlink,
           Rename, CannotFinish, Crash, Fail, vars, TypeOK
  <2> QED
    BY <2>1, <2>3
<1>4. ASSUME NEW x \in Extractors, pc'[x] \in Writing
      PROVE  (origin[Output(x)] = Absent)'
  <2>1. CASE pc[x] \in Writing /\ index'[x] = index[x]
    BY <1>1, <1>2, <2>1, SameEntry DEF inputs
  <2>2. CASE Look(x) /\ index'[x] = index[x]
    <3>1. /\ Fail(x) => pc'[x] # "open"
          /\ NextEntry(x) => pc'[x] # "open"
      BY <1>1, NextEntryTypes DEF Fail, Go, TypeOK, inputs
    <3>2. policy[x] # "replace"
      BY <1>1 DEF inputs
    <3>3. policy[x] \in Policies
      BY DEF TypeOK
    <3>4. pc'[x] = "open" => ~InTheWay(x) /\ Entry(x).kind = "file"
      BY <2>2, <3>1, <3>2, <3>3 DEF Look, Refused, Policies
    <3>5. pc'[x] = "open" => tree[Output(x)] = Absent
      BY <3>4 DEF InTheWay
    <3>6. pc'[x] = "open"
      BY <1>4, <2>2 DEF Look, Go, NextEntry, Fail, TypeOK, Writing, WithTemp
    <3>7. origin[Output(x)] = Absent
      BY <1>2, <3>5, <3>6, OutputFacts
    <3> QED
      BY <1>1, <2>2, <3>7, SameEntry DEF inputs
  <2>3. \/ pc[x] \in Writing /\ index'[x] = index[x]
        \/ Look(x) /\ index'[x] = index[x]
    BY <1>4 DEF Next, Step, Start, Chain, MakeDirectory, Look, OpenTemp, Stream, Unlink,
         Rename, CannotFinish, Crash, Fail, NextEntry, vars, TypeOK, Go, Writing, WithTemp
  <2> QED
    BY <2>1, <2>2, <2>3
<1> QED
  BY <1>1, <1>3, <1>4 DEF inputs

LEMMA StepInside ==
    TypeOK /\ NoStrayTemp /\ ChainInv /\ WritesStayInside /\ [Next]_vars
        => WritesStayInside'
<1> SUFFICES ASSUME TypeOK, NoStrayTemp, ChainInv, WritesStayInside, [Next]_vars,
                    NEW y \in Extractors, temp'[y] # NoTemp
             PROVE  IsDirectory(Parent(Output(y)))'
  BY DEF WritesStayInside
<1>1. UNCHANGED archive
  BY DEF Next, Step, Start, Chain, MakeDirectory, Look, OpenTemp, Stream, Unlink,
         Rename, CannotFinish, Crash, Fail, vars, inputs
\* A directory with a temporary file in it stays one.
<1>2. ASSUME temp[y] # NoTemp, index'[y] = index[y]
      PROVE  IsDirectory(Parent(Output(y)))'
  <2> DEFINE p == Parent(Output(y))
  <2> SUFFICES ASSUME p # Root
               PROVE  tree'[p] = Directory
    BY <1>1, <1>2, SameEntry DEF IsDirectory
  <2>1. tree[p] = Directory /\ p \in Paths
    BY <1>2, OutputFacts, PathFacts DEF WritesStayInside, IsDirectory
  <2>2. ASSUME NEW x \in Extractors, Unlink(x), Output(x) = p
        PROVE  UNCHANGED tree
    BY <1>2, <2>2 DEF Unlink, InUse
  <2> HIDE DEF p
  <2>3. CASE UNCHANGED tree
    BY <2>1, <2>3
  <2>4. ASSUME NEW x \in Extractors, MakeDirectory(x)
        PROVE  tree'[p] = Directory
    BY <2>1, <2>4, NodeFacts DEF MakeDirectory, Fail, TypeOK
  <2>5. ASSUME NEW x \in Extractors, Unlink(x)
        PROVE  tree'[p] = Directory
    BY <2>1, <2>2, <2>5 DEF Unlink, TypeOK
  <2>6. ASSUME NEW x \in Extractors, Rename(x)
        PROVE  tree'[p] = Directory
    BY <2>1, <2>6 DEF Rename, CannotFinish, Fail, TypeOK
  <2> QED
    BY <2>3, <2>4, <2>5, <2>6
       DEF Next, Step, Start, Chain, Look, OpenTemp, Stream, Crash, Fail, vars
\* The directory is looked through before the file is made, and no link can
\* have taken its place.
<1>3. ASSUME OpenTemp(y), temp[y] = NoTemp
      PROVE  IsDirectory(Parent(Output(y)))'
  <2> DEFINE p == Parent(Output(y))
  <2>0. ~Fail(y)
    BY <1>3 DEF Fail, RemoveTemp, TypeOK
  <2>1. UNCHANGED tree /\ index'[y] = index[y]
    BY <1>3, <2>0 DEF OpenTemp
  <2> SUFFICES ASSUME p # Root
               PROVE  tree[p] = Directory
    BY <1>1, <2>1, SameEntry DEF IsDirectory
  <2>2. tree[p].kind \in {"directory", "link"}
    BY <1>3, <2>0 DEF OpenTemp
  <2>3. p \in Paths /\ SubSeq(p, 1, Len(p)) = p /\ Len(p) \in Nat \ {0}
    BY OutputFacts, PathFacts
  <2>4. Required(y) = p /\ depth[y] = Len(p) /\ pc[y] \in Running
    BY <1>3 DEF OpenTemp, ChainInv, ChainOK, Required, Ensured, Writing, Running, Points
  <2>5. SubSeq(Required(y), 1, depth[y]) = p /\ depth[y] > 0
    BY <2>3, <2>4
  <2>6. tree[p] # Link
    BY <2>4, <2>5 DEF ChainInv, ChainOK
  <2> QED
    BY <2>2, <2>3, <2>6, NodeFacts DEF TypeOK
<1>4. \/ temp[y] # NoTemp /\ index'[y] = index[y]
      \/ OpenTemp(y) /\ temp[y] = NoTemp
  BY DEF Next, Step, Start, Chain, MakeDirectory, Look, OpenTemp, Stream, Unlink,
         Rename, CannotFinish, Crash, Fail, RemoveTemp, NextEntry, vars, TypeOK,
         NoStrayTemp, WithTemp
<1> QED
  BY <1>2, <1>3, <1>4

--------------------------------------------------------------------------------
(* Files that are asked for are there in the end *)

\* An extractor that owes a file stops owing it by a step of its own only when
\* the file is there.
LEMMA StillOwes ==
    ASSUME TypeOK, [Next]_vars, NEW y \in Extractors, NEW p \in Paths,
           Owes(y, p), tree[p] = Absent, tree'[p] = Absent
    PROVE  Owes(y, p)'
<1>1. UNCHANGED archive
  BY DEF Next, Step, Start, Chain, MakeDirectory, Look, OpenTemp, Stream, Unlink,
         Rename, CannotFinish, Crash, Fail, vars, inputs
<1>2. CASE pc'[y] = pc[y] /\ index'[y] = index[y] /\ result'[y] = result[y]
  BY <1>1, <1>2 DEF Owes
<1>3. CASE Fail(y)
  BY <1>3 DEF Owes, Fail, Go, TypeOK
<1> SUFFICES ASSUME ~(pc[y] = "done" /\ result[y] = "error")
             PROVE  Owes(y, p)'
  BY <1>2 DEF Next, Step, Start, Chain, MakeDirectory, Look, OpenTemp, Stream, Unlink,
              Rename, CannotFinish, Crash, Fail, NextEntry, vars, inputs, Go, TypeOK, Running
<1>4. PICK j \in DOMAIN archive[y] :
          /\ archive[y][j].kind = "file" /\ archive[y][j].path = p
          /\ pc[y] \in {"idle", "crashed"} \/ (pc[y] \in Running /\ index[y] <= j)
  BY DEF Owes
<1>5. j \in 1 .. Len(archive[y]) /\ Len(archive[y]) \in Nat /\ index[y] \in 1 .. Len(archive[y])
  BY OutputFacts, EntryFacts DEF TypeOK
\* It is enough that y is still under way and not past the file.
<1>6. ASSUME pc'[y] \in {"idle", "crashed"} \/ (pc'[y] \in Running /\ index'[y] <= j)
      PROVE  Owes(y, p)'
  BY <1>1, <1>4, <1>6 DEF Owes
<1>7. CASE Start(y)
  BY <1>5, <1>6, <1>7 DEF Start, Go, TypeOK, Running, Points
<1>8. CASE Crash(y)
  BY <1>6, <1>8 DEF Crash, Go, TypeOK
<1>9. ASSUME NextEntry(y), pc[y] \in Running, index[y] # j
      PROVE  Owes(y, p)'
  <2>1. ~IsLast(y) /\ index[y] + 1 <= j
    BY <1>4, <1>5, <1>9 DEF IsLast, Running
  <2> QED
    BY <1>6, <1>9, <2>1 DEF NextEntry, Go, TypeOK, Running, Points
<1>10. ASSUME index[y] = j
       PROVE  Entry(y).kind = "file" /\ Output(y) = p
  BY <1>4, <1>10 DEF Entry, Output
<1>11. CASE Look(y)
  <2>1. pc[y] \in Running
    BY <1>11 DEF Look, Running, Points
  <2>2. CASE NextEntry(y) /\ \/ InTheWay(y) /\ policy[y] = "skip"
                             \/ Entry(y).kind = "directory" /\ ~(InTheWay(y) /\ Refused(y))
    BY <1>9, <1>10, <2>1, <2>2 DEF InTheWay
  <2>3. CASE Go(y, "open") /\ UNCHANGED index
    BY <1>4, <1>6, <2>1, <2>3 DEF Go, TypeOK, Running, Points
  <2> QED
    BY <1>3, <1>11, <2>2, <2>3 DEF Look
<1>12. CASE Rename(y)
  <2>1. pc[y] \in Running
    BY <1>12 DEF Rename, Running, Points
  <2>2. ~Fail(y) => tree'[Output(y)] # Absent
    BY <1>12, OutputFacts, NodeFacts DEF Rename, CannotFinish, TypeOK
  <2> QED
    BY <1>3, <1>9, <1>10, <1>12, <2>1, <2>2 DEF Rename, CannotFinish
<1>13. CASE Chain(y) \/ MakeDirectory(y) \/ OpenTemp(y) \/ Stream(y) \/ Unlink(y)
  <2>1. CASE ~Fail(y)
    <3>1. pc[y] \in Running /\ pc'[y] \in Running /\ index'[y] = index[y]
      BY <1>13, <2>1 DEF Chain, MakeDirectory, OpenTemp, Stream, Unlink, Go,
                         TypeOK, Running, Points
    <3> QED
      BY <1>4, <1>6, <3>1 DEF Running
  <2> QED
    BY <1>3, <2>1
<1>14. \/ pc'[y] = pc[y] /\ index'[y] = index[y] /\ result'[y] = result[y]
       \/ Step(y) \/ Crash(y)
  <2>1. ASSUME NEW x \in Extractors, x # y, Step(x) \/ Crash(x)
        PROVE  pc'[y] = pc[y] /\ index'[y] = index[y] /\ result'[y] = result[y]
    <3>1. CASE Fail(x)
      BY <2>1, <3>1 DEF Fail, Go, TypeOK
    <3>2. CASE NextEntry(x)
      BY <2>1, <3>2 DEF NextEntry, Go, TypeOK
    <3> QED
      BY <2>1, <3>1, <3>2
         DEF Step, Start, Chain, MakeDirectory, Look, OpenTemp, Stream, Unlink,
             Rename, CannotFinish, Crash, Go, TypeOK
  <2>2. CASE UNCHANGED vars
    BY <2>2 DEF vars
  <2> QED
    BY <2>1, <2>2 DEF Next
<1> QED
  BY <1>2, <1>7, <1>8, <1>11, <1>12, <1>13, <1>14 DEF Step

LEMMA StepPresent ==
    TypeOK /\ ChainInv /\ PresentInv /\ [Next]_vars => PresentInv'
<1> SUFFICES ASSUME TypeOK, ChainInv, PresentInv, [Next]_vars
             PROVE  PresentInv'
  OBVIOUS
<1>1. UNCHANGED archive
  BY DEF Next, Step, Start, Chain, MakeDirectory, Look, OpenTemp, Stream, Unlink,
         Rename, CannotFinish, Crash, Fail, vars, inputs
<1> SUFFICES ASSUME NEW x \in Extractors, NEW i \in DOMAIN archive[x], NEW p,
                    p = archive[x][i].path, archive[x][i].kind = "file", tree'[p] = Absent
             PROVE  \E y \in Extractors : Owes(y, p)'
  BY <1>1 DEF PresentInv
<1>2. p \in Paths
  BY EntryFacts DEF TypeOK, Entries
<1>3. CASE tree[p] = Absent
  <2>1. PICK y \in Extractors : Owes(y, p)
    BY <1>3 DEF PresentInv
  <2> QED
    BY <1>2, <1>3, <2>1, StillOwes
<1>4. CASE tree[p] # Absent
  <2>1. PICK y \in Extractors : Unlink(y) /\ Output(y) = p
    BY <1>2, <1>4, NodeFacts
       DEF Next, Step, Start, Chain, MakeDirectory, Look, OpenTemp, Stream, Unlink,
           Rename, CannotFinish, Crash, Fail, vars, TypeOK
  <2>2. Entry(y).kind = "file"
    BY <2>1 DEF Unlink, ChainInv, ChainOK, Writing, WithTemp
  <2>3. pc'[y] = "rename" /\ index'[y] = index[y]
    BY <2>1 DEF Unlink, Go, TypeOK
  <2>4. index[y] \in DOMAIN archive[y] /\ index[y] \in Nat
    BY DEF TypeOK
  <2>5. Owes(y, p)'
    BY <1>1, <2>1, <2>2, <2>3, <2>4 DEF Owes, Entry, Output, Running, Points
  <2> QED
    BY <2>5
<1> QED
  BY <1>3, <1>4

--------------------------------------------------------------------------------
(* The theorems *)

IInv ==
    /\ TypeOK /\ NoStrayTemp /\ ChainInv
    /\ KeepInv /\ OldFilesSurvive /\ WritesStayInside /\ PresentInv

LEMMA InitIInv == Init => IInv
<1> SUFFICES ASSUME Init
             PROVE  IInv
  OBVIOUS
<1>1. TypeOK /\ NoStrayTemp /\ ChainInv
  BY InitTypes
<1>2. KeepInv /\ OldFilesSurvive /\ WritesStayInside
  BY DEF Init, KeepInv, OldFilesSurvive, WritesStayInside, Writing, WithTemp
<1>3. PresentInv
  BY DEF Init, PresentInv, Owes
<1> QED
  BY <1>1, <1>2, <1>3 DEF IInv

LEMMA StepIInv == IInv /\ [Next]_vars => IInv'
BY StepTypes, StepChain, StepOld, StepInside, StepPresent DEF IInv

\* The variables keep their types, and no extractor leaves its archive or the
\* directories it has to ensure, however long the paths are.
THEOREM TypeCorrect == Spec => []TypeOK
<1>1. IInv => TypeOK
  BY DEF IInv
<1> QED
  BY InitIInv, StepIInv, <1>1, PTL DEF Spec

\* An extractor has a temporary file exactly while it fills or publishes it,
\* on every way out of an entry.
THEOREM TemporaryFilesGo == Spec => []NoStrayTemp
<1>1. IInv => NoStrayTemp
  BY DEF IInv
<1> QED
  BY InitIInv, StepIInv, <1>1, PTL DEF Spec

\* Without the replace policy nothing that was in the destination is touched,
\* by any number of extractors that meet there.
THEOREM OldFilesStay == Spec => []OldFilesSurvive
<1>1. IInv => OldFilesSurvive
  BY DEF IInv
<1> QED
  BY InitIInv, StepIInv, <1>1, PTL DEF Spec

\* Data is written into real directories only, although the chain was checked
\* earlier and others remove what is empty meanwhile.
THEOREM DataStaysInside == Spec => []WritesStayInside
<1>1. IInv => WritesStayInside
  BY DEF IInv
<1> QED
  BY InitIInv, StepIInv, <1>1, PTL DEF Spec

\* When all extractors succeed every file is there: whoever removes one owes
\* another in its place.
THEOREM SuccessLeavesFiles == Spec => []AllOkMeansPresent
<1>1. IInv => AllOkMeansPresent
  BY DEF IInv, AllOkMeansPresent, PresentInv, Owes, Running
<1> QED
  BY InitIInv, StepIInv, <1>1, PTL DEF Spec

LEMMA InitRefines == Init => Destination!Init
<1> SUFFICES ASSUME Init, NEW p \in Paths, tree[p] # Absent
             PROVE  Destination!InDirectory(p)
  BY DEF Destination!Init, Destination!Absent, Absent
<1> QED
  BY TreesAssumption DEF Init, Destination!InDirectory, Destination!Directory, Directory

\* Every step makes a directory, discards what is in the way, publishes a
\* whole file, or is not seen.
LEMMA StepRefines == IInv /\ [Next]_vars => [Destination!Next]_tree
<1> SUFFICES ASSUME IInv, [Next]_vars, tree' # tree
             PROVE  Destination!Next
  OBVIOUS
<1> USE DEF Destination!Absent, Destination!Directory, Absent, Directory
<1>1. TypeOK /\ ChainInv /\ WritesStayInside
  BY DEF IInv
<1>2. ASSUME NEW x \in Extractors, MakeDirectory(x)
      PROVE  Destination!Next
  <2>1. depth[x] + 1 \in Nat /\ 0 < depth[x] + 1 /\ depth[x] + 1 <= Len(Required(x))
    BY <1>1, <1>2, OutputFacts DEF MakeDirectory, ChainInv, ChainOK, TypeOK
  <2>2. Component(x) \in Paths
    BY <1>1, <2>1, PrefixFacts DEF Component
  <2>3. Destination!MakeDirectory(Component(x))
    BY <1>2 DEF MakeDirectory, Fail, IsDirectory, Destination!MakeDirectory,
                Destination!InDirectory
  <2> QED
    BY <2>2, <2>3 DEF Destination!Next
<1>3. ASSUME NEW x \in Extractors, Unlink(x)
      PROVE  Destination!Next
  <2>1. Output(x) \in Paths
    BY <1>1, OutputFacts
  <2>2. tree' = [tree EXCEPT ![Output(x)] = Absent] /\ ~InUse(Output(x))
    BY <1>3 DEF Unlink
  <2>3. tree[Output(x)] # Absent
    BY <1>1, <2>1, <2>2 DEF TypeOK
  <2>4. Destination!Discard(Output(x))
    BY <2>2, <2>3 DEF InUse, Children, Destination!Discard, Destination!Children
  <2> QED
    BY <2>1, <2>4 DEF Destination!Next
<1>4. ASSUME NEW x \in Extractors, Rename(x)
      PROVE  Destination!Next
  <2>1. Output(x) \in Paths /\ index[x] \in DOMAIN archive[x] /\ archive[x] \in Archives
    BY <1>1, OutputFacts DEF TypeOK
  <2>2. tree' = [tree EXCEPT ![Output(x)] = File(x, index[x], temp[x])]
        /\ tree[Output(x)] # Directory
    BY <1>4 DEF Rename, CannotFinish, Fail
  <2>3. temp[x] = Size
    BY <1>1, <1>4 DEF Rename, ChainInv, ChainOK
  <2>4. temp[x] # NoTemp
    BY <2>3, BoundsAssumption DEF NoTemp
  <2>5. Destination!InDirectory(Output(x))
    BY <1>1, <2>4 DEF WritesStayInside, IsDirectory, Destination!InDirectory
  <2>6. File(x, index[x], Size) \in {File(y, i, Size) : y \in Extractors,
                                        i \in UNION {DOMAIN a : a \in Archives}}
    BY <2>1
  <2>7. Destination!Publish(Output(x), File(x, index[x], Size))
    BY <2>2, <2>3, <2>5 DEF Destination!Publish
  <2> QED
    BY <2>1, <2>6, <2>7 DEF Destination!Next
<1> QED
  BY <1>2, <1>3, <1>4
     DEF Next, Step, Start, Chain, Look, OpenTemp, Stream, Crash, Fail, vars

\* Whatever the extractors do step by step, somebody who watches the destination
\* sees whole files appear in directories, and nothing half-written.
THEOREM ExtractionImplementsDestination == Spec => ShowsOnlyWholeFiles
<1>1. IInv /\ [Next]_vars => IInv' /\ [Destination!Next]_tree
  BY StepIInv, StepRefines
<1> QED
  BY InitIInv, InitRefines, <1>1, PTL DEF Spec, ShowsOnlyWholeFiles, Destination!Spec

================================================================================
