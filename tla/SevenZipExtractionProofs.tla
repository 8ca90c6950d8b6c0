------------------------ MODULE SevenZipExtractionProofs ------------------------
(***************************************************************************)
(* The extraction of the 7z backend does right by its destination, for any *)
(* number of extractors, any archives and any destination.  The inductive  *)
(* invariant follows an entry on its way: what planning has dealt with is  *)
(* planned or was there already, what the decoder has been through is      *)
(* whole unless somebody aborted, and what is committed was verified.      *)
(***************************************************************************)
EXTENDS SevenZipExtractionProperties, SequenceTheorems, TLAPS

Before == {"idle"} \cup Planning
After == Decoding \cup {"verify"} \cup Committing

\* The path of an entry is reserved by a plan.
Reserved(x, p) == \E k \in DOMAIN plan[x] : PathOf(x, plan[x][k]) = p

\* The entries planning has dealt with.
Seen(x) == {j \in DOMAIN archive[x] : pc[x] \in Before => j < index[x]}

\* Plans are for files, of different paths, and made before all else.
PlanOK(x) ==
    /\ pc[x] \in Before => /\ at[x] = 1 /\ verdict[x] = "ok"
                           /\ \A k \in DOMAIN plan[x] : plan[x][k] < index[x]
    /\ pc[x] \in After => plan[x] # <<>>
    /\ pc[x] = "verify" => at[x] = 1
    /\ pc[x] = "replace" => policy[x] = "replace"
    /\ pc[x] # "done" <=> result[x] = "none"
    /\ \A k \in DOMAIN plan[x] : archive[x][plan[x][k]].kind = "file"
    /\ \A j, k \in DOMAIN plan[x] : PathOf(x, plan[x][j]) = PathOf(x, plan[x][k]) => j = k
PlanInv == \A x \in Extractors : PlanOK(x)

\* Of the entries of a path, planning keeps the one that is to show, and none
\* only where the destination has something.
SeenOK(x) == pc[x] # "done" =>
    /\ \A j \in Seen(x) : tree[PathOf(x, j)] # Absent \/ Reserved(x, PathOf(x, j))
    /\ \A k \in DOMAIN plan[x] : \A j \in Seen(x) \cap Same(x, plan[x][k]) :
          IF policy[x] = "replace" THEN j <= plan[x][k] ELSE j >= plan[x][k]
    /\ pc[x] \in Committing =>
          \A k \in DOMAIN plan[x] : k < at[x] => tree[PathOf(x, plan[x][k])] # Absent
SeenInv == \A x \in Extractors : SeenOK(x)

IsDirectory(p) == p # Root => tree[p] = Directory

\* Where an extractor stands in its chain of directories, and that every plan
\* has its directory.
PlaceOK(x) ==
    /\ pc[x] = "create" => IsDirectory(Ancestor(x, Len(Required(x)) - missing[x]))
    /\ pc[x] = "plan" => IsDirectory(Required(x))
    /\ \A k \in DOMAIN plan[x] : IsDirectory(Parent(PathOf(x, plan[x][k])))
PlaceInv == \A x \in Extractors : PlaceOK(x)
TreeInv == \A p \in Paths : tree[p] # Absent => IsDirectory(Parent(p))

\* What the decoder has been through is whole, unless the verdict says more.
DecodedOK(x) ==
    /\ pc[x] \in {"open", "write", "result"} => verdict[x] \in {"ok", "abort"}
    /\ pc[x] \in {"verify"} \cup Committing => verdict[x] \in {"ok", "abort"}
    /\ pc[x] \in {"open", "write", "result"} /\ verdict[x] = "ok"
          => \A k \in DOMAIN plan[x] : k < at[x] => temp[x][plan[x][k]] = "whole"
    /\ pc[x] = "result" /\ archive[x][Planned(x)].sound => temp[x][Planned(x)] = "whole"
    /\ pc[x] \in {"finish", "verify"} /\ verdict[x] = "ok"
          => \A k \in DOMAIN plan[x] : temp[x][plan[x][k]] = "whole"
    /\ verdict[x] = "corrupt" => \E i \in DOMAIN archive[x] : ~archive[x][i].sound
    /\ \A i \in DOMAIN archive[x] : temp[x][i] = "damaged" =>
          \/ verdict[x] = "abort"
          \/ pc[x] = "result" /\ i = Planned(x) /\ ~archive[x][i].sound
          \/ pc[x] = "finish" /\ verdict[x] = "corrupt"
    /\ pc[x] \in Committing =>
          \A k \in DOMAIN plan[x] : k >= at[x] => HasSize(temp[x][plan[x][k]])
DecodedInv == \A x \in Extractors : DecodedOK(x)

\* Who has published something is past its verification.
PublishedInv == \A p \in Published :
    /\ pc[tree[p].from] \in Committing \cup {"done"}
    /\ result[tree[p].from] \notin {"corrupt", "missing"}

IInv ==
    /\ TypeOK
    /\ NoTempLeft
    /\ PlanInv
    /\ SeenInv
    /\ PlaceInv
    /\ TreeInv
    /\ DecodedInv
    /\ PublishedInv
    /\ PublishesWinner
    /\ OkMeansPresent
    /\ DamagedOnlyAfterAbort
    /\ UnverifiedHasCause

--------------------------------------------------------------------------------
(* Paths, entries and plans *)

LEMMA PathFacts ==
    /\ Root \notin Paths
    /\ \A p \in Paths : p \in Seq(STRING) /\ Len(p) \in Nat \ {0} /\ SubSeq(p, 1, Len(p)) = p
    /\ \A p \in Paths : Parent(p) \in Paths \cup {Root}
<1>1. \A p \in Paths : p \in Seq(STRING) /\ p # Root
  BY PathsAssumption
<1>2. ASSUME NEW p \in Paths
      PROVE  Len(p) \in Nat \ {0} /\ SubSeq(p, 1, Len(p)) = p
  BY <1>1 DEF Root
<1>3. ASSUME NEW p \in Paths
      PROVE  Parent(p) \in Paths \cup {Root}
  <2>1. CASE Len(p) = 1
    BY <1>1, <2>1 DEF Parent, Root
  <2>2. CASE Len(p) # 1
    <3>1. Len(p) - 1 \in 1 .. Len(p)
      <4>1. \A n \in Nat \ {0} : n # 1 => n - 1 \in 1 .. n
        OBVIOUS
      <4> QED
        BY <1>2, <2>2, <4>1
    <3> QED
      BY <3>1, PathsAssumption DEF Parent
  <2> QED
    BY <2>1, <2>2
<1> QED
  BY <1>1, <1>2, <1>3

LEMMA EntryFacts ==
    ASSUME TypeOK, NEW x \in Extractors
    PROVE  /\ archive[x] \in Archives
           /\ Len(archive[x]) \in Nat \ {0} /\ DOMAIN archive[x] = 1 .. Len(archive[x])
           /\ DOMAIN archive[x] \subseteq Indexes
           /\ \A i \in DOMAIN archive[x] : /\ archive[x][i].path \in Paths
                                           /\ archive[x][i].kind \in {"file", "directory"}
                                           /\ archive[x][i].sound \in BOOLEAN
                                           /\ PathOf(x, i) \in Paths
           /\ index[x] \in DOMAIN archive[x]
<1>1. archive[x] \in Archives /\ index[x] \in DOMAIN archive[x]
  BY DEF TypeOK
<1>2. archive[x] \in Seq(Entries) /\ archive[x] # <<>>
  BY <1>1, ArchivesAssumption
<1>3. \A i \in DOMAIN archive[x] : archive[x][i] \in Entries
  BY <1>2
<1>4. Len(archive[x]) \in Nat \ {0} /\ DOMAIN archive[x] = 1 .. Len(archive[x])
  BY <1>2
<1>5. DOMAIN archive[x] \subseteq Indexes
  BY <1>1 DEF Indexes
<1> QED
  BY <1>1, <1>3, <1>4, <1>5 DEF Entries, PathOf

\* The directory an entry needs, and the chain of directories down to it.
LEMMA RequiredFacts ==
    ASSUME TypeOK, NEW x \in Extractors
    PROVE  /\ Required(x) \in Paths \cup {Root}
           /\ Len(Required(x)) \in Nat
           /\ Ancestor(x, 0) = Root
           /\ Ancestor(x, Len(Required(x))) = Required(x)
           /\ \A n \in 1 .. Len(Required(x)) :
                 Ancestor(x, n) \in Paths /\ Parent(Ancestor(x, n)) = Ancestor(x, n - 1)
<1>1. Required(x) \in Paths \cup {Root}
  BY EntryFacts, PathFacts DEF Required, Entry
<1>2. Required(x) \in Seq(STRING)
  <2>1. Root \in Seq(STRING)
    BY DEF Root
  <2> QED
    BY <1>1, <2>1, PathFacts
<1>3. Len(Required(x)) \in Nat
  BY <1>2
<1>4. SubSeq(Required(x), 1, 0) = << >>
  BY <1>2
<1>5. SubSeq(Required(x), 1, Len(Required(x))) = Required(x)
  BY <1>1, <1>4, PathFacts DEF Root
<1>6. ASSUME NEW n \in 1 .. Len(Required(x))
      PROVE  Ancestor(x, n) \in Paths /\ Parent(Ancestor(x, n)) = Ancestor(x, n - 1)
  <2>1. Required(x) \in Paths
    BY <1>1 DEF Root
  <2>2. Ancestor(x, n) \in Paths
    BY <2>1, PathsAssumption DEF Ancestor
  <2>3. Len(Ancestor(x, n)) = n
    BY <1>2, <1>3 DEF Ancestor
  <2>4. SubSeq(SubSeq(Required(x), 1, n), 1, n - 1) = SubSeq(Required(x), 1, n - 1)
    BY <1>2, <1>3
  <2> QED
    BY <2>2, <2>3, <2>4 DEF Parent, Ancestor
<1> QED
  BY <1>1, <1>3, <1>4, <1>5, <1>6 DEF Ancestor, Root

LEMMA PlanFacts ==
    ASSUME TypeOK, NEW x \in Extractors
    PROVE  /\ Len(plan[x]) \in Nat /\ DOMAIN plan[x] = 1 .. Len(plan[x])
           /\ plan[x] # <<>> => 1 \in DOMAIN plan[x] /\ Len(plan[x]) \in DOMAIN plan[x]
           /\ \A k \in DOMAIN plan[x] : plan[x][k] \in DOMAIN archive[x]
           /\ \A j, k \in DOMAIN plan[x] : plan[x][j] = plan[x][k] => j = k
<1>1. plan[x] \in Seq(DOMAIN archive[x])
  BY DEF TypeOK
<1>2. Len(plan[x]) \in Nat /\ DOMAIN plan[x] = 1 .. Len(plan[x])
  BY <1>1
<1>3. plan[x] # <<>> => Len(plan[x]) # 0
  BY <1>1
<1>4. \A k \in DOMAIN plan[x] : plan[x][k] \in DOMAIN archive[x]
  BY <1>1
<1>5. ASSUME NEW j \in DOMAIN plan[x], NEW k \in DOMAIN plan[x], plan[x][j] = plan[x][k]
      PROVE  j = k
  <2>1. plan[x][j] \in Int /\ plan[x][k] \in Int
    BY <1>4, EntryFacts
  <2>2. j < k => plan[x][j] < plan[x][k]
    BY DEF TypeOK
  <2>3. k < j => plan[x][k] < plan[x][j]
    BY DEF TypeOK
  <2> QED
    BY <1>2, <1>5, <2>1, <2>2, <2>3
<1> QED
  BY <1>2, <1>3, <1>4, <1>5

\* The nodes are told apart by their kinds, and a file says who put it there.
LEMMA NodeFacts ==
    /\ Absent # Directory /\ Absent # Link /\ Directory # Link
    /\ OldFile # Absent /\ OldFile # Directory /\ OldFile.kind = "file"
    /\ Absent.kind # "file" /\ Directory.kind # "file" /\ Link.kind # "file"
    /\ \A x, i, data :
          /\ File(x, i, data) \notin {Absent, Directory, Link, OldFile}
          /\ File(x, i, data).kind = "file" /\ File(x, i, data).from = x
          /\ File(x, i, data).entry = i /\ File(x, i, data).data = data
    /\ \A n \in Nodes : n.kind = "file" /\ n # OldFile
          => \E x \in Extractors, i \in Indexes, data \in Contents : n = File(x, i, data)
BY DEF Absent, Directory, Link, OldFile, File, Nodes

\* A plan without the k-th: what comes after it moves up.
LEMMA RemoveFacts ==
    ASSUME NEW D, NEW s \in Seq(D), NEW k \in DOMAIN s
    PROVE  /\ RemoveAt(s, k) \in Seq(D)
           /\ Len(RemoveAt(s, k)) = Len(s) - 1
           /\ \A j \in 1 .. Len(s) - 1 :
                 RemoveAt(s, k)[j] = IF j < k THEN s[j] ELSE s[j + 1]
<1> DEFINE s1 == SubSeq(s, 1, k - 1)
           s2 == SubSeq(s, k + 1, Len(s))
<1>1. Len(s) \in Nat /\ k \in 1 .. Len(s) /\ \A j \in 1 .. Len(s) : s[j] \in D
  OBVIOUS
<1>2. s1 \in Seq(D) /\ Len(s1) = k - 1 /\ \A j \in 1 .. k - 1 : s1[j] = s[j]
  BY <1>1
<1>3. s2 \in Seq(D) /\ Len(s2) = Len(s) - k /\ \A j \in 1 .. Len(s) - k : s2[j] = s[k + j]
  BY <1>1
<1>4. RemoveAt(s, k) = s1 \o s2
  BY DEF RemoveAt
<1> HIDE DEF s1, s2
<1>5. s1 \o s2 \in Seq(D) /\ Len(s1 \o s2) = Len(s) - 1
  BY <1>1, <1>2, <1>3
<1>6. ASSUME NEW j \in 1 .. Len(s) - 1
      PROVE  (s1 \o s2)[j] = IF j < k THEN s[j] ELSE s[j + 1]
  <2>1. j \in 1 .. Len(s1) + Len(s2)
    BY <1>1, <1>2, <1>3
  <2>2. (s1 \o s2)[j] = IF j <= Len(s1) THEN s1[j] ELSE s2[j - Len(s1)]
    BY <1>2, <1>3, <2>1
  <2>3. CASE j < k
    BY <1>1, <1>2, <2>2, <2>3
  <2>4. CASE ~(j < k)
    <3>1. j - Len(s1) \in 1 .. Len(s) - k /\ k + (j - Len(s1)) = j + 1
      BY <1>1, <1>2, <2>4
    <3>2. s2[j - Len(s1)] = s[j + 1]
      BY <1>3, <3>1
    <3> QED
      BY <1>1, <1>2, <2>2, <2>4, <3>2
  <2> QED
    BY <2>3, <2>4
<1> QED
  BY <1>4, <1>5, <1>6

Ordered(s) == \A j, k \in DOMAIN s : j < k => s[j] < s[k]

\* The others stay, and stay in order.
LEMMA RemoveKeepsOrder ==
    ASSUME NEW D, D \subseteq Int, NEW s \in Seq(D), NEW d \in DOMAIN s, Ordered(s)
    PROVE  /\ RemoveAt(s, d) \in Seq(D)
           /\ Ordered(RemoveAt(s, d))
           /\ \A k \in DOMAIN RemoveAt(s, d) :
                 \E e \in DOMAIN s : e # d /\ RemoveAt(s, d)[k] = s[e]
           /\ \A e \in DOMAIN s : e # d =>
                 \E k \in DOMAIN RemoveAt(s, d) : RemoveAt(s, d)[k] = s[e]
<1> DEFINE t == RemoveAt(s, d)
           n == Len(s)
           U(k) == IF k < d THEN k ELSE k + 1
<1>1. n \in Nat /\ DOMAIN s = 1 .. n
  OBVIOUS
<1>2. t \in Seq(D) /\ Len(t) = n - 1 /\ \A j \in 1 .. n - 1 : t[j] = s[U(j)]
  <2>1. \A j \in 1 .. n - 1 : t[j] = IF j < d THEN s[j] ELSE s[j + 1]
    BY RemoveFacts
  <2> QED
    BY <2>1, RemoveFacts
<1>3. DOMAIN t = 1 .. n - 1
  BY <1>2
<1> HIDE DEF n, t
<1>4. \A k \in 1 .. n - 1 : U(k) \in 1 .. n /\ U(k) # d
  BY <1>1
<1>5. \A j, k \in 1 .. n - 1 : j < k => U(j) < U(k)
  BY <1>1
<1>6. \A k \in 1 .. n : k # d => \E j \in 1 .. n - 1 : U(j) = k
  <2> SUFFICES ASSUME NEW k \in 1 .. n, k # d
               PROVE  \E j \in 1 .. n - 1 : U(j) = k
    OBVIOUS
  <2>1. CASE k < d
    <3>1. k \in 1 .. n - 1 /\ U(k) = k
      BY <1>1, <2>1
    <3> QED
      BY <3>1
  <2>2. CASE ~(k < d)
    <3>1. k - 1 \in 1 .. n - 1 /\ U(k - 1) = k
      BY <1>1, <2>2
    <3> QED
      BY <3>1
  <2> QED
    BY <2>1, <2>2
<1> HIDE DEF U
<1>7. ASSUME NEW j \in DOMAIN t, NEW k \in DOMAIN t, j < k
      PROVE  t[j] < t[k]
  BY <1>1, <1>2, <1>3, <1>4, <1>5, <1>7 DEF Ordered
<1>8. ASSUME NEW k \in DOMAIN t
      PROVE  \E e \in DOMAIN s : e # d /\ t[k] = s[e]
  BY <1>1, <1>2, <1>3, <1>4
<1>9. ASSUME NEW e \in DOMAIN s, e # d
      PROVE  \E k \in DOMAIN t : t[k] = s[e]
  <2>1. PICK j \in 1 .. n - 1 : U(j) = e
    BY <1>1, <1>6, <1>9
  <2> QED
    BY <1>2, <1>3, <2>1
<1> QED
  BY <1>2, <1>7, <1>8, <1>9 DEF t, Ordered

--------------------------------------------------------------------------------
(* What a step leaves alone *)

Untouched(y) ==
    /\ archive'[y] = archive[y] /\ policy'[y] = policy[y]
    /\ pc'[y] = pc[y] /\ index'[y] = index[y] /\ missing'[y] = missing[y]
    /\ plan'[y] = plan[y] /\ at'[y] = at[y] /\ temp'[y] = temp[y]
    /\ verdict'[y] = verdict[y] /\ result'[y] = result[y]

\* A step of one extractor touches nothing of another but the tree.
LEMMA Frame ==
    ASSUME TypeOK, NEW x \in Extractors, Step(x) \/ Abort(x)
    PROVE  UNCHANGED inputs /\ \A y \in Extractors \ {x} : Untouched(y)
<1> USE DEF TypeOK, inputs, planning, Go
<1>1. ASSUME NEW r, Return(x, r)
      PROVE  UNCHANGED inputs /\ \A y \in Extractors \ {x} : Untouched(y)
  BY <1>1 DEF Return, RemoveTemps, Untouched
<1>2. ASSUME NEW s, NextEntry(x, s)
      PROVE  UNCHANGED inputs /\ \A y \in Extractors \ {x} : Untouched(y)
  BY <1>2 DEF NextEntry, Untouched
<1>3. ASSUME NextPlan(x)
      PROVE  UNCHANGED inputs /\ \A y \in Extractors \ {x} : Untouched(y)
  BY <1>1, <1>3 DEF NextPlan, SetTemp, Untouched
<1>4. CASE Start(x) \/ Ensure(x) \/ Create(x)
  BY <1>1, <1>4 DEF Start, Ensure, Create, Fail, Untouched
<1>5. CASE Plan(x)
  BY <1>1, <1>2, <1>5 DEF Plan, Fail
<1>6. CASE OpenStream(x) \/ Write(x) \/ SetOperationResult(x) \/ Stop(x) \/ Abort(x)
  BY <1>6 DEF OpenStream, Write, SetOperationResult, Stop, Abort, SetTemp, Untouched
<1>7. CASE Finish(x) \/ Verify(x)
  BY <1>1, <1>7 DEF Finish, Verify, Fail, Untouched
<1>8. CASE Look(x) \/ Move(x) \/ Replace(x)
  BY <1>1, <1>3, <1>8 DEF Look, Move, Replace, Fail, Untouched
<1> QED
  BY <1>4, <1>5, <1>6, <1>7, <1>8 DEF Step

\* The destination changes by a directory that is made in the chain, or by a
\* file that is published over nothing or, to replace it, over another file.
MakesDirectory(x) ==
    LET n == Len(Required(x)) - missing[x] + 1
    IN /\ pc[x] = "create" /\ n \in 1 .. Len(Required(x))
       /\ tree[Ancestor(x, n)] = Absent
       /\ tree' = [tree EXCEPT ![Ancestor(x, n)] = Directory]
Publishes(x) ==
    /\ pc[x] \in {"move", "replace"} /\ pc'[x] \in {"look", "done"}
    /\ pc[x] = "move" => tree[Final(x)] = Absent
    /\ pc[x] = "replace" => tree[Final(x)].kind = "file"
    /\ Publish(x)

LEMMA TreeMoves ==
    ASSUME TypeOK, NEW x \in Extractors, Step(x) \/ Abort(x)
    PROVE  UNCHANGED tree \/ MakesDirectory(x) \/ Publishes(x)
<1>1. ASSUME NEW r, Fail(x, r)
      PROVE  UNCHANGED tree
  BY <1>1 DEF Fail
<1>2. CASE Start(x) \/ Ensure(x) \/ Plan(x) \/ OpenStream(x) \/ Write(x) \/ Stop(x)
           \/ SetOperationResult(x) \/ Finish(x) \/ Verify(x) \/ Look(x) \/ Abort(x)
  BY <1>1, <1>2 DEF Start, Ensure, Plan, OpenStream, Write, Stop, SetOperationResult,
     Finish, Verify, Look, Abort, NextEntry
<1>3. CASE Create(x)
  <2>1. CASE Fail(x, "io")
    BY <1>1, <2>1
  <2>2. CASE ~Fail(x, "io")
    <3>1. pc[x] = "create" /\ missing[x] \in 1 .. Len(Required(x))
      BY <1>3 DEF Create, TypeOK
    <3>2. Len(Required(x)) - missing[x] + 1 \in 1 .. Len(Required(x))
      BY <3>1, RequiredFacts
    <3> QED
      BY <1>3, <2>2, <3>1, <3>2 DEF Create, MakesDirectory
  <2> QED
    BY <2>1, <2>2
<1>4. CASE Move(x) \/ Replace(x)
  <2>1. CASE Fail(x, "io")
    BY <1>1, <2>1
  <2>2. CASE ~Fail(x, "io")
    <3>1. NextPlan(x) \/ Return(x, "io")
      BY <1>4, <2>2 DEF Move, Replace
    <3>2. pc'[x] \in {"look", "done"}
      BY <3>1 DEF NextPlan, NextToCommit, Return, Go, TypeOK
    <3> QED
      BY <1>4, <2>2, <3>2 DEF Move, Replace, MayMove, Publishes
  <2> QED
    BY <2>1, <2>2
<1> QED
  BY <1>2, <1>3, <1>4 DEF Step

\* Nothing disappears, and directories stay directories.
Grows == \A p \in Paths : /\ tree[p] # Absent => tree'[p] # Absent
                          /\ tree[p] = Directory => tree'[p] = Directory

LEMMA TreeGrows ==
    ASSUME TypeOK, NEW x \in Extractors, Step(x) \/ Abort(x)
    PROVE  Grows /\ tree' \in [Paths -> Nodes]
<1>1. CASE UNCHANGED tree
  BY <1>1 DEF Grows, TypeOK
<1>2. CASE MakesDirectory(x)
  BY <1>2, NodeFacts, RequiredFacts DEF MakesDirectory, Grows, TypeOK, Nodes
<1>3. CASE Publishes(x)
  <2>1. at[x] \in DOMAIN plan[x]
    BY <1>3 DEF Publishes, TypeOK, Committing
  <2>2. Planned(x) \in DOMAIN archive[x] /\ Final(x) \in Paths /\ Planned(x) \in Indexes
    BY <2>1, PlanFacts, EntryFacts DEF Planned, Final
  <2>3. temp[x][Planned(x)] \in Contents
    BY <2>2 DEF TypeOK
  <2> DEFINE file == File(x, Planned(x), temp[x][Planned(x)])
  <2>4. file \in Nodes /\ file # Absent
    BY <2>2, <2>3, NodeFacts DEF Nodes
  <2>5. tree' = [tree EXCEPT ![Final(x)] = file] /\ tree[Final(x)] # Directory
    BY <1>3, NodeFacts DEF Publishes, Publish
  <2> HIDE DEF file
  <2> QED
    BY <2>2, <2>4, <2>5 DEF Grows, TypeOK
<1> QED
  BY <1>1, <1>2, <1>3, TreeMoves

--------------------------------------------------------------------------------
(* Types *)

TypesOf(x) ==
    /\ index[x] \in DOMAIN archive[x]
    /\ pc[x] = "create" => missing[x] \in 1 .. Len(Required(x))
    /\ plan[x] \in Seq(DOMAIN archive[x])
    /\ \A j, k \in DOMAIN plan[x] : j < k => plan[x][j] < plan[x][k]
    /\ temp[x] \in [DOMAIN archive[x] -> Contents]
    /\ pc[x] \in Decoding \cup Committing => at[x] \in DOMAIN plan[x]

FunctionsTyped ==
    /\ pc \in [Extractors -> Points]
    /\ missing \in [Extractors -> Nat]
    /\ verdict \in [Extractors -> {"ok", "io", "corrupt", "abort"}]
    /\ result \in [Extractors -> Results]
    /\ DOMAIN index = Extractors /\ DOMAIN at = Extractors
    /\ DOMAIN plan = Extractors /\ DOMAIN temp = Extractors

LEMMA NoTempsTyped ==
    ASSUME NEW x \in Extractors
    PROVE  NoTemps(x) \in [DOMAIN archive[x] -> Contents]
BY DEF NoTemps, Contents

\* An extraction that returns.
LEMMA ReturnTypes ==
    ASSUME TypeOK, NEW x \in Extractors, NEW r \in Results, Return(x, r)
    PROVE  FunctionsTyped' /\ TypesOf(x)'
<1>1. FunctionsTyped'
  BY DEF Return, Go, RemoveTemps, TypeOK, FunctionsTyped, inputs, planning, Points
<1>2. TypesOf(x)'
  BY NoTempsTyped DEF Return, Go, RemoveTemps, TypeOK, TypesOf, inputs, planning,
     Decoding, Committing
<1> QED
  BY <1>1, <1>2

LEMMA NextPlanTypes ==
    ASSUME TypeOK, NEW x \in Extractors, pc[x] \in Committing, NextPlan(x)
    PROVE  FunctionsTyped' /\ TypesOf(x)'
<1>1. at[x] \in DOMAIN plan[x] /\ Planned(x) \in DOMAIN archive[x]
  BY PlanFacts DEF TypeOK, Planned
<1>2. CASE LastCommitted(x)
  BY <1>2, ReturnTypes DEF NextPlan, Results
<1>3. CASE ~LastCommitted(x)
  <2>1. FunctionsTyped'
    BY <1>1, <1>3 DEF NextPlan, NextToCommit, SetTemp, Go, TypeOK, FunctionsTyped, inputs,
       planning, Points, Committing
  <2>2. at[x] + 1 \in DOMAIN plan[x]
    BY <1>1, <1>3, PlanFacts DEF LastCommitted
  <2>3. temp'[x] \in [DOMAIN archive[x] -> Contents]
    <3>1. temp'[x] = [temp[x] EXCEPT ![Planned(x)] = "none"]
      BY <1>3 DEF NextPlan, SetTemp, TypeOK
    <3>2. temp[x] \in [DOMAIN archive[x] -> Contents] /\ "none" \in Contents
      BY DEF TypeOK, Contents
    <3> QED
      BY <3>1, <3>2
  <2>4. UNCHANGED <<archive, plan, index, missing>> /\ pc'[x] = "look" /\ at'[x] = at[x] + 1
    BY <1>3 DEF NextPlan, NextToCommit, Go, TypeOK, inputs, planning
  <2> QED
    BY <2>1, <2>2, <2>3, <2>4 DEF TypesOf, TypeOK
<1> QED
  BY <1>2, <1>3

\* Planning goes on with a plan of entries up to this one.
LEMMA NextEntryTypes ==
    ASSUME TypeOK, NEW x \in Extractors, pc[x] = "plan", at[x] = 1,
           NEW s \in Seq(DOMAIN archive[x]), NextEntry(x, s),
           \A j, k \in DOMAIN s : j < k => s[j] < s[k]
    PROVE  FunctionsTyped' /\ TypesOf(x)'
<1>1. FunctionsTyped'
  BY DEF NextEntry, Go, TypeOK, FunctionsTyped, inputs, Points, Planning, Decoding, Results
<1>2. index'[x] \in DOMAIN archive[x]
  BY EntryFacts DEF NextEntry, TypeOK
<1>3. plan'[x] = s /\ UNCHANGED <<archive, at, temp>>
  BY DEF NextEntry, TypeOK, inputs
<1>4. s # <<>> => 1 \in DOMAIN s
  OBVIOUS
<1>5. pc'[x] \in {"ensure", "done", "open"} /\ (pc'[x] = "open" => s # <<>>)
  BY DEF NextEntry, Go, TypeOK
<1> QED
  BY <1>1, <1>2, <1>3, <1>4, <1>5 DEF TypesOf, TypeOK, Decoding, Committing

\* Plans stay in order when one is taken out and the entry at hand is added.
LEMMA PlanGrows ==
    ASSUME TypeOK, PlanInv, NEW x \in Extractors, pc[x] = "plan"
    PROVE  LET s == Append(WithoutDuplicate(x), index[x])
           IN /\ s \in Seq(DOMAIN archive[x]) /\ s # <<>>
              /\ \A j, k \in DOMAIN s : j < k => s[j] < s[k]
              /\ \A i \in DOMAIN archive[x] :
                    (\E k \in DOMAIN s : s[k] = i)
                       <=> \/ i = index[x]
                           \/ /\ PathOf(x, i) # Entry(x).path
                              /\ \E k \in DOMAIN plan[x] : plan[x][k] = i
<1> DEFINE D == DOMAIN archive[x]
           r == WithoutDuplicate(x)
<1>1. /\ plan[x] \in Seq(D) /\ Len(plan[x]) \in Nat /\ DOMAIN plan[x] = 1 .. Len(plan[x])
      /\ D \subseteq Int /\ index[x] \in D
  BY PlanFacts, EntryFacts DEF TypeOK
<1>2. \A k \in DOMAIN plan[x] : plan[x][k] \in D /\ plan[x][k] < index[x]
  BY PlanFacts DEF PlanInv, PlanOK, Before, Planning
<1>3. \A j, k \in DOMAIN plan[x] : j < k => plan[x][j] < plan[x][k]
  BY DEF TypeOK
<1>4. /\ r \in Seq(D)
      /\ \A k \in DOMAIN r : r[k] < index[x]
      /\ \A j, k \in DOMAIN r : j < k => r[j] < r[k]
      /\ \A i \in D : (\E k \in DOMAIN r : r[k] = i)
             <=> PathOf(x, i) # Entry(x).path /\ \E k \in DOMAIN plan[x] : plan[x][k] = i
  <2>1. CASE ~Duplicate(x)
    BY <1>1, <1>2, <1>3, <2>1 DEF WithoutDuplicate, Duplicate
  <2>2. CASE Duplicate(x)
    <3> DEFINE d == DuplicateAt(x)
    <3>1. d \in DOMAIN plan[x] /\ PathOf(x, plan[x][d]) = Entry(x).path
      BY <2>2 DEF Duplicate, DuplicateAt
    <3>2. r = RemoveAt(plan[x], d)
      BY <2>2 DEF WithoutDuplicate
    <3> HIDE DEF d, r
    <3>3. /\ r \in Seq(D)
          /\ Ordered(r)
          /\ \A k \in DOMAIN r : \E e \in DOMAIN plan[x] : e # d /\ r[k] = plan[x][e]
          /\ \A e \in DOMAIN plan[x] : e # d => \E k \in DOMAIN r : r[k] = plan[x][e]
      <4>1. D \subseteq Int /\ plan[x] \in Seq(D) /\ Ordered(plan[x])
        BY <1>1, <1>3 DEF Ordered
      <4> HIDE DEF D
      <4> QED
        BY <3>1, <3>2, <4>1, RemoveKeepsOrder
    <3>4. \A k \in DOMAIN plan[x] : k # d <=> PathOf(x, plan[x][k]) # Entry(x).path
      BY <3>1 DEF PlanInv, PlanOK
    <3> QED
      BY <1>2, <3>3, <3>4 DEF Ordered
  <2> QED
    BY <2>1, <2>2
<1> HIDE DEF r
<1> DEFINE s == Append(r, index[x])
<1>5. /\ s \in Seq(D) /\ s # <<>> /\ Len(r) \in Nat /\ DOMAIN r = 1 .. Len(r)
      /\ DOMAIN s = 1 .. Len(r) + 1 /\ s[Len(r) + 1] = index[x]
      /\ \A k \in DOMAIN r : s[k] = r[k] /\ r[k] \in D
  <2>1. r \in Seq(D) /\ index[x] \in D
    BY <1>1, <1>4
  <2>2. Len(r) \in Nat /\ DOMAIN r = 1 .. Len(r) /\ \A k \in DOMAIN r : r[k] \in D
    BY <2>1
  <2>3. s \in Seq(D) /\ Len(s) = Len(r) + 1
    BY <2>1, AppendProperties
  <2>4. DOMAIN s = 1 .. Len(r) + 1
    BY <2>2, <2>3
  <2>5. s # <<>>
    BY <2>1, AppendProperties
  <2>6. s[Len(r) + 1] = index[x] /\ \A k \in 1 .. Len(r) : s[k] = r[k]
    BY <2>1, <2>2
  <2> QED
    BY <2>2, <2>3, <2>4, <2>5, <2>6
<1> HIDE DEF s, D
<1>6. \A j, k \in DOMAIN s : j < k => s[j] < s[k]
  BY <1>4, <1>5
<1>7. \A i \in D : (\E k \in DOMAIN s : s[k] = i)
             <=> i = index[x] \/ (\E k \in DOMAIN r : r[k] = i)
  <2>1. DOMAIN s = DOMAIN r \cup {Len(r) + 1}
    BY <1>5
  <2> QED
    BY <1>5, <2>1
<1> QED
  BY <1>4, <1>5, <1>6, <1>7 DEF s, r, D

LEMMA InitIInv == Init => IInv
<1> SUFFICES ASSUME Init
             PROVE  IInv
  OBVIOUS
<1>1. \A x \in Extractors : archive[x] \in Archives /\ 1 \in DOMAIN archive[x]
  <2> SUFFICES ASSUME NEW x \in Extractors
               PROVE  archive[x] \in Archives /\ 1 \in DOMAIN archive[x]
    OBVIOUS
  <2>1. archive[x] \in Archives
    BY DEF Init
  <2>2. archive[x] \in Seq(Entries) /\ archive[x] # <<>>
    BY <2>1, ArchivesAssumption
  <2> QED
    BY <2>1, <2>2
<1>2. tree \in [Paths -> {Absent, Directory, Link, OldFile}]
  BY TreesAssumption DEF Init
<1>3. tree \in [Paths -> Nodes]
  BY <1>2 DEF Nodes
<1>4. \A x \in Extractors : NoTemps(x) \in [DOMAIN archive[x] -> Contents]
  BY DEF NoTemps, Contents
<1>5. TypeOK
  BY <1>1, <1>3, <1>4 DEF Init, TypeOK, Points, Planning, Decoding, Committing, Results
<1>6. NoTempLeft
  BY DEF Init, NoTempLeft
<1>7. PlanInv
  BY DEF Init, PlanInv, PlanOK, Before, After, Planning, Decoding, Committing
<1>8. SeenInv
  <2>1. ASSUME NEW x \in Extractors
        PROVE  Seen(x) = {} /\ DOMAIN plan[x] = {} /\ pc[x] = "idle"
    <3>1. DOMAIN archive[x] \subseteq Nat \ {0}
      BY <1>5, EntryFacts
    <3> QED
      BY <3>1 DEF Init, Seen, Before
  <2> QED
    BY <2>1 DEF SeenInv, SeenOK, Committing
<1>9. PlaceInv
  BY DEF Init, PlaceInv, PlaceOK
<1>10. TreeInv
  <2>1. tree \in Trees
    BY DEF Init
  <2> QED
    BY <2>1, TreesAssumption DEF TreeInv, IsDirectory
<1>11. DecodedInv
  BY DEF Init, DecodedInv, DecodedOK, Decoding, Committing, NoTemps
<1>12. Published = {}
  BY <1>2, NodeFacts DEF Published
<1>13. PublishedInv /\ PublishesWinner /\ DamagedOnlyAfterAbort
  BY <1>12 DEF PublishedInv, PublishesWinner, DamagedOnlyAfterAbort
<1>14. OkMeansPresent /\ UnverifiedHasCause
  BY DEF Init, OkMeansPresent, UnverifiedHasCause
<1> QED
  BY <1>5, <1>6, <1>7, <1>8, <1>9, <1>10, <1>11, <1>13, <1>14 DEF IInv

LEMMA StepTypes ==
    ASSUME TypeOK, PlanInv, NEW x \in Extractors, Step(x) \/ Abort(x)
    PROVE  TypeOK'
<1>1. ASSUME FunctionsTyped', TypesOf(x)'
      PROVE  TypeOK'
  <2>1. ASSUME NEW y \in Extractors \ {x}
        PROVE  TypesOf(y)'
    <3>1. Untouched(y)
      BY Frame
    <3> QED
      BY <3>1 DEF Untouched, TypesOf, TypeOK, Required, Entry
  <2>2. tree' \in [Paths -> Nodes] /\ UNCHANGED <<archive, policy>>
    BY TreeGrows, Frame DEF inputs
  <2>3. \A y \in Extractors : TypesOf(y)'
    BY <1>1, <2>1
  <2> QED
    BY <1>1, <2>2, <2>3 DEF TypeOK, FunctionsTyped, TypesOf
<1>2. ASSUME NEW r \in Results, Return(x, r)
      PROVE  TypeOK'
  BY <1>1, <1>2, ReturnTypes
<1>3. CASE Start(x)
  <2>1. FunctionsTyped' /\ TypesOf(x)'
    BY <1>3 DEF Start, Go, TypeOK, FunctionsTyped, TypesOf, inputs, planning, Points,
       Planning, Decoding, Committing
  <2> QED
    BY <1>1, <2>1
<1>4. CASE Ensure(x)
  <2>1. CASE Return(x, "unsafe")
    BY <1>2, <2>1 DEF Results
  <2>2. CASE ~Return(x, "unsafe")
    <3>1. PICK n \in 0 .. Len(Required(x)) :
             /\ missing' = [missing EXCEPT ![x] = Len(Required(x)) - n]
             /\ Go(x, IF n = Len(Required(x)) THEN "plan" ELSE "create")
             /\ UNCHANGED <<tree, inputs, index, plan, at, temp, verdict, result>>
      BY <1>4, <2>2 DEF Ensure, Fail
    <3>2. Len(Required(x)) \in Nat
      BY RequiredFacts
    <3>3. Len(Required(x)) - n \in Nat /\ (n # Len(Required(x)) =>
             Len(Required(x)) - n \in 1 .. Len(Required(x)))
      BY <3>2
    <3>4. FunctionsTyped'
      BY <3>1, <3>3 DEF Go, TypeOK, FunctionsTyped, inputs, Points, Planning
    <3>5. TypesOf(x)'
      <4>1. Required(x)' = Required(x)
        BY <3>1 DEF Required, Entry, inputs
      <4>2. missing'[x] = Len(Required(x)) - n /\ pc'[x] \in {"plan", "create"}
            /\ (pc'[x] = "create" => n # Len(Required(x)))
        BY <3>1 DEF Go, TypeOK
      <4> QED
        BY <3>1, <3>3, <4>1, <4>2 DEF TypeOK, TypesOf, inputs, Decoding, Committing
    <3> QED
      BY <1>1, <3>4, <3>5
  <2> QED
    BY <2>1, <2>2
<1>5. CASE Create(x)
  <2>1. CASE Return(x, "io")
    BY <1>2, <2>1 DEF Results
  <2>2. CASE ~Return(x, "io")
    <3>1. missing[x] \in 1 .. Len(Required(x)) /\ Len(Required(x)) \in Nat
      BY <1>5, RequiredFacts DEF Create, TypeOK
    <3>2. /\ missing' = [missing EXCEPT ![x] = missing[x] - 1]
          /\ Go(x, IF missing[x] = 1 THEN "plan" ELSE "create")
          /\ UNCHANGED <<inputs, index, plan, at, temp, verdict, result>>
      BY <1>5, <2>2 DEF Create, Fail
    <3>3. missing[x] - 1 \in Nat /\ (missing[x] # 1 => missing[x] - 1 \in 1 .. Len(Required(x)))
      BY <3>1
    <3>4. FunctionsTyped'
      BY <3>2, <3>3 DEF Go, TypeOK, FunctionsTyped, inputs, Points, Planning
    <3>5. TypesOf(x)'
      <4>1. Required(x)' = Required(x)
        BY <3>2 DEF Required, Entry, inputs
      <4>2. missing'[x] = missing[x] - 1 /\ pc'[x] \in {"plan", "create"}
            /\ (pc'[x] = "create" => missing[x] # 1)
        BY <3>2 DEF Go, TypeOK
      <4> QED
        BY <3>2, <3>3, <4>1, <4>2 DEF TypeOK, TypesOf, inputs, Decoding, Committing
    <3> QED
      BY <1>1, <3>4, <3>5
  <2> QED
    BY <2>1, <2>2
<1>6. CASE Plan(x)
  <2>1. ASSUME NEW r, Fail(x, r), r \in {"exists", "unsafe"}
        PROVE  TypeOK'
    BY <1>2, <2>1 DEF Fail, Results
  <2>2. pc[x] = "plan" /\ at[x] = 1
    BY <1>6 DEF Plan, PlanInv, PlanOK, Before, Planning
  <2>3. CASE NextEntry(x, plan[x])
    BY <1>1, <2>2, <2>3, NextEntryTypes DEF TypeOK
  <2>4. CASE NextEntry(x, Append(WithoutDuplicate(x), index[x]))
    BY <1>1, <2>2, <2>4, PlanGrows, NextEntryTypes
  <2> QED
    BY <1>6, <2>1, <2>3, <2>4 DEF Plan
<1>7. CASE OpenStream(x) \/ Write(x)
  <2>1. at[x] \in DOMAIN plan[x] /\ Planned(x) \in DOMAIN archive[x]
    BY <1>7, PlanFacts DEF OpenStream, Write, TypeOK, Decoding, Planned
  <2>2. FunctionsTyped'
    BY <1>7 DEF OpenStream, Write, SetTemp, Go, TypeOK, FunctionsTyped, inputs, planning,
       Points, Decoding
  <2>3. temp'[x] \in [DOMAIN archive[x] -> Contents]
    <3>1. \/ temp'[x] = temp[x]
          \/ \E data \in Contents : temp'[x] = [temp[x] EXCEPT ![Planned(x)] = data]
      BY <1>7 DEF OpenStream, Write, SetTemp, TypeOK, Contents
    <3>2. temp[x] \in [DOMAIN archive[x] -> Contents]
      BY DEF TypeOK
    <3> QED
      BY <3>1, <3>2
  <2>4. UNCHANGED <<archive, index, missing, plan, at>> /\ pc'[x] \in {"write", "finish", "result"}
    BY <1>7 DEF OpenStream, Write, Go, TypeOK, inputs, planning
  <2> QED
    BY <1>1, <2>1, <2>2, <2>3, <2>4 DEF TypeOK, TypesOf
<1>8. CASE SetOperationResult(x) \/ Stop(x) \/ Abort(x)
  <2>1. at[x] \in DOMAIN plan[x]
    BY <1>8 DEF SetOperationResult, Stop, Abort, TypeOK, Decoding
  <2>2. FunctionsTyped'
    BY <1>8 DEF SetOperationResult, Stop, Abort, Go, TypeOK, FunctionsTyped, inputs,
       planning, Points, Decoding
  <2>3. at'[x] = at[x] \/ (at'[x] = at[x] + 1 /\ ~LastDecoded(x))
    BY <1>8 DEF SetOperationResult, Stop, Abort, TypeOK
  <2>4. at'[x] \in DOMAIN plan[x]
    BY <2>1, <2>3, PlanFacts DEF LastDecoded
  <2>5. UNCHANGED <<archive, index, missing, plan, temp>> /\ pc'[x] \in Decoding
    BY <1>8 DEF SetOperationResult, Stop, Abort, Go, TypeOK, inputs, planning, Decoding
  <2> QED
    BY <1>1, <2>2, <2>4, <2>5 DEF TypeOK, TypesOf, Decoding
<1>9. CASE Finish(x)
  <2>1. CASE Fail(x, verdict[x]) /\ verdict[x] \in {"io", "corrupt"}
    BY <1>2, <2>1 DEF Fail, Results
  <2>2. CASE ~(Fail(x, verdict[x]) /\ verdict[x] \in {"io", "corrupt"})
    <3>1. FunctionsTyped' /\ TypesOf(x)'
      BY <1>9, <2>2 DEF Finish, Go, TypeOK, FunctionsTyped, TypesOf, inputs, planning,
         Points, Decoding, Committing
    <3> QED
      BY <1>1, <3>1
  <2> QED
    BY <2>1, <2>2
<1>10. CASE Verify(x)
  <2>1. CASE \E r \in {"missing", "corrupt"} : Return(x, r)
    BY <1>2, <2>1 DEF Results
  <2>2. CASE ~(\E r \in {"missing", "corrupt"} : Return(x, r))
    <3>1. /\ pc[x] = "verify" /\ Go(x, "look")
          /\ UNCHANGED <<tree, inputs, planning, at, temp, verdict, result>>
      BY <1>10, <2>2 DEF Verify, Fail
    <3>2. at[x] = 1 /\ plan[x] # <<>>
      BY <3>1 DEF PlanInv, PlanOK, After
    <3>3. 1 \in DOMAIN plan[x]
      BY <3>2, PlanFacts
    <3>4. FunctionsTyped' /\ TypesOf(x)'
      BY <3>1, <3>2, <3>3 DEF Go, TypeOK, FunctionsTyped, TypesOf, inputs, planning,
         Points, Committing
    <3> QED
      BY <1>1, <3>4
  <2> QED
    BY <2>1, <2>2
<1>11. CASE NextPlan(x) /\ pc[x] \in Committing
  BY <1>1, <1>11, NextPlanTypes
<1>12. CASE Look(x)
  <2>1. CASE Return(x, "unsafe") \/ Return(x, "exists")
    BY <1>2, <2>1 DEF Results
  <2>2. CASE NextPlan(x)
    BY <1>11, <1>12, <2>2 DEF Look, Committing
  <2>3. CASE ~(Return(x, "unsafe") \/ Return(x, "exists")) /\ ~NextPlan(x)
    <3>1. FunctionsTyped' /\ TypesOf(x)'
      BY <1>12, <2>3 DEF Look, Fail, Go, TypeOK, FunctionsTyped, TypesOf, inputs, planning,
         Points, Committing
    <3> QED
      BY <1>1, <3>1
  <2> QED
    BY <2>1, <2>2, <2>3
<1>13. CASE Move(x) \/ Replace(x)
  BY <1>2, <1>11, <1>13 DEF Move, Replace, Fail, Results, Committing
<1> QED
  BY <1>3, <1>4, <1>5, <1>6, <1>7, <1>8, <1>9, <1>10, <1>12, <1>13 DEF Step

--------------------------------------------------------------------------------
(* Temporary files, and what planning makes *)

LEMMA StepNoTemp ==
    ASSUME TypeOK, PlanInv, NoTempLeft, NEW x \in Extractors, Step(x) \/ Abort(x)
    PROVE  NoTempLeft'
<1> DEFINE Clean(y) == pc[y] \in {"idle", "done"} \cup Planning => temp[y] = NoTemps(y)
<1>1. ASSUME Clean(x)'
      PROVE  NoTempLeft'
  <2>1. ASSUME NEW y \in Extractors \ {x}
        PROVE  Clean(y)'
    BY Frame DEF Untouched, NoTempLeft, NoTemps
  <2> QED
    BY <1>1, <2>1 DEF NoTempLeft
<1>2. ASSUME NEW r, Return(x, r)
      PROVE  NoTempLeft'
  BY <1>1, <1>2 DEF Return, RemoveTemps, NoTemps, inputs, TypeOK
<1>3. ASSUME UNCHANGED <<archive, temp>>, pc[x] \in {"idle"} \cup Planning
      PROVE  NoTempLeft'
  BY <1>1, <1>3 DEF NoTempLeft, NoTemps
<1>4. ASSUME pc'[x] \in Decoding \cup {"verify"} \cup Committing
      PROVE  NoTempLeft'
  BY <1>1, <1>4 DEF Planning, Decoding, Committing
<1>5. CASE Start(x) \/ Ensure(x) \/ Create(x)
  BY <1>2, <1>3, <1>5 DEF Start, Ensure, Create, Fail, inputs, Planning
<1>6. CASE Plan(x)
  BY <1>2, <1>3, <1>6 DEF Plan, Fail, NextEntry, inputs, Planning
<1>7. CASE OpenStream(x) \/ Write(x) \/ SetOperationResult(x) \/ Stop(x) \/ Abort(x)
  BY <1>4, <1>7 DEF OpenStream, Write, SetOperationResult, Stop, Abort, Go, TypeOK, Decoding
<1>8. CASE Finish(x) \/ Verify(x)
  BY <1>2, <1>4, <1>8 DEF Finish, Verify, Fail, Go, TypeOK, Committing
<1>9. CASE NextPlan(x)
  BY <1>2, <1>4, <1>9 DEF NextPlan, NextToCommit, Go, TypeOK, Committing
<1>10. CASE Look(x) \/ Move(x) \/ Replace(x)
  BY <1>2, <1>4, <1>9, <1>10 DEF Look, Move, Replace, Fail, Go, TypeOK, Committing
<1> QED
  BY <1>5, <1>6, <1>7, <1>8, <1>10 DEF Step

LEMMA StepPlan ==
    ASSUME TypeOK, PlanInv, NEW x \in Extractors, Step(x) \/ Abort(x)
    PROVE  PlanInv'
<1>1. ASSUME PlanOK(x)'
      PROVE  PlanInv'
  <2>1. ASSUME NEW y \in Extractors \ {x}
        PROVE  PlanOK(y)'
    BY Frame DEF Untouched, PlanInv, PlanOK, PathOf
  <2> QED
    BY <1>1, <2>1 DEF PlanInv
<1>2. PlanOK(x)
  BY DEF PlanInv
<1>3. ASSUME NEW r, r # "none", Return(x, r)
      PROVE  PlanInv'
  <2>1. PlanOK(x)'
    BY <1>2, <1>3 DEF Return, Go, TypeOK, PlanOK, PathOf, inputs, planning, Before, After,
       Planning, Decoding, Committing
  <2> QED
    BY <1>1, <2>1
\* A step that plans nothing new.
<1>4. ASSUME UNCHANGED <<archive, policy, plan, index, result>>, pc[x] # "done", pc'[x] # "done",
             pc'[x] \in Before => pc[x] \in Before /\ UNCHANGED <<at, verdict>>,
             pc'[x] \in After => pc[x] \in After,
             pc'[x] = "verify" => at'[x] = 1,
             pc'[x] = "replace" => policy[x] = "replace"
      PROVE  PlanInv'
  <2>1. PlanOK(x)'
    BY <1>2, <1>4 DEF PlanOK, PathOf
  <2> QED
    BY <1>1, <2>1
<1> USE DEF Go, inputs, planning, Before, After, Planning, Decoding, Committing
<1>5. CASE Start(x) \/ Ensure(x) \/ Create(x)
  BY <1>3, <1>4, <1>5 DEF Start, Ensure, Create, Fail, TypeOK
<1>6. CASE Plan(x)
  <2>1. pc[x] = "plan" /\ at[x] = 1 /\ verdict[x] = "ok" /\ result[x] = "none"
    BY <1>2, <1>6 DEF Plan, PlanOK
  <2>2. ASSUME NEW s, NextEntry(x, s),
               \A k \in DOMAIN s : s[k] \in DOMAIN archive[x] /\ s[k] <= index[x]
                                   /\ archive[x][s[k]].kind = "file",
               \A j, k \in DOMAIN s : PathOf(x, s[j]) = PathOf(x, s[k]) => j = k
        PROVE  PlanInv'
    <3>1. /\ plan'[x] = s /\ UNCHANGED <<archive, policy, at, verdict>>
          /\ IF index[x] < Len(archive[x])
             THEN index'[x] = index[x] + 1 /\ pc'[x] = "ensure" /\ result'[x] = "none"
             ELSE IF s = <<>> THEN pc'[x] = "done" /\ result'[x] = "ok"
                              ELSE pc'[x] = "open" /\ result'[x] = "none"
      BY <2>1, <2>2, EntryFacts DEF NextEntry, TypeOK
    <3>2. \A k \in DOMAIN s : s[k] < index[x] + 1
      BY <2>2, EntryFacts
    <3>3. PlanOK(x)'
      <4>1. CASE index[x] < Len(archive[x])
        BY <2>1, <2>2, <3>1, <3>2, <4>1 DEF PlanOK, PathOf
      <4>2. CASE ~(index[x] < Len(archive[x])) /\ s = <<>>
        BY <2>1, <2>2, <3>1, <4>2 DEF PlanOK, PathOf
      <4>3. CASE ~(index[x] < Len(archive[x])) /\ s # <<>>
        BY <2>1, <2>2, <3>1, <4>3 DEF PlanOK, PathOf
      <4> QED
        BY <4>1, <4>2, <4>3
    <3> QED
      BY <1>1, <3>3
  <2>3. CASE NextEntry(x, plan[x])
    <3>1. \A k \in DOMAIN plan[x] : plan[x][k] \in DOMAIN archive[x] /\ plan[x][k] <= index[x]
                                    /\ archive[x][plan[x][k]].kind = "file"
      BY <1>2, <2>1, PlanFacts, EntryFacts DEF PlanOK
    <3> QED
      BY <1>2, <2>2, <2>3, <3>1 DEF PlanOK
  <2>4. CASE Entry(x).kind = "file" /\ NextEntry(x, Append(WithoutDuplicate(x), index[x]))
    <3> DEFINE s == Append(WithoutDuplicate(x), index[x])
    <3>1. /\ s \in Seq(DOMAIN archive[x])
          /\ \A j, k \in DOMAIN s : j < k => s[j] < s[k]
          /\ \A i \in DOMAIN archive[x] : (\E k \in DOMAIN s : s[k] = i)
                <=> \/ i = index[x]
                    \/ /\ PathOf(x, i) # Entry(x).path
                       /\ \E k \in DOMAIN plan[x] : plan[x][k] = i
      BY <2>1, PlanGrows
    <3>2. NextEntry(x, s)
      BY <2>4
    <3> HIDE DEF s
    <3>3. \A k \in DOMAIN s : s[k] \in DOMAIN archive[x] /\ k \in Int
      BY <3>1
    <3>4. \A k \in DOMAIN s : \/ s[k] = index[x]
                              \/ /\ PathOf(x, s[k]) # Entry(x).path
                                 /\ \E j \in DOMAIN plan[x] : plan[x][j] = s[k]
      BY <3>1, <3>3
    <3>5. \A k \in DOMAIN s : s[k] <= index[x] /\ archive[x][s[k]].kind = "file"
      BY <1>2, <2>1, <2>4, <3>4, PlanFacts, EntryFacts DEF PlanOK, Entry
    <3>6. ASSUME NEW j \in DOMAIN s, NEW k \in DOMAIN s, PathOf(x, s[j]) = PathOf(x, s[k])
          PROVE  j = k
      <4>1. PathOf(x, index[x]) = Entry(x).path
        BY DEF PathOf, Entry
      <4>2. s[j] = s[k]
        BY <1>2, <3>4, <3>6, <4>1 DEF PlanOK
      <4>3. s[j] \in Int
        BY <3>3, EntryFacts
      <4> QED
        BY <3>1, <3>3, <4>2, <4>3
    <3> QED
      BY <2>2, <3>2, <3>3, <3>5, <3>6
  <2> QED
    BY <1>3, <1>6, <2>3, <2>4 DEF Plan, Fail
<1>7. CASE OpenStream(x) \/ Write(x) \/ SetOperationResult(x) \/ Stop(x) \/ Abort(x)
  BY <1>4, <1>7 DEF OpenStream, Write, SetOperationResult, Stop, Abort, TypeOK
<1>8. CASE Finish(x)
  BY <1>3, <1>4, <1>8 DEF Finish, Fail, TypeOK
<1>9. CASE Verify(x)
  BY <1>3, <1>4, <1>9 DEF Verify, Fail, TypeOK
<1>10. CASE pc[x] \in Committing /\ NextPlan(x)
  BY <1>3, <1>4, <1>10 DEF NextPlan, NextToCommit, TypeOK
<1>11. CASE Look(x) \/ Move(x) \/ Replace(x)
  BY <1>3, <1>4, <1>10, <1>11 DEF Look, Move, Replace, Fail, TypeOK
<1> QED
  BY <1>5, <1>6, <1>7, <1>8, <1>9, <1>11 DEF Step

--------------------------------------------------------------------------------
(* Directories *)

LEMMA StaysDirectory ==
    ASSUME TypeOK, NEW x \in Extractors, Step(x) \/ Abort(x),
           NEW p \in Paths \cup {Root}, IsDirectory(p)
    PROVE  IsDirectory(p)'
BY TreeGrows DEF Grows, IsDirectory

LEMMA StepPlace ==
    ASSUME TypeOK, PlanInv, PlaceInv, NEW x \in Extractors, Step(x) \/ Abort(x)
    PROVE  PlaceInv'
<1> DEFINE Chained(y) == pc[y] = "create" => IsDirectory(Ancestor(y, Len(Required(y)) - missing[y]))
           Ensured(y) == pc[y] = "plan" => IsDirectory(Required(y))
           Placed(y) == \A k \in DOMAIN plan[y] : IsDirectory(Parent(PathOf(y, plan[y][k])))
<1>1. ASSUME NEW y \in Extractors
      PROVE  PlaceOK(y) <=> Chained(y) /\ Ensured(y) /\ Placed(y)
  BY DEF PlaceOK
<1>2. \A y \in Extractors : Chained(y) /\ Ensured(y) /\ Placed(y)
  BY <1>1 DEF PlaceInv
<1>3. \A y \in Extractors : \A k \in DOMAIN plan[y] :
         Parent(PathOf(y, plan[y][k])) \in Paths \cup {Root}
  BY PlanFacts, EntryFacts, PathFacts
<1>4. ASSUME NEW y \in Extractors, UNCHANGED <<archive[y], plan[y]>>
      PROVE  Placed(y)'
  BY <1>2, <1>3, <1>4, StaysDirectory DEF PathOf
<1>5. ASSUME NEW y \in Extractors, UNCHANGED <<archive[y], plan[y]>>,
             pc'[y] \in {"create", "plan"} => UNCHANGED <<pc[y], index[y], missing[y]>>
      PROVE  PlaceOK(y)'
  <2>1. CASE pc'[y] = "create"
    <3>1. /\ UNCHANGED <<pc[y], index[y], missing[y]>>
          /\ Required(y)' = Required(y)
      BY <1>5, <2>1 DEF Required, Entry
    <3>2. missing[y] \in 1 .. Len(Required(y))
      BY <2>1, <3>1 DEF TypeOK
    <3>3. Ancestor(y, Len(Required(y)) - missing[y]) \in Paths \cup {Root}
      <4>1. /\ Len(Required(y)) - missing[y] \in 0 .. Len(Required(y))
            /\ Len(Required(y)) - missing[y] # 0
                  => Len(Required(y)) - missing[y] \in 1 .. Len(Required(y))
        BY <3>2, RequiredFacts
      <4> QED
        BY <4>1, RequiredFacts
    <3>4. IsDirectory(Ancestor(y, Len(Required(y)) - missing[y]))'
      <4>1. IsDirectory(Ancestor(y, Len(Required(y)) - missing[y]))
        BY <1>2, <2>1, <3>1
      <4>2. Ancestor(y, Len(Required(y)) - missing[y])' = Ancestor(y, Len(Required(y)) - missing[y])
        BY <3>1 DEF Ancestor
      <4> QED
        BY <3>3, <4>1, <4>2, StaysDirectory DEF IsDirectory
    <3> QED
      BY <1>4, <1>5, <2>1, <3>4 DEF PlaceOK
  <2>2. CASE pc'[y] = "plan"
    <3>1. IsDirectory(Required(y))' /\ Required(y)' = Required(y)
      BY <1>2, <1>5, <2>2, RequiredFacts, StaysDirectory DEF Required, Entry, IsDirectory
    <3> QED
      BY <1>4, <1>5, <2>2, <3>1 DEF PlaceOK
  <2>3. CASE pc'[y] \notin {"create", "plan"}
    BY <1>4, <1>5, <2>3 DEF PlaceOK
  <2> QED
    BY <2>1, <2>2, <2>3
<1>6. ASSUME PlaceOK(x)'
      PROVE  PlaceInv'
  <2>1. ASSUME NEW y \in Extractors \ {x}
        PROVE  PlaceOK(y)'
    BY <1>5, Frame DEF Untouched
  <2> QED
    BY <1>6, <2>1 DEF PlaceInv
<1>7. ASSUME UNCHANGED <<archive, plan>>, pc'[x] \notin {"create", "plan"}
      PROVE  PlaceInv'
  BY <1>5, <1>6, <1>7
<1>8. ASSUME NEW r, Return(x, r)
      PROVE  PlaceInv'
  BY <1>7, <1>8 DEF Return, Go, inputs, planning, TypeOK
<1>9. CASE Start(x)
  BY <1>7, <1>9 DEF Start, Go, inputs, planning, TypeOK
<1>10. CASE Ensure(x)
  <2>1. CASE Return(x, "unsafe")
    BY <1>8, <2>1
  <2>2. CASE ~Return(x, "unsafe")
    <3>1. PICK n \in 0 .. Len(Required(x)) :
             /\ n > 0 => tree[Ancestor(x, n)] = Directory
             /\ missing' = [missing EXCEPT ![x] = Len(Required(x)) - n]
             /\ Go(x, IF n = Len(Required(x)) THEN "plan" ELSE "create")
             /\ UNCHANGED <<tree, inputs, index, plan, at, temp, verdict, result>>
      BY <1>10, <2>2 DEF Ensure, Fail, Safe
    <3>2. Required(x)' = Required(x) /\ Placed(x)'
      BY <1>4, <3>1 DEF Required, Entry, inputs
    <3>3. missing'[x] = Len(Required(x)) - n /\ n \in Nat /\ Len(Required(x)) \in Nat
      BY <3>1, RequiredFacts DEF TypeOK
    <3>4. IsDirectory(Ancestor(x, n))
      BY <3>1, <3>3, RequiredFacts DEF IsDirectory
    <3>5. Ancestor(x, n)' = Ancestor(x, n) /\ IsDirectory(Ancestor(x, n))'
      BY <3>1, <3>2, <3>4 DEF Ancestor, IsDirectory
    <3>6. CASE n = Len(Required(x))
      <4>1. pc'[x] = "plan" /\ IsDirectory(Required(x))'
        BY <3>1, <3>2, <3>5, <3>6, RequiredFacts DEF Go, TypeOK, IsDirectory
      <4> QED
        BY <1>6, <3>2, <4>1 DEF PlaceOK
    <3>7. CASE n # Len(Required(x))
      <4>1. pc'[x] = "create" /\ Len(Required(x)) - missing'[x] = n
        BY <3>1, <3>3, <3>7 DEF Go, TypeOK
      <4>2. (Ancestor(x, Len(Required(x)) - missing[x]))' = Ancestor(x, n)
        BY <3>2, <4>1 DEF Ancestor
      <4> QED
        BY <1>6, <3>2, <3>5, <4>1, <4>2 DEF PlaceOK, IsDirectory
    <3> QED
      BY <3>6, <3>7
  <2> QED
    BY <2>1, <2>2
<1>11. CASE Create(x)
  <2>1. CASE Return(x, "io")
    BY <1>8, <2>1
  <2>2. CASE ~Return(x, "io")
    <3> DEFINE n == Len(Required(x)) - missing[x] + 1
    <3>1. /\ tree' = [tree EXCEPT ![Ancestor(x, n)] = Directory]
          /\ missing' = [missing EXCEPT ![x] = missing[x] - 1]
          /\ Go(x, IF missing[x] = 1 THEN "plan" ELSE "create")
          /\ UNCHANGED <<inputs, index, plan, at, temp, verdict, result>>
      BY <1>11, <2>2 DEF Create, Fail
    <3>2. missing[x] \in 1 .. Len(Required(x)) /\ Len(Required(x)) \in Nat
      BY <1>11, RequiredFacts DEF Create, TypeOK
    <3>3. n \in 1 .. Len(Required(x)) /\ Len(Required(x)) - (missing[x] - 1) = n
          /\ (missing[x] = 1 => n = Len(Required(x)))
      BY <3>2
    <3>4. Required(x)' = Required(x) /\ missing'[x] = missing[x] - 1 /\ Placed(x)'
      BY <1>4, <3>1 DEF Required, Entry, inputs, TypeOK
    <3>5. tree'[Ancestor(x, n)] = Directory
      BY <3>1, <3>3, RequiredFacts DEF TypeOK
    <3> HIDE DEF n
    <3>6. CASE missing[x] = 1
      <4>1. pc'[x] = "plan" /\ IsDirectory(Required(x))'
        BY <3>1, <3>3, <3>4, <3>5, <3>6, RequiredFacts DEF Go, TypeOK, IsDirectory
      <4> QED
        BY <1>6, <3>4, <4>1 DEF PlaceOK
    <3>7. CASE missing[x] # 1
      <4>1. pc'[x] = "create"
        BY <3>1, <3>7 DEF Go, TypeOK
      <4>2. (Ancestor(x, Len(Required(x)) - missing[x]))' = Ancestor(x, n)
        BY <3>3, <3>4 DEF Ancestor
      <4> QED
        BY <1>6, <3>4, <3>5, <4>1, <4>2 DEF PlaceOK, IsDirectory
    <3> QED
      BY <3>6, <3>7
  <2> QED
    BY <2>1, <2>2
<1>12. CASE Plan(x)
  <2>1. pc[x] = "plan"
    BY <1>12 DEF Plan
  <2>2. ASSUME NEW s, NextEntry(x, s)
        PROVE  UNCHANGED tree /\ archive' = archive /\ plan'[x] = s /\ pc'[x] \notin {"create", "plan"}
    BY <2>2 DEF NextEntry, Go, inputs, TypeOK
  <2>3. CASE NextEntry(x, plan[x])
    BY <1>5, <1>6, <2>2, <2>3
  <2>4. CASE Entry(x).kind = "file" /\ NextEntry(x, Append(WithoutDuplicate(x), index[x]))
    <3> DEFINE s == Append(WithoutDuplicate(x), index[x])
    <3>1. s \in Seq(DOMAIN archive[x])
      BY <2>1, PlanGrows
    <3>2. \A i \in DOMAIN archive[x] : (\E k \in DOMAIN s : s[k] = i)
             <=> \/ i = index[x]
                 \/ PathOf(x, i) # Entry(x).path /\ \E k \in DOMAIN plan[x] : plan[x][k] = i
      BY <2>1, PlanGrows
    <3>3. NextEntry(x, s)
      BY <2>4
    <3> HIDE DEF s
    <3>4. \A k \in DOMAIN s : s[k] \in DOMAIN archive[x]
      BY <3>1
    <3>5. IsDirectory(Parent(PathOf(x, index[x])))
      BY <1>2, <2>1, <2>4 DEF Required, Entry, PathOf
    <3>6. \A k \in DOMAIN s : IsDirectory(Parent(PathOf(x, s[k])))
      BY <1>2, <3>2, <3>4, <3>5
    <3>7. Placed(x)'
      BY <2>2, <3>3, <3>6 DEF PathOf, IsDirectory
    <3> QED
      BY <1>6, <2>2, <3>3, <3>7 DEF PlaceOK
  <2> QED
    BY <1>8, <1>12, <2>3, <2>4 DEF Plan, Fail
<1>13. CASE OpenStream(x) \/ Write(x) \/ SetOperationResult(x) \/ Stop(x) \/ Abort(x)
  BY <1>7, <1>13 DEF OpenStream, Write, SetOperationResult, Stop, Abort, Go, TypeOK,
     Decoding, inputs, planning
<1>14. CASE Finish(x) \/ Verify(x)
  BY <1>7, <1>8, <1>14 DEF Finish, Verify, Fail, Go, TypeOK, inputs, planning
<1>15. CASE NextPlan(x)
  BY <1>7, <1>8, <1>15 DEF NextPlan, NextToCommit, Go, TypeOK, inputs, planning
<1>16. CASE Look(x) \/ Move(x) \/ Replace(x)
  BY <1>7, <1>8, <1>15, <1>16 DEF Look, Move, Replace, Fail, Go, TypeOK, inputs, planning
<1> QED
  BY <1>9, <1>10, <1>11, <1>12, <1>13, <1>14, <1>16 DEF Step

\* What a commit puts in place: a file of a planned entry, with its full size,
\* in a directory.
LEMMA PublishFacts ==
    ASSUME TypeOK, PlanInv, PlaceInv, DecodedInv, NEW x \in Extractors, Publishes(x)
    PROVE  LET file == File(x, Planned(x), temp[x][Planned(x)])
           IN /\ at[x] \in DOMAIN plan[x] /\ Planned(x) \in DOMAIN archive[x]
              /\ Planned(x) \in Indexes
              /\ Final(x) \in Paths /\ IsDirectory(Parent(Final(x)))
              /\ HasSize(temp[x][Planned(x)]) /\ verdict[x] \in {"ok", "abort"}
              /\ temp[x][Planned(x)] = "damaged" => verdict[x] = "abort"
              /\ tree' = [tree EXCEPT ![Final(x)] = file]
              /\ tree[Final(x)] # Directory
              /\ tree[Final(x)] # Absent => policy[x] = "replace" /\ tree[Final(x)].kind = "file"
<1>1. pc[x] \in Committing /\ at[x] \in DOMAIN plan[x]
  BY DEF Publishes, Committing, TypeOK
<1>2. Planned(x) \in DOMAIN archive[x] /\ Final(x) \in Paths /\ Planned(x) \in Indexes
  BY <1>1, PlanFacts, EntryFacts DEF Planned, Final
<1>3. IsDirectory(Parent(Final(x)))
  BY <1>1 DEF PlaceInv, PlaceOK, Final, Planned
<1>4. HasSize(temp[x][Planned(x)]) /\ verdict[x] \in {"ok", "abort"}
  <2>1. at[x] >= at[x]
    BY <1>1, PlanFacts
  <2> QED
    BY <1>1, <2>1 DEF DecodedInv, DecodedOK, Planned
<1>5. temp[x][Planned(x)] = "damaged" => verdict[x] = "abort"
  BY <1>1, <1>2 DEF DecodedInv, DecodedOK, Committing
<1>6. /\ tree[Final(x)] # Directory
      /\ tree[Final(x)] # Absent => policy[x] = "replace" /\ tree[Final(x)].kind = "file"
  BY NodeFacts DEF Publishes, PlanInv, PlanOK
<1> QED
  BY <1>1, <1>2, <1>3, <1>4, <1>5, <1>6 DEF Publishes, Publish

LEMMA StepTree ==
    ASSUME TypeOK, PlanInv, PlaceInv, DecodedInv, TreeInv,
           NEW x \in Extractors, Step(x) \/ Abort(x)
    PROVE  TreeInv'
<1>1. ASSUME NEW p \in Paths, IsDirectory(Parent(p))
      PROVE  IsDirectory(Parent(p))'
  BY <1>1, PathFacts, StaysDirectory
<1>2. CASE UNCHANGED tree
  BY <1>1, <1>2 DEF TreeInv
<1>3. CASE MakesDirectory(x)
  <2> DEFINE n == Len(Required(x)) - missing[x] + 1
  <2>1. n \in 1 .. Len(Required(x)) /\ n - 1 = Len(Required(x)) - missing[x]
        /\ tree' = [tree EXCEPT ![Ancestor(x, n)] = Directory]
    BY <1>3, RequiredFacts DEF MakesDirectory, TypeOK
  <2>2. IsDirectory(Parent(Ancestor(x, n))) /\ Ancestor(x, n) \in Paths
    BY <1>3, <2>1, RequiredFacts DEF MakesDirectory, PlaceInv, PlaceOK
  <2> HIDE DEF n
  <2> QED
    BY <1>1, <2>1, <2>2 DEF TreeInv, TypeOK
<1>4. CASE Publishes(x)
  BY <1>1, <1>4, PublishFacts DEF TreeInv, TypeOK
<1> QED
  BY <1>2, <1>3, <1>4, TreeMoves

--------------------------------------------------------------------------------
(* What planning has dealt with *)

Covered(x, j) == tree[PathOf(x, j)] # Absent \/ Reserved(x, PathOf(x, j))
Winner(x, i, S) == \A j \in S \cap Same(x, i) :
                      IF policy[x] = "replace" THEN j <= i ELSE j >= i
Committed(x) == \A k \in DOMAIN plan[x] : k < at[x] => tree[PathOf(x, plan[x][k])] # Absent

LEMMA SeenOKParts ==
    ASSUME NEW x \in Extractors
    PROVE  SeenOK(x) <=> (pc[x] # "done" =>
              /\ \A j \in Seen(x) : Covered(x, j)
              /\ \A k \in DOMAIN plan[x] : Winner(x, plan[x][k], Seen(x))
              /\ pc[x] \in Committing => Committed(x))
BY DEF SeenOK, Covered, Winner, Committed

\* What planning makes of the entry at hand.
LEMMA NextEntrySeen ==
    ASSUME TypeOK, PlanInv, SeenInv, NEW x \in Extractors, pc[x] = "plan",
           NEW s \in Seq(DOMAIN archive[x]), NextEntry(x, s),
           \A j \in Seen(x) \cup {index[x]} :
              tree[PathOf(x, j)] # Absent \/ \E k \in DOMAIN s : PathOf(x, s[k]) = PathOf(x, j),
           \A k \in DOMAIN s : Winner(x, s[k], Seen(x) \cup {index[x]})
    PROVE  /\ SeenOK(x)'
           /\ result'[x] = "ok" => \A i \in DOMAIN archive[x] : tree[PathOf(x, i)] # Absent
<1>1. UNCHANGED <<tree, archive, policy>> /\ plan'[x] = s
  BY DEF NextEntry, TypeOK, inputs
<1>2. Seen(x) = {j \in DOMAIN archive[x] : j < index[x]}
  BY DEF Seen, Before, Planning
<1>3. result[x] = "none"
  BY DEF PlanInv, PlanOK
<1>4. CASE index[x] < Len(archive[x])
  <2>1. pc'[x] = "ensure" /\ index'[x] = index[x] + 1 /\ result'[x] = "none"
    BY <1>3, <1>4 DEF NextEntry, Go, TypeOK
  <2>2. Seen(x)' = Seen(x) \cup {index[x]}
    BY <1>1, <1>2, <2>1, EntryFacts DEF Seen, Before, Planning
  <2>3. /\ (\A j \in Seen(x) : Covered(x, j))'
        /\ (\A k \in DOMAIN plan[x] : Winner(x, plan[x][k], Seen(x)))'
    BY <1>1, <2>2 DEF Covered, Reserved, Winner, PathOf, Same
  <2>4. SeenOK(x)'
    BY <1>1, <2>1, <2>3 DEF SeenOK, Covered, Winner, Committing
  <2> QED
    BY <2>1, <2>4
<1>5. CASE ~(index[x] < Len(archive[x]))
  <2>1. Seen(x) \cup {index[x]} = DOMAIN archive[x]
    BY <1>2, <1>5, EntryFacts
  <2>2. CASE s = <<>>
    <3>1. pc'[x] = "done" /\ DOMAIN s = {}
      BY <1>5, <2>2 DEF NextEntry, Go, TypeOK
    <3> QED
      BY <2>1, <3>1 DEF SeenOK
  <2>3. CASE s # <<>>
    <3>1. pc'[x] = "open" /\ result'[x] = "none"
      BY <1>3, <1>5, <2>3 DEF NextEntry, Go, TypeOK
    <3>2. Seen(x)' = DOMAIN archive[x]
      BY <1>1, <3>1 DEF Seen, Before, Planning
    <3>3. /\ (\A j \in Seen(x) : Covered(x, j))'
          /\ (\A k \in DOMAIN plan[x] : Winner(x, plan[x][k], Seen(x)))'
      BY <1>1, <2>1, <3>2 DEF Covered, Reserved, Winner, PathOf, Same
    <3>4. SeenOK(x)'
      BY <1>1, <3>1, <3>3 DEF SeenOK, Covered, Winner, Committing
    <3> QED
      BY <3>1, <3>4
  <2> QED
    BY <2>2, <2>3
<1> QED
  BY <1>4, <1>5

\* What was covered stays covered, of whomever the step is.
LEMMA SeenKept ==
    ASSUME TypeOK, SeenInv, Grows, NEW y \in Extractors, pc[y] # "done",
           UNCHANGED <<archive[y], policy[y], plan[y]>>, Seen(y)' \subseteq Seen(y),
           pc'[y] \in Committing =>
              \A k \in DOMAIN plan[y] : k < at'[y] =>
                 \/ pc[y] \in Committing /\ k < at[y]
                 \/ tree'[PathOf(y, plan[y][k])] # Absent
    PROVE  SeenOK(y)'
<1>1. /\ \A j \in Seen(y) : Covered(y, j)
      /\ \A k \in DOMAIN plan[y] : Winner(y, plan[y][k], Seen(y))
      /\ pc[y] \in Committing => Committed(y)
  BY SeenOKParts DEF SeenInv
<1>2. (\A j \in Seen(y) : Covered(y, j))'
  BY <1>1, EntryFacts DEF Covered, Reserved, PathOf, Grows, Seen
<1>3. (\A k \in DOMAIN plan[y] : Winner(y, plan[y][k], Seen(y)))'
  BY <1>1 DEF Winner, Same, PathOf
<1>4. (pc[y] \in Committing => Committed(y))'
  BY <1>1, PlanFacts, EntryFacts DEF Committed, Grows, PathOf
<1> QED
  BY <1>2, <1>3, <1>4 DEF SeenOK, Covered, Winner, Committed

LEMMA StepSeen ==
    ASSUME TypeOK, PlanInv, SeenInv, PlaceInv, DecodedInv, OkMeansPresent,
           NEW x \in Extractors, Step(x) \/ Abort(x)
    PROVE  SeenInv' /\ OkMeansPresent'
<1>0. Grows
  BY TreeGrows
<1>1. ASSUME SeenOK(x)',
             result'[x] = "ok" => \A i \in DOMAIN archive[x] : tree'[PathOf(x, i)] # Absent
      PROVE  SeenInv' /\ OkMeansPresent'
  <2>1. UNCHANGED archive
    BY Frame DEF inputs
  <2>2. ASSUME NEW y \in Extractors \ {x}
        PROVE  SeenOK(y)' /\ UNCHANGED result[y]
    <3>1. Untouched(y)
      BY Frame
    <3>2. Seen(y)' = Seen(y)
      BY <3>1 DEF Untouched, Seen
    <3>3. CASE pc[y] # "done"
      BY <1>0, <3>1, <3>2, <3>3, SeenKept DEF Untouched
    <3>4. CASE pc[y] = "done"
      BY <3>1, <3>4 DEF Untouched, SeenOK
    <3> QED
      BY <3>1, <3>3, <3>4 DEF Untouched
  <2>3. SeenInv'
    BY <1>1, <2>2 DEF SeenInv
  <2>4. OkMeansPresent'
    BY <1>0, <1>1, <2>1, <2>2, EntryFacts DEF OkMeansPresent, Grows, PathOf
  <2> QED
    BY <2>3, <2>4
<1>2. ASSUME NEW r, r # "ok", Return(x, r)
      PROVE  SeenInv' /\ OkMeansPresent'
  BY <1>1, <1>2 DEF Return, Go, SeenOK, TypeOK
\* A step that plans nothing, and commits nothing.
<1>3. ASSUME pc[x] # "done", UNCHANGED <<inputs, plan, result>>,
             pc'[x] \in Before <=> pc[x] \in Before, pc'[x] \in Before => UNCHANGED index,
             pc'[x] \in Committing => \/ pc[x] \in Committing /\ UNCHANGED at
                                      \/ at'[x] = 1
      PROVE  SeenInv' /\ OkMeansPresent'
  <2>1. result'[x] # "ok"
    BY <1>3 DEF PlanInv, PlanOK
  <2>2. Seen(x)' \subseteq Seen(x)
    BY <1>3, EntryFacts DEF Seen, inputs
  <2>3. \A k \in DOMAIN plan[x] : ~(k < 1)
    BY PlanFacts
  <2>4. SeenOK(x)'
    BY <1>0, <1>3, <2>2, <2>3, SeenKept DEF inputs
  <2> QED
    BY <1>1, <2>1, <2>4
<1>4. CASE Start(x) \/ Ensure(x) \/ Create(x)
  BY <1>2, <1>3, <1>4 DEF Start, Ensure, Create, Fail, Go, TypeOK, planning, Before,
     Planning, Committing
<1>5. CASE Plan(x)
  <2>1. pc[x] = "plan" /\ plan[x] \in Seq(DOMAIN archive[x]) /\ index[x] \in DOMAIN archive[x]
    BY <1>5, EntryFacts DEF Plan, TypeOK
  <2>2. /\ \A j \in Seen(x) : Covered(x, j)
        /\ \A k \in DOMAIN plan[x] : Winner(x, plan[x][k], Seen(x))
    BY <2>1, SeenOKParts DEF SeenInv
  <2>3. /\ Seen(x) = {j \in DOMAIN archive[x] : j < index[x]}
        /\ \A k \in DOMAIN plan[x] : plan[x][k] < index[x] /\ plan[x][k] \in Int
        /\ index[x] \in Int
    BY <2>1, PlanFacts, EntryFacts DEF Seen, PlanInv, PlanOK, Before, Planning
  <2>4. ASSUME NEW s \in Seq(DOMAIN archive[x]), NextEntry(x, s),
               \A j \in Seen(x) \cup {index[x]} :
                  tree[PathOf(x, j)] # Absent
                  \/ \E k \in DOMAIN s : PathOf(x, s[k]) = PathOf(x, j),
               \A k \in DOMAIN s : Winner(x, s[k], Seen(x) \cup {index[x]})
        PROVE  SeenInv' /\ OkMeansPresent'
    <3>1. /\ SeenOK(x)'
          /\ result'[x] = "ok" => \A i \in DOMAIN archive[x] : tree[PathOf(x, i)] # Absent
      BY <2>1, <2>4, NextEntrySeen
    <3>2. UNCHANGED tree
      BY <2>4 DEF NextEntry
    <3> QED
      BY <1>1, <3>1, <3>2
  <2>5. PathOf(x, index[x]) = Entry(x).path /\ Entry(x) = archive[x][index[x]]
    BY DEF PathOf, Entry
  \* The plans stay as they are.
  <2>6. ASSUME NextEntry(x, plan[x]), Covered(x, index[x]),
               \A k \in DOMAIN plan[x] : index[x] \in Same(x, plan[x][k]) => policy[x] # "replace"
        PROVE  SeenInv' /\ OkMeansPresent'
    <3>1. \A k \in DOMAIN plan[x] : Winner(x, plan[x][k], Seen(x) \cup {index[x]})
      BY <2>2, <2>3, <2>6 DEF Winner
    <3>2. \A j \in Seen(x) \cup {index[x]} :
             tree[PathOf(x, j)] # Absent
             \/ \E k \in DOMAIN plan[x] : PathOf(x, plan[x][k]) = PathOf(x, j)
      BY <2>2, <2>6 DEF Covered, Reserved
    <3> QED
      BY <2>1, <2>4, <2>6, <3>1, <3>2
  <2>7. CASE Entry(x).kind = "directory" /\ NextEntry(x, plan[x])
    <3>1. tree[Entry(x).path] = Directory
      <4>1. Entry(x).path \in Paths
        BY <2>5, EntryFacts
      <4> QED
        BY <2>1, <2>7, <4>1, PathFacts DEF PlaceInv, PlaceOK, IsDirectory, Required
    <3>2. Covered(x, index[x])
      BY <2>5, <3>1, NodeFacts DEF Covered
    <3>3. \A i : index[x] \notin Same(x, i)
      BY <2>5, <2>7 DEF Same
    <3> QED
      BY <2>6, <2>7, <3>2, <3>3
  <2>8. CASE Duplicate(x) /\ policy[x] = "skip" /\ NextEntry(x, plan[x])
    <3>1. Covered(x, index[x])
      BY <2>5, <2>8 DEF Covered, Reserved, Duplicate
    <3> QED
      BY <2>6, <2>8, <3>1
  <2>9. CASE ~Duplicate(x) /\ InTheWay(x).kind = "file" /\ NextEntry(x, plan[x])
    <3>1. Covered(x, index[x])
      BY <2>5, <2>9, NodeFacts DEF Covered, InTheWay
    <3>2. \A k \in DOMAIN plan[x] : index[x] \notin Same(x, plan[x][k])
      BY <2>5, <2>9 DEF Same, Duplicate
    <3> QED
      BY <2>6, <2>9, <3>1, <3>2
  <2>10. CASE /\ Entry(x).kind = "file"
              /\ Duplicate(x) => policy[x] = "replace"
              /\ InTheWay(x) = Absent \/ policy[x] = "replace"
              /\ NextEntry(x, Append(WithoutDuplicate(x), index[x]))
    <3> DEFINE s == Append(WithoutDuplicate(x), index[x])
    <3>1. s \in Seq(DOMAIN archive[x])
      BY <2>1, PlanGrows
    <3>2. \A i \in DOMAIN archive[x] : (\E k \in DOMAIN s : s[k] = i)
             <=> \/ i = index[x]
                 \/ PathOf(x, i) # Entry(x).path /\ \E k \in DOMAIN plan[x] : plan[x][k] = i
      BY <2>1, PlanGrows
    <3>3. NextEntry(x, s)
      BY <2>10
    <3> HIDE DEF s
    <3>4. \A k \in DOMAIN s : s[k] \in DOMAIN archive[x]
      BY <3>1
    <3>5. ASSUME NEW j \in Seen(x) \cup {index[x]}
          PROVE  tree[PathOf(x, j)] # Absent
                 \/ \E k \in DOMAIN s : PathOf(x, s[k]) = PathOf(x, j)
      <4>1. CASE PathOf(x, j) = Entry(x).path
        BY <2>1, <2>5, <3>2, <4>1
      <4>2. CASE PathOf(x, j) # Entry(x).path
        <5>1. Covered(x, j)
          BY <2>2, <2>5, <3>5, <4>2
        <5>2. \A k \in DOMAIN plan[x] : plan[x][k] \in DOMAIN archive[x]
          BY PlanFacts
        <5> QED
          BY <3>2, <4>2, <5>1, <5>2 DEF Covered, Reserved
      <4> QED
        BY <4>1, <4>2
    <3>6. ASSUME NEW k \in DOMAIN s
          PROVE  Winner(x, s[k], Seen(x) \cup {index[x]})
      <4>1. CASE s[k] = index[x]
        <5>1. ASSUME NEW j \in Seen(x), j \in Same(x, index[x]), policy[x] # "replace"
              PROVE  FALSE
          <6>1. PathOf(x, j) = Entry(x).path
            BY <2>5, <5>1 DEF Same
          <6>2. Covered(x, j) /\ ~Duplicate(x) /\ InTheWay(x) = Absent
            BY <2>2, <2>10, <5>1
          <6> QED
            BY <6>1, <6>2 DEF Covered, Reserved, Duplicate, InTheWay
        <5>2. \A j \in Seen(x) \cup {index[x]} : j \in Int /\ j <= index[x]
          BY <2>3, EntryFacts
        <5>3. ASSUME NEW j \in Seen(x) \cup {index[x]}, j \in Same(x, index[x]), policy[x] # "replace"
              PROVE  j = index[x]
          BY <5>1, <5>3
        <5>4. Winner(x, index[x], Seen(x) \cup {index[x]})
          BY <2>3, <5>2, <5>3 DEF Winner
        <5> QED
          BY <4>1, <5>4
      <4>2. CASE s[k] # index[x]
        <5>1. PathOf(x, s[k]) # Entry(x).path /\ \E e \in DOMAIN plan[x] : plan[x][e] = s[k]
          BY <3>2, <3>4, <4>2
        <5>2. index[x] \notin Same(x, s[k])
          BY <2>5, <5>1 DEF Same
        <5>3. Winner(x, s[k], Seen(x))
          BY <2>2, <5>1
        <5> QED
          BY <5>2, <5>3 DEF Winner
      <4> QED
        BY <4>1, <4>2
    <3> QED
      BY <2>4, <3>1, <3>3, <3>5, <3>6
  <2>11. ASSUME NEW r \in {"exists", "unsafe"}, Fail(x, r)
         PROVE  SeenInv' /\ OkMeansPresent'
    BY <1>2, <2>11 DEF Fail
  <2> QED
    BY <1>5, <2>7, <2>8, <2>9, <2>10, <2>11 DEF Plan
<1>6. CASE OpenStream(x) \/ Write(x) \/ SetOperationResult(x) \/ Stop(x) \/ Abort(x)
  BY <1>3, <1>6 DEF OpenStream, Write, SetOperationResult, Stop, Abort, Go, TypeOK,
     Before, Planning, Decoding, Committing, planning
<1>7. CASE Finish(x)
  BY <1>2, <1>3, <1>7 DEF Finish, Fail, Go, TypeOK, Before, Planning, Committing, planning
<1>8. CASE Verify(x)
  <2>1. pc[x] = "verify" => at[x] = 1
    BY DEF PlanInv, PlanOK
  <2> QED
    BY <1>2, <1>3, <1>8, <2>1 DEF Verify, Fail, Go, TypeOK, Before, Planning, Committing, planning
<1>9. ASSUME NextPlan(x), pc[x] \in Committing, tree'[Final(x)] # Absent
      PROVE  SeenInv' /\ OkMeansPresent'
  <2>1. at[x] \in DOMAIN plan[x] /\ at[x] \in Int /\ DOMAIN plan[x] \subseteq Int
    BY <1>9, PlanFacts DEF TypeOK
  <2>2. \A k \in DOMAIN plan[x] : k < at[x] + 1 =>
           k < at[x] \/ tree'[PathOf(x, plan[x][k])] # Absent
    BY <1>9, <2>1 DEF Final, Planned
  <2>3. CASE LastCommitted(x)
    <3>1. Return(x, "ok")
      BY <1>9, <2>3 DEF NextPlan
    <3>2. /\ Committed(x)
          /\ \A j \in DOMAIN archive[x] : Covered(x, j)
      BY <1>9, SeenOKParts DEF SeenInv, Committing, Seen, Before, Planning
    <3>3. \A k \in DOMAIN plan[x] : tree'[PathOf(x, plan[x][k])] # Absent
      <4>1. \A k \in DOMAIN plan[x] : k < at[x] + 1
        BY <2>3, PlanFacts DEF LastCommitted
      <4> QED
        BY <1>0, <2>2, <3>2, <4>1, PlanFacts, EntryFacts DEF Committed, Grows
    <3>4. \A i \in DOMAIN archive[x] : tree'[PathOf(x, i)] # Absent
      BY <1>0, <3>2, <3>3, EntryFacts DEF Covered, Reserved, Grows
    <3>5. SeenOK(x)'
      BY <3>1 DEF Return, Go, SeenOK, TypeOK
    <3> QED
      BY <1>1, <3>4, <3>5
  <2>4. CASE ~LastCommitted(x)
    <3>1. /\ pc[x] # "done" /\ UNCHANGED <<inputs, plan, result>>
          /\ pc'[x] = "look" /\ at'[x] = at[x] + 1
      BY <1>9, <2>4 DEF NextPlan, NextToCommit, Go, TypeOK, Committing, planning
    <3>2. Seen(x)' \subseteq Seen(x)
      BY <1>9, <3>1 DEF Seen, Before, Planning, Committing, inputs
    <3>3. SeenOK(x)'
      BY <1>0, <1>9, <2>2, <3>1, <3>2, SeenKept DEF inputs
    <3>4. result'[x] # "ok"
      BY <1>9, <3>1 DEF PlanInv, PlanOK
    <3> QED
      BY <1>1, <3>3, <3>4
  <2> QED
    BY <2>3, <2>4
<1>10. CASE Look(x)
  <2>1. CASE NextPlan(x) /\ tree[Final(x)].kind \in {"file", "directory"} /\ UNCHANGED tree
    BY <1>9, <1>10, <2>1 DEF Look, Committing, Absent
  <2>2. CASE ~(NextPlan(x) /\ tree[Final(x)].kind \in {"file", "directory"} /\ UNCHANGED tree)
    BY <1>2, <1>3, <1>10, <2>2 DEF Look, Fail, Go, TypeOK, Before, Planning, Committing, planning
  <2> QED
    BY <2>1, <2>2
<1>11. CASE Move(x) \/ Replace(x)
  <2>1. CASE Return(x, "io")
    BY <1>2, <2>1
  <2>2. CASE NextPlan(x) /\ Publish(x)
    <3>1. at[x] \in DOMAIN plan[x] /\ pc[x] \in Committing
      BY <1>11 DEF Move, Replace, Committing, TypeOK
    <3>2. Final(x) \in Paths
      BY <3>1, PlanFacts, EntryFacts DEF Final, Planned
    <3>3. tree'[Final(x)] # Absent
      BY <2>2, <3>2, NodeFacts DEF Publish, TypeOK
    <3> QED
      BY <1>9, <2>2, <3>1, <3>3
  <2> QED
    BY <1>11, <2>1, <2>2 DEF Move, Replace, Fail
<1> QED
  BY <1>4, <1>5, <1>6, <1>7, <1>8, <1>10, <1>11 DEF Step

--------------------------------------------------------------------------------
(* What the decoder has been through *)

\* A step that writes to the temporary file of one entry leaves those of the
\* other plans alone.
LEMMA SetTempFacts ==
    ASSUME TypeOK, NEW x \in Extractors, at[x] \in DOMAIN plan[x], NEW data, SetTemp(x, data)
    PROVE  /\ Planned(x) \in DOMAIN archive[x]
           /\ temp'[x][Planned(x)] = data
           /\ \A i \in DOMAIN archive[x] : i # Planned(x) => temp'[x][i] = temp[x][i]
           /\ \A k \in DOMAIN plan[x] : k # at[x] =>
                 plan[x][k] # Planned(x) /\ temp'[x][plan[x][k]] = temp[x][plan[x][k]]
<1>1. temp[x] \in [DOMAIN archive[x] -> Contents] /\ DOMAIN temp = Extractors
  BY DEF TypeOK
<1>2. Planned(x) \in DOMAIN archive[x]
  BY PlanFacts DEF Planned
<1>3. temp'[x] = [temp[x] EXCEPT ![Planned(x)] = data]
  BY <1>1 DEF SetTemp
<1>4. \A k \in DOMAIN plan[x] : k # at[x] => plan[x][k] # Planned(x) /\ plan[x][k] \in DOMAIN archive[x]
  BY PlanFacts DEF Planned
<1> QED
  BY <1>1, <1>2, <1>3, <1>4

LEMMA StepDecoded ==
    ASSUME TypeOK, NoTempLeft, PlanInv, DecodedInv, NEW x \in Extractors, Step(x) \/ Abort(x)
    PROVE  DecodedInv'
<1>1. ASSUME DecodedOK(x)'
      PROVE  DecodedInv'
  <2>1. ASSUME NEW y \in Extractors \ {x}
        PROVE  DecodedOK(y)'
    BY Frame DEF Untouched, DecodedInv, DecodedOK, Planned
  <2> QED
    BY <1>1, <2>1 DEF DecodedInv
<1>2. DecodedOK(x)
  BY DEF DecodedInv
<1> USE DEF Go, inputs, planning
<1>3. ASSUME UNCHANGED <<archive, verdict>>, temp'[x] = NoTemps(x), pc'[x] = "done"
      PROVE  DecodedInv'
  <2>1. DecodedOK(x)'
    BY <1>2, <1>3 DEF DecodedOK, NoTemps, Committing
  <2> QED
    BY <1>1, <2>1
<1>4. ASSUME NEW r, Return(x, r)
      PROVE  DecodedInv'
  BY <1>3, <1>4 DEF Return, RemoveTemps, TypeOK
\* A step of planning: there is nothing to decode yet.
<1>5. ASSUME pc[x] \in Before, UNCHANGED <<archive, at, temp, verdict>>,
             pc'[x] \in Before \cup {"done", "open"}, plan'[x] \in Seq(DOMAIN archive[x])
      PROVE  DecodedInv'
  <2>1. temp[x] = NoTemps(x) /\ verdict[x] = "ok" /\ at[x] = 1
    BY <1>5 DEF NoTempLeft, PlanInv, PlanOK, Before
  <2>2. \A k \in DOMAIN plan'[x] : ~(k < 1)
    BY <1>5
  <2>3. DecodedOK(x)'
    BY <1>5, <2>1, <2>2 DEF DecodedOK, NoTemps, Before, Planning, Committing
  <2> QED
    BY <1>1, <2>3
<1>6. CASE Start(x) \/ Ensure(x) \/ Create(x)
  BY <1>4, <1>5, <1>6 DEF Start, Ensure, Create, Fail, TypeOK, Before, Planning
<1>7. CASE Plan(x)
  <2>1. ASSUME NEW s \in Seq(DOMAIN archive[x]), NextEntry(x, s)
        PROVE  DecodedInv'
    BY <1>5, <1>7, <2>1 DEF NextEntry, Plan, TypeOK, Before, Planning
  <2>2. Append(WithoutDuplicate(x), index[x]) \in Seq(DOMAIN archive[x])
    BY <1>7, PlanGrows DEF Plan
  <2> QED
    BY <1>4, <1>7, <2>1, <2>2 DEF Plan, Fail, TypeOK
<1>8. CASE OpenStream(x)
  <2>1. at[x] \in DOMAIN plan[x] /\ pc[x] = "open" /\ verdict[x] = "ok"
    BY <1>8 DEF OpenStream, TypeOK, Decoding
  <2>2. \A i \in DOMAIN archive[x] : temp[x][i] # "damaged"
    BY <1>2, <2>1 DEF DecodedOK
  <2>3. CASE SetTemp(x, "short") /\ pc'[x] = "write" /\ UNCHANGED verdict
    <3>1. DecodedOK(x)'
      <4>1. \A k \in DOMAIN plan[x] : k < at[x] => temp'[x][plan[x][k]] = "whole"
        BY <1>2, <2>1, <2>3, SetTempFacts, PlanFacts DEF DecodedOK
      <4>2. \A i \in DOMAIN archive[x] : temp'[x][i] # "damaged"
        BY <2>1, <2>2, <2>3, SetTempFacts
      <4>3. UNCHANGED <<archive, plan, at>>
        BY <1>8 DEF OpenStream
      <4> QED
        BY <2>1, <2>3, <4>1, <4>2, <4>3 DEF DecodedOK, Committing
    <3> QED
      BY <1>1, <3>1
  <2>4. CASE UNCHANGED temp /\ pc'[x] = "finish" /\ verdict'[x] = "io"
    <3>1. UNCHANGED <<archive, plan, at>>
      BY <1>8 DEF OpenStream
    <3>2. DecodedOK(x)'
      BY <1>2, <2>2, <2>4, <3>1 DEF DecodedOK, Committing
    <3> QED
      BY <1>1, <3>2
  <2> QED
    BY <1>8, <2>3, <2>4 DEF OpenStream, TypeOK
<1>9. CASE Write(x)
  <2>1. /\ at[x] \in DOMAIN plan[x] /\ pc[x] = "write" /\ pc'[x] = "result"
        /\ UNCHANGED <<archive, plan, at, verdict>> /\ Planned(x)' = Planned(x)
    BY <1>9 DEF Write, TypeOK, Decoding, Planned
  <2>2. /\ archive[x][Planned(x)].sound => temp'[x][Planned(x)] = "whole"
        /\ \A i \in DOMAIN archive[x] : i # Planned(x) => temp'[x][i] = temp[x][i]
        /\ \A k \in DOMAIN plan[x] : k # at[x] => temp'[x][plan[x][k]] = temp[x][plan[x][k]]
    BY <1>9, <2>1, SetTempFacts DEF Write
  <2>3. \A i \in DOMAIN archive[x] : temp'[x][i] = "damaged" =>
           verdict[x] = "abort" \/ (i = Planned(x) /\ ~archive[x][i].sound)
    BY <1>2, <2>1, <2>2 DEF DecodedOK
  <2>4. verdict[x] = "ok" => \A k \in DOMAIN plan[x] : k < at[x] => temp'[x][plan[x][k]] = "whole"
    BY <1>2, <2>1, <2>2, PlanFacts DEF DecodedOK
  <2>5. DecodedOK(x)'
    BY <1>2, <2>1, <2>2, <2>3, <2>4 DEF DecodedOK, Committing
  <2> QED
    BY <1>1, <2>5
<1>10. CASE SetOperationResult(x)
  <2>1. /\ at[x] \in DOMAIN plan[x] /\ pc[x] = "result" /\ verdict[x] = "ok"
        /\ UNCHANGED <<archive, plan, temp>> /\ Planned(x) \in DOMAIN archive[x]
    BY <1>10, PlanFacts DEF SetOperationResult, TypeOK, Decoding, Planned
  <2>2. CASE Passes(x)
    <3>1. \A i \in DOMAIN archive[x] : temp[x][i] # "damaged"
      BY <1>2, <2>1, <2>2 DEF DecodedOK, Passes
    <3>2. \A k \in DOMAIN plan[x] : k <= at[x] => temp[x][plan[x][k]] = "whole"
      <4>1. temp[x][plan[x][at[x]]] = "whole"
        BY <1>2, <2>1, <2>2 DEF DecodedOK, Passes, Planned
      <4>2. \A k \in DOMAIN plan[x] : k <= at[x] => k < at[x] \/ k = at[x]
        BY <2>1, PlanFacts
      <4> QED
        BY <1>2, <2>1, <4>1, <4>2 DEF DecodedOK
    <3>3. CASE LastDecoded(x)
      <4>1. pc'[x] = "finish" /\ at'[x] = at[x] /\ UNCHANGED verdict
        BY <1>10, <2>2, <3>3 DEF SetOperationResult, TypeOK
      <4>2. \A k \in DOMAIN plan[x] : temp[x][plan[x][k]] = "whole"
        BY <3>2, <3>3, PlanFacts DEF LastDecoded
      <4>3. DecodedOK(x)'
        BY <1>2, <2>1, <3>1, <4>1, <4>2 DEF DecodedOK, Committing
      <4> QED
        BY <1>1, <4>3
    <3>4. CASE ~LastDecoded(x)
      <4>1. pc'[x] = "open" /\ at'[x] = at[x] + 1 /\ UNCHANGED verdict
        BY <1>10, <2>2, <3>4 DEF SetOperationResult, TypeOK
      <4>2. \A k \in DOMAIN plan[x] : k < at[x] + 1 => temp[x][plan[x][k]] = "whole"
        BY <2>1, <3>2, PlanFacts
      <4>3. DecodedOK(x)'
        BY <1>2, <2>1, <3>1, <4>1, <4>2 DEF DecodedOK, Committing
      <4> QED
        BY <1>1, <4>3
    <3> QED
      BY <3>3, <3>4
  <2>3. CASE ~Passes(x)
    <3>1. pc'[x] = "finish" /\ verdict'[x] = "corrupt"
      BY <1>10, <2>3 DEF SetOperationResult, TypeOK
    <3>2. \E i \in DOMAIN archive[x] : ~archive[x][i].sound
      BY <2>1, <2>3 DEF Passes
    <3>3. DecodedOK(x)'
      BY <2>1, <3>1, <3>2 DEF DecodedOK, Committing
    <3> QED
      BY <1>1, <3>3
  <2> QED
    BY <2>2, <2>3
<1>11. CASE Stop(x) \/ Abort(x)
  <2>1. /\ pc[x] \in Decoding /\ pc'[x] \in Decoding /\ verdict'[x] = "abort"
        /\ UNCHANGED <<archive, plan, at, temp>> /\ Planned(x)' = Planned(x)
        /\ pc'[x] = "result" => pc[x] = "result"
    BY <1>11 DEF Stop, Abort, TypeOK, Decoding, Planned
  <2>2. DecodedOK(x)'
    BY <1>2, <2>1 DEF DecodedOK, Decoding, Committing
  <2> QED
    BY <1>1, <2>2
<1>12. CASE Finish(x)
  <2>1. CASE Fail(x, verdict[x])
    BY <1>4, <2>1 DEF Fail
  <2>2. CASE ~Fail(x, verdict[x])
    <3>1. /\ pc[x] = "finish" /\ pc'[x] = "verify" /\ verdict[x] \in {"ok", "abort"}
          /\ UNCHANGED <<archive, plan, temp, verdict>>
      BY <1>12, <2>2 DEF Finish, TypeOK
    <3>2. DecodedOK(x)'
      BY <1>2, <3>1 DEF DecodedOK, Committing
    <3> QED
      BY <1>1, <3>2
  <2> QED
    BY <2>1, <2>2
<1>13. CASE Verify(x)
  <2>1. CASE \E r : Fail(x, r)
    BY <1>4, <2>1 DEF Fail
  <2>2. CASE ~(\E r : Fail(x, r))
    <3>1. /\ pc[x] = "verify" /\ pc'[x] = "look"
          /\ \A k \in DOMAIN plan[x] : HasSize(temp[x][plan[x][k]])
          /\ UNCHANGED <<archive, plan, temp, verdict>>
      BY <1>13, <2>2 DEF Verify, Verifies, TypeOK
    <3>2. DecodedOK(x)'
      BY <1>2, <3>1 DEF DecodedOK, Committing
    <3> QED
      BY <1>1, <3>2
  <2> QED
    BY <2>1, <2>2
<1>14. CASE NextPlan(x) /\ pc[x] \in Committing
  <2>1. CASE LastCommitted(x)
    BY <1>4, <1>14, <2>1 DEF NextPlan
  <2>2. CASE ~LastCommitted(x)
    <3>1. /\ at[x] \in DOMAIN plan[x] /\ pc'[x] = "look" /\ at'[x] = at[x] + 1
          /\ SetTemp(x, "none") /\ UNCHANGED <<archive, plan, verdict>>
      BY <1>14, <2>2 DEF NextPlan, NextToCommit, TypeOK
    <3>2. \A k \in DOMAIN plan[x] : k >= at[x] + 1 => k # at[x] /\ k >= at[x]
      BY <3>1, PlanFacts
    <3>3. \A k \in DOMAIN plan[x] : k >= at[x] + 1 => HasSize(temp'[x][plan[x][k]])
      BY <1>2, <1>14, <3>1, <3>2, SetTempFacts DEF DecodedOK
    <3>4. \A i \in DOMAIN archive[x] : temp'[x][i] = "damaged" => verdict[x] = "abort"
      BY <1>2, <1>14, <3>1, SetTempFacts DEF DecodedOK, Committing
    <3>5. DecodedOK(x)'
      BY <1>2, <1>14, <3>1, <3>3, <3>4 DEF DecodedOK, Committing
    <3> QED
      BY <1>1, <3>5
  <2> QED
    BY <2>1, <2>2
<1>15. CASE Look(x) \/ Move(x) \/ Replace(x)
  <2>1. CASE (\E r : Return(x, r)) \/ NextPlan(x)
    BY <1>4, <1>14, <1>15, <2>1 DEF Look, Move, Replace, Committing
  <2>2. CASE ~((\E r : Return(x, r)) \/ NextPlan(x))
    <3>1. /\ pc[x] = "look" /\ pc'[x] \in {"move", "replace"}
          /\ UNCHANGED <<archive, plan, at, temp, verdict>>
      BY <1>15, <2>2 DEF Look, Move, Replace, Fail, TypeOK
    <3>2. DecodedOK(x)'
      BY <1>2, <3>1 DEF DecodedOK, Committing
    <3> QED
      BY <1>1, <3>2
  <2> QED
    BY <2>1, <2>2
<1> QED
  BY <1>6, <1>7, <1>8, <1>9, <1>10, <1>11, <1>12, <1>13, <1>15 DEF Step

\* Only the decoding and the verification find an archive incomplete, and they
\* have a cause for it.
LEMMA StepCause ==
    ASSUME TypeOK, PlanInv, DecodedInv, UnverifiedHasCause,
           NEW x \in Extractors, Step(x) \/ Abort(x)
    PROVE  /\ UnverifiedHasCause'
           /\ pc[x] \in Committing \cup {"done"} => UNCHANGED <<verdict[x]>>
           /\ result'[x] \in {"corrupt", "missing"} => pc[x] \in {"finish", "verify"}
<1> DEFINE Cause(y) == \/ verdict[y] = "abort"
                       \/ \E i \in DOMAIN archive[y] : ~archive[y][i].sound
           Found(y) == result[y] \in {"corrupt", "missing"}
<1>0. pc[x] # "done" /\ (pc[x] # "done" => result[x] = "none") /\ PlanOK(x) /\ DecodedOK(x)
  <2>1. pc[x] # "done"
    BY DEF Step, Abort, Decoding, Start, Ensure, Create, Plan, OpenStream, Write,
       SetOperationResult, Stop, Finish, Verify, Look, Move, Replace
  <2> QED
    BY <2>1 DEF PlanInv, PlanOK, DecodedInv
<1>1. ASSUME Found(x)' => Cause(x)'
      PROVE  UnverifiedHasCause'
  <2>1. ASSUME NEW y \in Extractors \ {x}, Found(y)'
        PROVE  Cause(y)'
    BY <2>1, Frame DEF Untouched, UnverifiedHasCause
  <2> QED
    BY <1>1, <2>1 DEF UnverifiedHasCause
<1> USE DEF Go, inputs, planning
<1>2. CASE Finish(x)
  <2>1. /\ pc[x] = "finish" /\ UNCHANGED <<verdict, archive>>
        /\ result'[x] \in {"none"} \cup ({verdict[x]} \cap {"io", "corrupt"})
    BY <1>0, <1>2 DEF Finish, Fail, Return, TypeOK
  <2>2. Found(x)' => Cause(x)'
    BY <1>0, <2>1 DEF DecodedOK
  <2> QED
    BY <1>1, <2>1, <2>2 DEF Committing
<1>3. CASE Verify(x)
  <2>1. /\ pc[x] = "verify" /\ UNCHANGED <<verdict, archive>>
        /\ Found(x)' => \E k \in DOMAIN plan[x] : ~HasSize(temp[x][plan[x][k]])
    BY <1>0, <1>3 DEF Verify, Verifies, Fail, Return, TypeOK
  <2>2. Found(x)' => Cause(x)'
    BY <1>0, <2>1 DEF DecodedOK, HasSize
  <2> QED
    BY <1>1, <2>1, <2>2 DEF Committing
<1>4. CASE NextPlan(x)
  <2>1. UNCHANGED verdict /\ result'[x] \in {"none", "ok"}
    BY <1>0, <1>4 DEF NextPlan, Return, TypeOK
  <2> QED
    BY <1>1, <2>1
<1>5. CASE ~Finish(x) /\ ~Verify(x) /\ ~NextPlan(x)
  <2>1. result'[x] \in {"none", "ok", "io", "unsafe", "exists"}
    BY <1>0, <1>5 DEF Step, Abort, Start, Ensure, Create, Plan, OpenStream, Write,
       SetOperationResult, Stop, Look, Move, Replace, NextEntry, Fail, Return, TypeOK
  <2>2. pc[x] \in Committing => UNCHANGED verdict
    BY <1>5 DEF Step, Abort, Start, Ensure, Create, Plan, OpenStream, Write,
       SetOperationResult, Stop, Look, Move, Replace, Fail, Return, Committing, Decoding
  <2> QED
    BY <1>0, <1>1, <2>1, <2>2
<1> QED
  BY <1>2, <1>3, <1>4, <1>5

--------------------------------------------------------------------------------
(* What is published *)

LEMMA StepPublished ==
    ASSUME TypeOK, PlanInv, SeenInv, PlaceInv, DecodedInv, PublishedInv,
           PublishesWinner, DamagedOnlyAfterAbort, UnverifiedHasCause,
           NEW x \in Extractors, Step(x) \/ Abort(x)
    PROVE  PublishedInv' /\ PublishesWinner' /\ DamagedOnlyAfterAbort'
<1> DEFINE Late(p) == pc[tree[p].from] \in Committing \cup {"done"}
           Verified(p) == result[tree[p].from] \notin {"corrupt", "missing"}
           Shown(p) == \A j \in Same(tree[p].from, tree[p].entry) :
                          IF policy[tree[p].from] = "replace" THEN j <= tree[p].entry
                                                              ELSE j >= tree[p].entry
           Excused(p) == tree[p].data = "damaged" => verdict[tree[p].from] = "abort"
           Right(p) == Late(p) /\ Verified(p) /\ Shown(p) /\ Excused(p)
<1>1. \A p \in Published : Right(p)
  BY DEF PublishedInv, PublishesWinner, DamagedOnlyAfterAbort
<1>2. ASSUME \A p \in Paths : p \in Published' => Right(p)'
      PROVE  PublishedInv' /\ PublishesWinner' /\ DamagedOnlyAfterAbort'
  BY <1>2 DEF Published, PublishedInv, PublishesWinner, DamagedOnlyAfterAbort
<1>3. UNCHANGED <<archive, policy>>
  BY Frame DEF inputs
\* What was right stays right: its extractor has verified all.
<1>4. ASSUME NEW p \in Published, tree'[p] = tree[p]
      PROVE  Right(p)'
  <2> DEFINE y == tree[p].from
  <2>1. y \in Extractors
    BY NodeFacts DEF Published, TypeOK
  <2>2. Late(p) /\ Verified(p) /\ Shown(p) /\ Excused(p)
    BY <1>1
  <2>3. Shown(p)'
    BY <1>3, <1>4, <2>2 DEF Same, PathOf
  <2>4. CASE y # x
    BY <1>4, <2>1, <2>2, <2>3, <2>4, Frame DEF Untouched
  <2>5. CASE y = x
    <3>1. pc[x] \in Committing \cup {"done"}
      BY <2>2, <2>5
    <3>2. verdict'[x] = verdict[x] /\ result'[x] \notin {"corrupt", "missing"}
      BY <3>1, StepCause DEF Committing
    <3>3. pc'[x] \in Committing \cup {"done"}
      BY <3>1 DEF Step, Abort, Start, Ensure, Create, Plan, OpenStream, Write,
         SetOperationResult, Stop, Finish, Verify, Look, Move, Replace, Fail, Return,
         NextPlan, NextToCommit, Go, TypeOK, Committing, Decoding
    <3> QED
      BY <1>4, <2>2, <2>3, <2>5, <3>2, <3>3
  <2> QED
    BY <2>4, <2>5
<1>5. CASE UNCHANGED tree
  BY <1>2, <1>4, <1>5 DEF Published
<1>6. CASE MakesDirectory(x)
  <2>1. \A p \in Paths : p \in Published' => p \in Published /\ tree'[p] = tree[p]
    BY <1>6, NodeFacts, RequiredFacts DEF MakesDirectory, Published, TypeOK
  <2> QED
    BY <1>2, <1>4, <2>1
<1>7. CASE Publishes(x)
  <2> DEFINE file == File(x, Planned(x), temp[x][Planned(x)])
  <2>1. /\ at[x] \in DOMAIN plan[x] /\ Final(x) \in Paths
        /\ temp[x][Planned(x)] = "damaged" => verdict[x] = "abort"
        /\ tree' = [tree EXCEPT ![Final(x)] = file]
    BY <1>7, PublishFacts
  <2>2. \A p \in Paths : p # Final(x) /\ p \in Published' => p \in Published /\ tree'[p] = tree[p]
    BY <2>1 DEF Published, TypeOK
  <2>3. tree'[Final(x)] = file /\ file.from = x /\ file.entry = Planned(x)
        /\ file.data = temp[x][Planned(x)]
    BY <2>1, NodeFacts DEF TypeOK
  <2> HIDE DEF file
  <2>4. ASSUME NEW p \in Paths, p = Final(x)
        PROVE  Right(p)'
    <3>0. tree'[p].from = x /\ tree'[p].entry = Planned(x) /\ tree'[p].data = temp[x][Planned(x)]
      BY <2>3, <2>4
    <3>1. Winner(x, Planned(x), Seen(x)) /\ Seen(x) = DOMAIN archive[x]
      BY <1>7, <2>1, SeenOKParts DEF Publishes, SeenInv, Seen, Before, Planning, Planned
    <3>2. Shown(p)'
      <4>1. \A j \in Same(x, Planned(x)) :
               IF policy[x] = "replace" THEN j <= Planned(x) ELSE j >= Planned(x)
        BY <3>1 DEF Winner, Same
      <4>2. \A j : j \in Same(tree[p].from, tree[p].entry)' => j \in Same(x, Planned(x))
        BY <1>3, <3>0 DEF Same, PathOf
      <4> QED
        BY <1>3, <3>0, <4>1, <4>2
    <3>3. pc[x] \in Committing /\ pc'[x] \in Committing \cup {"done"}
      BY <1>7 DEF Publishes, Committing
    <3>4. verdict'[x] = verdict[x] /\ result'[x] \notin {"corrupt", "missing"}
      BY <3>3, StepCause DEF Committing
    <3> QED
      BY <2>1, <3>0, <3>2, <3>3, <3>4
  <2> QED
    BY <1>2, <1>4, <2>2, <2>4
<1> QED
  BY <1>5, <1>6, <1>7, TreeMoves

LEMMA StepIInv == IInv /\ [Next]_vars => IInv'
<1> SUFFICES ASSUME IInv, [Next]_vars
             PROVE  IInv'
  OBVIOUS
<1> USE DEF IInv
<1>1. ASSUME NEW x \in Extractors, Step(x) \/ Abort(x)
      PROVE  IInv'
  BY <1>1, StepTypes, StepNoTemp, StepPlan, StepSeen, StepPlace, StepTree, StepDecoded,
     StepCause, StepPublished
<1>2. CASE UNCHANGED vars
  BY <1>2 DEF vars, inputs, planning, TypeOK, NoTempLeft, NoTemps, PlanInv, PlanOK, PathOf,
     SeenInv, SeenOK, Seen, Same, Reserved, PlaceInv, PlaceOK, IsDirectory, Ancestor, Required,
     Entry, TreeInv, DecodedInv, DecodedOK, Planned, Published, PublishedInv, PublishesWinner,
     OkMeansPresent, DamagedOnlyAfterAbort, UnverifiedHasCause
<1> QED
  BY <1>1, <1>2 DEF Next

--------------------------------------------------------------------------------
(* The theorems *)

\* Types, the order of the plans and their bounds are invariant for any number
\* of extractors, any archives and any destination.
THEOREM TypeCorrect == Spec => []TypeOK
<1>1. IInv => TypeOK
  BY DEF IInv
<1> QED
  BY <1>1, InitIInv, StepIInv, PTL DEF Spec

\* The defer of extract removes every temporary file, whatever ends the call.
THEOREM TempsAreRemoved == Spec => []NoTempLeft
<1>1. IInv => NoTempLeft
  BY DEF IInv
<1> QED
  BY <1>1, InitIInv, StepIInv, PTL DEF Spec

\* Of the entries of one path makePlans lets the right one through.
THEOREM RightEntryShows == Spec => []PublishesWinner
<1>1. IInv => PublishesWinner
  BY DEF IInv
<1> QED
  BY <1>1, InitIInv, StepIInv, PTL DEF Spec

\* A call that succeeds leaves no path of its archive empty.
THEOREM SuccessIsPresent == Spec => []OkMeansPresent
<1>1. IInv => OkMeansPresent
  BY DEF IInv
<1> QED
  BY <1>1, InitIInv, StepIInv, PTL DEF Spec

\* Only an abort lets data with a wrong checksum through to the commit.
THEOREM DamageNeedsAbort == Spec => []DamagedOnlyAfterAbort
<1>1. IInv => DamagedOnlyAfterAbort
  BY DEF IInv
<1> QED
  BY <1>1, InitIInv, StepIInv, PTL DEF Spec

\* Nobody is told that a sound archive, decoded without an abort, is corrupt.
THEOREM CorruptionHasCause == Spec => []UnverifiedHasCause
<1>1. IInv => UnverifiedHasCause
  BY DEF IInv
<1> QED
  BY <1>1, InitIInv, StepIInv, PTL DEF Spec

\* All is verified before anything is committed.
THEOREM VerifiedBeforeCommit == Spec => []UnverifiedCommitsNothing
<1>1. IInv => UnverifiedCommitsNothing
  BY NodeFacts DEF IInv, PublishedInv, UnverifiedCommitsNothing
<1> QED
  BY <1>1, InitIInv, StepIInv, PTL DEF Spec

\* Nothing in the destination is lost but files that an extractor with the
\* replace policy puts its own in place of.
THEOREM DestinationIsKept == Spec => NothingLost
<1> DEFINE Kept == \A p \in Paths :
              \/ tree[p] = Absent
              \/ tree'[p] = tree[p]
              \/ /\ tree[p].kind = "file"
                 /\ \E x \in Extractors : policy[x] = "replace" /\ tree'[p].from = x
<1>1. ASSUME IInv, [Next]_vars
      PROVE  [Kept]_vars
  <2> USE DEF IInv
  <2>1. CASE UNCHANGED vars
    BY <2>1
  <2>2. ASSUME NEW x \in Extractors, Step(x) \/ Abort(x)
        PROVE  Kept
    <3>1. CASE UNCHANGED tree
      BY <3>1
    <3>2. CASE MakesDirectory(x)
      BY <1>1, <3>2, RequiredFacts DEF MakesDirectory, TypeOK
    <3>3. CASE Publishes(x)
      <4> DEFINE file == File(x, Planned(x), temp[x][Planned(x)])
      <4>1. /\ Final(x) \in Paths
            /\ tree' = [tree EXCEPT ![Final(x)] = file]
            /\ tree[Final(x)] # Absent => policy[x] = "replace" /\ tree[Final(x)].kind = "file"
        BY <1>1, <3>3, PublishFacts
      <4>2. file.from = x
        BY NodeFacts
      <4> HIDE DEF file
      <4> QED
        BY <1>1, <4>1, <4>2 DEF TypeOK
    <3> QED
      BY <1>1, <2>2, <3>1, <3>2, <3>3, TreeMoves
  <2> QED
    BY <1>1, <2>1, <2>2 DEF Next
<1> QED
  BY <1>1, InitIInv, StepIInv, PTL DEF Spec, NothingLost

--------------------------------------------------------------------------------
(* Seen from outside *)

LEMMA InitShows == Init => Destination!Init
BY TreesAssumption DEF Init, Destination!Init, Destination!InDirectory, Destination!Absent,
   Destination!Directory, Absent, Directory

LEMMA StepShows == IInv /\ [Next]_vars => [Destination!Next]_tree
<1> SUFFICES ASSUME IInv, [Next]_vars
             PROVE  Destination!Next \/ UNCHANGED tree
  OBVIOUS
<1> USE DEF IInv
<1>1. ASSUME NEW p \in Paths
      PROVE  IsDirectory(Parent(p)) => Destination!InDirectory(p)
  BY DEF IsDirectory, Destination!InDirectory, Destination!Directory, Directory
<1>2. CASE UNCHANGED vars
  BY <1>2 DEF vars
<1>3. ASSUME NEW x \in Extractors, MakesDirectory(x)
      PROVE  Destination!Next
  <2> DEFINE n == Len(Required(x)) - missing[x] + 1
  <2>1. n \in 1 .. Len(Required(x)) /\ n - 1 = Len(Required(x)) - missing[x]
    BY <1>3, RequiredFacts DEF MakesDirectory, TypeOK
  <2>2. IsDirectory(Parent(Ancestor(x, n))) /\ Ancestor(x, n) \in Paths
    BY <1>3, <2>1, RequiredFacts DEF MakesDirectory, PlaceInv, PlaceOK
  <2>3. Destination!MakeDirectory(Ancestor(x, n))
    BY <1>1, <1>3, <2>2 DEF MakesDirectory, Destination!MakeDirectory, Destination!Absent,
       Destination!Directory, Absent, Directory
  <2> QED
    BY <2>2, <2>3 DEF Destination!Next
<1>4. ASSUME NEW x \in Extractors, Publishes(x)
      PROVE  Destination!Next
  <2> DEFINE file == File(x, Planned(x), temp[x][Planned(x)])
  <2>1. /\ Final(x) \in Paths /\ IsDirectory(Parent(Final(x)))
        /\ tree' = [tree EXCEPT ![Final(x)] = file] /\ tree[Final(x)] # Directory
        /\ Planned(x) \in Indexes /\ temp[x][Planned(x)] \in {"whole", "damaged"}
    BY <1>4, PublishFacts DEF HasSize
  <2>2. file \in {File(y, i, data) : y \in Extractors, i \in Indexes, data \in {"whole", "damaged"}}
    BY <2>1
  <2> HIDE DEF file
  <2>3. Destination!Publish(Final(x), file)
    BY <1>1, <2>1 DEF Destination!Publish, Destination!Directory, Directory
  <2> QED
    BY <2>1, <2>2, <2>3 DEF Destination!Next
<1> QED
  BY <1>2, <1>3, <1>4, TreeMoves DEF Next

\* Somebody who watches the destination sees directories and whole files
\* appear in a tree, as DestinationTree says.
THEOREM ShowsWholeFiles == Spec => ShowsOnlyWholeFiles
<1>1. IInv /\ [Next]_vars => IInv' /\ [Destination!Next]_tree
  BY StepIInv, StepShows
<1> QED
  BY <1>1, InitIInv, InitShows, PTL DEF Spec, ShowsOnlyWholeFiles, Destination!Spec

================================================================================
