---------------------------- MODULE ZipCreateProofs ----------------------------
(***************************************************************************)
(* What a ZIP creation leaves behind, for any inputs, any size of volumes, *)
(* any number of volumes and whatever else is in the directory or appears  *)
(* there.  The lemmas about the stream say what mz_stream_split does to    *)
(* the files; the inductive invariant adds to them which names it may      *)
(* open, and what it has counted in the volume it writes.                  *)
(* LaidInv adds where the cells of each entry lie, as a way that a reader  *)
(* goes; a stream that only appends makes it longer and never breaks it.   *)
(***************************************************************************)
EXTENDS ZipCreateProperties, SequenceTheorems, Recursion, TLAPS

\* The steps between the opening of the archive and its closing.
InEntry == {"header", "chunk", "poll", "end"}
Writing == {"entry", "close"} \cup InEntry

\* An entry is about a file that has data where its chunks are written, it has
\* all of its chunks when it ends well, and its header comes first.
EntryInv ==
    /\ pc \in {"check", "open", "entry"} => Len(header) = index - 1
    /\ pc \in {"check", "open", "entry", "header"} => chunk = 0
    /\ pc = "header" => field < HeaderCells
    /\ pc \in {"chunk", "poll", "end"} => field = HeaderCells
    /\ pc \in {"chunk", "poll"} => inputs[index] \in Nat \ {0}
    /\ pc = "end" /\ ~failed => inputs[index] \in {0, Folder} \/ chunk = inputs[index]

\* A cancellation before the last progress call finds one that refuses, and an
\* archive that is closed in order has none left.
HeardInv ==
    /\ pc # "done" => result = "none"
    /\ cancelled /\ unheard /\ ~failed /\ pc # "done" => MorePolls
    /\ pc \in {"close", "finish"} /\ ~failed => ~MorePolls
    /\ result = "ok" /\ cancelled => ~unheard

\* The path has a dot, and every volume a name of its own.
Dotted == path # "bare"

\* The names that the stream may open.
Own == {Output} \cup (IF volumeSize > 0 THEN Volumes ELSE {})

\* What was there is there when volumes could be looked for, as it has none of
\* the names that the stream opens; what it has opened is there, too.
Sound(s) ==
    /\ Looked => \A n \in origin : n \in DOMAIN s.files /\ s.files[n] = <<Other>>
    /\ s.opened \subseteq DOMAIN s.files
    /\ s.opened \subseteq Own
    /\ Looked => origin \cap Own = {}

\* The stream is in a file that it has opened.
In(s) == Name(s.disk) \in s.opened

SoundInv ==
    /\ pc = "check" => stream.files = [n \in origin |-> <<Other>>]
    /\ pc \in {"check", "open"} => stream.opened = {} /\ stream.reopened = {}
    /\ pc \notin {"check", "done"} => Sound(stream)
    /\ pc \in Writing => In(stream)
    /\ pc = "done" => OldFilesSurvive
    /\ FailedLeavesNothing

\* No volume that was opened once is too large, and there are no gaps.
Sized(s) ==
    s.reopened = {}
        => \A n \in s.opened \cap DOMAIN s.files \cap Volumes :
              Len(s.files[n]) <= volumeSize /\ 0 .. n \subseteq s.opened

\* A stream that has opened no volume twice is in the last one, and what it has
\* counted is no less than what there is.
Fits(s) ==
    s.reopened = {}
        => /\ s.disk \in Volumes /\ s.number = s.disk
           /\ s.at <= s.used /\ s.used <= volumeSize
           /\ Len(s.files[Name(s.disk)]) <= s.used
           /\ s.opened = IF Dotted THEN 0 .. s.disk ELSE {Output}

\* Where the header of the entry is, as far as it is written.
HeaderFits(s) ==
    s.reopened = {}
        => /\ header[index].disk \in 0 .. s.disk
           /\ header[index].disk = s.disk => header[index].offset + field <= s.used

SizeInv ==
    volumeSize > 0 /\ ~stream.lost
        => /\ Sized(stream)
           /\ pc \in Writing => Fits(stream)
           /\ pc \in InEntry => HeaderFits(stream)

--------------------------------------------------------------------------------
(* Steps of the stream *)


LEMMA CellFacts ==
    /\ Magic \in Cell /\ Hole \in Cell /\ Directory \in Cell /\ Other \in Cell
    /\ \A i, k \in Nat : <<i, k>> \in Cell
BY DEF Magic, Hole, Directory, Other, Cell

\* Every disk has a name among those that the stream may open.
LEMMA NameFacts ==
    ASSUME volumeSize \in Nat, NEW d \in Names
    PROVE  /\ Name(d) \in Names /\ Name(d) \in Own
           /\ volumeSize > 0 /\ Dotted => Name(d) = d
           /\ volumeSize = 0 \/ ~Dotted => Name(d) = Output
BY DEF Name, Names, Own, Dotted, Output, Volumes

LEMMA OverwrittenFacts ==
    ASSUME NEW file \in Seq(Cell), NEW place \in Nat, NEW cell \in Cell
    PROVE  /\ Overwritten(file, place, cell) \in Seq(Cell)
           /\ Len(Overwritten(file, place, cell))
                = IF place < Len(file) THEN Len(file) ELSE place + 1
<1> DEFINE length == IF place < Len(file) THEN Len(file) ELSE place + 1
<1>1. length \in Nat /\ Len(file) \in Nat
  OBVIOUS
<1>2. ASSUME NEW k \in 1 .. length
      PROVE  (IF k = place + 1 THEN cell ELSE IF k <= Len(file) THEN file[k] ELSE Hole) \in Cell
  BY <1>1, CellFacts
<1>3. Overwritten(file, place, cell) =
        [k \in 1 .. length |->
            IF k = place + 1 THEN cell ELSE IF k <= Len(file) THEN file[k] ELSE Hole]
  BY DEF Overwritten
<1> HIDE DEF length
<1>4. Overwritten(file, place, cell) \in [1 .. length -> Cell]
  BY <1>2, <1>3
<1>5. Overwritten(file, place, cell) \in Seq(Cell) /\ Len(Overwritten(file, place, cell)) = length
  BY <1>1, <1>4
<1> QED
  BY <1>5 DEF length

\* The fields of a stream after it has opened a disk.
LEMMA OpenDiskFacts ==
    ASSUME volumeSize \in Nat, NEW s, StreamOK(s), NEW d \in Names, NEW t, t = OpenDisk(s, d)
    PROVE  /\ StreamOK(t)
           /\ t.disk = d /\ t.number = d /\ t.at = t.used
           /\ t.used = IF volumeSize > 0 /\ d = 0 THEN 1 ELSE 0
           /\ t.opened = s.opened \cup {Name(d)}
           /\ t.lost = s.lost
           /\ s.reopened \subseteq t.reopened
           /\ Name(d) \in s.opened => Name(d) \in t.reopened
           /\ Name(d) \notin s.opened => t.reopened = s.reopened
           /\ DOMAIN t.files = DOMAIN s.files \cup {Name(d)}
           /\ Len(t.files[Name(d)]) = t.used
           /\ \A n \in DOMAIN s.files \ {Name(d)} : t.files[n] = s.files[n]
<1> DEFINE magic == volumeSize > 0 /\ d = 0
           content == IF magic THEN <<Magic>> ELSE <<>>
<1>1. /\ DOMAIN t = DOMAIN s
      /\ t.disk = d /\ t.number = d
      /\ t.used = IF magic THEN 1 ELSE 0
      /\ t.at = IF magic THEN 1 ELSE 0
      /\ t.files = With(s.files, Name(d), content)
      /\ t.opened = s.opened \cup {Name(d)}
      /\ t.reopened = IF Name(d) \in s.opened THEN s.reopened \cup {Name(d)} ELSE s.reopened
      /\ t.lost = s.lost
  BY DEF OpenDisk, StreamOK, MagicCounted
<1>2. content \in Seq(Cell) /\ Len(content) = IF magic THEN 1 ELSE 0
  BY CellFacts
<1> HIDE DEF content
<1>3. /\ DOMAIN t.files = DOMAIN s.files \cup {Name(d)}
      /\ t.files[Name(d)] = content
      /\ \A n \in DOMAIN s.files \ {Name(d)} : t.files[n] = s.files[n]
  BY <1>1 DEF With
<1>4. Name(d) \in Names
  BY NameFacts
<1>5. StreamOK(t)
  BY <1>1, <1>2, <1>3, <1>4 DEF StreamOK
<1> QED
  BY <1>1, <1>2, <1>3, <1>5

LEMMA GotoFacts ==
    ASSUME volumeSize \in Nat, NEW s, StreamOK(s), NEW d \in Names
    PROVE  /\ StreamOK(GotoDisk(s, d))
           /\ GotoDisk(s, d) = s \/ GotoDisk(s, d) = OpenDisk(s, d)
           /\ GotoDisk(s, d).lost = s.lost
           /\ s.reopened \subseteq GotoDisk(s, d).reopened
<1>1. CASE GotoDisk(s, d) = s
  BY <1>1
<1>2. CASE GotoDisk(s, d) = OpenDisk(s, d)
  BY <1>2, OpenDiskFacts
<1> QED
  BY <1>1, <1>2 DEF GotoDisk

LEMMA ReadyFacts ==
    ASSUME volumeSize \in Nat, NEW s, StreamOK(s)
    PROVE  /\ StreamOK(Ready(s))
           /\ Ready(s) = s \/ \E d \in Names : Ready(s) = OpenDisk(s, d)
           /\ Ready(s).lost = s.lost
           /\ s.reopened \subseteq Ready(s).reopened
<1>1. s.disk + 1 \in Names /\ Output \in Names
  BY DEF StreamOK, Names, Output, Volumes
<1>2. CASE Ready(s) = s
  BY <1>2
<1>3. ASSUME NEW d \in {Output, s.disk + 1}, Ready(s) = GotoDisk(s, d)
      PROVE  /\ StreamOK(Ready(s))
             /\ Ready(s) = s \/ Ready(s) = OpenDisk(s, d)
             /\ Ready(s).lost = s.lost
             /\ s.reopened \subseteq Ready(s).reopened
  BY <1>1, <1>3, GotoFacts
<1> QED
  BY <1>1, <1>2, <1>3 DEF Ready

\* A cell is written to the current disk of the stream that is ready for it.
LEMMA PutFacts ==
    ASSUME volumeSize \in Nat, NEW s, StreamOK(s), NEW cell \in Cell,
           NEW t, t = Ready(s), NEW u, u = Put(s, cell)
    PROVE  /\ StreamOK(u)
           /\ u.disk = t.disk /\ u.number = t.number
           /\ u.used = t.used + 1 /\ u.at = t.at + 1
           /\ u.opened = t.opened /\ u.reopened = t.reopened /\ u.lost = s.lost
           /\ DOMAIN u.files = DOMAIN t.files
           /\ \A n \in DOMAIN t.files \ {Name(t.disk)} : u.files[n] = t.files[n]
           /\ Name(t.disk) \in DOMAIN t.files
                => Len(u.files[Name(t.disk)]) =
                     IF t.at < Len(t.files[Name(t.disk)]) THEN Len(t.files[Name(t.disk)])
                     ELSE t.at + 1
<1>1. StreamOK(t) /\ t.lost = s.lost
  BY ReadyFacts
<1> DEFINE n == Name(t.disk)
           content == Overwritten(t.files[n], t.at, cell)
<1>2. /\ DOMAIN u = DOMAIN t
      /\ u.disk = t.disk /\ u.number = t.number
      /\ u.used = t.used + 1 /\ u.at = t.at + 1
      /\ u.files = [t.files EXCEPT ![n] = content]
      /\ u.opened = t.opened /\ u.reopened = t.reopened /\ u.lost = t.lost
  BY <1>1 DEF Put, StreamOK
<1>3. n \in DOMAIN t.files =>
        /\ content \in Seq(Cell)
        /\ Len(content) = IF t.at < Len(t.files[n]) THEN Len(t.files[n]) ELSE t.at + 1
  BY <1>1, OverwrittenFacts DEF StreamOK
<1> HIDE DEF n, content
<1>4. StreamOK(u)
  BY <1>1, <1>2, <1>3 DEF StreamOK
<1> QED
  BY <1>1, <1>2, <1>3, <1>4 DEF n

LEMMA SeekFacts ==
    ASSUME volumeSize \in Nat, NEW s, StreamOK(s), NEW d \in Names, NEW offset \in Nat,
           NEW t, t = GotoDisk(s, d), NEW u, u = Seek(s, d, offset)
    PROVE  /\ StreamOK(u)
           /\ u.disk = t.disk /\ u.number = d /\ u.used = t.used /\ u.at = offset
           /\ u.files = t.files /\ u.opened = t.opened /\ u.reopened = t.reopened
           /\ u.lost = s.lost
<1>1. StreamOK(t) /\ t.lost = s.lost
  BY GotoFacts
<1>2. /\ DOMAIN u = DOMAIN t
      /\ u.disk = t.disk /\ u.number = d /\ u.used = t.used /\ u.at = offset
      /\ u.files = t.files /\ u.opened = t.opened /\ u.reopened = t.reopened
      /\ u.lost = t.lost
  BY <1>1 DEF Seek, StreamOK
<1> QED
  BY <1>1, <1>2 DEF StreamOK

\* Opening a disk touches no file that was there before the call.
LEMMA OpenDiskSound ==
    ASSUME volumeSize \in Nat, NEW s, StreamOK(s), Sound(s), NEW d \in Names,
           NEW t, t = OpenDisk(s, d)
    PROVE  Sound(t) /\ In(t)
<1>1. Name(d) \in Own
  BY NameFacts
<1>2. /\ t.disk = d /\ t.opened = s.opened \cup {Name(d)}
      /\ DOMAIN t.files = DOMAIN s.files \cup {Name(d)}
      /\ \A n \in DOMAIN s.files \ {Name(d)} : t.files[n] = s.files[n]
  BY OpenDiskFacts
<1>3. Looked => \A n \in origin : n \in DOMAIN s.files \ {Name(d)} /\ s.files[n] = <<Other>>
  BY <1>1 DEF Sound
<1> QED
  BY <1>1, <1>2, <1>3 DEF Sound, In

LEMMA ReadySound ==
    ASSUME volumeSize \in Nat, NEW s, StreamOK(s), Sound(s), In(s), NEW t, t = Ready(s)
    PROVE  StreamOK(t) /\ Sound(t) /\ In(t)
BY ReadyFacts, OpenDiskSound

LEMMA PutSound ==
    ASSUME volumeSize \in Nat, NEW s, StreamOK(s), Sound(s), In(Ready(s)), Sound(Ready(s)),
           NEW cell \in Cell, NEW u, u = Put(s, cell)
    PROVE  StreamOK(u) /\ Sound(u) /\ In(u)
<1> DEFINE t == Ready(s)
<1>1. /\ StreamOK(u) /\ u.disk = t.disk /\ u.opened = t.opened
      /\ DOMAIN u.files = DOMAIN t.files
      /\ \A n \in DOMAIN t.files \ {Name(t.disk)} : u.files[n] = t.files[n]
  BY PutFacts
<1>2. Sound(t) /\ Name(t.disk) \in Own
  BY DEF Sound, In
<1> HIDE DEF t
<1>3. Looked => \A n \in origin :
                   n \in DOMAIN t.files \ {Name(t.disk)} /\ t.files[n] = <<Other>>
  BY <1>2 DEF Sound
<1>4. Sound(u)
  BY <1>1, <1>2, <1>3 DEF Sound
<1>5. In(u)
  BY <1>1 DEF In, t
<1> QED
  BY <1>1, <1>4, <1>5

LEMMA SeekSound ==
    ASSUME volumeSize \in Nat, NEW s, StreamOK(s), Sound(s), In(s), NEW d \in Names,
           NEW offset \in Nat, NEW u, u = Seek(s, d, offset)
    PROVE  StreamOK(u) /\ Sound(u) /\ In(u)
<1> DEFINE t == GotoDisk(s, d)
<1>1. StreamOK(t) /\ Sound(t) /\ In(t)
  BY GotoFacts, OpenDiskSound
<1>2. StreamOK(u) /\ u.disk = t.disk /\ u.files = t.files /\ u.opened = t.opened
  BY SeekFacts
<1> HIDE DEF t
<1> QED
  BY <1>1, <1>2 DEF Sound, In

--------------------------------------------------------------------------------
(* The sizes of volumes *)

\* What a step of the stream does to the volume that an entry is written to.
Onward(s, t) ==
    t.reopened = {} => /\ s.reopened = {}
                       /\ \/ t.disk = s.disk /\ t.used >= s.used
                          \/ t.disk = s.disk + 1

\* The first volume is opened with room for more than its magic number.
LEMMA OpenFits ==
    ASSUME volumeSize \in Nat \ {0, 1}, Dotted \in BOOLEAN, NEW s, StreamOK(s),
           s.opened = {}, s.reopened = {}, NEW t, t = OpenDisk(s, 0)
    PROVE  Fits(t) /\ Sized(t)
<1>1. 0 \in Names
  BY DEF Names, Volumes
<1>2. Name(0) = IF Dotted THEN 0 ELSE Output
  BY <1>1, NameFacts
<1>3. volumeSize \in Nat /\ volumeSize > 1
  OBVIOUS
<1>4. /\ t.disk = 0 /\ t.number = 0 /\ t.at = t.used
      /\ t.used = IF volumeSize > 0 /\ 0 = 0 THEN 1 ELSE 0
      /\ t.opened = s.opened \cup {Name(0)} /\ Len(t.files[Name(0)]) = t.used
  BY <1>1, <1>3, OpenDiskFacts
<1>5. t.used = 1 /\ t.opened = {Name(0)}
  BY <1>3, <1>4
<1>6. 0 .. 0 = {0} /\ 0 \in Volumes /\ Output \notin Volumes
  BY DEF Volumes, Output
<1>7. Fits(t)
  <2>1. t.disk \in Volumes /\ t.number = t.disk
    BY <1>4, <1>6
  <2>2. t.at <= t.used /\ t.used <= volumeSize
    BY <1>3, <1>4, <1>5
  <2>3. Name(t.disk) = Name(0) /\ 0 .. t.disk = {0}
    BY <1>4, <1>6
  <2>4. Len(t.files[Name(t.disk)]) <= t.used
    BY <1>4, <1>5, <2>3
  <2>5. t.opened = IF Dotted THEN 0 .. t.disk ELSE {Output}
    BY <1>2, <1>5, <2>3
  <2> QED
    BY <2>1, <2>2, <2>4, <2>5 DEF Fits
<1>8. ASSUME NEW n \in t.opened \cap DOMAIN t.files \cap Volumes
      PROVE  Len(t.files[n]) <= volumeSize /\ 0 .. n \subseteq t.opened
  <2>1. n = Name(0) /\ n = 0
    BY <1>2, <1>5, <1>6, <1>8
  <2>2. Len(t.files[n]) = 1
    BY <1>4, <1>5, <2>1
  <2>3. 0 .. n \subseteq t.opened
    BY <1>5, <1>6, <2>1
  <2>4. Len(t.files[n]) <= volumeSize
    <3>1. 1 <= volumeSize
      BY <1>3
    <3> QED
      BY <2>2, <3>1, Zenon
  <2> QED
    BY <2>3, <2>4
<1>9. Sized(t)
  BY <1>8 DEF Sized
<1> QED
  BY <1>7, <1>9

\* A stream that is ready has room, in the same volume or in the next.
LEMMA ReadyFits ==
    ASSUME volumeSize \in Nat \ {0, 1}, Dotted \in BOOLEAN, NEW s, StreamOK(s),
           Fits(s), Sized(s), In(s), NEW t, t = Ready(s)
    PROVE  /\ Fits(t) /\ Sized(t) /\ Onward(s, t)
           /\ t.reopened = {} => t.used < volumeSize
<1>1. CASE s.reopened # {}
  <2>1. s.reopened \subseteq t.reopened
    BY ReadyFacts
  <2> QED
    BY <1>1, <2>1 DEF Fits, Sized, Onward
<1>2. CASE s.reopened = {} /\ ~Full(s)
  <2>1. s.number # Output /\ s.disk \in Nat /\ s.used \in Nat /\ s.used < volumeSize
    BY <1>2 DEF Fits, Full, Output, Volumes, StreamOK
  <2>2. t = s
    BY <1>2, <2>1 DEF Ready
  <2> QED
    BY <2>1, <2>2 DEF Onward
<1>3. CASE s.reopened = {} /\ Full(s)
  <2> DEFINE d == s.disk + 1
  <2>1. /\ s.disk \in Nat /\ s.number = s.disk
        /\ s.opened = IF Dotted THEN 0 .. s.disk ELSE {Output}
    BY <1>3 DEF Fits, Volumes
  <2>2. d \in Nat /\ d \in Names /\ d # 0 /\ d # s.disk /\ s.number # Output
    BY <2>1 DEF Names, Volumes, Output
  <2>3. t = OpenDisk(s, d)
    BY <1>3, <2>2 DEF Ready, GotoDisk
  <2> HIDE DEF d
  <2>4. /\ t.disk = d /\ t.number = d /\ t.used = 0 /\ t.at = 0
        /\ t.opened = s.opened \cup {Name(d)}
        /\ Name(d) \in s.opened => Name(d) \in t.reopened
        /\ DOMAIN t.files = DOMAIN s.files \cup {Name(d)}
        /\ Len(t.files[Name(d)]) = 0
        /\ \A n \in DOMAIN s.files \ {Name(d)} : t.files[n] = s.files[n]
    BY <2>2, <2>3, OpenDiskFacts
  <2>5. Name(d) = IF Dotted THEN d ELSE Output
    BY <2>2, NameFacts
  <2>6. CASE Dotted
    <3>1. t.opened = 0 .. d
      BY <2>1, <2>2, <2>4, <2>5, <2>6 DEF d
    <3>2. Fits(t)
      BY <2>2, <2>4, <2>5, <2>6, <3>1 DEF Fits, Volumes
    <3>3. ASSUME NEW n \in t.opened \cap DOMAIN t.files \cap Volumes
          PROVE  Len(t.files[n]) <= volumeSize /\ 0 .. n \subseteq t.opened
      <4>1. CASE n = d
        <5>1. Len(t.files[n]) = 0
          BY <2>4, <2>5, <2>6, <4>1
        <5>2. 0 .. n \subseteq t.opened
          BY <3>1, <4>1
        <5> QED
          BY <5>1, <5>2
      <4>2. CASE n # d
        <5>1. n \in s.opened \cap DOMAIN s.files \cap Volumes /\ t.files[n] = s.files[n]
          BY <2>4, <2>5, <2>6, <3>3, <4>2
        <5>2. Len(s.files[n]) <= volumeSize /\ 0 .. n \subseteq s.opened
          BY <1>3, <5>1 DEF Sized
        <5> QED
          BY <2>4, <5>1, <5>2
      <4> QED
        BY <4>1, <4>2
    <3>4. Sized(t)
      BY <3>3 DEF Sized
    <3> QED
      BY <1>3, <2>1, <2>4, <3>2, <3>4 DEF Onward, d
  <2>7. CASE ~Dotted
    <3>1. t.reopened # {}
      BY <2>1, <2>4, <2>5, <2>7
    <3> QED
      BY <3>1 DEF Fits, Sized, Onward
  <2> QED
    BY <2>6, <2>7
<1> QED
  BY <1>1, <1>2, <1>3

LEMMA PutFits ==
    ASSUME volumeSize \in Nat \ {0, 1}, Dotted \in BOOLEAN, NEW s, StreamOK(s), Sound(s),
           Fits(s), Sized(s), In(s), NEW cell \in Cell, NEW u, u = Put(s, cell)
    PROVE  /\ Fits(u) /\ Sized(u) /\ Onward(s, u)
           /\ u.reopened = {} /\ u.disk = s.disk => u.used >= s.used + 1
<1> DEFINE t == Ready(s)
           n == Name(t.disk)
<1>1. StreamOK(t) /\ Sound(t) /\ In(t)
  BY ReadySound
<1>2. Fits(t) /\ Sized(t) /\ Onward(s, t) /\ (t.reopened = {} => t.used < volumeSize)
  BY ReadyFits
<1>3. /\ StreamOK(u) /\ u.disk = t.disk /\ u.number = t.number
      /\ u.used = t.used + 1 /\ u.at = t.at + 1
      /\ u.opened = t.opened /\ u.reopened = t.reopened
      /\ DOMAIN u.files = DOMAIN t.files
      /\ \A m \in DOMAIN t.files \ {n} : u.files[m] = t.files[m]
      /\ n \in DOMAIN t.files
           => Len(u.files[n]) = IF t.at < Len(t.files[n]) THEN Len(t.files[n]) ELSE t.at + 1
  BY PutFacts
<1>4. n \in DOMAIN t.files /\ n \in t.opened
  BY <1>1 DEF Sound, In
<1>5. /\ t.used \in Nat /\ t.at \in Nat /\ t.files[n] \in Seq(Cell) /\ Len(t.files[n]) \in Nat
      /\ s.used \in Nat /\ s.disk \in Int
  BY <1>1, <1>4 DEF StreamOK, Names, Output, Volumes
<1> HIDE DEF t, n
<1>6. CASE u.reopened # {}
  BY <1>6 DEF Fits, Sized, Onward
<1>7. CASE u.reopened = {}
  <2>1. t.at <= t.used /\ t.used < volumeSize /\ Len(t.files[n]) <= t.used
    BY <1>2, <1>3, <1>7 DEF Fits, n
  <2>2. Len(u.files[n]) <= u.used /\ u.used <= volumeSize /\ u.at <= u.used
    BY <1>3, <1>4, <1>5, <2>1
  <2>3. Fits(u)
    BY <1>2, <1>3, <1>7, <2>2 DEF Fits, n
  <2>4. ASSUME NEW m \in u.opened \cap DOMAIN u.files \cap Volumes
        PROVE  Len(u.files[m]) <= volumeSize /\ 0 .. m \subseteq u.opened
    <3>1. Len(t.files[m]) <= volumeSize /\ 0 .. m \subseteq t.opened
      BY <1>2, <1>3, <1>7, <2>4 DEF Sized
    <3>2. CASE m = n
      <4>1. Len(u.files[m]) \in Nat
        BY <1>3, <2>4 DEF StreamOK
      <4> QED
        BY <1>3, <1>5, <2>2, <3>1, <3>2, <4>1
    <3>3. CASE m # n
      BY <1>3, <2>4, <3>1, <3>3
    <3> QED
      BY <3>2, <3>3
  <2>5. Sized(u)
    BY <2>4 DEF Sized
  <2>6. s.reopened = {} /\ ((t.disk = s.disk /\ t.used >= s.used) \/ t.disk = s.disk + 1)
    BY <1>2, <1>3, <1>7 DEF Onward
  <2>7. Onward(s, u) /\ (u.disk = s.disk => u.used >= s.used + 1)
    BY <1>3, <1>5, <2>6 DEF Onward
  <2> QED
    BY <2>3, <2>5, <2>7
<1> QED
  BY <1>6, <1>7

\* Going back to an earlier volume opens it again; within the volume the stream
\* may go back to what it has written.
LEMMA SeekFits ==
    ASSUME volumeSize \in Nat \ {0, 1}, Dotted \in BOOLEAN, NEW s, StreamOK(s), Sound(s),
           Fits(s), Sized(s), In(s), NEW d \in Names, NEW offset \in Nat,
           s.reopened = {} => d \in 0 .. s.disk /\ (d = s.disk => offset <= s.used),
           NEW u, u = Seek(s, d, offset)
    PROVE  /\ Fits(u) /\ Sized(u)
           /\ u.reopened = {} => s.reopened = {} /\ d = s.disk /\ u.disk = d /\ u.used = s.used
<1> DEFINE t == GotoDisk(s, d)
<1>1. /\ u.disk = t.disk /\ u.number = d /\ u.used = t.used /\ u.at = offset
      /\ u.files = t.files /\ u.opened = t.opened /\ u.reopened = t.reopened
  BY SeekFacts
<1>2. s.reopened \subseteq t.reopened
  BY GotoFacts
<1>3. CASE u.reopened # {}
  BY <1>3 DEF Fits, Sized
<1>4. CASE u.reopened = {}
  <2>1. s.reopened = {}
    BY <1>1, <1>2, <1>4
  <2>2. s.disk \in Nat /\ d \in 0 .. s.disk
        /\ s.opened = IF Dotted THEN 0 .. s.disk ELSE {Output}
    BY <2>1 DEF Fits, Volumes
  <2>3. d = s.disk
    <3>1. SUFFICES ASSUME d # s.disk
                   PROVE  FALSE
      OBVIOUS
    <3>2. t = OpenDisk(s, d)
      BY <3>1 DEF GotoDisk
    <3>3. Name(d) \in s.opened
      BY <2>2, NameFacts
    <3>4. Name(d) \in t.reopened
      BY <3>2, <3>3, OpenDiskFacts
    <3> QED
      BY <1>1, <1>4, <3>4
  <2>4. t = s
    BY <2>3 DEF GotoDisk
  <2>5. Fits(u)
    BY <1>1, <2>1, <2>3, <2>4 DEF Fits
  <2>6. Sized(u)
    BY <1>1, <2>1, <2>4 DEF Sized
  <2> QED
    BY <1>1, <2>1, <2>3, <2>4, <2>5, <2>6
<1> QED
  BY <1>3, <1>4

\* The central directory goes to the output, which is no volume.
LEMMA DirectorySized ==
    ASSUME volumeSize \in Nat \ {0, 1}, Dotted \in BOOLEAN, NEW s, StreamOK(s), Sound(s),
           Sized(s), s.number = Output, s.reopened = {} => s.disk # Output,
           NEW cell \in Cell
    PROVE  Sized(Ready(s)) /\ Sized(Put(s, cell))
<1> DEFINE t == Ready(s)
           u == Put(s, cell)
<1>1. Output \in Names /\ Output \notin Volumes /\ Name(Output) = Output
  BY DEF Names, Volumes, Output, Name
<1>2. s.reopened \subseteq t.reopened /\ StreamOK(t)
  BY ReadyFacts
<1>3. u.disk = t.disk /\ u.opened = t.opened /\ u.reopened = t.reopened
      /\ DOMAIN u.files = DOMAIN t.files
      /\ \A m \in DOMAIN t.files \ {Name(t.disk)} : u.files[m] = t.files[m]
  BY PutFacts
<1>4. CASE t.reopened # {}
  BY <1>3, <1>4 DEF Sized
<1>5. CASE t.reopened = {}
  <2>1. t = OpenDisk(s, Output)
    BY <1>2, <1>5 DEF Ready, GotoDisk
  <2>2. /\ t.disk = Output /\ t.opened = s.opened \cup {Output}
        /\ DOMAIN t.files = DOMAIN s.files \cup {Output}
        /\ \A n \in DOMAIN s.files \ {Output} : t.files[n] = s.files[n]
    BY <1>1, <2>1, OpenDiskFacts
  <2> HIDE DEF t, u
  <2>3. \A n \in t.opened \cap DOMAIN t.files \cap Volumes :
            /\ n \in s.opened \cap DOMAIN s.files \cap Volumes
            /\ t.files[n] = s.files[n] /\ u.files[n] = s.files[n]
    BY <1>1, <1>3, <2>2
  <2>4. \A n \in s.opened \cap DOMAIN s.files \cap Volumes :
            Len(s.files[n]) <= volumeSize /\ 0 .. n \subseteq s.opened
    BY <1>2, <1>5 DEF Sized
  <2>5. Sized(t)
    BY <2>2, <2>3, <2>4 DEF Sized
  <2>6. Sized(u)
    BY <1>3, <2>2, <2>3, <2>4 DEF Sized
  <2> QED
    BY <2>5, <2>6 DEF t, u
<1> QED
  BY <1>4, <1>5

--------------------------------------------------------------------------------
(* The inductive invariant: the part about the entries *)

IInv == TypeOK /\ EntryInv /\ HeardInv /\ SoundInv /\ SizeInv

LEMMA InputFacts ==
    ASSUME TypeOK
    PROVE  /\ inputs \in Seq(Nat \cup {Folder}) /\ Len(inputs) \in Nat
           /\ index \in Nat /\ 1 <= index /\ index <= Len(inputs)
           /\ \A i \in 1 .. Len(inputs) : inputs[i] \in Nat \cup {Folder}
           /\ volumeSize \in Nat /\ volumeSize # 1 /\ Dotted \in BOOLEAN
<1>1. inputs \in Seq(Nat \cup {Folder}) /\ index \in DOMAIN inputs
  BY InputsAssumption DEF TypeOK
<1>2. volumeSize \in Nat /\ volumeSize # 1 /\ Dotted \in BOOLEAN
  BY SizesAssumption DEF TypeOK, Dotted
<1> QED
  BY <1>1, <1>2

LEMMA InitControl == Init => TypeOK /\ EntryInv /\ HeardInv
<1> SUFFICES ASSUME Init
             PROVE  TypeOK /\ EntryInv /\ HeardInv
  OBVIOUS
<1>1. inputs \in Seq(Nat \cup {Folder}) /\ inputs # <<>> /\ 1 \in DOMAIN inputs
  BY InputsAssumption DEF Init
<1>2. origin \in SUBSET Names
  BY OriginsAssumption DEF Init
<1>3. StreamOK(stream)
  <2>1. Output \in Names /\ <<Other>> \in Seq(Cell)
    BY CellFacts DEF Names
  <2> QED
    BY <1>2, <2>1 DEF Init, Closed, StreamOK
<1>4. header \in Seq([disk : Names, offset : Nat]) /\ Len(header) = 0
  BY DEF Init
<1>5. /\ inputs \in Inputs /\ volumeSize \in VolumeSizes /\ path \in Paths /\ ignored = {}
      /\ index = 1 /\ field = 0 /\ chunk = 0 /\ pc = "check" /\ result = "none"
      /\ failed = FALSE /\ refused = FALSE /\ cancelled = FALSE /\ unheard = FALSE
  BY DEF Init
<1>6. TypeOK
  <2>1. index \in DOMAIN inputs /\ Len(header) = index - 1 /\ 0 \in 0 .. HeaderCells
    BY <1>1, <1>4, <1>5 DEF HeaderCells
  <2> QED
    BY <1>2, <1>3, <1>4, <1>5, <2>1 DEF TypeOK
<1>7. EntryInv
  BY <1>4, <1>5 DEF EntryInv
<1>8. HeardInv
  BY <1>5 DEF HeardInv
<1> QED
  BY <1>6, <1>7, <1>8

\* Each step keeps the place in the entries and what is known of a cancellation.
LEMMA CheckControl ==
    ASSUME TypeOK, EntryInv, HeardInv, Check, StreamOK(stream')
    PROVE  TypeOK' /\ EntryInv' /\ HeardInv'
<1>1. TypeOK'
  BY DEF Check, Return, arguments, position, TypeOK
<1>2. EntryInv'
  BY DEF Check, Return, arguments, position, EntryInv
<1>3. HeardInv'
  BY DEF Check, Return, arguments, position, HeardInv, MorePolls
<1> QED
  BY <1>1, <1>2, <1>3

LEMMA OpenControl ==
    ASSUME TypeOK, EntryInv, HeardInv, Open, StreamOK(stream')
    PROVE  TypeOK' /\ EntryInv' /\ HeardInv'
<1>1. TypeOK'
  BY DEF Open, Return, arguments, position, TypeOK
<1>2. EntryInv'
  BY DEF Open, Return, arguments, position, EntryInv
<1>3. HeardInv'
  BY DEF Open, Return, arguments, position, HeardInv, MorePolls
<1> QED
  BY <1>1, <1>2, <1>3

LEMMA EntryOpenControl ==
    ASSUME TypeOK, EntryInv, HeardInv, EntryOpen, StreamOK(stream')
    PROVE  TypeOK' /\ EntryInv' /\ HeardInv'
<1>1. CASE failed' = TRUE /\ pc' = "close" /\ UNCHANGED <<header, field>>
  <2>1. TypeOK'
    BY <1>1 DEF EntryOpen, arguments, TypeOK
  <2>2. EntryInv' /\ HeardInv'
    BY <1>1 DEF EntryOpen, arguments, EntryInv, HeardInv
  <2> QED
    BY <2>1, <2>2
<1>2. CASE header' = Append(header, Noted) /\ field' = 0 /\ pc' = "header" /\ UNCHANGED failed
  <2>1. header \in Seq([disk : Names, offset : Nat]) /\ Noted \in [disk : Names, offset : Nat]
    BY DEF TypeOK, StreamOK, Noted
  <2>2. header' \in Seq([disk : Names, offset : Nat]) /\ Len(header') = Len(header) + 1
    BY <1>2, <2>1, AppendProperties
  <2>3. Len(header') = index
    BY <2>2, InputFacts DEF EntryOpen, EntryInv
  <2>4. TypeOK'
    BY <1>2, <2>2, <2>3 DEF EntryOpen, arguments, TypeOK, HeaderCells
  <2>5. EntryInv' /\ HeardInv'
    BY <1>2, <2>3 DEF EntryOpen, arguments, EntryInv, HeardInv, MorePolls, HeaderCells
  <2> QED
    BY <2>4, <2>5
<1> QED
  BY <1>1, <1>2 DEF EntryOpen

LEMMA WriteHeaderControl ==
    ASSUME TypeOK, EntryInv, HeardInv, WriteHeader, StreamOK(stream')
    PROVE  TypeOK' /\ EntryInv' /\ HeardInv'
<1>1. /\ pc = "header" /\ chunk = 0 /\ field < HeaderCells /\ Len(header) = index
      /\ inputs[index] \in Nat \cup {Folder}
  BY InputFacts DEF WriteHeader, EntryInv, TypeOK
<1>2. CASE failed' = TRUE /\ pc' = "close" /\ UNCHANGED field
  <2>1. TypeOK'
    BY <1>2 DEF WriteHeader, arguments, TypeOK
  <2>2. EntryInv' /\ HeardInv'
    BY <1>2 DEF WriteHeader, arguments, EntryInv, HeardInv
  <2> QED
    BY <2>1, <2>2
<1>3. CASE /\ field' = field + 1
           /\ pc' = IF field + 1 < HeaderCells THEN "header"
                    ELSE IF inputs[index] \in {0, Folder} THEN "end" ELSE "chunk"
           /\ UNCHANGED failed
  <2>1. field' \in 0 .. HeaderCells /\ (pc' # "header" => field' = HeaderCells)
    BY <1>1, <1>3 DEF TypeOK, HeaderCells
  <2>2. pc' = "chunk" => inputs[index] \in Nat \ {0}
    BY <1>1, <1>3
  <2>3. pc' \in {"header", "chunk", "end"} /\ (pc' = "header" => field' < HeaderCells)
        /\ (pc' = "end" => inputs[index] \in {0, Folder})
    BY <1>3
  <2>4. TypeOK'
    BY <1>1, <1>3, <2>1, <2>2, <2>3 DEF WriteHeader, arguments, TypeOK
  <2>5. EntryInv'
    BY <1>1, <1>3, <2>1, <2>2, <2>3 DEF WriteHeader, arguments, EntryInv
  <2>6. HeardInv'
    BY <1>1, <1>3, <2>3 DEF WriteHeader, arguments, HeardInv, MorePolls
  <2> QED
    BY <2>4, <2>5, <2>6
<1> QED
  BY <1>2, <1>3 DEF WriteHeader

LEMMA WriteChunkControl ==
    ASSUME TypeOK, EntryInv, HeardInv, WriteChunk, StreamOK(stream')
    PROVE  TypeOK' /\ EntryInv' /\ HeardInv'
<1>1. TypeOK'
  BY DEF WriteChunk, arguments, position, TypeOK
<1>2. EntryInv'
  BY DEF WriteChunk, arguments, position, EntryInv
<1>3. HeardInv'
  BY DEF WriteChunk, arguments, position, HeardInv, MorePolls
<1> QED
  BY <1>1, <1>2, <1>3

LEMMA PollControl ==
    ASSUME TypeOK, EntryInv, HeardInv, Poll, StreamOK(stream')
    PROVE  TypeOK' /\ EntryInv' /\ HeardInv'
<1>1. /\ pc = "poll" /\ chunk' = chunk + 1 /\ chunk \in Nat
      /\ inputs[index] \in Nat \ {0} /\ chunk < inputs[index]
  BY DEF Poll, EntryInv, TypeOK
<1>2. CASE refused' = TRUE /\ failed' = TRUE /\ pc' = "end"
  <2>1. TypeOK'
    BY <1>1, <1>2 DEF Poll, arguments, TypeOK
  <2>2. EntryInv' /\ HeardInv'
    BY <1>1, <1>2 DEF Poll, arguments, EntryInv, HeardInv
  <2> QED
    BY <2>1, <2>2
<1>3. CASE /\ Allows
           /\ pc' = IF chunk + 1 = inputs[index] THEN "end" ELSE "chunk"
           /\ UNCHANGED <<failed, refused>>
  <2>1. pc' = "chunk" => chunk' < inputs[index]
    BY <1>1, <1>3
  <2>2. pc' = "end" => chunk' = inputs[index]
    BY <1>1, <1>3
  <2>3. TypeOK'
    BY <1>1, <1>3, <2>1 DEF Poll, arguments, TypeOK
  <2>4. EntryInv'
    BY <1>1, <1>3, <2>2 DEF Poll, arguments, EntryInv
  <2>5. ~cancelled' /\ result' = result /\ pc' \in {"end", "chunk"}
    BY <1>3 DEF Poll, Allows
  <2>6. HeardInv'
    BY <1>1, <2>5 DEF HeardInv
  <2> QED
    BY <2>3, <2>4, <2>6
<1> QED
  BY <1>2, <1>3 DEF Poll

\* The last entry leaves no progress call, and the next one those that were left.
LEMMA EntryCloseControl ==
    ASSUME TypeOK, EntryInv, HeardInv, EntryClose, StreamOK(stream')
    PROVE  TypeOK' /\ EntryInv' /\ HeardInv'
<1>1. /\ pc = "end" /\ result = "none" /\ failed \in BOOLEAN /\ failed' \in {failed, TRUE}
      /\ Len(header) = index /\ UNCHANGED <<arguments, ignored, field, header, refused, cancelled,
                                            unheard, result>>
  BY DEF EntryClose, TypeOK, HeardInv
<1>2. /\ index \in Nat /\ index <= Len(inputs) /\ Len(inputs) \in Nat
      /\ DOMAIN inputs = 1 .. Len(inputs)
      /\ \A i \in 1 .. Len(inputs) : inputs[i] \in Nat \cup {Folder}
  BY InputFacts
<1>3. ~failed => inputs[index] \in {0, Folder} \/ chunk = inputs[index]
  BY <1>1 DEF EntryInv
<1>4. ~failed /\ MorePolls => \E i \in index + 1 .. Len(inputs) : inputs[i] \notin {0, Folder}
  <2>1. SUFFICES ASSUME ~failed, NEW i \in index .. Len(inputs),
                        inputs[i] \notin {0, Folder}, i = index => chunk < inputs[index]
                 PROVE  \E j \in index + 1 .. Len(inputs) : inputs[j] \notin {0, Folder}
    BY DEF MorePolls
  <2>2. i # index
    <3>1. chunk \in Nat
      BY DEF TypeOK
    <3>2. i = index => chunk = inputs[index] /\ chunk < inputs[index]
      BY <1>3, <2>1
    <3> QED
      BY <3>1, <3>2
  <2>3. i \in index + 1 .. Len(inputs)
    BY <1>2, <2>2
  <2> QED
    BY <2>1, <2>3
<1>5. CASE pc' = "close" /\ UNCHANGED <<index, chunk>> /\ (failed' \/ IsLast)
  <2>1. TypeOK'
    BY <1>1, <1>5 DEF arguments, TypeOK
  <2>2. EntryInv'
    BY <1>5 DEF EntryInv
  <2>3. ~failed' => ~MorePolls
    <3>1. ~failed' => index = Len(inputs) /\ ~failed
      BY <1>1, <1>5, Zenon DEF IsLast
    <3> QED
      BY <1>2, <1>4, <3>1
  <2>4. MorePolls' <=> MorePolls
    BY <1>1, <1>5 DEF MorePolls, arguments
  <2>5. HeardInv'
    BY <1>1, <1>5, <2>3, <2>4 DEF HeardInv, arguments
  <2> QED
    BY <2>1, <2>2, <2>5
<1>6. CASE pc' = "entry" /\ index' = index + 1 /\ chunk' = 0 /\ ~failed' /\ ~IsLast
  <2>1. index' \in DOMAIN inputs /\ index' = index + 1 /\ inputs' = inputs
    <3>1. index # Len(inputs) /\ inputs' = inputs
      BY <1>1, <1>6 DEF IsLast, arguments
    <3>2. index + 1 \in DOMAIN inputs
      <4>1. ASSUME NEW last \in Nat, NEW i \in Nat, i <= last, i # last
            PROVE  i + 1 \in 1 .. last
        BY <4>1
      <4>2. index + 1 \in 1 .. Len(inputs)
        BY <1>2, <3>1, <4>1
      <4> QED
        BY <1>2, <4>2
    <3> QED
      BY <1>6, <3>1, <3>2, Zenon
  <2>2. TypeOK'
    <3>1. index' \in DOMAIN inputs' /\ chunk' \in Nat /\ Len(header') \in {index' - 1, index'}
      BY <1>1, <1>2, <1>6, <2>1
    <3>2. /\ UNCHANGED <<inputs, volumeSize, path, origin, ignored, field, header, refused, cancelled,
                         unheard, result>>
          /\ failed' \in BOOLEAN
      BY <1>1 DEF arguments
    <3> QED
      BY <1>6, <3>1, <3>2 DEF TypeOK
  <2>3. EntryInv'
    BY <1>1, <1>2, <1>6 DEF EntryInv
  <2>4. MorePolls => MorePolls'
    <3>1. SUFFICES ASSUME MorePolls
                   PROVE  MorePolls'
      OBVIOUS
    <3>2. PICK i \in index + 1 .. Len(inputs) : inputs[i] \notin {0, Folder}
      BY <1>1, <1>4, <1>6, <3>1
    <3>3. i \in index' .. Len(inputs') /\ inputs'[i] \notin {0, Folder} /\ 0 < inputs[i]
      BY <1>2, <2>1, <3>2
    <3> QED
      BY <1>6, <2>1, <3>3 DEF MorePolls
  <2>5. HeardInv'
    BY <1>1, <1>6, <2>4 DEF HeardInv
  <2> QED
    BY <2>2, <2>3, <2>5
<1> QED
  BY <1>5, <1>6 DEF EntryClose

LEMMA CloseControl ==
    ASSUME TypeOK, EntryInv, HeardInv, Close, StreamOK(stream')
    PROVE  TypeOK' /\ EntryInv' /\ HeardInv'
<1>1. TypeOK'
  BY DEF Close, arguments, position, TypeOK
<1>2. EntryInv'
  BY DEF Close, arguments, position, EntryInv
<1>3. HeardInv'
  BY DEF Close, arguments, position, HeardInv, MorePolls
<1> QED
  BY <1>1, <1>2, <1>3

LEMMA FinishControl ==
    ASSUME TypeOK, EntryInv, HeardInv, Finish, StreamOK(stream')
    PROVE  TypeOK' /\ EntryInv' /\ HeardInv'
<1>1. TypeOK'
  BY DEF Finish, Return, arguments, position, TypeOK
<1>2. EntryInv'
  BY DEF Finish, Return, arguments, position, EntryInv
<1>3. HeardInv'
  BY DEF Finish, Return, arguments, position, HeardInv
<1> QED
  BY <1>1, <1>2, <1>3

LEMMA CancelControl ==
    ASSUME TypeOK, EntryInv, HeardInv, Cancel
    PROVE  TypeOK' /\ EntryInv' /\ HeardInv'
<1>1. MorePolls \in BOOLEAN
  BY DEF MorePolls
<1>2. TypeOK'
  BY <1>1 DEF Cancel, arguments, position, TypeOK
<1>3. EntryInv'
  BY DEF Cancel, arguments, position, EntryInv
<1>4. HeardInv'
  BY DEF Cancel, arguments, position, HeardInv, MorePolls
<1> QED
  BY <1>2, <1>3, <1>4

LEMMA AppearControl ==
    ASSUME TypeOK, EntryInv, HeardInv, NEW n \in Strangers, Appear(n), StreamOK(stream')
    PROVE  TypeOK' /\ EntryInv' /\ HeardInv'
<1>1. TypeOK'
  BY DEF Appear, arguments, position, TypeOK
<1>2. EntryInv'
  BY DEF Appear, arguments, position, EntryInv
<1>3. HeardInv'
  BY DEF Appear, arguments, position, HeardInv, MorePolls
<1> QED
  BY <1>1, <1>2, <1>3

--------------------------------------------------------------------------------
(* The inductive invariant: the part about the stream *)

\* A stream that an entry can be written to.
Sane(s) ==
    /\ StreamOK(s) /\ Sound(s) /\ In(s)
    /\ volumeSize > 0 /\ ~s.lost => Fits(s) /\ Sized(s)

\* The volumes can be looked for as before.
Same == UNCHANGED arguments /\ ("check" \in ignored' <=> "check" \in ignored)

\* What holds of a stream holds of it as the next one.
LEMMA NextStream ==
    ASSUME Same, NEW t, t = stream'
    PROVE  /\ Sound(t) => Sound(stream)'
           /\ In(t) => In(stream)'
           /\ Fits(t) => Fits(stream)'
           /\ Sized(t) => Sized(stream)'
           /\ Sound(t) => OldFilesSurvive'
           /\ Looked' <=> Looked
<1>1. /\ t = stream' /\ inputs' = inputs /\ volumeSize' = volumeSize
      /\ path' = path /\ origin' = origin
  BY DEF Same, arguments
<1>2. Looked' <=> Looked
  BY <1>1 DEF Looked, Same
<1>3. Sound(t) => Sound(stream)'
  BY <1>1, <1>2 DEF Sound, Own
<1>4. In(t) => In(stream)'
  BY <1>1 DEF In, Name
<1>5. Fits(t) => Fits(stream)'
  BY <1>1 DEF Fits, Name, Dotted
<1>6. Sized(t) => Sized(stream)'
  BY <1>1 DEF Sized
<1>7. Sound(t) => OldFilesSurvive'
  BY <1>1, <1>2 DEF Sound, OldFilesSurvive, OldFilesKept
<1> QED
  BY <1>2, <1>3, <1>4, <1>5, <1>6, <1>7

LEMMA SaneNow == IInv /\ pc \in Writing => Sane(stream)
BY DEF IInv, TypeOK, SoundInv, SizeInv, Sane, Writing, InEntry

LEMMA SaneNext ==
    ASSUME Same, pc' \in Writing, result' = "none",
           NEW t, t = stream', Sane(t),
           volumeSize > 0 /\ ~t.lost /\ pc' \in InEntry => HeaderFits(stream)'
    PROVE  StreamOK(stream') /\ SoundInv' /\ SizeInv'
<1>1. /\ StreamOK(stream') /\ Sound(stream)' /\ In(stream)'
      /\ volumeSize > 0 /\ ~t.lost => Fits(stream)' /\ Sized(stream)'
  BY NextStream DEF Sane
<1>2. volumeSize' = volumeSize
  BY DEF Same, arguments
<1>3. SoundInv'
  BY <1>1 DEF SoundInv, Writing, InEntry, FailedLeavesNothing, NothingLeft
<1>4. SizeInv'
  BY <1>1, <1>2 DEF SizeInv
<1> QED
  BY <1>1, <1>3, <1>4

\* A write succeeds or fails.
LEMMA WriteSane ==
    ASSUME TypeOK, NEW s, Sane(s), NEW cell \in Cell, NEW t \in {Put(s, cell)} \cup PutFails(s)
    PROVE  /\ Sane(t) /\ (t.lost <=> s.lost)
           /\ volumeSize > 0 /\ ~s.lost => Onward(s, t)
           /\ volumeSize > 0 /\ ~s.lost /\ t = Put(s, cell) /\ t.reopened = {} /\ t.disk = s.disk
                => t.used >= s.used + 1
<1> DEFINE Counts == volumeSize > 0 /\ ~s.lost
<1>1. volumeSize \in Nat /\ volumeSize # 1 /\ Dotted \in BOOLEAN
  BY InputFacts
<1>2. Sane(s) /\ (Counts => Onward(s, s))
  BY DEF Onward, Sane, StreamOK
<1>3. StreamOK(Ready(s)) /\ Sound(Ready(s)) /\ In(Ready(s)) /\ (Ready(s).lost <=> s.lost)
  BY <1>1, ReadySound, ReadyFacts DEF Sane
<1>4. Counts => volumeSize \in Nat \ {0, 1}
  BY <1>1
<1>5. Counts => Fits(Ready(s)) /\ Sized(Ready(s)) /\ Onward(s, Ready(s))
  BY <1>1, <1>4, ReadyFits DEF Sane
<1>6. StreamOK(Put(s, cell)) /\ Sound(Put(s, cell)) /\ In(Put(s, cell))
  BY <1>1, <1>3, PutSound DEF Sane
<1>7. Put(s, cell).lost <=> s.lost
  BY <1>1, PutFacts DEF Sane
<1>8. Counts
        => /\ Fits(Put(s, cell)) /\ Sized(Put(s, cell)) /\ Onward(s, Put(s, cell))
           /\ Put(s, cell).reopened = {} /\ Put(s, cell).disk = s.disk
                => Put(s, cell).used >= s.used + 1
  BY <1>1, <1>4, PutFits DEF Sane
<1>9. Sane(Ready(s)) /\ Sane(Put(s, cell))
  <2>1. volumeSize > 0 /\ ~Ready(s).lost => Fits(Ready(s)) /\ Sized(Ready(s))
    BY <1>3, <1>5
  <2>2. volumeSize > 0 /\ ~Put(s, cell).lost => Fits(Put(s, cell)) /\ Sized(Put(s, cell))
    BY <1>7, <1>8
  <2> QED
    BY <1>3, <1>6, <2>1, <2>2 DEF Sane
<1> HIDE DEF Counts
<1>10. t \in {s, Ready(s), Put(s, cell)}
  BY DEF PutFails
<1>11. Sane(t)
  BY <1>2, <1>9, <1>10
<1>12. t.lost <=> s.lost
  BY <1>3, <1>7, <1>10, Zenon
<1>13. Counts => Onward(s, t)
  BY <1>2, <1>5, <1>8, <1>10
<1>14. Counts /\ t = Put(s, cell) /\ t.reopened = {} /\ t.disk = s.disk => t.used >= s.used + 1
  BY <1>8
<1> QED
  BY <1>11, <1>12, <1>13, <1>14, Zenon DEF Counts

\* A volume that ends early is none of somebody else's.
LEMMA ShortenedSound ==
    ASSUME NEW s, StreamOK(s), Sound(s), In(s), NEW k \in Nat, k <= Len(s.files[Name(s.disk)]),
           NEW t, t = Shortened(s, k)
    PROVE  StreamOK(t) /\ Sound(t) /\ In(t) /\ t.lost
<1> DEFINE n == Name(s.disk)
<1>1. n \in DOMAIN s.files /\ n \in Own /\ s.files[n] \in Seq(Cell)
  BY DEF In, Sound, StreamOK
<1>2. SubSeq(s.files[n], 1, k) \in Seq(Cell)
  BY <1>1, SubSeqProperties
<1>3. /\ DOMAIN t = DOMAIN s /\ t.disk = s.disk /\ t.number = s.number
      /\ t.used = s.used /\ t.at = s.at /\ t.opened = s.opened
      /\ t.reopened = s.reopened /\ t.lost = TRUE
      /\ t.files = [s.files EXCEPT ![n] = SubSeq(s.files[n], 1, k)]
  BY DEF Shortened, StreamOK
<1> HIDE DEF n
<1>4. StreamOK(t)
  BY <1>1, <1>2, <1>3 DEF StreamOK
<1>5. Sound(t)
  BY <1>1, <1>3 DEF Sound
<1>6. In(t)
  BY <1>3 DEF In
<1> QED
  BY <1>3, <1>4, <1>5, <1>6

LEMMA ClosingsSound ==
    ASSUME NEW s, StreamOK(s), Sound(s), In(s), NEW t \in Closings(s)
    PROVE  StreamOK(t) /\ Sound(t) /\ In(t) /\ (t = s \/ t.lost)
<1>1. Len(s.files[Name(s.disk)]) \in Nat
  BY DEF In, Sound, StreamOK
<1>2. ASSUME NEW k \in 0 .. Len(s.files[Name(s.disk)]) - 1, t = Shortened(s, k)
      PROVE  StreamOK(t) /\ Sound(t) /\ In(t) /\ t.lost
  BY <1>1, <1>2, ShortenedSound
<1> QED
  BY <1>2 DEF Closings

LEMMA ClosingsSane ==
    ASSUME NEW s, Sane(s), NEW t \in Closings(s)
    PROVE  Sane(t) /\ (t = s \/ t.lost)
BY ClosingsSound DEF Sane

\* A write that loses nothing is the one that goes on from where the stream is.
LEMMA PutsSane ==
    ASSUME TypeOK, NEW s, Sane(s), NEW cell \in Cell, NEW t \in Puts(s, cell)
    PROVE  Sane(t) /\ (t.lost \/ (t = Put(s, cell) /\ ~s.lost))
<1>1. s \in Closings(s)
  BY DEF Closings
<1>2. PICK u \in Closings(s) : t = Put(u, cell)
  BY <1>1 DEF Puts
<1>3. Sane(u) /\ (u = s \/ u.lost)
  BY ClosingsSane
<1>4. t \in {Put(u, cell)} \cup PutFails(u)
  BY <1>2
<1>5. Sane(t) /\ (t.lost <=> u.lost)
  BY <1>3, <1>4, WriteSane
<1> QED
  BY <1>2, <1>3, <1>5, Zenon

\* The header of the entry stays within what the stream has counted.
LEMMA HeaderOnward ==
    ASSUME HeaderFits(stream), StreamOK(stream), StreamOK(stream'), Fits(stream),
           header[index] \in [disk : Names, offset : Nat], field \in Nat,
           UNCHANGED <<header, index>>, NEW t, t = stream', Onward(stream, t),
           \/ field' = field
           \/ /\ field' = field + 1
              /\ t.reopened = {} /\ t.disk = stream.disk => t.used >= stream.used + 1
    PROVE  HeaderFits(stream)'
<1> DEFINE place == header[index]
<1>1. SUFFICES ASSUME t.reopened = {}
               PROVE  /\ place.disk \in 0 .. t.disk
                      /\ place.disk = t.disk => place.offset + field' <= t.used
  BY DEF HeaderFits
<1>2. stream.reopened = {} /\ ((t.disk = stream.disk /\ t.used >= stream.used)
                               \/ t.disk = stream.disk + 1)
  BY <1>1 DEF Onward
<1>3. /\ place.disk \in 0 .. stream.disk /\ stream.disk \in Nat
      /\ place.disk = stream.disk => place.offset + field <= stream.used
  BY <1>2 DEF HeaderFits, Fits, Volumes
<1>4. place.offset \in Nat /\ stream.used \in Nat /\ t.used \in Nat
  BY DEF StreamOK
<1>5. CASE t.disk = stream.disk + 1
  BY <1>3, <1>5
<1>6. CASE t.disk = stream.disk /\ t.used >= stream.used
  <2> HIDE DEF place
  <2>1. CASE field' = field
    BY <1>3, <1>4, <1>6, <2>1
  <2>2. CASE field' = field + 1 /\ t.used >= stream.used + 1
    BY <1>3, <1>4, <1>6, <2>2
  <2> QED
    BY <1>1, <1>6, <2>1, <2>2
<1> QED
  BY <1>2, <1>5, <1>6

LEMMA InitStream == Init => SoundInv /\ SizeInv
<1> SUFFICES ASSUME Init
             PROVE  SoundInv /\ SizeInv
  OBVIOUS
<1>1. stream.opened = {} /\ stream.reopened = {} /\ pc = "check" /\ result = "none"
      /\ stream.files = [n \in origin |-> <<Other>>]
  BY DEF Init, Closed
<1>2. SoundInv
  BY <1>1 DEF SoundInv, FailedLeavesNothing, NothingLeft, Writing, InEntry
<1>3. SizeInv
  BY <1>1 DEF SizeInv, Sized, Writing, InEntry
<1> QED
  BY <1>2, <1>3

\* After the check no name that is in use is one of the archive's.
LEMMA CheckStream ==
    ASSUME IInv, Check
    PROVE  StreamOK(stream') /\ SoundInv' /\ SizeInv'
<1>1. /\ StreamOK(stream) /\ stream.opened = {} /\ stream.reopened = {}
      /\ stream.files = [n \in origin |-> <<Other>>]
      /\ stream' = stream /\ pc' \in {"open", "done"}
      /\ inputs' = inputs /\ volumeSize' = volumeSize /\ path' = path /\ origin' = origin
      /\ volumeSize \in Nat
  BY InputFacts DEF IInv, TypeOK, SoundInv, Check, Return, arguments
<1>2. OldFilesKept'
  BY <1>1 DEF OldFilesKept
<1>3. pc' = "open" /\ Looked' => origin \cap Own = {}
  <2>1. SUFFICES ASSUME pc' = "open", Looked'
                 PROVE  origin \cap Own = {}
    OBVIOUS
  <2>2. PICK found \in {Found, {}} : /\ ignored' = IF found = Found THEN {} ELSE {"check"}
                                     /\ ~Occupied(found)
    BY <2>1 DEF Check, Return
  <2>3. DOMAIN stream.files = origin
    BY <1>1
  <2>4. Output \notin origin /\ found = {}
    BY <2>2, <2>3 DEF Occupied
  <2>5. CASE volumeSize = 0
    BY <1>1, <2>4, <2>5 DEF Own
  <2>6. CASE volumeSize > 0
    <3>1. path # "hidden" /\ "check" \notin ignored'
      BY <1>1, <2>1, <2>6 DEF Looked
    <3>2. Found = {}
      BY <2>2, <2>4, <3>1
    <3>3. origin \cap Volumes = {}
      BY <1>1, <2>3, <2>6, <3>1, <3>2 DEF Found
    <3> QED
      BY <2>4, <2>6, <3>3 DEF Own
  <2> QED
    BY <1>1, <2>5, <2>6
<1>4. pc' = "open" => Sound(stream)'
  <2>1. Own' = Own
    BY <1>1 DEF Own
  <2> QED
    BY <1>1, <1>2, <1>3, <2>1 DEF Sound, OldFilesKept
<1>5. FailedLeavesNothing'
  BY <1>1 DEF FailedLeavesNothing, NothingLeft
<1>6. SoundInv'
  BY <1>1, <1>2, <1>4, <1>5 DEF SoundInv, OldFilesSurvive, Writing, InEntry
<1>7. SizeInv'
  BY <1>1 DEF SizeInv, Sized, Writing, InEntry
<1> QED
  BY <1>1, <1>6, <1>7

LEMMA OpenStream ==
    ASSUME IInv, Open
    PROVE  StreamOK(stream') /\ SoundInv' /\ SizeInv'
<1>1. /\ StreamOK(stream) /\ Sound(stream) /\ stream.opened = {} /\ stream.reopened = {}
      /\ volumeSize > 0 /\ ~stream.lost => Sized(stream)
      /\ volumeSize \in Nat /\ volumeSize # 1 /\ Dotted \in BOOLEAN
  BY InputFacts DEF IInv, TypeOK, SoundInv, SizeInv, Open
<1>2. Same
  BY DEF Open, Return, Same
<1> DEFINE t == OpenDisk(stream, 0)
<1>3. 0 \in Names
  BY DEF Names, Volumes
<1>4. StreamOK(t) /\ Sound(t) /\ In(t) /\ t.lost = stream.lost
  BY <1>1, <1>3, OpenDiskFacts, OpenDiskSound
<1>5. volumeSize > 0 => Fits(t) /\ Sized(t)
  <2>1. volumeSize > 0 => volumeSize \in Nat \ {0, 1}
    BY <1>1
  <2> QED
    BY <1>1, <2>1, OpenFits
<1> HIDE DEF t
<1>6. CASE stream' = t /\ pc' = "entry" /\ result' = result
  <2>1. Sane(t) /\ result' = "none" /\ pc' \in Writing /\ pc' \notin InEntry
    BY <1>4, <1>5, <1>6 DEF Sane, Writing, InEntry, IInv, HeardInv, Open
  <2> QED
    BY <1>2, <1>6, <2>1, SaneNext
<1>7. CASE stream' \in {stream, t} /\ Return("unopened")
  <2>1. /\ StreamOK(stream') /\ OldFilesSurvive'
        /\ volumeSize > 0 /\ ~stream'.lost => Sized(stream)'
    BY <1>1, <1>2, <1>4, <1>5, <1>7, NextStream
  <2>2. pc' = "done" /\ result' = "unopened" /\ volumeSize' = volumeSize
    BY <1>2, <1>7 DEF Return, Same, arguments
  <2> QED
    BY <2>1, <2>2 DEF SoundInv, SizeInv, FailedLeavesNothing, NothingLeft, Writing, InEntry
<1> QED
  BY <1>6, <1>7 DEF Open, t

LEMMA EntryOpenStream ==
    ASSUME IInv, EntryOpen
    PROVE  StreamOK(stream') /\ SoundInv' /\ SizeInv'
<1>1. Sane(stream) /\ Same /\ stream' = stream /\ result' = "none"
      /\ pc' \in Writing
  BY SaneNow DEF EntryOpen, Same, IInv, HeardInv, Writing, InEntry
<1>2. volumeSize > 0 /\ ~stream.lost /\ pc' \in InEntry => HeaderFits(stream)'
  <2>1. SUFFICES ASSUME volumeSize > 0, ~stream.lost, pc' \in InEntry, stream.reopened = {}
                 PROVE  /\ header'[index].disk \in 0 .. stream.disk
                        /\ header'[index].disk = stream.disk
                             => header'[index].offset + field' <= stream.used
    BY <1>1 DEF HeaderFits, EntryOpen
  <2>2. header' = Append(header, Noted) /\ field' = 0
    BY <2>1 DEF EntryOpen, InEntry
  <2>3. header \in Seq([disk : Names, offset : Nat]) /\ index = Len(header) + 1
    BY InputFacts DEF IInv, TypeOK, EntryInv, EntryOpen
  <2>4. header'[index] = Noted
    BY <2>2, <2>3, AppendProperties
  <2>5. stream.number = stream.disk /\ stream.disk \in Nat /\ stream.at <= stream.used
        /\ stream.at \in Nat
    BY <1>1, <2>1 DEF Sane, Fits, Volumes, StreamOK
  <2>6. header'[index].disk = stream.disk /\ header'[index].offset = stream.at
    BY <2>4, <2>5 DEF Noted
  <2>7. /\ header'[index].disk \in 0 .. stream.disk
        /\ header'[index].offset + field' <= stream.used
    <3>1. stream.used \in Nat /\ stream.at + 0 <= stream.used
      BY <1>1, <2>5 DEF Sane, StreamOK
    <3> QED
      BY <2>2, <2>5, <2>6, <3>1
  <2> QED
    BY <2>7
<1> QED
  BY <1>1, <1>2, SaneNext

\* The place that was noted for the entry.
LEMMA HeaderPlace ==
    ASSUME TypeOK, pc \in InEntry
    PROVE  header[index] \in [disk : Names, offset : Nat]
<1>1. header \in Seq([disk : Names, offset : Nat]) /\ Len(header) = index /\ index \in Nat
      /\ 1 <= index
  BY InputFacts DEF TypeOK, InEntry
<1>2. index \in 1 .. Len(header)
  BY <1>1
<1>3. \A i \in 1 .. Len(header) : header[i] \in [disk : Names, offset : Nat]
  BY <1>1, ElementOfSeq
<1> QED
  BY <1>2, <1>3

LEMMA WriteHeaderStream ==
    ASSUME IInv, WriteHeader
    PROVE  StreamOK(stream') /\ SoundInv' /\ SizeInv'
<1> DEFINE cell == <<index, field + 1>>
<1>1. Sane(stream) /\ TypeOK /\ Same /\ result' = "none"
      /\ pc' \in Writing /\ field \in Nat
  BY SaneNow DEF WriteHeader, IInv, HeardInv, Same, Writing, InEntry, TypeOK
<1>2. cell \in Cell
  BY <1>1, InputFacts DEF Cell
<1>3. stream' \in Puts(stream, cell) \cup PutFails(stream)
  BY DEF WriteHeader
<1> HIDE DEF cell
<1>4. Sane(stream') /\ (stream' \in {Put(stream, cell)} \cup PutFails(stream) \/ stream'.lost)
  BY <1>1, <1>2, <1>3, PutsSane, WriteSane
<1>5. volumeSize > 0 /\ ~stream'.lost /\ pc' \in InEntry => HeaderFits(stream)'
  <2>1. SUFFICES ASSUME volumeSize > 0, ~stream'.lost, pc' \in InEntry
                 PROVE  HeaderFits(stream)'
    OBVIOUS
  <2>2. /\ ~stream.lost /\ Onward(stream, stream')
        /\ stream' = Put(stream, cell) /\ stream'.reopened = {} /\ stream'.disk = stream.disk
             => stream'.used >= stream.used + 1
    BY <1>1, <1>2, <1>4, <2>1, WriteSane
  <2>3. HeaderFits(stream) /\ header[index] \in [disk : Names, offset : Nat]
    BY <2>1, <2>2, HeaderPlace DEF WriteHeader, IInv, SizeInv, InEntry
  <2>4. /\ stream' \in Puts(stream, cell) /\ field' = field + 1
        /\ UNCHANGED <<header, index>>
    BY <2>1 DEF WriteHeader, InEntry, cell
  <2>5. stream' = Put(stream, cell)
    BY <1>1, <1>2, <2>1, <2>4, PutsSane
  <2>6. StreamOK(stream) /\ StreamOK(stream') /\ Fits(stream)
    BY <1>1, <1>4, <2>1, <2>2 DEF Sane
  <2> QED
    BY <1>1, <2>2, <2>3, <2>4, <2>5, <2>6, HeaderOnward
<1> QED
  BY <1>1, <1>4, <1>5, SaneNext

LEMMA WriteChunkStream ==
    ASSUME IInv, WriteChunk
    PROVE  StreamOK(stream') /\ SoundInv' /\ SizeInv'
<1> DEFINE cell == Data(index, chunk + 1)
<1>1. Sane(stream) /\ TypeOK /\ Same /\ result' = "none"
      /\ pc' \in Writing /\ chunk \in Nat /\ field \in Nat
  BY SaneNow DEF WriteChunk, IInv, HeardInv, Same, Writing, InEntry, TypeOK
<1>2. cell \in Cell
  BY <1>1, InputFacts DEF Cell, Data, HeaderCells
<1>3. stream' \in Puts(stream, cell) \cup PutFails(stream)
  BY DEF WriteChunk
<1> HIDE DEF cell
<1>4. Sane(stream') /\ (stream' \in {Put(stream, cell)} \cup PutFails(stream) \/ stream'.lost)
  BY <1>1, <1>2, <1>3, PutsSane, WriteSane
<1>5. volumeSize > 0 /\ ~stream'.lost => HeaderFits(stream)'
  <2>1. SUFFICES ASSUME volumeSize > 0, ~stream'.lost
                 PROVE  HeaderFits(stream)'
    OBVIOUS
  <2>2. ~stream.lost /\ Onward(stream, stream')
    BY <1>1, <1>2, <1>4, <2>1, WriteSane
  <2>3. HeaderFits(stream) /\ header[index] \in [disk : Names, offset : Nat]
    BY <2>1, <2>2, HeaderPlace DEF WriteChunk, IInv, SizeInv, InEntry
  <2>4. field' = field /\ UNCHANGED <<header, index>>
    BY DEF WriteChunk, position
  <2>5. StreamOK(stream) /\ StreamOK(stream') /\ Fits(stream)
    BY <1>1, <1>4, <2>1, <2>2 DEF Sane
  <2> QED
    BY <1>1, <2>2, <2>3, <2>4, <2>5, HeaderOnward
<1> QED
  BY <1>1, <1>4, <1>5, SaneNext

LEMMA PollStream ==
    ASSUME IInv, Poll
    PROVE  StreamOK(stream') /\ SoundInv' /\ SizeInv'
<1>1. Sane(stream) /\ Same /\ result' = "none" /\ stream' = stream
      /\ pc' \in Writing
  BY SaneNow DEF Poll, IInv, HeardInv, Same, Writing, InEntry
<1>2. volumeSize > 0 /\ ~stream.lost => HeaderFits(stream)'
  <2>1. volumeSize > 0 /\ ~stream.lost => HeaderFits(stream)
    BY DEF Poll, IInv, SizeInv, InEntry
  <2>2. UNCHANGED <<stream, header, index, field>>
    BY DEF Poll
  <2> QED
    BY <2>1, <2>2 DEF HeaderFits
<1> QED
  BY <1>1, <1>2, SaneNext

\* A seek may open a volume, and never one of somebody else's.
LEMMA SeekSane ==
    ASSUME TypeOK, NEW s, Sane(s), NEW d \in Names, NEW offset \in Nat,
           volumeSize > 0 /\ ~s.lost /\ s.reopened = {}
             => d \in 0 .. s.disk /\ (d = s.disk => offset <= s.used),
           NEW t, t = Seek(s, d, offset)
    PROVE  /\ Sane(t) /\ (t.lost <=> s.lost)
           /\ volumeSize > 0 /\ ~s.lost /\ t.reopened = {}
                => s.reopened = {} /\ d = s.disk /\ t.disk = d /\ t.used = s.used
<1>1. volumeSize \in Nat /\ volumeSize # 1 /\ Dotted \in BOOLEAN
  BY InputFacts
<1>2. StreamOK(t) /\ Sound(t) /\ In(t) /\ (t.lost <=> s.lost)
  BY <1>1, SeekSound, SeekFacts DEF Sane
<1>3. volumeSize > 0 /\ ~s.lost
        => /\ Fits(t) /\ Sized(t)
           /\ t.reopened = {} => s.reopened = {} /\ d = s.disk /\ t.disk = d /\ t.used = s.used
  <2>1. SUFFICES ASSUME volumeSize > 0, ~s.lost
                 PROVE  /\ Fits(t) /\ Sized(t)
                        /\ t.reopened = {}
                             => s.reopened = {} /\ d = s.disk /\ t.disk = d /\ t.used = s.used
    OBVIOUS
  <2>2. volumeSize \in Nat \ {0, 1}
    BY <1>1, <2>1
  <2>3. StreamOK(s) /\ Sound(s) /\ Fits(s) /\ Sized(s) /\ In(s)
    BY <2>1 DEF Sane
  <2>4. s.reopened = {} => d \in 0 .. s.disk /\ (d = s.disk => offset <= s.used)
    BY <2>1
  <2> QED
    BY <1>1, <2>2, <2>3, <2>4, SeekFits
<1> QED
  BY <1>2, <1>3 DEF Sane

\* The checksum of a folder goes back to its header and returns.
LEMMA ChecksumSane ==
    ASSUME IInv, pc = "end",
           NEW t \in Checksums \cup ChecksumFails
    PROVE  Sane(t)
<1> DEFINE place == header[index]
           cell == <<index, Checksum + 1>>
<1>1. Sane(stream) /\ TypeOK
  BY SaneNow DEF IInv, Writing, InEntry
<1>2. place \in [disk : Names, offset : Nat] /\ cell \in Cell
      /\ stream.number \in Names /\ stream.at \in Nat
  BY <1>1, InputFacts, HeaderPlace DEF InEntry, Cell, Checksum, Sane, StreamOK
<1>3. place.disk \in Names /\ place.offset \in Nat /\ place.offset + Checksum \in Nat
  BY <1>2 DEF Checksum
<1>4. /\ Sane(Back) /\ (Back.lost <=> stream.lost)
      /\ volumeSize > 0 /\ ~stream.lost /\ Back.reopened = {}
           => stream.reopened = {} /\ Back.disk = stream.disk /\ Back.used = stream.used
  <2>1. volumeSize > 0 /\ ~stream.lost /\ stream.reopened = {}
          => /\ place.disk \in 0 .. stream.disk
             /\ place.disk = stream.disk => place.offset + Checksum <= stream.used
    <3>1. field = HeaderCells /\ stream.used \in Nat
      BY <1>1 DEF IInv, EntryInv, Sane, StreamOK
    <3>2. volumeSize > 0 /\ ~stream.lost /\ stream.reopened = {}
            => /\ place.disk \in 0 .. stream.disk
               /\ place.disk = stream.disk => place.offset + field <= stream.used
      BY DEF IInv, SizeInv, HeaderFits, InEntry
    <3> HIDE DEF place
    <3>3. SUFFICES ASSUME volumeSize > 0 /\ ~stream.lost /\ stream.reopened = {}
                   PROVE  /\ place.disk \in 0 .. stream.disk
                          /\ place.disk = stream.disk
                               => place.offset + Checksum <= stream.used
      OBVIOUS
    <3>4. place.disk = stream.disk => place.offset + 4 <= stream.used
      BY <3>1, <3>2, <3>3 DEF HeaderCells
    <3>5. place.offset + 4 <= stream.used => place.offset + Checksum <= stream.used
      BY <1>3, <3>1 DEF Checksum
    <3> QED
      BY <3>2, <3>3, <3>4, <3>5
  <2> DEFINE d == place.disk
             offset == place.offset + Checksum
             back == Seek(stream, d, offset)
  <2>2. d \in Names /\ offset \in Nat
    BY <1>3
  <2>3. volumeSize > 0 /\ ~stream.lost /\ stream.reopened = {}
          => d \in 0 .. stream.disk /\ (d = stream.disk => offset <= stream.used)
    BY <2>1
  <2>4. Back = back
    BY DEF Back
  <2> HIDE DEF d, offset
  <2>5. /\ Sane(back) /\ (back.lost <=> stream.lost)
        /\ volumeSize > 0 /\ ~stream.lost /\ back.reopened = {}
             => stream.reopened = {} /\ back.disk = stream.disk /\ back.used = stream.used
    BY <1>1, <2>2, <2>3, SeekSane
  <2> QED
    BY <2>4, <2>5
<1> HIDE DEF place, cell
<1>5. ASSUME NEW s \in {Put(Back, cell)} \cup PutFails(Back)
      PROVE  Sane(Seek(s, stream.number, stream.at))
  <2>1. Sane(s) /\ (s.lost <=> Back.lost) /\ (volumeSize > 0 /\ ~Back.lost => Onward(Back, s))
    BY <1>1, <1>2, <1>4, <1>5, WriteSane
  <2>2. volumeSize > 0 /\ ~s.lost /\ s.reopened = {}
          => /\ stream.number \in 0 .. s.disk
             /\ stream.number = s.disk => stream.at <= s.used
    <3>1. SUFFICES ASSUME volumeSize > 0, ~s.lost, s.reopened = {}
                   PROVE  /\ stream.number \in 0 .. s.disk
                          /\ stream.number = s.disk => stream.at <= s.used
      OBVIOUS
    <3>2. Back.reopened = {} /\ ((s.disk = Back.disk /\ s.used >= Back.used)
                                 \/ s.disk = Back.disk + 1)
      BY <1>4, <2>1, <3>1 DEF Onward
    <3>3. stream.reopened = {} /\ Back.disk = stream.disk /\ Back.used = stream.used
      BY <1>4, <2>1, <3>1, <3>2
    <3>4. stream.number = stream.disk /\ stream.disk \in Nat /\ stream.at <= stream.used
      BY <1>1, <1>4, <2>1, <3>1, <3>3 DEF Sane, Fits, Volumes
    <3>5. stream.used \in Nat /\ s.used \in Nat
      BY <1>1, <2>1 DEF Sane, StreamOK
    <3>6. CASE s.disk = Back.disk /\ s.used >= Back.used
      BY <1>2, <3>3, <3>4, <3>5, <3>6
    <3>7. CASE s.disk = Back.disk + 1
      BY <3>3, <3>4, <3>7
    <3> QED
      BY <3>2, <3>6, <3>7
  <2> QED
    BY <1>1, <1>2, <2>1, <2>2, SeekSane
<1>6. CASE t = ChecksumWritten
  BY <1>5, <1>6 DEF ChecksumWritten, ChecksumPut, cell
<1>7. CASE t \in ChecksumFails
  BY <1>1, <1>5, <1>7 DEF ChecksumFails
<1>8. CASE t = [ChecksumPut EXCEPT !.lost = TRUE]
  <2> DEFINE u == ChecksumPut
  <2>1. Sane(u)
    BY <1>1, <1>2, <1>4, WriteSane DEF ChecksumPut, cell
  <2>2. /\ DOMAIN t = DOMAIN u /\ t.disk = u.disk /\ t.number = u.number
        /\ t.used = u.used /\ t.at = u.at /\ t.opened = u.opened
        /\ t.reopened = u.reopened /\ t.lost = TRUE /\ t.files = u.files
    BY <1>8, <2>1 DEF Sane, StreamOK
  <2> HIDE DEF u
  <2>3. StreamOK(t) /\ Sound(t) /\ In(t)
    BY <2>1, <2>2 DEF Sane, StreamOK, Sound, In
  <2> QED
    BY <2>2, <2>3 DEF Sane
<1> QED
  BY <1>6, <1>7, <1>8 DEF Checksums

\* What the compressor has not put out makes the volume shorter.
LEMMA PutOutSane ==
    ASSUME TypeOK, NEW s, Sane(s), NEW t \in PutOut(s)
    PROVE  Sane(t) /\ (t = s \/ t.lost)
<1>1. CASE t = s
  BY <1>1
<1>2. ASSUME NEW m \in Kept(s), t = [Shortened(s, s.at - m) EXCEPT !.at = @ - m, !.used = @ - m]
      PROVE  Sane(t) /\ t.lost
  <2> DEFINE u == Shortened(s, s.at - m)
  <2>1. s.at \in Nat /\ s.used \in Nat /\ m \in 1 .. s.used /\ m <= s.at
        /\ s.at = Len(s.files[Name(s.disk)])
    BY DEF Kept, Sane, StreamOK
  <2>2. s.at - m \in Nat /\ s.used - m \in Nat /\ s.at - m <= s.at
    BY <2>1
  <2>3. Sane(u) /\ u.lost
    BY <2>1, <2>2, ShortenedSound DEF Sane
  <2>4. u.at = s.at /\ u.used = s.used
    BY DEF Shortened, Sane, StreamOK
  <2> HIDE DEF u
  <2>5. /\ DOMAIN t = DOMAIN u /\ t.disk = u.disk /\ t.number = u.number
        /\ t.used = s.used - m /\ t.at = s.at - m /\ t.opened = u.opened
        /\ t.reopened = u.reopened /\ t.lost = u.lost /\ t.files = u.files
    BY <1>2, <2>3, <2>4 DEF Sane, StreamOK, u
  <2>6. StreamOK(t) /\ Sound(t) /\ In(t)
    BY <2>2, <2>3, <2>5 DEF Sane, StreamOK, Sound, In
  <2> QED
    BY <2>3, <2>5, <2>6 DEF Sane
<1> QED
  BY <1>1, <1>2 DEF PutOut

LEMMA EntryCloseStream ==
    ASSUME IInv, EntryClose
    PROVE  StreamOK(stream') /\ SoundInv' /\ SizeInv'
<1>1. Sane(stream) /\ TypeOK /\ Same /\ result' = "none"
      /\ pc' \in Writing /\ pc' \notin InEntry /\ pc = "end"
  BY SaneNow DEF EntryClose, IInv, HeardInv, Same, Writing, InEntry
<1>2. Sane(stream')
  <2>1. CASE inputs[index] = Folder
    <3>1. stream' \in Checksums \cup ChecksumFails
      BY <2>1 DEF EntryClose
    <3> QED
      BY <1>1, <3>1, ChecksumSane
  <2>2. CASE inputs[index] # Folder
    <3>1. inputs[index] \in Nat /\ index \in Nat
      BY <1>1, <2>2, InputFacts
    <3>2. Descriptor(index) \in Cell
      BY <3>1 DEF Descriptor, Data, Cell, HeaderCells
    <3>3. CASE stream' \in {Put(stream, Descriptor(index))} \cup PutFails(stream)
      BY <1>1, <3>2, <3>3, WriteSane
    <3>4. ASSUME NEW s \in PutOut(stream), stream' \in Puts(s, Descriptor(index))
          PROVE  Sane(stream')
      BY <1>1, <3>2, <3>4, PutOutSane, PutsSane
    <3> QED
      BY <2>2, <3>3, <3>4 DEF EntryClose
  <2> QED
    BY <2>1, <2>2
<1> QED
  BY <1>1, <1>2, SaneNext

\* Closing the archive opens the output when it is split.
LEMMA CloseStream ==
    ASSUME IInv, Close
    PROVE  StreamOK(stream') /\ SoundInv' /\ SizeInv'
<1> DEFINE s == AtDirectory
<1>1. Sane(stream) /\ TypeOK /\ Same /\ result' = "none" /\ pc' = "finish"
      /\ volumeSize \in Nat /\ volumeSize # 1 /\ Dotted \in BOOLEAN
      /\ \/ stream' \in {stream, s, Ready(s)}
         \/ \E u \in Puts(s, Directory) : stream' \in Closings(u)
  BY SaneNow, InputFacts DEF Close, IInv, HeardInv, Same, Writing, InEntry, PutFails, s
<1>2. /\ DOMAIN s = DOMAIN stream /\ s.number = Output
      /\ s.disk = stream.disk /\ s.used = stream.used /\ s.at = stream.at
      /\ s.files = stream.files /\ s.opened = stream.opened /\ s.reopened = stream.reopened
      /\ s.lost = stream.lost
  BY <1>1 DEF AtDirectory, Sane, StreamOK
<1> HIDE DEF s
<1>3. StreamOK(s) /\ Sound(s) /\ In(s)
  BY <1>1, <1>2 DEF Sane, StreamOK, Sound, In, Names
<1>4. ASSUME NEW t \in Closings(s)
      PROVE  StreamOK(t) /\ Sound(t) /\ In(t) /\ (t = s \/ t.lost)
  BY <1>1, <1>3, <1>4, ClosingsSound
<1>5. ASSUME NEW t, StreamOK(t), Sound(t), In(t)
      PROVE  /\ StreamOK(Ready(t)) /\ Sound(Ready(t)) /\ In(Ready(t))
             /\ StreamOK(Put(t, Directory)) /\ Sound(Put(t, Directory))
             /\ In(Put(t, Directory)) /\ Put(t, Directory).lost = t.lost
  <2>1. StreamOK(Ready(t)) /\ Sound(Ready(t)) /\ In(Ready(t))
    BY <1>1, <1>5, ReadySound
  <2> QED
    BY <1>1, <1>5, <2>1, CellFacts, PutSound, PutFacts
<1>6. volumeSize > 0 /\ ~stream.lost
        => Sized(s) /\ Sized(Ready(s)) /\ Sized(Put(s, Directory))
  <2>1. SUFFICES ASSUME volumeSize > 0, ~stream.lost
                 PROVE  Sized(s) /\ Sized(Ready(s)) /\ Sized(Put(s, Directory))
    OBVIOUS
  <2>2. Sized(s)
    BY <1>1, <1>2, <2>1 DEF Sane, Sized
  <2>3. s.reopened = {} => s.disk # Output
    BY <1>1, <1>2, <2>1 DEF Sane, Fits, Volumes, Output
  <2>4. volumeSize \in Nat \ {0, 1}
    BY <1>1, <2>1
  <2> QED
    BY <1>1, <1>2, <1>3, <2>2, <2>3, <2>4, CellFacts, DirectorySized
<1>7. /\ StreamOK(stream') /\ Sound(stream')
      /\ volumeSize > 0 /\ ~stream'.lost => Sized(stream')
  <2>1. CASE stream' \in {stream, s, Ready(s)}
    <3>1. Ready(s).lost = stream.lost
      BY <1>1, <1>2, <1>3, ReadyFacts
    <3> QED
      BY <1>1, <1>2, <1>3, <1>5, <1>6, <2>1, <3>1 DEF Sane
  <2>2. ASSUME NEW u \in Puts(s, Directory), stream' \in Closings(u)
        PROVE  /\ StreamOK(stream') /\ Sound(stream')
               /\ stream'.lost \/ stream' = Put(s, Directory)
    <3>1. PICK t \in Closings(s) : u = Put(t, Directory)
      BY DEF Puts, Closings
    <3>2. StreamOK(u) /\ Sound(u) /\ In(u) /\ (u.lost \/ u = Put(s, Directory))
      BY <1>4, <1>5, <3>1
    <3> QED
      BY <1>1, <2>2, <3>2, ClosingsSound
  <2>3. Put(s, Directory).lost = stream.lost
    BY <1>2, <1>3, <1>5
  <2> QED
    BY <1>1, <1>6, <2>1, <2>2, <2>3
<1>8. Sound(stream)' /\ (volumeSize > 0 /\ ~stream'.lost => Sized(stream)')
      /\ volumeSize' = volumeSize
  BY <1>1, <1>7, NextStream DEF Same, arguments
<1> QED
  BY <1>1, <1>7, <1>8 DEF SoundInv, SizeInv, FailedLeavesNothing, NothingLeft, Writing, InEntry

\* What is removed is what was opened, and nothing that was there before.
LEMMA FinishStream ==
    ASSUME IInv, Finish
    PROVE  StreamOK(stream') /\ SoundInv' /\ SizeInv'
<1>1. /\ StreamOK(stream) /\ Sound(stream)
      /\ volumeSize > 0 /\ ~stream.lost => Sized(stream)
      /\ pc' = "done" /\ Same /\ volumeSize \in Nat
  BY InputFacts DEF Finish, Return, Same, IInv, TypeOK, SoundInv, SizeInv
<1>2. volumeSize' = volumeSize /\ origin' = origin /\ path' = path /\ (Looked' <=> Looked)
  BY <1>1, NextStream DEF Same, arguments
<1>3. CASE stream' = stream /\ result' = "ok"
  <2>1. OldFilesSurvive' /\ (volumeSize > 0 /\ ~stream.lost => Sized(stream)')
    BY <1>1, <1>3, NextStream
  <2> QED
    BY <1>1, <1>2, <1>3, <2>1
       DEF SoundInv, SizeInv, FailedLeavesNothing, NothingLeft, Writing, InEntry
<1>4. ASSUME NEW gone \in SUBSET (DOMAIN stream.files \cap Removed),
             stream' = [stream EXCEPT !.files = [n \in DOMAIN @ \ gone |-> @[n]]],
             ignored' = IF DOMAIN stream'.files \cap Removed = {} THEN ignored
                        ELSE ignored \cup {"cleanup"}
      PROVE  StreamOK(stream') /\ SoundInv' /\ SizeInv'
  <2>1. /\ DOMAIN stream' = DOMAIN stream
        /\ stream'.disk = stream.disk /\ stream'.number = stream.number
        /\ stream'.used = stream.used /\ stream'.at = stream.at
        /\ stream'.opened = stream.opened /\ stream'.reopened = stream.reopened
        /\ stream'.lost = stream.lost
        /\ stream'.files = [n \in DOMAIN stream.files \ gone |-> stream.files[n]]
    BY <1>1, <1>4 DEF StreamOK
  <2>2. /\ DOMAIN stream'.files = DOMAIN stream.files \ gone
        /\ \A n \in DOMAIN stream'.files : stream'.files[n] = stream.files[n]
    BY <2>1
  <2>3. StreamOK(stream')
    BY <1>1, <2>1, <2>2 DEF StreamOK
  <2>4. Removed \subseteq Own
    BY <1>1 DEF Removed, Found, Own
  <2>5. OldFilesSurvive'
    <3>1. Looked => \A n \in origin : n \in DOMAIN stream.files \ gone
                                     /\ stream.files[n] = <<Other>>
      BY <1>1, <2>4 DEF Sound
    <3> QED
      BY <1>2, <2>2, <3>1 DEF OldFilesSurvive, OldFilesKept
  <2>6. FailedLeavesNothing'
    <3>1. SUFFICES ASSUME volumeSize = 0 \/ path # "hidden", "cleanup" \notin ignored'
                   PROVE  stream'.opened \cap DOMAIN stream'.files = {}
      BY <1>2 DEF FailedLeavesNothing, NothingLeft
    <3>2. DOMAIN stream'.files \cap Removed = {}
      BY <1>4, <3>1
    <3>3. stream.opened \subseteq Removed
      BY <1>1, <3>1 DEF Sound, Own, Removed, Found
    <3> QED
      BY <2>1, <3>2, <3>3
  <2>7. volumeSize > 0 /\ ~stream.lost => Sized(stream)'
    BY <1>1, <1>2, <2>1, <2>2 DEF Sized
  <2> QED
    BY <1>1, <1>2, <2>1, <2>3, <2>5, <2>6, <2>7 DEF SoundInv, SizeInv, Writing, InEntry
<1> QED
  BY <1>3, <1>4 DEF Finish, Return

LEMMA CancelStream ==
    ASSUME IInv, Cancel
    PROVE  StreamOK(stream') /\ SoundInv' /\ SizeInv'
<1>1. StreamOK(stream) /\ SoundInv /\ SizeInv
      /\ UNCHANGED <<arguments, ignored, stream, pc, position, failed, refused, result>>
  BY DEF IInv, TypeOK, Cancel
<1>2. SoundInv'
  BY <1>1 DEF SoundInv, Sound, In, Name, Own, Looked, OldFilesSurvive, OldFilesKept,
              FailedLeavesNothing, NothingLeft, arguments
<1>3. SizeInv'
  BY <1>1 DEF SizeInv, Sized, Fits, HeaderFits, Name, Dotted, arguments, position
<1> QED
  BY <1>1, <1>2, <1>3

\* A file that appears is none that the stream has opened.
LEMMA AppearStream ==
    ASSUME IInv, NEW n \in Strangers, Appear(n)
    PROVE  StreamOK(stream') /\ SoundInv' /\ SizeInv'
<1>1. /\ StreamOK(stream) /\ Sound(stream) /\ SoundInv /\ SizeInv
      /\ n \in Names /\ n \notin DOMAIN stream.files
      /\ pc' = pc /\ pc \notin {"check", "done"} /\ result' = result /\ result = "none"
      /\ Same /\ UNCHANGED <<header, index, field>>
  BY StrangersAssumption DEF IInv, TypeOK, SoundInv, HeardInv, Appear, Same, position
<1>2. /\ DOMAIN stream' = DOMAIN stream
      /\ stream'.disk = stream.disk /\ stream'.number = stream.number
      /\ stream'.used = stream.used /\ stream'.at = stream.at
      /\ stream'.opened = stream.opened /\ stream'.reopened = stream.reopened
      /\ stream'.lost = stream.lost
      /\ stream'.files = With(stream.files, n, <<Other>>)
  BY <1>1 DEF Appear, StreamOK
<1>3. /\ DOMAIN stream'.files = DOMAIN stream.files \cup {n} /\ stream'.files[n] = <<Other>>
      /\ \A m \in DOMAIN stream.files : stream'.files[m] = stream.files[m]
  BY <1>1, <1>2 DEF With
<1>4. StreamOK(stream')
  <2>1. <<Other>> \in Seq(Cell)
    BY CellFacts
  <2> QED
    BY <1>1, <1>2, <1>3, <2>1 DEF StreamOK
<1>5. Sound(stream')
  BY <1>1, <1>2, <1>3 DEF Sound
<1>6. In(stream) => In(stream')
  BY <1>2 DEF In
<1>7. In(stream) /\ Fits(stream) => Fits(stream')
  <2>1. In(stream) => stream'.files[Name(stream.disk)] = stream.files[Name(stream.disk)]
    BY <1>1, <1>3 DEF In, Sound
  <2> QED
    BY <1>2, <2>1 DEF Fits
<1>8. Sized(stream) => Sized(stream')
  <2>1. \A m \in stream'.opened \cap DOMAIN stream'.files \cap Volumes :
            /\ m \in stream.opened \cap DOMAIN stream.files \cap Volumes
            /\ stream'.files[m] = stream.files[m]
    BY <1>1, <1>2, <1>3 DEF Sound
  <2> QED
    BY <1>2, <2>1 DEF Sized
<1>9. Sound(stream)' /\ (In(stream) => In(stream)')
  BY <1>1, <1>5, <1>6, NextStream
<1>10. SoundInv'
  BY <1>1, <1>2, <1>9 DEF SoundInv, FailedLeavesNothing, NothingLeft
<1>11. volumeSize > 0 /\ ~stream.lost => Sized(stream)' /\ (pc \in Writing => Fits(stream)')
  BY <1>1, <1>7, <1>8, NextStream DEF SizeInv, SoundInv
<1>12. HeaderFits(stream) => HeaderFits(stream)'
  BY <1>1, <1>2 DEF HeaderFits
<1>13. SizeInv'
  BY <1>1, <1>2, <1>11, <1>12 DEF SizeInv, Same, arguments
<1> QED
  BY <1>4, <1>10, <1>13

--------------------------------------------------------------------------------
(* Theorems *)

LEMMA StepInv ==
    ASSUME IInv, [Next]_vars
    PROVE  IInv'
<1>1. TypeOK /\ EntryInv /\ HeardInv
  BY DEF IInv
<1>2. CASE Check
  BY <1>1, <1>2, CheckStream, CheckControl DEF IInv
<1>3. CASE Open
  BY <1>1, <1>3, OpenStream, OpenControl DEF IInv
<1>4. CASE EntryOpen
  BY <1>1, <1>4, EntryOpenStream, EntryOpenControl DEF IInv
<1>5. CASE WriteHeader
  BY <1>1, <1>5, WriteHeaderStream, WriteHeaderControl DEF IInv
<1>6. CASE WriteChunk
  BY <1>1, <1>6, WriteChunkStream, WriteChunkControl DEF IInv
<1>7. CASE Poll
  BY <1>1, <1>7, PollStream, PollControl DEF IInv
<1>8. CASE EntryClose
  BY <1>1, <1>8, EntryCloseStream, EntryCloseControl DEF IInv
<1>9. CASE Close
  BY <1>1, <1>9, CloseStream, CloseControl DEF IInv
<1>10. CASE Finish
  BY <1>1, <1>10, FinishStream, FinishControl DEF IInv
<1>11. CASE Cancel
  BY <1>1, <1>11, CancelStream, CancelControl DEF IInv
<1>12. ASSUME NEW n \in Strangers, Appear(n)
       PROVE  IInv'
  BY <1>1, <1>12, AppearStream, AppearControl DEF IInv
<1>13. CASE UNCHANGED vars
  BY <1>13 DEF IInv, TypeOK, EntryInv, HeardInv, SoundInv, SizeInv, MorePolls, Sound, In,
               Name, Dotted, Own, Looked, OldFilesSurvive, OldFilesKept, FailedLeavesNothing,
               NothingLeft, Sized, Fits, HeaderFits, vars, arguments, position
<1> QED
  BY <1>2, <1>3, <1>4, <1>5, <1>6, <1>7, <1>8, <1>9, <1>10, <1>11, <1>12, <1>13
     DEF Next, Step

LEMMA InvInductive == Spec => []IInv
<1>1. Init => IInv
  BY InitControl, InitStream DEF IInv
<1>2. IInv /\ [Next]_vars => IInv'
  BY StepInv
<1> QED
  BY <1>1, <1>2, PTL DEF Spec

\* Every variable keeps its type, and the entry stays within the inputs and
\* within its chunks.
THEOREM TypeCorrect == Spec => []TypeOK
<1>1. IInv => TypeOK
  BY DEF IInv
<1> QED
  BY <1>1, InvInductive, PTL

\* What was in the directory when the call came is there unchanged at any time
\* after, whatever the creation does and however it ends.
THEOREM OldFilesStay == Spec => []OldFilesSurvive
<1>1. IInv => OldFilesSurvive
  <2>1. SUFFICES ASSUME IInv
                 PROVE  OldFilesSurvive
    OBVIOUS
  <2>2. CASE pc = "check"
    BY <2>1, <2>2 DEF IInv, SoundInv, OldFilesSurvive, OldFilesKept
  <2>3. CASE pc = "done"
    BY <2>1, <2>3 DEF IInv, SoundInv
  <2>4. CASE pc \notin {"check", "done"}
    BY <2>1, <2>4 DEF IInv, SoundInv, Sound, OldFilesSurvive, OldFilesKept
  <2> QED
    BY <2>2, <2>3, <2>4
<1> QED
  BY <1>1, InvInductive, PTL

\* A creation that was cancelled or has failed leaves none of the files it has
\* opened, for any number of volumes and wherever among them it failed.
THEOREM FailureLeavesNothing == Spec => []FailedLeavesNothing
<1>1. IInv => FailedLeavesNothing
  BY DEF IInv, SoundInv
<1> QED
  BY <1>1, InvInductive, PTL

\* As long as no volume was opened twice, none is larger than was asked for and
\* none is left out, for any size with room for the magic number and one cell.
THEOREM VolumesKeepSize == Spec => []VolumesWithinSize
<1>1. IInv => VolumesWithinSize
  BY DEF IInv, SizeInv, Sized, VolumesWithinSize
<1> QED
  BY <1>1, InvInductive, PTL

\* A success after a cancellation means that no progress call was to come.
THEOREM LateCancelIsLast == Spec => []LateCancelOnlyIsLost
<1>1. IInv => LateCancelOnlyIsLost
  BY DEF IInv, HeardInv, LateCancelOnlyIsLost
<1> QED
  BY <1>1, InvInductive, PTL

--------------------------------------------------------------------------------
(* Entries are where the central directory says *)

Place == [disk : Nat, offset : Nat]

\* Without a dot all volumes have one name.
Whole == volumeSize = 0 \/ Dotted

\* A reader comes from one place to another by taking the cell, when s has the
\* volumes 0 to top; the one it leaves is at its end and complete.
Moves(s, top, from, to, cell) ==
    \E at \in Place :
       /\ \/ at = from
          \/ /\ volumeSize > 0 /\ from.disk < top
             /\ from.offset = Len(s.files[Name(from.disk)])
             /\ at = [disk |-> from.disk + 1, offset |-> 0]
       /\ at.disk \in 0 .. top /\ at.offset < Len(s.files[Name(at.disk)])
       /\ s.files[Name(at.disk)][at.offset + 1] = cell
       /\ to = After(at)

\* The first n cells of an entry lie between two places.
Reaches(s, top, from, i, n, to) ==
    \E q \in [0 .. n -> Place] :
       /\ q[0] = from /\ q[n] = to
       /\ \A k \in 1 .. n : Moves(s, top, q[k - 1], q[k], <<i, k>>)

\* The last volume may have grown, the others are the same.
Grows(s, t, top) ==
    \A d \in 0 .. top :
       /\ Name(d) \in DOMAIN s.files /\ Name(d) \in DOMAIN t.files
       /\ Len(s.files[Name(d)]) <= Len(t.files[Name(d)])
       /\ d < top => Len(t.files[Name(d)]) = Len(s.files[Name(d)])
       /\ \A k \in 1 .. Len(s.files[Name(d)]) : t.files[Name(d)][k] = s.files[Name(d)][k]

\* The stream is at the end of its last volume.
Appending(s) ==
    /\ s.disk \in Nat /\ s.number = s.disk
    /\ s.at = Len(s.files[Name(s.disk)])
    /\ volumeSize = 0 => s.disk = 0
    /\ \A d \in 0 .. s.disk : Name(d) \in s.opened

Here(s) == [disk |-> s.disk, offset |-> s.at]

LEMMA AfterFacts ==
    ASSUME NEW place \in Place
    PROVE  /\ After(place) = [disk |-> place.disk, offset |-> place.offset + 1]
           /\ After(place) \in Place
BY DEF After, Place

LEMMA ReachesKept ==
    ASSUME NEW s, NEW t, NEW top \in Nat, NEW bottom \in Nat, top <= bottom, Grows(s, t, top),
           \A d \in 0 .. top : Len(s.files[Name(d)]) \in Nat /\ Len(t.files[Name(d)]) \in Nat,
           NEW from, NEW i, NEW n \in Nat, NEW to, Reaches(s, top, from, i, n, to)
    PROVE  Reaches(t, bottom, from, i, n, to)
<1>1. PICK q \in [0 .. n -> Place] :
         /\ q[0] = from /\ q[n] = to
         /\ \A k \in 1 .. n : Moves(s, top, q[k - 1], q[k], <<i, k>>)
  BY DEF Reaches
<1>2. ASSUME NEW k \in 1 .. n
      PROVE  Moves(t, bottom, q[k - 1], q[k], <<i, k>>)
  <2> DEFINE a == q[k - 1]
  <2>1. a \in Place /\ Moves(s, top, a, q[k], <<i, k>>)
    BY <1>1
  <2> HIDE DEF a
  <2>2. PICK at \in Place :
           /\ \/ at = a
              \/ /\ volumeSize > 0 /\ a.disk < top
                 /\ a.offset = Len(s.files[Name(a.disk)])
                 /\ at = [disk |-> a.disk + 1, offset |-> 0]
           /\ at.disk \in 0 .. top /\ at.offset < Len(s.files[Name(at.disk)])
           /\ s.files[Name(at.disk)][at.offset + 1] = <<i, k>>
           /\ q[k] = After(at)
    BY <2>1 DEF Moves
  <2>3. at.disk \in 0 .. bottom /\ at.offset \in Nat
    BY <2>2 DEF Place
  <2>4. at.offset + 1 \in 1 .. Len(s.files[Name(at.disk)])
    BY <2>2, <2>3
  <2>5. /\ at.offset < Len(t.files[Name(at.disk)])
        /\ t.files[Name(at.disk)][at.offset + 1] = <<i, k>>
    <3>1. /\ Len(s.files[Name(at.disk)]) <= Len(t.files[Name(at.disk)])
          /\ t.files[Name(at.disk)][at.offset + 1] = s.files[Name(at.disk)][at.offset + 1]
      BY <2>2, <2>4 DEF Grows
    <3> QED
      BY <2>2, <2>3, <3>1
  <2>6. a.disk < top => /\ a.disk < bottom
                        /\ Len(t.files[Name(a.disk)]) = Len(s.files[Name(a.disk)])
    <3>1. a.disk \in Nat
      BY <2>1 DEF Place
    <3> QED
      BY <3>1 DEF Grows
  <2>7. Moves(t, bottom, a, q[k], <<i, k>>)
    BY <2>2, <2>3, <2>5, <2>6 DEF Moves
  <2> QED
    BY <2>7 DEF a
<1> QED
  BY <1>1, <1>2 DEF Reaches

LEMMA ReachesNothing ==
    ASSUME NEW s, NEW top, NEW from \in Place, NEW i
    PROVE  Reaches(s, top, from, i, 0, from)
<1> DEFINE q == [k \in 0 .. 0 |-> from]
<1>1. q \in [0 .. 0 -> Place] /\ q[0] = from /\ 1 .. 0 = {}
  OBVIOUS
<1> HIDE DEF q
<1> QED
  BY <1>1 DEF Reaches

LEMMA ReachesMore ==
    ASSUME NEW s, NEW top, NEW from, NEW i, NEW n \in Nat, NEW place,
           Reaches(s, top, from, i, n, place), NEW to \in Place,
           Moves(s, top, place, to, <<i, n + 1>>)
    PROVE  Reaches(s, top, from, i, n + 1, to)
<1>1. PICK q \in [0 .. n -> Place] :
         /\ q[0] = from /\ q[n] = place
         /\ \A k \in 1 .. n : Moves(s, top, q[k - 1], q[k], <<i, k>>)
  BY DEF Reaches
<1> DEFINE r == [k \in 0 .. n + 1 |-> IF k = n + 1 THEN to ELSE q[k]]
<1>2. \A k \in 0 .. n + 1 : k = n + 1 \/ k \in 0 .. n
  OBVIOUS
<1>3. r \in [0 .. n + 1 -> Place]
  BY <1>2
<1>4. r[0] = from /\ r[n + 1] = to /\ \A k \in 0 .. n : r[k] = q[k]
  BY <1>1
<1> HIDE DEF r
<1>5. ASSUME NEW k \in 1 .. n + 1
      PROVE  Moves(s, top, r[k - 1], r[k], <<i, k>>)
  <2>1. CASE k = n + 1
    <3>1. r[k - 1] = place /\ r[k] = to
      BY <1>1, <1>4, <2>1
    <3> QED
      BY <2>1, <3>1
  <2>2. CASE k # n + 1
    <3>1. k \in 1 .. n /\ r[k - 1] = q[k - 1] /\ r[k] = q[k]
      BY <1>4, <2>2
    <3> QED
      BY <1>1, <3>1
  <2> QED
    BY <2>1, <2>2
<1> QED
  BY <1>3, <1>4, <1>5 DEF Reaches

\* What is written at the end of a file is there, after what was.
LEMMA PutCells ==
    ASSUME volumeSize \in Nat, NEW s, StreamOK(s), NEW cell \in Cell,
           NEW t, t = Ready(s), NEW u, u = Put(s, cell), NEW file,
           Name(t.disk) \in DOMAIN t.files, file = t.files[Name(t.disk)], t.at = Len(file)
    PROVE  /\ Len(u.files[Name(t.disk)]) = Len(file) + 1 /\ Len(file) \in Nat
           /\ u.files[Name(t.disk)][Len(file) + 1] = cell
           /\ \A k \in 1 .. Len(file) : u.files[Name(t.disk)][k] = file[k]
<1>1. StreamOK(t) /\ file \in Seq(Cell)
  BY ReadyFacts DEF StreamOK
<1>2. u.files[Name(t.disk)] = Overwritten(file, Len(file), cell)
  BY <1>1 DEF Put, StreamOK
<1>3. Overwritten(file, Len(file), cell) =
         [k \in 1 .. Len(file) + 1 |->
             IF k = Len(file) + 1 THEN cell ELSE IF k <= Len(file) THEN file[k] ELSE Hole]
  BY <1>1 DEF Overwritten
<1>4. Len(Overwritten(file, Len(file), cell)) = Len(file) + 1
  <2> DEFINE N == Len(file)
  <2>1. N \in Nat /\ ~(N < N)
    BY <1>1
  <2>2. Len(Overwritten(file, N, cell)) = IF N < Len(file) THEN Len(file) ELSE N + 1
    <3> HIDE DEF N
    <3> QED
      BY <1>1, <2>1, OverwrittenFacts
  <2> QED
    BY <2>1, <2>2
<1> QED
  BY <1>1, <1>2, <1>3, <1>4

\* Whoever has taken all up to where the stream is comes with the next cell to
\* where the stream is after it, in the same volume or in the next one.
LEMMA PutMoves ==
    ASSUME volumeSize \in Nat, Whole, NEW s, StreamOK(s), s.opened \subseteq DOMAIN s.files,
           Appending(s), NEW cell \in Cell, NEW u, u = Put(s, cell), u.reopened = {}
    PROVE  /\ Appending(u) /\ s.disk <= u.disk /\ Grows(s, u, s.disk)
           /\ Moves(u, u.disk, Here(s), Here(u), cell) /\ Here(u) \in Place
<1> DEFINE t == Ready(s)
           n == Name(s.disk)
<1>1. /\ s.disk \in Nat /\ s.number = s.disk /\ s.at = Len(s.files[n])
      /\ volumeSize = 0 => s.disk = 0
      /\ \A d \in 0 .. s.disk : Name(d) \in DOMAIN s.files /\ Name(d) \in s.opened
      /\ n \in DOMAIN s.files /\ s.at \in Nat
  BY DEF Appending, StreamOK
<1>2. \A d \in 0 .. s.disk : Name(d) = n => d = s.disk
  <2>1. CASE volumeSize = 0
    BY <1>1, <2>1
  <2>2. CASE Dotted /\ volumeSize # 0
    BY <1>1, <2>2 DEF Name, Dotted
  <2> QED
    BY <2>1, <2>2 DEF Whole
<1>3. /\ StreamOK(t) /\ StreamOK(u) /\ u.disk = t.disk /\ u.number = t.number
      /\ u.at = t.at + 1 /\ u.opened = t.opened /\ u.reopened = t.reopened
      /\ DOMAIN u.files = DOMAIN t.files
      /\ \A m \in DOMAIN t.files \ {Name(t.disk)} : u.files[m] = t.files[m]
  BY PutFacts, ReadyFacts
<1>4. \A d \in 0 .. s.disk : Len(s.files[Name(d)]) \in Nat
  BY <1>1 DEF StreamOK
<1> HIDE DEF t, n
<1>5. CASE ~(volumeSize > 0 /\ Full(s))
  <2>1. t = s
    <3>1. s.number # Output
      BY <1>1 DEF Output
    <3> QED
      BY <1>5, <3>1 DEF t, Ready
  <2>2. /\ Len(u.files[n]) = s.at + 1 /\ u.files[n][s.at + 1] = cell
        /\ \A k \in 1 .. s.at : u.files[n][k] = s.files[n][k]
    BY <1>1, <2>1, PutCells DEF t, n
  <2>3. Appending(u) /\ u.disk = s.disk
    BY <1>1, <1>3, <2>1, <2>2 DEF Appending, n
  <2>4. ASSUME NEW d \in 0 .. s.disk
        PROVE  /\ Name(d) \in DOMAIN s.files /\ Name(d) \in DOMAIN u.files
               /\ Len(s.files[Name(d)]) <= Len(u.files[Name(d)])
               /\ d < s.disk => Len(u.files[Name(d)]) = Len(s.files[Name(d)])
               /\ \A k \in 1 .. Len(s.files[Name(d)]) :
                     u.files[Name(d)][k] = s.files[Name(d)][k]
    <3>1. CASE d = s.disk
      <4>1. Name(d) = n
        BY <3>1 DEF n
      <4> QED
        BY <1>1, <1>3, <2>1, <2>2, <3>1, <4>1
    <3>2. CASE d # s.disk
      <4>1. Name(d) # n
        BY <1>2, <3>2
      <4>2. u.files[Name(d)] = s.files[Name(d)]
        BY <1>1, <1>3, <2>1, <4>1 DEF n
      <4> QED
        BY <1>1, <1>3, <1>4, <2>1, <4>2
    <3> QED
      BY <3>1, <3>2
  <2>5. Grows(s, u, s.disk)
    BY <2>4 DEF Grows
  <2>6. Here(s) \in Place /\ Here(s).disk = s.disk /\ Here(s).offset = s.at
    BY <1>1 DEF Here, Place
  <2>7. Here(u) = After(Here(s)) /\ Here(u) \in Place
    <3>1. u.disk = s.disk /\ u.at = s.at + 1
      BY <1>3, <2>1, <2>3
    <3> QED
      BY <2>6, <3>1, AfterFacts DEF Here
  <2>8. Here(s).disk \in 0 .. u.disk /\ Here(s).offset < Len(u.files[Name(Here(s).disk)])
        /\ u.files[Name(Here(s).disk)][Here(s).offset + 1] = cell
    BY <1>1, <2>2, <2>3, <2>6 DEF n
  <2>9. Moves(u, u.disk, Here(s), Here(u), cell)
    BY <2>6, <2>7, <2>8 DEF Moves
  <2> QED
    BY <1>1, <2>3, <2>5, <2>7, <2>9
<1>6. CASE volumeSize > 0 /\ Full(s)
  <2> DEFINE e == s.disk + 1
  <2>1. e \in Nat /\ e \in Names /\ e # 0 /\ e # s.disk /\ s.number # Output
    BY <1>1 DEF Names, Volumes, Output
  <2>2. t = OpenDisk(s, e)
    BY <1>6, <2>1 DEF t, Ready, GotoDisk
  <2>3. Dotted
    BY <1>6 DEF Whole
  <2>4. \A d \in 0 .. e : Name(d) = d
    BY <1>6, <2>3 DEF Name, Dotted
  <2> HIDE DEF e
  <2>5. /\ t.disk = e /\ t.number = e /\ t.at = 0 /\ t.opened = s.opened \cup {Name(e)}
        /\ DOMAIN t.files = DOMAIN s.files \cup {Name(e)} /\ Len(t.files[Name(e)]) = 0
        /\ \A m \in DOMAIN s.files \ {Name(e)} : t.files[m] = s.files[m]
    BY <2>1, <2>2, OpenDiskFacts
  <2>6. Len(u.files[Name(e)]) = 1 /\ u.files[Name(e)][1] = cell
    <3>1. Name(e) \in DOMAIN t.files /\ 0 + 1 = 1
      BY <2>5
    <3> DEFINE file == t.files[Name(t.disk)]
    <3>2. Name(t.disk) \in DOMAIN t.files /\ t.at = Len(file)
      BY <2>5, <3>1
    <3>3. /\ Len(u.files[Name(t.disk)]) = Len(file) + 1
          /\ u.files[Name(t.disk)][Len(file) + 1] = cell
      <4>1. t = Ready(s)
        BY DEF t
      <4> HIDE DEF file
      <4>2. \A f : f = file /\ t.files[Name(t.disk)] = f
                => /\ Len(u.files[Name(t.disk)]) = Len(f) + 1
                   /\ u.files[Name(t.disk)][Len(f) + 1] = cell
        BY <3>2, <4>1, PutCells
      <4> QED
        BY <4>2 DEF file
    <3> QED
      BY <2>5, <3>1, <3>3
  <2>7. \A d \in 0 .. s.disk : /\ Name(d) # Name(e) /\ Name(d) \in DOMAIN u.files
                               /\ u.files[Name(d)] = s.files[Name(d)]
    <3>1. ASSUME NEW d \in 0 .. s.disk
          PROVE  Name(d) # Name(e)
      <4>1. d # e /\ d \in 0 .. e /\ e \in 0 .. e
        BY <1>1 DEF e
      <4> QED
        BY <2>4, <4>1
    <3> QED
      BY <1>1, <1>3, <2>5, <3>1
  <2>8. Appending(u)
    <3>1. \A d \in 0 .. e : d \in 0 .. s.disk \/ d = e
      BY <1>1 DEF e
    <3>2. \A d \in 0 .. e : Name(d) \in u.opened
      BY <1>1, <1>3, <2>5, <3>1
    <3> QED
      BY <1>3, <1>6, <2>1, <2>5, <2>6, <3>2 DEF Appending
  <2>9. Grows(s, u, s.disk)
    BY <1>1, <1>4, <2>7 DEF Grows
  <2> DEFINE at == [disk |-> e, offset |-> 0]
  <2>10. at \in Place /\ at.disk = e /\ at.offset = 0
    BY <2>1 DEF Place
  <2>11. Here(u) = After(at) /\ Here(u) \in Place
    BY <1>3, <2>5, <2>10, AfterFacts DEF Here
  <2>12. /\ Here(s).disk = s.disk /\ Here(s).disk < u.disk /\ at.disk = Here(s).disk + 1
         /\ Here(s).offset = Len(u.files[Name(Here(s).disk)])
    <3>1. Here(s).disk = s.disk /\ Here(s).offset = s.at /\ s.disk \in 0 .. s.disk
      BY <1>1 DEF Here
    <3>2. u.disk = s.disk + 1
      BY <1>3, <2>5 DEF e
    <3>3. s.at = Len(u.files[Name(s.disk)])
      BY <1>1, <2>7, <3>1 DEF n
    <3> QED
      BY <1>1, <2>10, <3>1, <3>2, <3>3 DEF e
  <2>13. /\ at.disk \in 0 .. u.disk /\ at.offset < Len(u.files[Name(at.disk)])
         /\ u.files[Name(at.disk)][at.offset + 1] = cell
    BY <1>3, <2>1, <2>5, <2>6, <2>10
  <2>14. at = [disk |-> Here(s).disk + 1, offset |-> 0]
    BY <2>10, <2>12
  <2> HIDE DEF at
  <2>15. Moves(u, u.disk, Here(s), Here(u), cell)
    BY <1>6, <2>10, <2>11, <2>12, <2>13, <2>14 DEF Moves
  <2>16. s.disk <= u.disk
    BY <1>1, <1>3, <2>5 DEF e
  <2> QED
    BY <2>8, <2>9, <2>11, <2>15, <2>16
<1> QED
  BY <1>5, <1>6

\* In the last volume a reader only goes straight on.
LEMMA MovesStraight ==
    ASSUME NEW s, NEW top, NEW from \in Place, from.disk = top, NEW to, NEW cell,
           Moves(s, top, from, to, cell)
    PROVE  /\ to = [disk |-> top, offset |-> from.offset + 1] /\ to \in Place
           /\ from.offset < Len(s.files[Name(top)])
           /\ s.files[Name(top)][from.offset + 1] = cell
<1>1. from.disk \in Nat /\ ~(from.disk < top)
  BY DEF Place
<1>2. /\ to = After(from) /\ from.offset < Len(s.files[Name(from.disk)])
      /\ s.files[Name(from.disk)][from.offset + 1] = cell
  BY <1>1 DEF Moves
<1> QED
  BY <1>2, AfterFacts

LEMMA OverwrittenSame ==
    ASSUME NEW file \in Seq(Cell), NEW place \in Nat, place < Len(file), NEW cell,
           file[place + 1] = cell
    PROVE  Overwritten(file, place, cell) = file
<1>1. Overwritten(file, place, cell) =
         [k \in 1 .. Len(file) |->
             IF k = place + 1 THEN cell ELSE IF k <= Len(file) THEN file[k] ELSE Hole]
  BY DEF Overwritten
<1>2. \A k \in 1 .. Len(file) :
         (IF k = place + 1 THEN cell ELSE IF k <= Len(file) THEN file[k] ELSE Hole) = file[k]
  OBVIOUS
<1>3. file = [k \in 1 .. Len(file) |-> file[k]]
  OBVIOUS
<1> QED
  BY <1>1, <1>2, <1>3

\* A seek that opens no volume again stays in the volume.
LEMMA SeekStays ==
    ASSUME volumeSize \in Nat, NEW s, StreamOK(s), NEW d \in Nat, Name(d) \in s.opened,
           volumeSize = 0 => d = s.disk, NEW offset \in Nat,
           NEW t, t = Seek(s, d, offset), t.reopened = {}
    PROVE  /\ d = s.disk /\ StreamOK(t) /\ s.reopened = {}
           /\ t.disk = s.disk /\ t.number = s.disk /\ t.at = offset /\ t.used = s.used
           /\ t.files = s.files /\ t.opened = s.opened
<1> DEFINE r == GotoDisk(s, d)
<1>1. d \in Names
  BY DEF Names, Volumes
<1>2. /\ StreamOK(t) /\ t.disk = r.disk /\ t.number = d /\ t.used = r.used /\ t.at = offset
      /\ t.files = r.files /\ t.opened = r.opened /\ t.reopened = r.reopened
  BY <1>1, SeekFacts
<1>3. CASE d = s.disk
  <2>1. r = s
    BY <1>3 DEF GotoDisk
  <2> HIDE DEF r
  <2> QED
    BY <1>2, <1>3, <2>1
<1>4. CASE d # s.disk
  <2>1. r = OpenDisk(s, d)
    BY <1>4 DEF GotoDisk
  <2>2. Name(d) \in r.reopened
    BY <1>1, <2>1, OpenDiskFacts
  <2> HIDE DEF r
  <2> QED
    BY <1>2, <2>2
<1> QED
  BY <1>3, <1>4

\* Writing the checksum of a folder again changes nothing that is there.
LEMMA ChecksumKeeps ==
    ASSUME IInv, pc = "end", Whole, Appending(stream),
           Reaches(stream, stream.disk, header[index], index, HeaderCells, Here(stream)),
           NEW t, t = ChecksumWritten, t.reopened = {}
    PROVE  /\ t.disk = stream.disk /\ t.number = stream.number /\ t.at = stream.at
           /\ t.opened = stream.opened /\ DOMAIN t.files = DOMAIN stream.files
           /\ \A n \in DOMAIN stream.files : t.files[n] = stream.files[n]
<1> DEFINE place == header[index]
           offset == place.offset + Checksum
           cell == <<index, Checksum + 1>>
           back == Seek(stream, place.disk, offset)
           u == Put(back, cell)
<1>1. /\ StreamOK(stream) /\ volumeSize \in Nat /\ stream.opened \subseteq DOMAIN stream.files
      /\ index \in Nat
  BY SaneNow, InputFacts DEF IInv, Writing, InEntry, Sane, Sound
<1>2. /\ stream.disk \in Nat /\ stream.number = stream.disk /\ stream.at \in Nat
      /\ volumeSize = 0 => stream.disk = 0
      /\ \A d \in 0 .. stream.disk : Name(d) \in stream.opened
  BY <1>1 DEF Appending, StreamOK
<1>3. PICK q \in [0 .. HeaderCells -> Place] :
         /\ q[0] = place
         /\ \A k \in 1 .. HeaderCells :
               Moves(stream, stream.disk, q[k - 1], q[k], <<index, k>>)
  BY DEF Reaches
<1>4. /\ Moves(stream, stream.disk, q[0], q[1], <<index, 1>>)
      /\ Moves(stream, stream.disk, q[1], q[2], <<index, 2>>)
      /\ Moves(stream, stream.disk, q[2], q[3], <<index, 3>>)
  <2>1. 1 \in 1 .. 4 /\ 2 \in 1 .. 4 /\ 3 \in 1 .. 4 /\ 1 - 1 = 0 /\ 2 - 1 = 1 /\ 3 - 1 = 2
    OBVIOUS
  <2> QED
    BY <1>3, <2>1 DEF HeaderCells
<1>5. place \in Place /\ place.disk \in 0 .. stream.disk
  <2>1. q[0] \in Place
    BY <1>3 DEF HeaderCells
  <2>2. q[0].disk \in 0 .. stream.disk
    <3> DEFINE a == q[0]
    <3>1. Moves(stream, stream.disk, a, q[1], <<index, 1>>) /\ a \in Place
      BY <1>4, <2>1
    <3> HIDE DEF a
    <3>2. a.disk \in Nat /\ (a.disk \in 0 .. stream.disk \/ a.disk < stream.disk)
      BY <3>1 DEF Moves, Place
    <3>3. a.disk \in 0 .. stream.disk
      BY <1>2, <3>2
    <3> QED
      BY <3>3 DEF a
  <2> QED
    BY <1>3, <2>1, <2>2
<1>6. place.disk \in Nat /\ offset \in Nat /\ cell \in Cell
  BY <1>1, <1>5, CellFacts DEF Place, Checksum
<1> HIDE DEF place, offset, cell
<1>7. t = Seek(u, stream.number, stream.at)
  BY DEF ChecksumWritten, ChecksumPut, Back, back, u, place, offset, cell
<1>8. StreamOK(back) /\ StreamOK(u) /\ back.reopened \subseteq u.reopened
  <2>1. place.disk \in Names
    BY <1>6 DEF Names, Volumes
  <2>2. StreamOK(back)
    BY <1>1, <1>6, <2>1, SeekFacts
  <2> HIDE DEF back
  <2>3. StreamOK(u) /\ u.reopened = Ready(back).reopened /\ back.reopened \subseteq Ready(back).reopened
    BY <1>1, <1>6, <2>2, PutFacts, ReadyFacts
  <2> QED
    BY <2>2, <2>3
<1>9. u.reopened = {} /\ back.reopened = {}
  <2>1. stream.disk \in Names
    BY <1>2 DEF Names, Volumes
  <2>2. u.reopened \subseteq GotoDisk(u, stream.disk).reopened
    BY <1>1, <1>8, <2>1, GotoFacts
  <2>3. t.reopened = GotoDisk(u, stream.disk).reopened
    BY <1>1, <1>2, <1>7, <1>8, <2>1, SeekFacts
  <2> QED
    BY <1>8, <2>2, <2>3
<1>10. /\ place.disk = stream.disk /\ back.disk = stream.disk /\ back.number = stream.disk
       /\ back.at = offset /\ back.used = stream.used /\ back.files = stream.files
       /\ back.opened = stream.opened
  <2>1. Name(place.disk) \in stream.opened /\ (volumeSize = 0 => place.disk = stream.disk)
    BY <1>2, <1>5
  <2> QED
    BY <1>1, <1>6, <1>9, <2>1, SeekStays
<1> DEFINE file == stream.files[Name(stream.disk)]
<1>11. offset < Len(file) /\ file[offset + 1] = cell /\ file \in Seq(Cell)
  <2> DEFINE a == q[0]
             b == q[1]
             c == q[2]
  <2>1. a = place /\ a \in Place /\ a.disk = stream.disk
    BY <1>3, <1>5, <1>10
  <2>2. /\ Moves(stream, stream.disk, a, b, <<index, 1>>)
        /\ Moves(stream, stream.disk, b, c, <<index, 2>>)
        /\ Moves(stream, stream.disk, c, q[3], <<index, 3>>)
    BY <1>4
  <2> HIDE DEF a, b, c
  <2>3. b \in Place /\ b.disk = stream.disk /\ b.offset = a.offset + 1
    <3>1. b = [disk |-> stream.disk, offset |-> a.offset + 1] /\ b \in Place
      BY <2>1, <2>2, MovesStraight
    <3> QED
      BY <3>1
  <2>4. c \in Place /\ c.disk = stream.disk /\ c.offset = b.offset + 1
    <3>1. Moves(stream, stream.disk, b, c, <<index, 2>>) /\ b \in Place /\ b.disk = stream.disk
      BY <2>2, <2>3
    <3>2. c = [disk |-> stream.disk, offset |-> b.offset + 1] /\ c \in Place
      BY <3>1, MovesStraight
    <3> QED
      BY <3>2
  <2>5. c.offset < Len(file) /\ file[c.offset + 1] = <<index, 3>>
    <3>1. /\ Moves(stream, stream.disk, c, q[3], <<index, 3>>)
          /\ c \in Place /\ c.disk = stream.disk
      BY <2>2, <2>4
    <3>2. /\ c.offset < Len(stream.files[Name(stream.disk)])
          /\ stream.files[Name(stream.disk)][c.offset + 1] = <<index, 3>>
      <4> DEFINE top == stream.disk
                 d == q[3]
                 written == <<index, 3>>
      <4>1. Moves(stream, top, c, d, written) /\ c \in Place /\ c.disk = top
        BY <3>1
      <4> HIDE DEF top, d, written
      <4>2. /\ c.offset < Len(stream.files[Name(top)])
            /\ stream.files[Name(top)][c.offset + 1] = written
        BY <4>1, MovesStraight
      <4> QED
        BY <4>2 DEF top, written
    <3> QED
      BY <3>2
  <2>6. c.offset = offset
    BY <2>1, <2>3, <2>4 DEF offset, Checksum, Place
  <2>7. file \in Seq(Cell)
    BY <1>1, <1>2 DEF StreamOK
  <2> QED
    BY <2>5, <2>6, <2>7 DEF cell, Checksum
<1> HIDE DEF back, file
<1>12. Ready(back) = back
  <2>1. SUFFICES ASSUME volumeSize > 0, Full(back)
                 PROVE  FALSE
    <3>1. back.number # Output
      BY <1>2, <1>10 DEF Output
    <3> QED
      BY <3>1 DEF Ready
  <2> DEFINE e == stream.disk + 1
  <2>2. Ready(back) = OpenDisk(back, e) /\ e \in Nat /\ e \in Names
    BY <1>2, <1>10, <2>1 DEF Ready, GotoDisk, Output, Names, Volumes
  <2> HIDE DEF e
  <2>3. Ready(back).disk = e /\ back.opened \subseteq Ready(back).opened
    BY <1>1, <1>8, <2>2, OpenDiskFacts
  <2>4. u.disk = e /\ stream.opened \subseteq u.opened
    BY <1>1, <1>6, <1>8, <1>10, <2>3, PutFacts
  <2>5. Name(stream.disk) \in u.opened
    BY <1>2, <2>4
  <2>6. stream.disk = u.disk
    BY <1>1, <1>2, <1>7, <1>8, <2>1, <2>5, SeekStays
  <2> QED
    BY <1>2, <2>4, <2>6 DEF e
<1>13. /\ u.disk = stream.disk /\ u.opened = stream.opened
       /\ DOMAIN u.files = DOMAIN stream.files
       /\ \A n \in DOMAIN stream.files : u.files[n] = stream.files[n]
  <2>1. /\ u.disk = stream.disk /\ u.opened = stream.opened
        /\ DOMAIN u.files = DOMAIN stream.files
        /\ \A n \in DOMAIN stream.files \ {Name(stream.disk)} : u.files[n] = stream.files[n]
    BY <1>1, <1>6, <1>8, <1>10, <1>12, PutFacts
  <2>2. u.files[Name(stream.disk)] = Overwritten(file, offset, cell)
    <3>1. u = [back EXCEPT !.files[Name(back.disk)] = Overwritten(@, back.at, cell),
                           !.at = @ + 1, !.used = @ + 1]
      BY <1>12 DEF Put
    <3>2. Name(stream.disk) \in DOMAIN stream.files
      BY <1>1, <1>2
    <3> QED
      BY <1>8, <1>10, <3>1, <3>2 DEF StreamOK, file
  <2>3. Overwritten(file, offset, cell) = file
    BY <1>6, <1>11, OverwrittenSame
  <2> QED
    BY <2>1, <2>2, <2>3 DEF file
<1> HIDE DEF u
<1>14. /\ t.disk = u.disk /\ t.number = u.disk /\ t.at = stream.at
       /\ t.files = u.files /\ t.opened = u.opened
  <2>1. Name(stream.disk) \in u.opened
    BY <1>2, <1>13
  <2> QED
    BY <1>1, <1>2, <1>7, <1>8, <1>13, <2>1, SeekStays
<1> QED
  BY <1>2, <1>13, <1>14

--------------------------------------------------------------------------------
(* Entries are where the central directory says: the steps *)

\* The cells of the entry that are written.
Counted == field + chunk + (IF pc = "poll" THEN 1 ELSE 0)

Entries(s, top, n) ==
    \A i \in 1 .. n :
       \E to \in Place : Reaches(s, top, header[i], i, Len(Cells(i)), to)

Finished(s) ==
    /\ Len(header) = Len(inputs)
    /\ Output \in DOMAIN s.files /\ s.files[Output] # <<>>
    /\ Last(s.files[Output]) = Directory
    /\ \E top \in Nat : /\ \A d \in 0 .. top : Name(d) \in DOMAIN s.files
                        /\ Entries(s, top, Len(inputs))

\* While the archive is written the stream is at the end of the last volume, the
\* entries so far are complete, and the current one is as far as it was written.
Laid ==
    /\ pc \in Writing => Appending(stream)
    /\ pc \in Writing =>
          Entries(stream, stream.disk, IF pc = "close" THEN Len(header) ELSE index - 1)
    /\ pc \in InEntry =>
          Reaches(stream, stream.disk, header[index], index, Counted, Here(stream))
    /\ pc = "close" => Len(header) = Len(inputs)
    /\ pc = "finish" \/ result = "ok" => Finished(stream)

LaidInv ==
    /\ pc \in {"check", "open"} => header = <<>>
    /\ pc = "end" /\ inputs[index] \in {0, Folder} => chunk = 0
    /\ result = "ok" => ~failed
    /\ ~failed /\ stream.reopened = {} /\ ~stream.lost
         => /\ pc = "finish" \/ result = "ok" => Whole
            /\ Whole => Laid

LEMMA EntriesKept ==
    ASSUME NEW s, NEW t, NEW top \in Nat, NEW bottom \in Nat, top <= bottom, Grows(s, t, top),
           \A d \in 0 .. top : Len(s.files[Name(d)]) \in Nat /\ Len(t.files[Name(d)]) \in Nat,
           \A i \in DOMAIN inputs : Len(Cells(i)) \in Nat,
           NEW n, 1 .. n \subseteq DOMAIN inputs, Entries(s, top, n)
    PROVE  Entries(t, bottom, n)
<1>1. ASSUME NEW i \in 1 .. n
      PROVE  \E to \in Place : Reaches(t, bottom, header[i], i, Len(Cells(i)), to)
  <2>1. PICK to \in Place : Reaches(s, top, header[i], i, Len(Cells(i)), to)
    BY DEF Entries
  <2>2. Len(Cells(i)) \in Nat
    OBVIOUS
  <2> DEFINE length == Len(Cells(i))
             from == header[i]
  <2> HIDE DEF length, from
  <2>3. Reaches(s, top, from, i, length, to) /\ length \in Nat
    BY <2>1, <2>2 DEF length, from
  <2>4. Reaches(t, bottom, from, i, length, to)
    BY <2>3, ReachesKept
  <2> QED
    BY <2>4 DEF length, from
<1> QED
  BY <1>1 DEF Entries

\* What holds of the next stream holds in the next state.
LEMMA NextReaches ==
    ASSUME UNCHANGED arguments, NEW t, t = stream'
    PROVE  /\ Appending(t) => Appending(stream)'
           /\ \A top, from, i, n, to :
                 Reaches(t, top, from, i, n, to) => (Reaches(stream, top, from, i, n, to))'
           /\ Whole' = Whole
<1>1. volumeSize' = volumeSize /\ path' = path
  BY DEF arguments
<1>2. Appending(t) => Appending(stream)'
  BY <1>1 DEF Appending, Name
<1>3. ASSUME NEW top, NEW from, NEW i, NEW n, NEW to, Reaches(t, top, from, i, n, to)
      PROVE  (Reaches(stream, top, from, i, n, to))'
  <2>1. ASSUME NEW a, NEW b, NEW cell, Moves(t, top, a, b, cell)
        PROVE  (Moves(stream, top, a, b, cell))'
    <3>1. \A d : (Name(d))' = Name(d)
      BY <1>1 DEF Name
    <3> QED
      BY <1>1, <2>1, <3>1 DEF Moves
  <2>2. PICK q \in [0 .. n -> Place] :
           /\ q[0] = from /\ q[n] = to
           /\ \A k \in 1 .. n : Moves(t, top, q[k - 1], q[k], <<i, k>>)
    BY <1>3 DEF Reaches
  <2>3. \A k \in 1 .. n : (Moves(stream, top, q[k - 1], q[k], <<i, k>>))'
    BY <2>1, <2>2
  <2> QED
    BY <2>2, <2>3 DEF Reaches
<1> QED
  BY <1>1, <1>2, <1>3 DEF Whole, Dotted

LEMMA NextEntries ==
    ASSUME UNCHANGED arguments, NEW t, t = stream', NEW top, NEW n, Entries(t, top, n),
           \A i \in 1 .. n : header'[i] = header[i]
    PROVE  (Entries(stream, top, n))'
<1>1. ASSUME NEW i \in 1 .. n
      PROVE  \E to \in Place : (Reaches(stream, top, header[i], i, Len(Cells(i)), to))'
  <2>1. PICK to \in Place : Reaches(t, top, header[i], i, Len(Cells(i)), to)
    BY DEF Entries
  <2>2. (Cells(i))' = Cells(i)
    BY DEF Cells, arguments
  <2> QED
    BY <2>1, <2>2, NextReaches
<1> QED
  BY <1>1 DEF Entries

LEMMA CellsFacts ==
    ASSUME TypeOK, NEW i \in 1 .. Len(inputs)
    PROVE  /\ Len(Cells(i)) = HeaderCells + (IF inputs[i] = Folder THEN 0 ELSE inputs[i] + 1)
           /\ Len(Cells(i)) \in Nat /\ DOMAIN Cells(i) = 1 .. Len(Cells(i))
           /\ \A k \in 1 .. Len(Cells(i)) : Cells(i)[k] = <<i, k>>
<1> DEFINE length == HeaderCells + (IF inputs[i] = Folder THEN 0 ELSE inputs[i] + 1)
<1>1. length \in Nat
  BY InputFacts DEF HeaderCells
<1>2. Cells(i) = [k \in 1 .. length |-> <<i, k>>]
  BY DEF Cells
<1> HIDE DEF length
<1>3. Len(Cells(i)) = length /\ DOMAIN Cells(i) = 1 .. length
  BY <1>1, <1>2
<1>4. \A k \in 1 .. length : Cells(i)[k] = <<i, k>>
  BY <1>2
<1> QED
  BY <1>1, <1>3, <1>4 DEF length

\* A cell of the entry is written.
LEMMA WriteLaid ==
    ASSUME IInv, pc \in InEntry, Whole, Laid, NEW cell, cell = <<index, Counted + 1>>,
           NEW t, t = Put(stream, cell), t.reopened = {}
    PROVE  /\ Appending(t) /\ Counted \in Nat
           /\ Entries(t, t.disk, index - 1)
           /\ Reaches(t, t.disk, header[index], index, Counted + 1, Here(t))
<1>1. /\ StreamOK(stream) /\ volumeSize \in Nat /\ stream.opened \subseteq DOMAIN stream.files
      /\ index \in Nat /\ TypeOK
  BY SaneNow, InputFacts DEF IInv, Writing, InEntry, Sane, Sound
<1>2. Counted \in Nat /\ cell \in Cell
  BY <1>1, CellFacts DEF Counted, TypeOK, HeaderCells
<1>3. /\ Appending(stream) /\ Entries(stream, stream.disk, index - 1)
      /\ Reaches(stream, stream.disk, header[index], index, Counted, Here(stream))
  BY DEF Laid, Writing, InEntry
<1>4. /\ Appending(t) /\ stream.disk <= t.disk /\ Grows(stream, t, stream.disk)
      /\ Moves(t, t.disk, Here(stream), Here(t), cell) /\ Here(t) \in Place
  BY <1>1, <1>2, <1>3, PutMoves
<1>5. StreamOK(t) /\ stream.disk \in Nat /\ t.disk \in Nat
  BY <1>1, <1>2, <1>3, <1>4, PutFacts DEF Appending
<1>6. \A d \in 0 .. stream.disk : /\ Len(stream.files[Name(d)]) \in Nat
                                  /\ Len(t.files[Name(d)]) \in Nat
  BY <1>1, <1>4, <1>5 DEF Grows, StreamOK
<1>7. Entries(t, t.disk, index - 1)
  <2>1. \A i \in DOMAIN inputs : Len(Cells(i)) \in Nat
    BY <1>1, InputFacts, CellsFacts
  <2>2. 1 .. index - 1 \subseteq DOMAIN inputs
    BY <1>1, InputFacts
  <2> QED
    BY <1>3, <1>4, <1>5, <1>6, <2>1, <2>2, EntriesKept
<1>8. Reaches(t, t.disk, header[index], index, Counted, Here(stream))
  <2> DEFINE n == Counted
             from == header[index]
             to == Here(stream)
             top == stream.disk
             bottom == t.disk
  <2> HIDE DEF n, from, to, top, bottom
  <2>1. Reaches(stream, top, from, index, n, to) /\ n \in Nat
    BY <1>2, <1>3 DEF n, from, to, top
  <2>2. /\ top \in Nat /\ bottom \in Nat /\ top <= bottom /\ Grows(stream, t, top)
        /\ \A d \in 0 .. top : /\ Len(stream.files[Name(d)]) \in Nat
                               /\ Len(t.files[Name(d)]) \in Nat
    BY <1>4, <1>5, <1>6 DEF top, bottom
  <2>3. Reaches(t, bottom, from, index, n, to)
    BY <2>1, <2>2, ReachesKept
  <2> QED
    BY <2>3 DEF n, from, to, bottom
<1>9. Reaches(t, t.disk, header[index], index, Counted + 1, Here(t))
  <2> DEFINE n == Counted
             from == header[index]
             place == Here(stream)
             to == Here(t)
             top == t.disk
  <2> HIDE DEF n, from, place, to, top
  <2>1. Reaches(t, top, from, index, n, place) /\ n \in Nat
    BY <1>2, <1>8 DEF n, from, place, top
  <2>2. Moves(t, top, place, to, <<index, n + 1>>) /\ to \in Place
    BY <1>4 DEF n, place, to, top
  <2>3. Reaches(t, top, from, index, n + 1, to)
    BY <2>1, <2>2, ReachesMore
  <2> QED
    BY <2>3 DEF n, from, to, top
<1> QED
  BY <1>2, <1>4, <1>7, <1>9

\* Where the stream and the entry are in the next state.
LEMMA InEntryLaid ==
    ASSUME UNCHANGED <<arguments, index>>, pc' \in InEntry, result' = "none",
           NEW t, t = stream', Appending(t), NEW i, i = index,
           NEW top, top = t.disk, NEW m, m = i - 1, Entries(t, top, m),
           \A k \in 1 .. m : header'[k] = header[k],
           NEW from, from = header'[i], NEW n, n = Counted', NEW to, to = Here(t),
           Reaches(t, top, from, i, n, to)
    PROVE  Laid'
<1>1. UNCHANGED arguments /\ index' = i /\ top = stream'.disk
  OBVIOUS
<1>2. Appending(stream)'
  BY <1>1, NextReaches
<1>3. (Entries(stream, top, m))'
  BY <1>1, NextEntries
<1>4. (Reaches(stream, top, from, i, n, to))'
  BY <1>1, NextReaches
<1>5. to = Here(stream)'
  BY DEF Here
<1>6. pc' \notin {"close", "finish"}
  BY DEF InEntry
<1>7. (Entries(stream, stream.disk, IF pc = "close" THEN Len(header) ELSE index - 1))'
  BY <1>1, <1>3, <1>6
<1>8. (Reaches(stream, stream.disk, header[index], index, Counted, Here(stream)))'
  BY <1>1, <1>4, <1>5
<1> QED
  BY <1>2, <1>6, <1>7, <1>8 DEF Laid

LEMMA BetweenLaid ==
    ASSUME UNCHANGED <<arguments, header>>, pc' \in {"entry", "close"}, result' = "none",
           NEW t, t = stream', Appending(t), NEW top, top = t.disk,
           NEW n, n = IF pc' = "close" THEN Len(header) ELSE index' - 1, Entries(t, top, n),
           pc' = "close" => Len(header) = Len(inputs)
    PROVE  Laid'
<1>1. UNCHANGED arguments /\ inputs' = inputs /\ header' = header /\ top = stream'.disk
  BY DEF arguments
<1>2. Appending(stream)'
  BY <1>1, NextReaches
<1>3. (Entries(stream, top, n))'
  BY <1>1, NextEntries
<1>4. (Entries(stream, stream.disk, IF pc = "close" THEN Len(header) ELSE index - 1))'
  BY <1>1, <1>3
<1> QED
  BY <1>1, <1>2, <1>4 DEF Laid, InEntry

\* What is left to show of a step that does not end the creation.
LEMMA LaidNext ==
    ASSUME pc' \notin {"check", "open", "finish"}, result' = "none",
           pc' = "end" /\ inputs'[index'] \in {0, Folder} => chunk' = 0,
           ~failed' /\ stream'.reopened = {} /\ ~stream'.lost /\ Whole' => Laid'
    PROVE  LaidInv'
BY DEF LaidInv

LEMMA InitLaid == Init => LaidInv
<1>1. Init => pc = "check" /\ header = <<>> /\ result = "none"
  BY DEF Init
<1> QED
  BY <1>1 DEF LaidInv, Laid, Writing, InEntry

LEMMA CheckLaid ==
    ASSUME IInv, LaidInv, Check
    PROVE  LaidInv'
<1>1. header' = <<>> /\ pc' \in {"open", "done"} /\ result' \in {"none", "exists", "error"}
  BY DEF LaidInv, Check, Return, position, IInv, HeardInv
<1> QED
  BY <1>1 DEF LaidInv, Laid, Writing, InEntry

LEMMA OpenLaid ==
    ASSUME IInv, LaidInv, Open
    PROVE  LaidInv'
<1>1. /\ StreamOK(stream) /\ volumeSize \in Nat /\ TypeOK /\ stream.opened = {}
      /\ UNCHANGED arguments /\ header' = header /\ header = <<>> /\ index' = index
      /\ index = 1
  BY InputFacts DEF IInv, TypeOK, EntryInv, SoundInv, LaidInv, Open, Return, position
<1>2. CASE stream' = OpenDisk(stream, 0) /\ pc' = "entry" /\ result' = result
  <2> DEFINE t == OpenDisk(stream, 0)
  <2>1. 0 \in Names
    BY DEF Names, Volumes
  <2>2. /\ t.disk = 0 /\ t.number = 0 /\ t.at = Len(t.files[Name(0)]) /\ Name(0) \in t.opened
        /\ 0 \in Nat
    BY <1>1, <2>1, OpenDiskFacts
  <2> HIDE DEF t
  <2>3. Appending(t)
    <3>1. \A d \in 0 .. 0 : d = 0
      OBVIOUS
    <3> QED
      BY <2>2, <3>1 DEF Appending
  <2>4. Entries(t, t.disk, 0)
    BY DEF Entries
  <2>5. result' = "none" /\ t = stream' /\ index' - 1 = 0
    BY <1>1, <1>2 DEF IInv, HeardInv, Open, t
  <2>6. Laid'
    BY <1>1, <1>2, <2>3, <2>4, <2>5, BetweenLaid
  <2> QED
    BY <1>2, <2>5, <2>6, LaidNext
<1>3. CASE Return("unopened")
  BY <1>3 DEF LaidInv, Laid, Writing, InEntry, Return
<1> QED
  BY <1>2, <1>3 DEF Open

LEMMA EntryOpenLaid ==
    ASSUME IInv, LaidInv, EntryOpen
    PROVE  LaidInv'
<1>1. /\ TypeOK /\ StreamOK(stream) /\ UNCHANGED arguments /\ stream' = stream
      /\ index' = index /\ chunk' = chunk /\ chunk = 0 /\ result' = "none"
  BY DEF EntryOpen, IInv, TypeOK, EntryInv, HeardInv
<1>2. CASE header' = Append(header, Noted) /\ field' = 0 /\ pc' = "header" /\ failed' = failed
  <2>1. SUFFICES ASSUME ~failed', stream'.reopened = {}, ~stream'.lost, Whole'
                 PROVE  Laid'
    BY <1>1, <1>2, LaidNext
  <2>2. Laid
    BY <1>1, <1>2, <2>1, NextReaches DEF LaidInv
  <2>3. Appending(stream) /\ Entries(stream, stream.disk, index - 1)
    BY <2>2 DEF Laid, EntryOpen, Writing
  <2>4. header \in Seq([disk : Names, offset : Nat]) /\ index = Len(header) + 1
    BY <1>1, InputFacts DEF IInv, TypeOK, EntryInv, EntryOpen
  <2>5. header'[index] = Noted /\ \A k \in 1 .. index - 1 : header'[k] = header[k]
    BY <1>2, <2>4, AppendProperties
  <2>6. Noted = Here(stream) /\ Here(stream) \in Place
    BY <1>1, <2>3 DEF Noted, Here, Appending, Place, StreamOK
  <2>7. Counted' = 0
    BY <1>1, <1>2 DEF Counted
  <2>8. Reaches(stream, stream.disk, Here(stream), index, 0, Here(stream))
    BY <2>6, ReachesNothing
  <2>9. pc' \in InEntry
    BY <1>2 DEF InEntry
  <2> HIDE DEF Noted
  <2> QED
    BY <1>1, <2>3, <2>5, <2>6, <2>7, <2>8, <2>9, InEntryLaid
<1>3. CASE failed' = TRUE /\ pc' = "close"
  BY <1>1, <1>3, LaidNext
<1> QED
  BY <1>2, <1>3 DEF EntryOpen

\* A volume that was opened again stays one.
LEMMA WriteKeepsReopened ==
    ASSUME IInv, pc \in Writing, NEW cell \in Cell
    PROVE  stream.reopened \subseteq Put(stream, cell).reopened
<1>1. StreamOK(stream) /\ volumeSize \in Nat
  BY InputFacts DEF IInv, TypeOK
<1> QED
  BY <1>1, ReadyFacts, PutFacts

LEMMA WriteHeaderLaid ==
    ASSUME IInv, LaidInv, WriteHeader
    PROVE  LaidInv'
<1>1. /\ TypeOK /\ UNCHANGED arguments /\ pc = "header" /\ pc \in InEntry /\ pc \in Writing
      /\ index' = index /\ chunk' = chunk /\ chunk = 0 /\ header' = header
      /\ result' = "none" /\ index \in Nat /\ field \in Nat
  BY InputFacts DEF WriteHeader, IInv, TypeOK, EntryInv, HeardInv, InEntry, Writing
<1>2. CASE /\ stream' \in Puts(stream, <<index, field + 1>>) /\ field' = field + 1
           /\ pc' \in {"header", "chunk", "end"} /\ failed' = failed
  <2> DEFINE cell == <<index, field + 1>>
             t == Put(stream, cell)
             m == index - 1
             from == header[index]
  <2>1. SUFFICES ASSUME ~failed', stream'.reopened = {}, ~stream'.lost, Whole'
                 PROVE  Laid'
    BY <1>1, <1>2, LaidNext
  <2>2. cell \in Cell
    BY <1>1 DEF Cell
  <2>3. cell = <<index, Counted + 1>> /\ Counted' = Counted + 1
    BY <1>1, <1>2 DEF Counted
  <2>4. stream' = t /\ ~stream.lost
    BY <1>1, <1>2, <2>1, <2>2, SaneNow, PutsSane
  <2> HIDE DEF cell
  <2>5. stream.reopened = {} /\ t.reopened = {}
    BY <1>1, <2>1, <2>2, <2>4, WriteKeepsReopened
  <2>6. Laid /\ Whole
    BY <1>1, <1>2, <2>1, <2>4, <2>5, NextReaches DEF LaidInv
  <2> HIDE DEF t
  <2>7. /\ Appending(t) /\ Entries(t, t.disk, index - 1)
        /\ Reaches(t, t.disk, header[index], index, Counted + 1, Here(t))
    BY <1>1, <2>3, <2>4, <2>5, <2>6, WriteLaid DEF t
  <2>8. pc' \in InEntry
    BY <1>2 DEF InEntry
  <2> QED
    BY <1>1, <2>3, <2>4, <2>5, <2>7, <2>8, InEntryLaid
<1>3. CASE failed' = TRUE /\ pc' = "close"
  BY <1>1, <1>3, LaidNext
<1> QED
  BY <1>2, <1>3 DEF WriteHeader

LEMMA WriteChunkLaid ==
    ASSUME IInv, LaidInv, WriteChunk
    PROVE  LaidInv'
<1>1. /\ TypeOK /\ UNCHANGED arguments /\ pc = "chunk" /\ pc \in InEntry /\ pc \in Writing
      /\ index' = index /\ chunk' = chunk /\ field' = field /\ header' = header
      /\ result' = "none" /\ index \in Nat /\ field = HeaderCells /\ chunk \in Nat
      /\ inputs' = inputs /\ inputs[index] \in Nat \ {0}
  BY InputFacts
     DEF WriteChunk, IInv, TypeOK, EntryInv, HeardInv, InEntry, Writing, position, arguments
<1>2. CASE /\ stream' \in Puts(stream, Data(index, chunk + 1))
           /\ pc' = "poll" /\ failed' = failed
  <2> DEFINE cell == Data(index, chunk + 1)
             t == Put(stream, cell)
  <2>1. SUFFICES ASSUME ~failed', stream'.reopened = {}, ~stream'.lost, Whole'
                 PROVE  Laid'
    BY <1>1, <1>2, LaidNext
  <2>2. cell \in Cell
    BY <1>1 DEF Cell, Data, HeaderCells
  <2>3. cell = <<index, Counted + 1>> /\ Counted' = Counted + 1
    BY <1>1, <1>2 DEF Counted, Data, HeaderCells
  <2>4. stream' = t /\ ~stream.lost
    BY <1>1, <1>2, <2>1, <2>2, SaneNow, PutsSane
  <2> HIDE DEF cell
  <2>5. stream.reopened = {} /\ t.reopened = {}
    BY <1>1, <2>1, <2>2, <2>4, WriteKeepsReopened
  <2>6. Laid /\ Whole
    BY <1>1, <1>2, <2>1, <2>4, <2>5, NextReaches DEF LaidInv
  <2> HIDE DEF t
  <2>7. /\ Appending(t) /\ Entries(t, t.disk, index - 1)
        /\ Reaches(t, t.disk, header[index], index, Counted + 1, Here(t))
    BY <1>1, <2>3, <2>4, <2>5, <2>6, WriteLaid DEF t
  <2>8. pc' \in InEntry
    BY <1>2 DEF InEntry
  <2> QED
    BY <1>1, <2>3, <2>4, <2>5, <2>7, <2>8, InEntryLaid
<1>3. CASE failed' = TRUE /\ pc' = "end"
  BY <1>1, <1>3, FolderAssumption, LaidNext
<1> QED
  BY <1>2, <1>3 DEF WriteChunk

LEMMA PollLaid ==
    ASSUME IInv, LaidInv, Poll
    PROVE  LaidInv'
<1>1. /\ TypeOK /\ UNCHANGED arguments /\ pc = "poll" /\ stream' = stream
      /\ index' = index /\ chunk' = chunk + 1 /\ field' = field /\ header' = header
      /\ result' = "none" /\ chunk \in Nat /\ field \in Nat /\ pc' \in {"end", "chunk"}
      /\ inputs' = inputs /\ inputs[index] \in Nat \ {0}
  BY DEF Poll, IInv, TypeOK, EntryInv, HeardInv, arguments
<1>2. SUFFICES ASSUME ~failed', stream'.reopened = {}, ~stream'.lost, Whole'
               PROVE  Laid'
  BY <1>1, FolderAssumption, LaidNext
<1>3. Laid
  BY <1>1, <1>2, NextReaches DEF LaidInv, Poll
<1>4. /\ Appending(stream) /\ Entries(stream, stream.disk, index - 1)
      /\ Reaches(stream, stream.disk, header[index], index, Counted, Here(stream))
  BY <1>1, <1>3 DEF Laid, Writing, InEntry
<1>5. Counted' = Counted
  BY <1>1 DEF Counted
<1>6. pc' \in InEntry
  BY <1>1 DEF InEntry
<1> QED
  BY <1>1, <1>4, <1>5, <1>6, InEntryLaid

\* Files that are the same have grown, too.
LEMMA SameGrows ==
    ASSUME NEW s, StreamOK(s), NEW t, \A n \in DOMAIN s.files : n \in DOMAIN t.files,
           \A n \in DOMAIN s.files : t.files[n] = s.files[n],
           NEW top \in Nat, \A d \in 0 .. top : Name(d) \in DOMAIN s.files
    PROVE  /\ Grows(s, t, top)
           /\ \A d \in 0 .. top : Len(s.files[Name(d)]) \in Nat /\ Len(t.files[Name(d)]) \in Nat
<1>1. ASSUME NEW d \in 0 .. top
      PROVE  /\ Name(d) \in DOMAIN s.files /\ Name(d) \in DOMAIN t.files
             /\ t.files[Name(d)] = s.files[Name(d)] /\ Len(s.files[Name(d)]) \in Nat
  BY DEF StreamOK
<1> QED
  BY <1>1 DEF Grows

\* With its last cell the entry is complete.
LEMMA EntriesMore ==
    ASSUME NEW t, NEW top, NEW i \in Nat \ {0}, Entries(t, top, i - 1), NEW to \in Place,
           Reaches(t, top, header[i], i, Len(Cells(i)), to)
    PROVE  Entries(t, top, i)
<1>1. \A k \in 1 .. i : k \in 1 .. i - 1 \/ k = i
  OBVIOUS
<1> QED
  BY <1>1 DEF Entries

LEMMA FolderLaid ==
    ASSUME IInv, Laid, Whole, pc = "end", inputs[index] = Folder, chunk = 0,
           NEW t, t = ChecksumWritten, t.reopened = {}
    PROVE  Appending(t) /\ Entries(t, t.disk, index)
<1>1. /\ StreamOK(stream) /\ volumeSize \in Nat /\ stream.opened \subseteq DOMAIN stream.files
      /\ index \in Nat \ {0} /\ TypeOK /\ index \in 1 .. Len(inputs)
  BY SaneNow, InputFacts DEF IInv, Writing, InEntry, Sane, Sound
<1>2. Counted = HeaderCells
  BY DEF Counted, IInv, EntryInv, HeaderCells
<1>3. /\ Appending(stream) /\ Entries(stream, stream.disk, index - 1)
      /\ Reaches(stream, stream.disk, header[index], index, HeaderCells, Here(stream))
  BY <1>2 DEF Laid, Writing, InEntry
<1>4. /\ t.disk = stream.disk /\ t.number = stream.number /\ t.at = stream.at
      /\ t.opened = stream.opened /\ DOMAIN t.files = DOMAIN stream.files
      /\ \A n \in DOMAIN stream.files : t.files[n] = stream.files[n]
  BY <1>3, ChecksumKeeps
<1>5. /\ stream.disk \in Nat
      /\ \A d \in 0 .. stream.disk : Name(d) \in DOMAIN stream.files
  BY <1>1, <1>3 DEF Appending
<1>6. Appending(t)
  BY <1>3, <1>4, <1>5 DEF Appending
<1> DEFINE top == stream.disk
<1>7. /\ Grows(stream, t, top) /\ top \in Nat /\ top <= top
      /\ \A d \in 0 .. top : Len(stream.files[Name(d)]) \in Nat /\ Len(t.files[Name(d)]) \in Nat
  BY <1>1, <1>4, <1>5, SameGrows
<1>8. Entries(t, top, index - 1)
  <2>1. \A i \in DOMAIN inputs : Len(Cells(i)) \in Nat
    BY <1>1, InputFacts, CellsFacts
  <2>2. 1 .. index - 1 \subseteq DOMAIN inputs
    BY <1>1, InputFacts
  <2> QED
    BY <1>3, <1>7, <2>1, <2>2, EntriesKept
<1>9. Len(Cells(index)) = HeaderCells /\ HeaderCells \in Nat
  BY <1>1, CellsFacts DEF HeaderCells
<1>10. Here(stream) \in Place
  BY <1>1, <1>5 DEF Here, Place, StreamOK
<1>11. Reaches(t, top, header[index], index, HeaderCells, Here(stream))
  <2> DEFINE from == header[index]
             to == Here(stream)
             n == HeaderCells
  <2> HIDE DEF from, to, n, top
  <2>1. Reaches(stream, top, from, index, n, to) /\ n \in Nat
    BY <1>3, <1>9 DEF from, to, n, top
  <2>2. Reaches(t, top, from, index, n, to)
    BY <1>7, <2>1, ReachesKept
  <2> QED
    BY <2>2 DEF from, to, n
<1>12. Entries(t, top, index)
  BY <1>1, <1>8, <1>9, <1>10, <1>11, EntriesMore
<1> QED
  BY <1>4, <1>6, <1>12

LEMMA FileLaid ==
    ASSUME IInv, Laid, Whole, pc = "end", inputs[index] # Folder, chunk = inputs[index],
           NEW t, t = Put(stream, Descriptor(index)), t.reopened = {}
    PROVE  Appending(t) /\ Entries(t, t.disk, index)
<1>1. /\ StreamOK(stream) /\ index \in Nat \ {0} /\ TypeOK /\ index \in 1 .. Len(inputs)
      /\ chunk \in Nat /\ volumeSize \in Nat
  BY InputFacts DEF IInv, TypeOK
<1>2. Counted = HeaderCells + chunk
  BY <1>1 DEF Counted, IInv, EntryInv, HeaderCells
<1>3. /\ Descriptor(index) = <<index, Counted + 1>> /\ Descriptor(index) \in Cell
      /\ Len(Cells(index)) = Counted + 1
  BY <1>1, <1>2, CellsFacts DEF Descriptor, Data, Cell, HeaderCells
<1>4. /\ Appending(t) /\ Entries(t, t.disk, index - 1)
      /\ Reaches(t, t.disk, header[index], index, Counted + 1, Here(t))
  <2>1. pc \in InEntry
    BY DEF InEntry
  <2> DEFINE cell == Descriptor(index)
  <2>2. cell = <<index, Counted + 1>> /\ t = Put(stream, cell)
    BY <1>3
  <2> HIDE DEF cell
  <2> QED
    BY <2>1, <2>2, WriteLaid
<1>5. Here(t) \in Place
  <2>1. StreamOK(t)
    BY <1>1, <1>3, PutFacts
  <2> QED
    BY <1>4, <2>1 DEF Here, Place, StreamOK, Appending
<1>6. Entries(t, t.disk, index)
  BY <1>1, <1>3, <1>4, <1>5, EntriesMore
<1> QED
  BY <1>4, <1>6

LEMMA SeekKeepsReopened ==
    ASSUME volumeSize \in Nat, NEW s, StreamOK(s), NEW d \in Names, NEW offset \in Nat,
           NEW u, u = Seek(s, d, offset)
    PROVE  StreamOK(u) /\ s.reopened \subseteq u.reopened /\ (u.lost <=> s.lost)
<1> DEFINE t == GotoDisk(s, d)
<1>1. s.reopened \subseteq t.reopened
  BY GotoFacts
<1>2. StreamOK(u) /\ u.reopened = t.reopened /\ u.lost = s.lost
  BY SeekFacts
<1> QED
  BY <1>1, <1>2

LEMMA ChecksumKeepsReopened ==
    ASSUME IInv, pc = "end"
    PROVE  /\ StreamOK(ChecksumPut)
           /\ stream.reopened \subseteq ChecksumWritten.reopened
           /\ ChecksumWritten.lost <=> stream.lost
<1> DEFINE back == Back
           cell == <<index, Checksum + 1>>
           u == Put(back, cell)
           t == ChecksumWritten
<1>1. /\ StreamOK(stream) /\ volumeSize \in Nat /\ index \in Nat
      /\ header[index] \in [disk : Names, offset : Nat]
  BY InputFacts, HeaderPlace DEF IInv, TypeOK, InEntry
<1>2. StreamOK(back) /\ stream.reopened \subseteq back.reopened /\ (back.lost <=> stream.lost)
  <2> DEFINE d == header[index].disk
             offset == header[index].offset + Checksum
  <2>1. d \in Names /\ offset \in Nat /\ back = Seek(stream, d, offset)
    BY <1>1 DEF Checksum, Back
  <2> HIDE DEF d, offset, back
  <2> QED
    BY <1>1, <2>1, SeekKeepsReopened
<1>3. cell \in Cell
  BY <1>1 DEF Cell, Checksum
<1> HIDE DEF back, cell
<1>4. StreamOK(u) /\ back.reopened \subseteq u.reopened /\ u.lost = back.lost
  <2> DEFINE ready == Ready(back)
  <2>1. back.reopened \subseteq ready.reopened
    BY <1>1, <1>2, ReadyFacts
  <2> HIDE DEF ready, u
  <2>2. ready = Ready(back) /\ u = Put(back, cell)
    BY DEF ready, u
  <2>3. StreamOK(u) /\ u.reopened = ready.reopened /\ u.lost = back.lost
    BY <1>1, <1>2, <1>3, <2>2, PutFacts
  <2> QED
    BY <2>1, <2>3
<1> HIDE DEF u
<1>5. t = Seek(u, stream.number, stream.at) /\ u = ChecksumPut
  BY DEF ChecksumWritten, ChecksumPut, u, back, cell
<1>6. u.reopened \subseteq t.reopened /\ (t.lost <=> u.lost)
  <2> DEFINE d == stream.number
             offset == stream.at
  <2>1. d \in Names /\ offset \in Nat
    BY <1>1 DEF StreamOK
  <2> HIDE DEF d, offset, t
  <2>2. t = Seek(u, d, offset)
    BY <1>5 DEF d, offset
  <2> QED
    BY <1>1, <1>4, <2>1, <2>2, SeekKeepsReopened
<1>7. StreamOK(ChecksumPut)
  BY <1>4, <1>5
<1>8. stream.reopened \subseteq t.reopened
  BY <1>2, <1>4, <1>6
<1>9. t.lost <=> stream.lost
  BY <1>2, <1>4, <1>6, Zenon
<1> QED
  BY <1>7, <1>8, <1>9

LEMMA EntryCloseLaid ==
    ASSUME IInv, LaidInv, EntryClose
    PROVE  LaidInv'
<1>1. /\ TypeOK /\ UNCHANGED <<arguments, header>> /\ pc = "end" /\ result' = "none"
      /\ pc' \in {"entry", "close"} /\ index \in Nat /\ Len(header) = index
      /\ inputs[index] \in Nat \cup {Folder} /\ volumeSize \in Nat
  BY InputFacts DEF EntryClose, IInv, TypeOK, HeardInv
<1>2. SUFFICES ASSUME ~failed', stream'.reopened = {}, ~stream'.lost, Whole'
               PROVE  Laid'
  BY <1>1, LaidNext
<1>3. ~failed
      /\ stream' \in IF inputs[index] = Folder THEN Checksums
                      ELSE UNION {Puts(s, Descriptor(index)) : s \in PutOut(stream)}
  BY <1>2 DEF EntryClose
<1>4. /\ inputs[index] = Folder => chunk = 0
      /\ inputs[index] # Folder => chunk = inputs[index]
  BY <1>1, <1>3 DEF LaidInv, IInv, EntryInv
<1> DEFINE t == stream'
<1>5. /\ stream.reopened = {} /\ ~stream.lost
      /\ stream' = IF inputs[index] = Folder THEN ChecksumWritten
                   ELSE Put(stream, Descriptor(index))
  <2>1. CASE inputs[index] = Folder
    <3>1. /\ StreamOK(ChecksumPut) /\ stream.reopened \subseteq ChecksumWritten.reopened
          /\ ChecksumWritten.lost <=> stream.lost
      BY <1>1, ChecksumKeepsReopened
    <3>2. [ChecksumPut EXCEPT !.lost = TRUE].lost
      BY <3>1 DEF StreamOK
    <3>3. stream' \in {ChecksumWritten, [ChecksumPut EXCEPT !.lost = TRUE]}
      BY <1>3, <2>1 DEF Checksums
    <3>4. stream' = ChecksumWritten
      BY <1>2, <3>2, <3>3
    <3>5. stream.reopened = {} /\ ~stream.lost
      BY <1>2, <3>1, <3>4
    <3> QED
      BY <2>1, <3>4, <3>5
  <2>2. CASE inputs[index] # Folder
    <3>1. Descriptor(index) \in Cell
      BY <1>1, <2>2 DEF Descriptor, Data, Cell, HeaderCells
    <3>2. PICK s \in PutOut(stream) : stream' \in Puts(s, Descriptor(index))
      BY <1>3, <2>2
    <3>3. Sane(stream) /\ pc \in Writing
      BY <1>1, SaneNow DEF Writing, InEntry
    <3>4. Sane(s) /\ (s = stream \/ s.lost)
      BY <1>1, <3>3, PutOutSane
    <3>5. stream' = Put(s, Descriptor(index)) /\ ~s.lost
      BY <1>1, <1>2, <3>1, <3>2, <3>4, PutsSane
    <3>6. s = stream
      BY <3>4, <3>5
    <3>7. stream.reopened = {}
      BY <1>2, <3>1, <3>3, <3>5, <3>6, WriteKeepsReopened
    <3> QED
      BY <2>2, <3>5, <3>6, <3>7
  <2> QED
    BY <2>1, <2>2
<1>6. Laid /\ Whole
  BY <1>1, <1>2, <1>3, <1>5, NextReaches DEF LaidInv
<1>7. Appending(t) /\ Entries(t, t.disk, index)
  BY <1>1, <1>2, <1>4, <1>5, <1>6, FolderLaid, FileLaid
<1>8. /\ pc' = "entry" => index' - 1 = index
      /\ pc' = "close" => index = Len(inputs)
  BY <1>1, <1>2 DEF EntryClose, IsLast
<1> QED
  BY <1>1, <1>7, <1>8, BetweenLaid

\* The central directory goes to the end of the output, or to a file of its own.
LEMMA DirectoryLaid ==
    ASSUME IInv, Laid, Whole, pc = "close", NEW u, u = Put(AtDirectory, Directory)
    PROVE  Finished(u)
<1> DEFINE s == AtDirectory
           t == Ready(s)
           top == stream.disk
           file == t.files[Output]
<1>1. /\ StreamOK(stream) /\ Sound(stream) /\ volumeSize \in Nat /\ Dotted \in BOOLEAN
      /\ TypeOK /\ stream.opened \subseteq DOMAIN stream.files
  BY SaneNow, InputFacts DEF IInv, Writing, Sane, Sound
<1>2. /\ DOMAIN s = DOMAIN stream /\ s.number = Output
      /\ s.disk = stream.disk /\ s.used = stream.used /\ s.at = stream.at
      /\ s.files = stream.files /\ s.opened = stream.opened /\ s.reopened = stream.reopened
      /\ s.lost = stream.lost
  BY <1>1 DEF AtDirectory, StreamOK
<1>3. Appending(stream) /\ Len(header) = Len(inputs) /\ Entries(stream, top, Len(inputs))
  BY DEF Laid, Writing
<1> HIDE DEF s
<1>4. StreamOK(s)
  BY <1>1, <1>2 DEF StreamOK, Names
<1>5. /\ top \in Nat /\ (volumeSize = 0 => top = 0)
      /\ \A d \in 0 .. top : Name(d) \in DOMAIN stream.files
  BY <1>1, <1>3 DEF Appending
<1>6. StreamOK(t)
  BY <1>1, <1>4, ReadyFacts
<1>7. /\ Name(t.disk) = Output /\ Output \in DOMAIN t.files /\ t.at = Len(file)
      /\ \A d \in 0 .. top : /\ Name(d) \in DOMAIN t.files
                             /\ t.files[Name(d)] = stream.files[Name(d)]
                             /\ volumeSize > 0 => Name(d) # Output
  <2>1. CASE volumeSize = 0
    <3>1. t = s /\ ~(volumeSize > 0)
      BY <2>1 DEF Ready
    <3>2. Name(s.disk) = Output /\ Name(top) = Output
      BY <2>1 DEF Name
    <3>3. Output \in DOMAIN s.files /\ s.at = Len(s.files[Output])
      BY <1>2, <1>3, <1>5, <3>2 DEF Appending
    <3> HIDE DEF t
    <3> QED
      BY <1>2, <1>5, <3>1, <3>2, <3>3
  <2>2. CASE volumeSize > 0
    <3>1. Dotted /\ \A d \in Names : Name(d) = d
      BY <2>2 DEF Whole, Name, Dotted
    <3>2. Output \in Names /\ Output \notin Nat
      BY DEF Output, Names
    <3>3. t = OpenDisk(s, Output)
      BY <1>2, <1>5, <2>2, <3>2 DEF Ready, GotoDisk
    <3> HIDE DEF t
    <3>4. /\ t.disk = Output /\ t.at = 0 /\ DOMAIN t.files = DOMAIN s.files \cup {Output}
          /\ Len(t.files[Output]) = 0
          /\ \A n \in DOMAIN s.files \ {Output} : t.files[n] = s.files[n]
      <4>1. /\ t.disk = Output /\ t.at = t.used /\ t.used = 0
            /\ DOMAIN t.files = DOMAIN s.files \cup {Name(Output)}
            /\ Len(t.files[Name(Output)]) = t.used
            /\ \A n \in DOMAIN s.files \ {Name(Output)} : t.files[n] = s.files[n]
        BY <1>1, <1>4, <3>2, <3>3, OpenDiskFacts
      <4> QED
        BY <3>1, <3>2, <4>1
    <3>5. \A d \in 0 .. top : d \in Names /\ d # Output /\ Name(d) = d
      BY <1>5, <3>1, <3>2 DEF Names, Volumes
    <3>6. \A d \in 0 .. top : Name(d) \in DOMAIN s.files /\ Name(d) # Output
      BY <1>2, <1>5, <3>5
    <3>7. Name(t.disk) = Output
      BY <3>1, <3>2, <3>4
    <3> QED
      BY <1>2, <3>4, <3>6, <3>7
  <2> QED
    BY <1>1, <2>1, <2>2
<1>8. /\ Len(u.files[Output]) = Len(file) + 1 /\ Len(file) \in Nat
      /\ u.files[Output][Len(file) + 1] = Directory
      /\ \A k \in 1 .. Len(file) : u.files[Output][k] = file[k]
  BY <1>1, <1>4, <1>7, CellFacts, PutCells DEF s
<1>9. /\ StreamOK(u) /\ DOMAIN u.files = DOMAIN t.files
      /\ \A n \in DOMAIN t.files \ {Output} : u.files[n] = t.files[n]
  <2>1. u = Put(s, Directory) /\ Directory \in Cell
    BY CellFacts DEF s
  <2>2. /\ StreamOK(u) /\ DOMAIN u.files = DOMAIN t.files
        /\ \A n \in DOMAIN t.files \ {Name(t.disk)} : u.files[n] = t.files[n]
    BY <1>1, <1>4, <2>1, PutFacts
  <2> QED
    BY <1>7, <2>2
<1> HIDE DEF t
<1>10. /\ Output \in DOMAIN u.files /\ u.files[Output] # <<>>
       /\ Last(u.files[Output]) = Directory
  BY <1>7, <1>8, <1>9 DEF Last
<1>11. \A d \in 0 .. top : Name(d) \in DOMAIN u.files
  BY <1>7, <1>9
<1>12. \A d \in 0 .. top : /\ Len(stream.files[Name(d)]) \in Nat
                           /\ Len(u.files[Name(d)]) \in Nat
  BY <1>1, <1>5, <1>9, <1>11 DEF StreamOK
<1>13. Grows(stream, u, top)
  <2>1. ASSUME NEW d \in 0 .. top
        PROVE  /\ Name(d) \in DOMAIN stream.files /\ Name(d) \in DOMAIN u.files
               /\ Len(stream.files[Name(d)]) <= Len(u.files[Name(d)])
               /\ d < top => Len(u.files[Name(d)]) = Len(stream.files[Name(d)])
               /\ \A k \in 1 .. Len(stream.files[Name(d)]) :
                     u.files[Name(d)][k] = stream.files[Name(d)][k]
    <3>1. CASE Name(d) = Output
      <4>1. volumeSize = 0
        BY <1>1, <1>7, <3>1
      <4>2. ~(d < top)
        BY <1>5, <4>1
      <4>3. stream.files[Output] = file
        BY <1>7, <3>1
      <4> QED
        BY <1>5, <1>8, <1>11, <3>1, <4>2, <4>3
    <3>2. CASE Name(d) # Output
      <4>1. u.files[Name(d)] = stream.files[Name(d)]
        BY <1>7, <1>9, <3>2
      <4> QED
        BY <1>5, <1>11, <1>12, <4>1
    <3> QED
      BY <3>1, <3>2
  <2> QED
    BY <2>1 DEF Grows
<1>14. Entries(u, top, Len(inputs))
  <2>1. /\ \A i \in DOMAIN inputs : Len(Cells(i)) \in Nat
        /\ 1 .. Len(inputs) \subseteq DOMAIN inputs
    BY <1>1, InputFacts, CellsFacts
  <2>2. top <= top
    BY <1>5
  <2> QED
    BY <1>3, <1>5, <1>12, <1>13, <2>1, <2>2, EntriesKept
<1> QED
  BY <1>3, <1>5, <1>10, <1>11, <1>14 DEF Finished

\* Without a dot the central directory overwrites what was written.
LEMMA NamelessReopens ==
    ASSUME IInv, pc = "close", ~Whole, ~stream.lost
    PROVE  Put(AtDirectory, Directory).reopened # {}
<1> DEFINE s == AtDirectory
           t == Ready(s)
           u == Put(s, Directory)
<1>1. /\ StreamOK(stream) /\ In(stream) /\ volumeSize \in Nat /\ volumeSize > 0 /\ ~Dotted
      /\ Fits(stream)
  BY SaneNow, InputFacts DEF IInv, Writing, Sane, Whole
<1>2. SUFFICES ASSUME u.reopened = {}
               PROVE  FALSE
  OBVIOUS
<1>3. /\ DOMAIN s = DOMAIN stream /\ s.number = Output
      /\ s.disk = stream.disk /\ s.used = stream.used /\ s.at = stream.at
      /\ s.files = stream.files /\ s.opened = stream.opened /\ s.reopened = stream.reopened
      /\ s.lost = stream.lost
  BY <1>1 DEF AtDirectory, StreamOK
<1> HIDE DEF s
<1>4. StreamOK(s)
  BY <1>1, <1>3 DEF StreamOK, Names
<1>5. Output \in Names /\ Directory \in Cell /\ Output \in s.opened /\ Name(Output) = Output
  BY <1>1, <1>3, CellFacts DEF Names, In, Name, Dotted
<1>6. u.reopened = t.reopened /\ s.reopened \subseteq t.reopened
  BY <1>1, <1>4, <1>5, PutFacts, ReadyFacts
<1>7. stream.disk \in Nat
  BY <1>1, <1>2, <1>3, <1>6 DEF Fits, Volumes
<1>8. t = OpenDisk(s, Output)
  BY <1>1, <1>3, <1>7 DEF Ready, GotoDisk, Output
<1> HIDE DEF t, u
<1>9. Output \in t.reopened
  BY <1>1, <1>4, <1>5, <1>8, OpenDiskFacts
<1> QED
  BY <1>2, <1>6, <1>9

\* What is complete stays so.
LEMMA NextFinished ==
    ASSUME UNCHANGED <<arguments, header>>, NEW t, t = stream', Finished(t)
    PROVE  Finished(stream)'
<1>1. UNCHANGED arguments /\ inputs' = inputs /\ header' = header
      /\ volumeSize' = volumeSize /\ path' = path
  BY DEF arguments
<1>2. PICK top \in Nat : /\ \A d \in 0 .. top : Name(d) \in DOMAIN t.files
                         /\ Entries(t, top, Len(inputs))
  BY DEF Finished
<1>3. (Entries(stream, top, Len(inputs)))'
  <2> DEFINE n == Len(inputs)
  <2> HIDE DEF n
  <2>1. Entries(t, top, n)
    BY <1>2 DEF n
  <2>2. ASSUME NEW m, m = n
        PROVE  (Entries(stream, top, m))'
    BY <1>1, <2>1, <2>2, NextEntries
  <2> QED
    BY <1>1, <2>2 DEF n
<1>4. \A d \in 0 .. top : (Name(d))' \in DOMAIN stream'.files
  BY <1>1, <1>2 DEF Name
<1> QED
  BY <1>1, <1>3, <1>4 DEF Finished

\* A closing that loses nothing writes the central directory.
LEMMA CloseLosesNothing ==
    ASSUME IInv, pc = "close", NEW t \in UNION {Closings(u) : u \in Puts(AtDirectory, Directory)},
           ~t.lost
    PROVE  t = Put(AtDirectory, Directory) /\ ~stream.lost
<1> DEFINE s == AtDirectory
<1>1. Sane(stream) /\ volumeSize \in Nat
  BY SaneNow, InputFacts DEF IInv, Writing
<1>2. /\ DOMAIN s = DOMAIN stream /\ s.number = Output
      /\ s.disk = stream.disk /\ s.used = stream.used /\ s.at = stream.at
      /\ s.files = stream.files /\ s.opened = stream.opened /\ s.reopened = stream.reopened
      /\ s.lost = stream.lost
  BY <1>1 DEF AtDirectory, Sane, StreamOK
<1> HIDE DEF s
<1>3. StreamOK(s) /\ Sound(s) /\ In(s)
  BY <1>1, <1>2 DEF Sane, StreamOK, Sound, In, Names
<1>4. PICK u \in Puts(s, Directory) : t \in Closings(u)
  BY DEF s
<1>5. PICK v \in Closings(s) : u = Put(v, Directory)
  BY <1>4 DEF Puts, Closings
<1>6. StreamOK(v) /\ Sound(v) /\ In(v) /\ (v = s \/ v.lost)
  BY <1>3, ClosingsSound
<1>7. StreamOK(u) /\ Sound(u) /\ In(u) /\ u.lost = v.lost
  <2>1. StreamOK(Ready(v)) /\ Sound(Ready(v)) /\ In(Ready(v))
    BY <1>1, <1>6, ReadySound
  <2> QED
    BY <1>1, <1>5, <1>6, <2>1, CellFacts, PutSound, PutFacts
<1>8. t = u
  BY <1>4, <1>7, ClosingsSound
<1>9. ~v.lost
  BY <1>7, <1>8
<1>10. v = s
  BY <1>6, <1>9
<1> QED
  BY <1>2, <1>5, <1>8, <1>9, <1>10 DEF s

LEMMA CloseLaid ==
    ASSUME IInv, LaidInv, Close
    PROVE  LaidInv'
<1>1. /\ UNCHANGED <<arguments, header>> /\ pc = "close" /\ pc' = "finish" /\ result' = "none"
      /\ volumeSize' = volumeSize /\ (Dotted' <=> Dotted) /\ UNCHANGED arguments
  BY DEF Close, IInv, HeardInv, position, arguments, Dotted
<1>2. SUFFICES ASSUME ~failed', stream'.reopened = {}, ~stream'.lost
               PROVE  Whole' /\ Laid'
  BY <1>1 DEF LaidInv
<1>3. ~failed /\ ~stream.lost /\ stream' = Put(AtDirectory, Directory)
  BY <1>2, CloseLosesNothing DEF Close
<1>4. Whole /\ Whole'
  BY <1>1, <1>2, <1>3, NamelessReopens DEF Whole
<1>5. stream.reopened = {}
  <2> DEFINE s == AtDirectory
  <2>1. StreamOK(stream) /\ volumeSize \in Nat /\ Directory \in Cell
    BY InputFacts, CellFacts DEF IInv, TypeOK
  <2>2. StreamOK(s) /\ s.reopened = stream.reopened
    BY <2>1 DEF AtDirectory, StreamOK, Names
  <2>3. stream' = Put(s, Directory)
    BY <1>3
  <2> HIDE DEF s
  <2>4. s.reopened \subseteq stream'.reopened
    BY <2>1, <2>2, <2>3, ReadyFacts, PutFacts
  <2> QED
    BY <1>2, <2>2, <2>4
<1>6. Laid
  BY <1>3, <1>4, <1>5 DEF LaidInv
<1>7. Finished(stream')
  BY <1>1, <1>3, <1>4, <1>6, DirectoryLaid
<1>8. Finished(stream)'
  BY <1>1, <1>7, NextFinished
<1>9. Laid'
  BY <1>1, <1>8 DEF Laid, Writing, InEntry
<1> QED
  BY <1>4, <1>9

LEMMA FinishLaid ==
    ASSUME IInv, LaidInv, Finish
    PROVE  LaidInv'
<1>1. CASE ~failed /\ Return("ok") /\ stream' = stream
  <2>1. /\ UNCHANGED <<arguments, header>> /\ UNCHANGED arguments /\ ~failed' /\ pc = "finish"
        /\ pc' = "done" /\ result' = "ok" /\ stream' = stream
    BY <1>1 DEF Return, Finish, position
  <2>2. stream.reopened = {} /\ ~stream.lost => Whole /\ Whole' /\ Finished(stream)
    BY <1>1, <2>1, NextReaches DEF LaidInv, Laid
  <2>3. stream.reopened = {} /\ ~stream.lost => Finished(stream)'
    BY <2>1, <2>2, NextFinished
  <2> QED
    BY <2>1, <2>2, <2>3 DEF LaidInv, Laid, Writing, InEntry
<1>2. CASE failed /\ Return(IF refused THEN "cancelled" ELSE "error")
  <2>1. failed' = failed /\ pc' = "done" /\ result' # "ok"
    BY <1>2 DEF Return
  <2>2. failed'
    BY <1>2, <2>1
  <2> QED
    BY <2>1, <2>2 DEF LaidInv
<1> QED
  BY <1>1, <1>2 DEF Finish

\* Where the call does nothing, and files at most appear, what is laid stays.
LEMMA LaidStays ==
    ASSUME IInv, LaidInv, UNCHANGED <<arguments, pc, position, failed, result>>,
           NEW t, t = stream', t.disk = stream.disk, t.number = stream.number,
           t.at = stream.at, t.opened = stream.opened, t.reopened = stream.reopened,
           t.lost <=> stream.lost,
           \A n \in DOMAIN stream.files : n \in DOMAIN t.files /\ t.files[n] = stream.files[n]
    PROVE  LaidInv'
<1>1. /\ UNCHANGED arguments /\ UNCHANGED <<pc, index, field, chunk, header, failed, result>>
      /\ inputs' = inputs /\ TypeOK /\ StreamOK(stream)
      /\ \A i \in DOMAIN inputs : Len(Cells(i)) \in Nat
      /\ 1 .. Len(inputs) = DOMAIN inputs
      /\ pc \in Writing => result = "none" /\ stream.opened \subseteq DOMAIN stream.files
  BY SaneNow, InputFacts, CellsFacts
     DEF position, arguments, IInv, TypeOK, HeardInv, Writing, InEntry, Sane, Sound
<1>2. Whole' = Whole
  BY <1>1, NextReaches
<1>3. SUFFICES ASSUME Laid
               PROVE  Laid'
  BY <1>1, <1>2 DEF LaidInv
<1>4. Counted' = Counted
  BY <1>1 DEF Counted
<1>5. ASSUME NEW top \in Nat, \A d \in 0 .. top : Name(d) \in DOMAIN stream.files
      PROVE  /\ Grows(stream, t, top) /\ top <= top
             /\ \A d \in 0 .. top : /\ Len(stream.files[Name(d)]) \in Nat
                                    /\ Len(t.files[Name(d)]) \in Nat
  BY <1>1, <1>5, SameGrows
<1>6. ASSUME NEW top \in Nat, \A d \in 0 .. top : Name(d) \in DOMAIN stream.files,
             NEW n, 1 .. n \subseteq DOMAIN inputs, Entries(stream, top, n)
      PROVE  Entries(t, top, n)
  BY <1>1, <1>5, <1>6, EntriesKept
<1>7. ASSUME pc \in Writing
      PROVE  /\ Appending(t) /\ t.disk \in Nat
             /\ \A d \in 0 .. t.disk : Name(d) \in DOMAIN stream.files
  <2>1. Appending(stream)
    BY <1>3, <1>7 DEF Laid
  <2>2. \A d \in 0 .. stream.disk : Name(d) \in DOMAIN stream.files
    BY <1>1, <1>7, <2>1 DEF Appending
  <2>3. 0 \in Nat /\ stream.disk \in Nat /\ stream.disk \in 0 .. stream.disk
    BY <2>1 DEF Appending
  <2>4. t.files[Name(stream.disk)] = stream.files[Name(stream.disk)]
    BY <2>2, <2>3
  <2> QED
    BY <2>1, <2>2, <2>3, <2>4 DEF Appending
<1>8. CASE pc \in InEntry
  <2>1. /\ Entries(stream, stream.disk, index - 1)
        /\ Reaches(stream, stream.disk, header[index], index, Counted, Here(stream))
    BY <1>3, <1>8 DEF Laid, Writing, InEntry
  <2>2. /\ 1 .. index - 1 \subseteq DOMAIN inputs /\ Counted \in Nat
    BY <1>1, InputFacts DEF Counted, TypeOK, HeaderCells
  <2>3. pc \in Writing
    BY <1>8 DEF Writing
  <2>4. Entries(t, t.disk, index - 1)
    BY <1>6, <1>7, <2>1, <2>2, <2>3
  <2>5. Reaches(t, t.disk, header[index], index, Counted, Here(t))
    <3> DEFINE top == stream.disk
               from == header[index]
               n == Counted
               to == Here(stream)
    <3>1. to = Here(t) /\ t.disk = top
      BY DEF Here
    <3>2. /\ top \in Nat /\ \A d \in 0 .. top : Name(d) \in DOMAIN stream.files
      BY <1>7, <2>3
    <3> HIDE DEF top, from, n, to
    <3>3. Reaches(stream, top, from, index, n, to) /\ n \in Nat
      BY <2>1, <2>2 DEF top, from, n, to
    <3>4. /\ Grows(stream, t, top) /\ top <= top
          /\ \A d \in 0 .. top : /\ Len(stream.files[Name(d)]) \in Nat
                                 /\ Len(t.files[Name(d)]) \in Nat
      BY <1>5, <3>2
    <3>5. Reaches(t, top, from, index, n, to)
      BY <3>2, <3>3, <3>4, ReachesKept
    <3> QED
      BY <3>1, <3>5 DEF from, n
  <2> QED
    BY <1>1, <1>4, <1>7, <1>8, <2>3, <2>4, <2>5, InEntryLaid
<1>9. CASE pc \in {"entry", "close"}
  <2> DEFINE n == IF pc = "close" THEN Len(header) ELSE index - 1
  <2>1. pc \in Writing
    BY <1>9 DEF Writing
  <2>2. /\ Entries(stream, stream.disk, n)
        /\ pc = "close" => Len(header) = Len(inputs)
    BY <1>3, <1>9, <2>1 DEF Laid
  <2>3. 1 .. n \subseteq DOMAIN inputs
    BY <1>1, <1>9, <2>2, InputFacts
  <2> HIDE DEF n
  <2>4. Entries(t, t.disk, n)
    BY <1>6, <1>7, <2>1, <2>2, <2>3
  <2> QED
    BY <1>1, <1>7, <1>9, <2>1, <2>2, <2>4, BetweenLaid DEF n
<1>10. CASE pc \notin Writing
  <2>1. ASSUME Finished(stream)
        PROVE  Finished(stream)'
    <3>1. PICK top \in Nat : /\ \A d \in 0 .. top : Name(d) \in DOMAIN stream.files
                             /\ Entries(stream, top, Len(inputs))
      BY <2>1 DEF Finished
    <3>2. Entries(t, top, Len(inputs))
      BY <1>1, <1>6, <3>1
    <3>3. \A d \in 0 .. top : Name(d) \in DOMAIN t.files
      BY <3>1
    <3>4. Finished(t)
      BY <2>1, <3>2, <3>3 DEF Finished
    <3> QED
      BY <1>1, <3>4, NextFinished
  <2> QED
    BY <1>1, <1>3, <1>10, <2>1 DEF Laid, Writing, InEntry
<1> QED
  BY <1>8, <1>9, <1>10 DEF Writing

LEMMA AppearLaid ==
    ASSUME IInv, LaidInv, NEW n \in Strangers, Appear(n)
    PROVE  LaidInv'
<1> DEFINE t == stream'
<1>1. StreamOK(stream) /\ n \notin DOMAIN stream.files
  BY DEF IInv, TypeOK, Appear
<1>2. t = [stream EXCEPT !.files = With(@, n, <<Other>>)]
  BY DEF Appear
<1>3. /\ t.disk = stream.disk /\ t.number = stream.number /\ t.at = stream.at
      /\ t.opened = stream.opened /\ t.reopened = stream.reopened
      /\ t.lost = stream.lost /\ t.files = With(stream.files, n, <<Other>>)
  BY <1>1, <1>2 DEF StreamOK
<1>4. \A m \in DOMAIN stream.files : m \in DOMAIN t.files /\ t.files[m] = stream.files[m]
  BY <1>1, <1>3 DEF With
<1>5. UNCHANGED <<arguments, pc, position, failed, result>>
  BY DEF Appear
<1> HIDE DEF t
<1> QED
  BY <1>3, <1>4, <1>5, LaidStays DEF t

LEMMA StepLaid ==
    ASSUME IInv, LaidInv, [Next]_vars
    PROVE  LaidInv'
<1>1. ASSUME UNCHANGED <<arguments, stream, pc, position, failed, result>>
      PROVE  LaidInv'
  BY <1>1, LaidStays
<1>2. CASE Cancel
  BY <1>1, <1>2 DEF Cancel
<1>3. CASE UNCHANGED vars
  BY <1>1, <1>3 DEF vars
<1> QED
  BY <1>2, <1>3, CheckLaid, OpenLaid, EntryOpenLaid, WriteHeaderLaid, WriteChunkLaid, PollLaid,
     EntryCloseLaid, CloseLaid, FinishLaid, AppearLaid DEF Next, Step

\* A reader goes the way on which the cells lie.
LEMMA MovesOnto ==
    ASSUME StreamOK(stream), NEW top \in Nat,
           \A d \in 0 .. top : Name(d) \in DOMAIN stream.files,
           NEW from \in Place, NEW to, NEW cell, Moves(stream, top, from, to, cell)
    PROVE  There(Onto(from)) /\ CellAt(Onto(from)) = cell /\ After(Onto(from)) = to
<1>1. PICK at \in Place :
         /\ \/ at = from
            \/ /\ volumeSize > 0 /\ from.disk < top
               /\ from.offset = Len(stream.files[Name(from.disk)])
               /\ at = [disk |-> from.disk + 1, offset |-> 0]
         /\ at.disk \in 0 .. top /\ at.offset < Len(stream.files[Name(at.disk)])
         /\ stream.files[Name(at.disk)][at.offset + 1] = cell
         /\ to = After(at)
  BY DEF Moves
<1>2. Name(at.disk) \in DOMAIN stream.files /\ from.disk \in Nat /\ at.offset \in Nat
  BY <1>1 DEF Place
<1>3. Onto(from) = at
  <2>1. CASE at = from
    <3>1. Len(stream.files[Name(at.disk)]) \in Nat
      BY <1>2 DEF StreamOK
    <3>2. at.offset # Len(stream.files[Name(at.disk)])
      BY <1>1, <1>2, <3>1
    <3> QED
      BY <2>1, <3>2 DEF Onto, AtEnd
  <2>2. CASE /\ volumeSize > 0 /\ from.disk < top
             /\ from.offset = Len(stream.files[Name(from.disk)])
             /\ at = [disk |-> from.disk + 1, offset |-> 0]
    <3>1. from.disk \in 0 .. top
      BY <1>2, <2>2
    <3>2. AtEnd(from)
      BY <2>2, <3>1 DEF AtEnd
    <3> QED
      BY <2>2, <3>2 DEF Onto
  <2> QED
    BY <1>1, <2>1, <2>2
<1> QED
  BY <1>1, <1>2, <1>3 DEF There, CellAt

\* The reader of an entry is at each place on the way.
LEMMA ReaderFollows ==
    ASSUME NEW i, NEW N \in Nat, N = Len(Cells(i)), NEW q \in [0 .. N -> Place],
           q[0] = header[i], \A k \in 1 .. N : q[k] = After(Onto(q[k - 1]))
    PROVE  \A k \in 0 .. N : Reader(i)[k] = q[k]
<1> DEFINE Advance(place) == After(Onto(place))
           Is(f) == f = [k \in 0 .. N |-> IF k = 0 THEN header[i] ELSE Advance(f[k - 1])]
           c == CHOOSE h : Is(h)
<1>1. Reader(i) = c
  BY DEF Reader
<1>2. \A k \in 1 .. N : q[k] = Advance(q[k - 1])
  OBVIOUS
<1> HIDE DEF Advance
<1>3. Is(q)
  <2>1. ASSUME NEW k \in 0 .. N
        PROVE  q[k] = IF k = 0 THEN header[i] ELSE Advance(q[k - 1])
    BY <1>2
  <2> QED
    BY <2>1
<1>4. c = [k \in 0 .. N |-> IF k = 0 THEN header[i] ELSE Advance(c[k - 1])]
  BY <1>3
<1> HIDE DEF c
<1>5. c[0] = header[i] /\ \A k \in 1 .. N : c[k] = Advance(c[k - 1])
  <2>1. 0 \in 0 .. N /\ \A k \in 1 .. N : k \in 0 .. N /\ k # 0
    OBVIOUS
  <2>2. c[0] = header[i]
    BY <1>4, <2>1
  <2>3. ASSUME NEW k \in 1 .. N
        PROVE  c[k] = Advance(c[k - 1])
    BY <1>4, <2>1
  <2> QED
    BY <2>2, <2>3
<1> DEFINE S == {k \in 0 .. N : c[k] = q[k]}
<1>6. 0 \in S
  BY <1>5
<1>7. ASSUME NEW k \in 0 .. N - 1, k \in S
      PROVE  k + 1 \in S
  <2>1. k + 1 \in 1 .. N /\ (k + 1) - 1 = k /\ k + 1 \in 0 .. N
    OBVIOUS
  <2>2. c[k + 1] = Advance(c[k]) /\ q[k + 1] = Advance(q[k]) /\ c[k] = q[k]
    BY <1>2, <1>5, <1>7, <2>1
  <2> QED
    BY <2>1, <2>2
<1>8. 0 .. N \subseteq S
  <2> HIDE DEF S
  <2> QED
    BY <1>6, <1>7, UptoInduction
<1> QED
  BY <1>1, <1>8

LEMMA FinishedComplete ==
    ASSUME TypeOK, Finished(stream)
    PROVE  Complete
<1>1. PICK top \in Nat : /\ \A d \in 0 .. top : Name(d) \in DOMAIN stream.files
                         /\ Entries(stream, top, Len(inputs))
  BY DEF Finished
<1>2. StreamOK(stream)
  BY DEF TypeOK
<1>3. ASSUME NEW i \in DOMAIN inputs, NEW k \in DOMAIN Cells(i)
      PROVE  LET place == Onto(Reader(i)[k - 1])
             IN There(place) /\ CellAt(place) = Cells(i)[k]
  <2> DEFINE N == Len(Cells(i))
  <2>1. i \in 1 .. Len(inputs)
    BY InputFacts
  <2>2. N \in Nat /\ DOMAIN Cells(i) = 1 .. N /\ Cells(i)[k] = <<i, k>>
    BY <2>1, CellsFacts
  <2>3. PICK to \in Place : Reaches(stream, top, header[i], i, N, to)
    BY <1>1, <2>1 DEF Entries
  <2> HIDE DEF N
  <2>4. PICK q \in [0 .. N -> Place] :
           /\ q[0] = header[i]
           /\ \A j \in 1 .. N : Moves(stream, top, q[j - 1], q[j], <<i, j>>)
    BY <2>3 DEF Reaches
  <2>5. ASSUME NEW j \in 1 .. N
        PROVE  /\ There(Onto(q[j - 1])) /\ CellAt(Onto(q[j - 1])) = <<i, j>>
               /\ q[j] = After(Onto(q[j - 1]))
    <3>1. q[j - 1] \in Place /\ Moves(stream, top, q[j - 1], q[j], <<i, j>>)
      BY <2>2, <2>4
    <3> QED
      BY <1>1, <1>2, <3>1, MovesOnto
  <2>6. \A j \in 0 .. N : Reader(i)[j] = q[j]
    BY <2>2, <2>4, <2>5, ReaderFollows DEF N
  <2>7. k \in 1 .. N /\ k - 1 \in 0 .. N
    BY <2>2
  <2> QED
    BY <2>2, <2>5, <2>6, <2>7
<1> QED
  BY <1>3 DEF Complete

LEMMA LaidInductive == Spec => [](IInv /\ LaidInv)
<1>1. Init => IInv /\ LaidInv
  BY InitControl, InitStream, InitLaid DEF IInv
<1>2. IInv /\ LaidInv /\ [Next]_vars => (IInv /\ LaidInv)'
  BY StepInv, StepLaid
<1> QED
  BY <1>1, <1>2, PTL DEF Spec

\* What is lost has a cause, for any inputs and any size of volumes: an archive
\* that was created with success, for which no volume was opened twice and no
\* error of a write was passed over, has each of its entries where the central
\* directory says, across as many volumes as it takes, and the central directory
\* at its end.
THEOREM LossesHaveCause == Spec => []LossHasCause
<1>1. IInv /\ LaidInv => LossHasCause
  <2>1. SUFFICES ASSUME IInv, LaidInv, result = "ok", stream.reopened = {}, ~stream.lost
                 PROVE  Complete /\ Ended
    BY DEF LossHasCause
  <2>2. Finished(stream) /\ TypeOK
    BY <2>1 DEF LaidInv, Laid, IInv
  <2> QED
    BY <2>2, FinishedComplete DEF Finished, Ended
<1> QED
  BY <1>1, LaidInductive, PTL

================================================================================
