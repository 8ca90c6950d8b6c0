-------------------------------- MODULE MCOpening --------------------------------
(***************************************************************************)
(* Bounds for the opening of archives: words of five bits, blocks of four  *)
(* bytes, files of up to six blocks, and of each format a file for each    *)
(* way in which its listing can end.                                       *)
(***************************************************************************)
EXTENDS OpeningProperties

MCPathNames == {"plain", "inside", "long", "other", "unsafe", "absent"}

E(path, kind, size, packed) == [path |-> path, kind |-> kind, size |-> size, packed |-> packed]
Small == E("plain", "file", 3, 2)
Folder == E("plain", "directory", 0, 0)
Empty == E("plain", "file", 0, 0)
Half == E("plain", "file", 16, 0)

MCListings == {<<>>, <<Small>>, <<Folder, Small>>, <<Small, Small>>, <<Half, Half>>,
               <<Small, E("unsafe", "file", 1, 0)>>, <<E("plain", "link", 0, 0)>>,
               <<E("plain", "file", 7, 3)>>, <<Empty>>, <<Empty, Empty>>, <<Empty, Small, Small>>}
Inner == <<E("inside", "file", 1, 1)>>

U(set, number, variant) == [set |-> set, number |-> number, variant |-> variant]
Plain == U("other", 0, 0)
NoGzip == [extra |-> Missing, name |-> Missing, comment |-> Missing,
           checksum |-> FALSE, content |-> 0]

Good(kind, magic, listed) ==
    [urls |-> <<Plain>>, siblings |-> <<>>, kind |-> kind, magic |-> magic,
     sevenZipName |-> FALSE, listed |-> listed, inner |-> <<>>, zeros |-> FALSE,
     state |-> "good", size |-> 20, gzip |-> NoGzip]
In(source, state) == [source EXCEPT !.state = state]

Zips == {In(Good("zip", m, l), s) : m \in {"zip", "none"}, l \in MCListings,
                                    s \in {"good", "damaged", "extended"}}
Rars == {In(Good("rar", m, l), s) : m \in {"rar", "none"}, l \in MCListings,
                                    s \in {"good", "damaged", "secret"}}
Others == {In(Good("other", "none", l), s) : l \in MCListings,
                                             s \in {"good", "damaged", "secret"}}
Isos == {[Good("iso", "none", <<Small>>) EXCEPT !.zeros = z] : z \in BOOLEAN}
Junk == {Good("junk", m, <<>>) : m \in {"zip", "rar", "gzip", "tar", "none"}}
Gzips == {[Good("gzip", m, <<Small>>) EXCEPT
              !.size = n,
              !.gzip = [extra |-> x, name |-> p, comment |-> Missing,
                        checksum |-> c, content |-> d]] :
          m \in {"gzip"}, n \in {17, 18, 22, 26}, x \in {Missing, 0, 5},
          p \in {Missing, 1, 3}, c \in BOOLEAN, d \in {3, 9}}
Tars == {[Good("tar", "tar", <<Small>>) EXCEPT !.size = n] : n \in {3, 11, 19, 24}}
OldTars == {[Good("tar", "none", <<Small>>) EXCEPT !.size = n] : n \in {3, 8}}
EmptyTars == {[Good("tar", "none", <<>>) EXCEPT !.size = n, !.zeros = TRUE] : n \in {4, 8, 12}}
Holding == {[f EXCEPT !.inner = Inner] :
               f \in Isos \cup OldTars \cup {Good("other", "none", <<Small>>)}}
Selves == {Good("sevenZip", "none", l) : l \in MCListings}

Sets == {<<>>, <<U("a", 1, 0)>>, <<U("a", 2, 0), U("a", 1, 0)>>,
         <<U("a", 3, 0), U("b", 2, 0), U("a", 1, 0)>>,
         <<U("b", 1, 0), U("a", 1, 0), Plain, U("a", 3, 0), U("a", 2, 0)>>,
         <<U("a", 2, 1), U("a", 1, 0), U("a", 2, 0)>>}
Opened == {<<U("a", 1, 0)>>, <<U("a", 2, 0)>>, <<Plain, U("a", 3, 0), U("a", 2, 0)>>,
           <<U("a", 2, 1)>>, <<U("b", 1, 0), U("a", 1, 0)>>}
Volumes == {[Good("sevenZip", "sevenZip", <<Small>>) EXCEPT
                !.urls = o, !.siblings = b, !.sevenZipName = TRUE] : o \in Opened, b \in Sets}
SevenZips == {In(Good("sevenZip", "sevenZip", l), s) : l \in MCListings, s \in {"good", "damaged"}}

L(count, entry, total, ratio) ==
    [count |-> count, entry |-> entry, total |-> total, ratio |-> ratio]
MCLimits == {L(2, MaxWord, MaxWord, 0), L(3, 7, 6, 2), L(1, 4, 9, 1)}

Asked(files, formats, withError, limitSets) ==
    [file : files, request : formats, reports : withError, limits : limitSets]

\* A caller asks for the format that the name suggests, for another, or for none.
MCCalls ==
    Asked(Zips, {"auto", "zip"}, BOOLEAN, MCLimits)
    \cup Asked(Rars, {"auto", "rar"}, {TRUE}, MCLimits)
    \cup Asked(Gzips, {"auto"}, {TRUE}, MCLimits)
    \cup Asked(Tars, {"auto"}, {TRUE}, MCLimits)
    \cup Asked(Others \cup Volumes \cup SevenZips, {"auto", "zip"}, {TRUE}, MCLimits)
    \cup Asked(Isos \cup Junk \cup OldTars \cup EmptyTars \cup Selves \cup Holding, {"auto", "zip", "tar", "sevenZip"},
                BOOLEAN, {L(2, MaxWord, MaxWord, 0), L(0, 4, 9, 1)})

\* What the counterexample needs: streams that declare no sizes.
Unsized == {f \in Others : \A e \in ToSet(f.listed) : e.size = 0}
MCStreams == Asked(Unsized, {"auto"}, {TRUE}, MCLimits)

F(radix, digits) == [radix |-> radix, digits |-> digits]
Zero == F(4, <<>>)
B(type, size) == [type |-> type, sum |-> TRUE, size |-> size, time |-> Zero, name |-> "plain",
                  path |-> Absent, given |-> NoSize]
MCBlocks ==
    {B("file", F(4, d)) : d \in {<<>>, <<1>>, <<1, 1>>, <<1, 3, 2>>, <<2, 0, 1>>}}
    \cup {B("directory", Zero), B("link", Zero), B("global", Zero),
          B("file", F(8, <<4, 1>>)),
          [B("file", Zero) EXCEPT !.sum = FALSE], [B("file", Zero) EXCEPT !.name = "unsafe"],
          [B("file", Zero) EXCEPT !.time = F(8, <<7, 7>>)],
          [B("longName", F(4, <<2>>)) EXCEPT !.path = "long"], B("longName", Zero),
          B("longName", F(4, <<2, 0>>)),
          [B("pax", F(4, <<3>>)) EXCEPT !.path = "other"],
          [B("pax", F(4, <<2>>)) EXCEPT !.given = 4],
          [B("pax", F(4, <<2>>)) EXCEPT !.given = 29]}

MCChunks == {1, 3}
==================================================================================
