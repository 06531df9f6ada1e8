----------------------------- MODULE MCRamdisk -----------------------------
EXTENDS Ramdisk

E(path, type, mode, ino, data) ==
    [magic |-> "070701", path |-> path, type |-> type, mode |-> mode, uid |-> 7, ino |-> ino,
     data |-> data, cut |-> "none"]

d  == E("d", "dir", 700, 0, "")
f  == E("f", "file", 644, 0, "one")
g  == E("g", "file", 0, 0, "two")
ff == E("ff", "file", 644, 0, "one")
l  == E("l", "symlink", 0, 0, "to")
lq == E("lq", "symlink", 0, 0, "qu")
ls == E("ls", "symlink", 0, 0, "sp")
n  == E("n", "device", 600, 0, "")
q  == E("q", "file", 644, 0, "one")
h1 == E("h1", "file", 644, 5, "")
h2 == E("h2", "file", 644, 5, "four")

MCQuoted == {"q", "qu", "qu 0"}
MCSplit  == {"sp", "sp 0"}
MCBeforeQuote(x) == "before"
MCZeros(x) == IF x = "" THEN "" ELSE "0"
\* What is left of one name is another.
MCTorn(x) == IF x = "ff" THEN "f" ELSE IF x = "" THEN "" ELSE x \o " 0"

\* Every type, a name twice, a hard-linked file, a name and a target with a quote, a
\* target with the end of a line, the other magic number, nothing, and one without
\* a trailer.
Archives ==
    { <<d, f, g, l, TRAILER>>, <<f, n, [f EXCEPT !.data = "two"], TRAILER, d>>, <<h1, h2, TRAILER>>,
      <<q, TRAILER>>, <<d, lq, TRAILER>>, <<ls, TRAILER>>, <<[f EXCEPT !.magic = "070702"], TRAILER>>,
      <<TRAILER>>, <<d, f>> }

\* Some that end inside an entry.
CutArchives ==
    UNION { { <<f, [e EXCEPT !.cut = c]>> : e \in {d, ff, l, n, TRAILER} } : c \in {"header", "name", "data"} }
    \cup { <<f, [e EXCEPT !.cut = "parent"]>> : e \in {d, ff, l} }
    \cup { <<h1, [h2 EXCEPT !.cut = "data"]>>, <<lq, [lq EXCEPT !.cut = "data"]>>, <<f, TRAILER, [g EXCEPT !.cut = "data"]>> }

\* Packed: whole, cut anywhere, damaged.
Streams(archive) ==
    { Append(archive, END), Append(archive, BAD) } \cup { SubSeq(archive, 1, k) : k \in 0 .. Len(archive) }

\* Those of an archive that is cut.
CutStreams(archive) == { archive, Append(archive, END), Append(archive, BAD) }

File(format, dict, units) == [here |-> TRUE, format |-> format, dict |-> dict, units |-> units]

S(file) == [header |-> HeaderOf(file), file |-> file]

\* The first bytes of something else that look like LZMA, and that do not; an
\* LZMA file with a dictionary that is too large, and one of 12 MiB, whose size
\* has two bits.
LooksLikeLzma == <<0, 0, 16, 0, 0, 1, 0, 0, 0, 0, 0, 0, 0, 5, 5, 5>>
Other         == <<4, 34, 77, 24, 100, 64, 167, 0, 0, 0, 0, 0, 0, 0, 0, 0>>
Lzma12        == <<93, 0, 0, 192, 0, 255, 255, 255, 255, 255, 255, 255, 255, 0, 24, 0>>

MCSources ==
    { S(File(FORMAT_NONE, 0, a)) : a \in Archives \cup CutArchives }
    \cup UNION { { S(File(format, IF format = FORMAT_LZMA THEN 16 ELSE 0, u)) : u \in CutStreams(a) } :
                 format \in {FORMAT_GZIP, FORMAT_LZ4, FORMAT_LZMA}, a \in CutArchives }
    \cup UNION { { S(File(format, IF format = FORMAT_LZMA THEN 16 ELSE 0, u)) : u \in Streams(a) } :
                 format \in {FORMAT_GZIP, FORMAT_LZ4, FORMAT_LZMA}, a \in Archives }
    \cup { S(File(FORMAT_LZMA, 64, <<f, TRAILER, END>>)),
           [header |-> Lzma12, file |-> File(FORMAT_LZMA, 12, <<f, TRAILER, END>>)],
           [header |-> LooksLikeLzma, file |-> File(FORMAT_OTHER, 0, <<f>>)],
           [header |-> Other, file |-> File(FORMAT_OTHER, 0, <<f>>)] }

MCNewData == {"new"}
=============================================================================
