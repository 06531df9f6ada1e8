------------------------ MODULE RamdiskBuild_proofs ------------------------
(***************************************************************************)
(* Proofs about Ramdisk, continued: what is built from a directory is      *)
(* found, read and unpacked as that directory again.                       *)
(***************************************************************************)
EXTENDS Ramdisk_proofs, FiniteSetTheorems, WellFoundedInduction

-----------------------------------------------------------------------------
(* Induction, for the directories after each entry of an archive.          *)

\* A set of numbers that is not empty has a least one.
LEMMA Least ==
    ASSUME NEW T \in SUBSET Nat, T # {}
    PROVE  \E x \in T : \A y \in T : x <= y
<1>1. PICK x \in T : \A y \in T : ~ (<<y, x>> \in OpToRel(<, Nat))
  BY NatLessThanWellFounded, WFMin
<1>2. \A y \in T : ~ (y < x)
  BY <1>1 DEF OpToRel
<1> QED  BY <1>2

\* A set that has 0, and n + 1 with n, has all numbers.
LEMMA Induct ==
    ASSUME NEW T, 0 \in T, \A n \in Nat : n \in T => n + 1 \in T
    PROVE  Nat \subseteq T
<1> SUFFICES ASSUME Nat \ T # {} PROVE FALSE
  OBVIOUS
<1>1. PICK x \in Nat \ T : \A y \in Nat \ T : x <= y
  BY Least
<1>2. x # 0 /\ x - 1 \in Nat
  BY <1>1
<1>3. x - 1 \in T
  BY <1>1, <1>2
<1> QED  BY <1>1, <1>2, <1>3

\* The definition of Directories has a function that it describes.
LEMMA DirectoriesExist ==
    ASSUME NEW archive, Len(archive) \in Nat
    PROVE  \E dir : dir = [k \in 0 .. Len(archive) |->
                              IF k = 0 THEN EmptyDirectory ELSE ExtractEntry(dir[k - 1], archive[k])]
<1> DEFINE Upto(dir, n) ==
             dir = [k \in 0 .. n |->
                       IF k = 0 THEN EmptyDirectory ELSE ExtractEntry(dir[k - 1], archive[k])]
           T == { n \in Nat : \E dir : Upto(dir, n) }
<1>1. 0 \in T
  <2>1. Upto([k \in 0 .. 0 |-> EmptyDirectory], 0)
    OBVIOUS
  <2> HIDE DEF Upto
  <2> QED  BY <2>1
<1>2. ASSUME NEW n \in Nat, n \in T PROVE n + 1 \in T
  <2>1. PICK dir : Upto(dir, n)
    BY <1>2
  <2> DEFINE next == [k \in 0 .. n + 1 |-> IF k <= n THEN dir[k] ELSE ExtractEntry(dir[n], archive[n + 1])]
  <2>2. \A k \in 0 .. n + 1 :
           next[k] = IF k = 0 THEN EmptyDirectory ELSE ExtractEntry(next[k - 1], archive[k])
    <3> SUFFICES ASSUME NEW k \in 0 .. n + 1
                 PROVE  next[k] = IF k = 0 THEN EmptyDirectory
                                  ELSE ExtractEntry(next[k - 1], archive[k])
      OBVIOUS
    <3>1. CASE k = 0
      BY <2>1, <3>1
    <3>2. CASE k # 0 /\ k <= n
      <4>1. next[k] = dir[k] /\ next[k - 1] = dir[k - 1]
        BY <3>2
      <4>2. dir[k] = ExtractEntry(dir[k - 1], archive[k])
        BY <2>1, <3>2
      <4> QED  BY <3>2, <4>1, <4>2
    <3>3. CASE k = n + 1
      <4>1. next[k] = ExtractEntry(dir[n], archive[n + 1]) /\ next[n] = dir[n] /\ k - 1 = n /\ k # 0
        BY <3>3
      <4> QED  BY <3>3, <4>1
    <3> QED  BY <3>1, <3>2, <3>3
  <2>3. Upto(next, n + 1)
    <3>1. next = [k \in 0 .. n + 1 |-> next[k]]
      OBVIOUS
    <3> HIDE DEF next
    <3> QED  BY <2>2, <3>1
  <2> HIDE DEF Upto, next
  <2> QED  BY <2>3
<1>3. Nat \subseteq T
  <2> HIDE DEF T
  <2> QED  BY <1>1, <1>2, Induct
<1> QED  BY <1>3

\* The directories of an archive, one entry after the other.
LEMMA DirectoriesStep ==
    ASSUME NEW archive, Len(archive) \in Nat
    PROVE  /\ Directories(archive)[0] = EmptyDirectory
           /\ \A k \in 1 .. Len(archive) :
                Directories(archive)[k] = ExtractEntry(Directories(archive)[k - 1], archive[k])
<1>1. Directories(archive) =
         [k \in 0 .. Len(archive) |->
             IF k = 0 THEN EmptyDirectory ELSE ExtractEntry(Directories(archive)[k - 1], archive[k])]
  BY DirectoriesExist DEF Directories
<1>2. 0 \in 0 .. Len(archive) /\ \A k \in 1 .. Len(archive) : k \in 0 .. Len(archive) /\ k # 0
  OBVIOUS
<1> DEFINE d == Directories(archive)
<1> HIDE DEF d
<1>3. d = [k \in 0 .. Len(archive) |-> IF k = 0 THEN EmptyDirectory ELSE ExtractEntry(d[k - 1], archive[k])]
  BY <1>1 DEF d
<1>4. d[0] = EmptyDirectory /\ \A k \in 1 .. Len(archive) : d[k] = ExtractEntry(d[k - 1], archive[k])
  BY <1>2, <1>3
<1> QED  BY <1>4 DEF d

-----------------------------------------------------------------------------
(* What ExtractCPIO makes.  (cpio.cc)                                      *)

RangeOf(s) == { s[k] : k \in DOMAIN s }

\* An entry of .parserconfig: only a symbolic link has a target.
IsLine(e) ==
    /\ e = [path |-> e.path, type |-> e.type, mode |-> e.mode, uid |-> e.uid, target |-> e.target]
    /\ e.type \in {"dir", "file", "symlink"}
    /\ e.type # "symlink" => e.target = ""

IsRecord(dir) ==
    dir = [lines |-> dir.lines, files |-> dir.files, ok |-> dir.ok, more |-> dir.more]

\* Every file has its line.
FilesListed(dir) ==
    /\ dir.files = [p \in DOMAIN dir.files |-> dir.files[p]]
    /\ \A p \in DOMAIN dir.files :
         \E k \in 1 .. Len(dir.lines) : dir.lines[k].type = "file" /\ dir.lines[k].path = p

LinesOK(dir, most) ==
    /\ dir.lines \in Seq(RangeOf(dir.lines)) /\ Len(dir.lines) <= most
    /\ \A k \in 1 .. Len(dir.lines) : IsLine(dir.lines[k])

\* A directory of at most that many entries.
IsTree(dir, most) == IsRecord(dir) /\ LinesOK(dir, most) /\ FilesListed(dir)

\* A sequence is one over the set of its elements.
LEMMA SeqOverRange ==
    ASSUME NEW S, NEW s \in Seq(S)
    PROVE  s \in Seq(RangeOf(s)) /\ RangeOf(s) \subseteq S /\ Len(s) \in Nat
<1>1. Len(s) \in Nat /\ DOMAIN s = 1 .. Len(s) /\ \A i \in 1 .. Len(s) : s[i] \in RangeOf(s)
  BY DEF RangeOf
<1>2. s = [i \in 1 .. Len(s) |-> s[i]]
  OBVIOUS
<1>3. s \in Seq(RangeOf(s))
  BY <1>1, <1>2, IsASeq
<1>4. RangeOf(s) \subseteq S
  BY DEF RangeOf
<1> QED  BY <1>1, <1>3, <1>4

\* What Append does to a sequence of any elements.
LEMMA AppendOverRange ==
    ASSUME NEW s, NEW e, s \in Seq(RangeOf(s))
    PROVE  /\ Append(s, e) \in Seq(RangeOf(Append(s, e)))
           /\ Len(Append(s, e)) = Len(s) + 1 /\ Len(s) \in Nat
           /\ \A k \in 1 .. Len(s) : Append(s, e)[k] = s[k]
           /\ Append(s, e)[Len(s) + 1] = e
<1> DEFINE S == RangeOf(s) \cup {e}
<1>1. s \in Seq(S) /\ e \in S
  OBVIOUS
<1>2. /\ Append(s, e) \in Seq(S)
      /\ Len(Append(s, e)) = Len(s) + 1 /\ Len(s) \in Nat
      /\ \A k \in 1 .. Len(s) : Append(s, e)[k] = s[k]
      /\ Append(s, e)[Len(s) + 1] = e
  <2> HIDE DEF S
  <2> QED  BY <1>1, AppendProperties
<1>3. Append(s, e) \in Seq(RangeOf(Append(s, e)))
  <2> HIDE DEF S
  <2> QED  BY <1>2, SeqOverRange
<1> QED  BY <1>2, <1>3

\* Before the first entry the directory is empty.
LEMMA EmptyIsTree == IsTree(EmptyDirectory, 0)
<1>1. IsRecord(EmptyDirectory)
  BY DEF IsRecord, EmptyDirectory
<1>2. EmptyDirectory.lines = <<>> /\ EmptyDirectory.files = <<>>
  BY DEF EmptyDirectory
<1>3. <<>> \in Seq(RangeOf(<<>>)) /\ Len(<<>>) = 0
  OBVIOUS
<1>4. LinesOK(EmptyDirectory, 0)
  BY <1>2, <1>3 DEF LinesOK
<1>5. FilesListed(EmptyDirectory)
  <2>1. <<>> = [p \in DOMAIN <<>> |-> <<>>[p]] /\ DOMAIN <<>> = {}
    OBVIOUS
  <2> QED  BY <1>2, <2>1 DEF FilesListed
<1> QED  BY <1>1, <1>4, <1>5 DEF IsTree

\* A short read changes neither the type of an entry nor that it has one.
LEMMA ReadType ==
    ASSUME NEW e, e.type \in {"dir", "file", "symlink"}
    PROVE  Read(e).type = e.type
BY DEF Read

\* One entry of the archive makes at most one line more.
LEMMA EntryKeepsTree ==
    ASSUME NEW dir, NEW n \in Nat, IsTree(dir, n), NEW e
    PROVE  IsTree(ExtractEntry(dir, e), n + 1)
<1> DEFINE next == ExtractEntry(dir, e)
<1>1. /\ IsRecord(dir) /\ dir.lines \in Seq(RangeOf(dir.lines)) /\ Len(dir.lines) <= n
      /\ \A k \in 1 .. Len(dir.lines) : IsLine(dir.lines[k])
      /\ FilesListed(dir)
  BY DEF IsTree, LinesOK
<1>2. Len(dir.lines) \in Nat
  BY <1>1
<1>3. CASE IsRecord(next) /\ next.lines = dir.lines /\ next.files = dir.files
  <2>1. Len(dir.lines) <= n + 1
    BY <1>1, <1>2
  <2> HIDE DEF next
  <2>2. LinesOK(next, n + 1)
    BY <1>1, <1>3, <2>1 DEF LinesOK
  <2>3. FilesListed(next)
    BY <1>1, <1>3 DEF FilesListed
  <2> QED  BY <1>3, <2>2, <2>3 DEF IsTree, next
<1>4. CASE /\ e.type \in {"dir", "file", "symlink"}
           /\ next = [dir EXCEPT !.lines = Append(@, Line(Read(e))),
                                 !.files = IF e.type = "file" THEN WithFile(@, Read(e)) ELSE @,
                                 !.more = (e.cut = "none")]
  <2> HIDE DEF next
  <2>1. /\ IsRecord(next) /\ next.lines = Append(dir.lines, Line(Read(e)))
        /\ next.files = IF e.type = "file" THEN WithFile(dir.files, Read(e)) ELSE dir.files
    BY <1>1, <1>4 DEF IsRecord
  <2>2. /\ next.lines \in Seq(RangeOf(next.lines))
        /\ Len(next.lines) = Len(dir.lines) + 1
        /\ \A k \in 1 .. Len(dir.lines) : next.lines[k] = dir.lines[k]
        /\ next.lines[Len(dir.lines) + 1] = Line(Read(e))
    BY <1>1, <2>1, AppendOverRange
  <2>3. IsLine(Line(Read(e))) /\ Line(Read(e)).type = e.type /\ Line(Read(e)).path = Read(e).path
    <3> DEFINE read == Read(e)
    <3>1. read.type = e.type
      BY <1>4, ReadType
    <3> HIDE DEF read
    <3>2. IsLine(Line(read)) /\ Line(read).type = e.type /\ Line(read).path = read.path
      BY <1>4, <3>1 DEF IsLine, Line
    <3> QED  BY <3>2 DEF read
  <2>4. LinesOK(next, n + 1)
    <3>1. \A k \in 1 .. Len(next.lines) : k \in 1 .. Len(dir.lines) \/ k = Len(dir.lines) + 1
      BY <1>2, <2>2
    <3>2. \A k \in 1 .. Len(next.lines) : IsLine(next.lines[k])
      BY <1>1, <2>2, <2>3, <3>1
    <3>3. Len(next.lines) <= n + 1
      BY <1>1, <1>2, <2>2
    <3> QED  BY <2>2, <3>2, <3>3 DEF LinesOK
  <2>5. FilesListed(next)
    <3>1. next.files = [p \in DOMAIN next.files |-> next.files[p]]
      BY <1>1, <2>1 DEF FilesListed, WithFile
    <3>2. ASSUME NEW p \in DOMAIN next.files
          PROVE  \E k \in 1 .. Len(next.lines) : next.lines[k].type = "file" /\ next.lines[k].path = p
      <4>1. CASE p \in DOMAIN dir.files
        <5>1. PICK k \in 1 .. Len(dir.lines) : dir.lines[k].type = "file" /\ dir.lines[k].path = p
          BY <1>1, <4>1 DEF FilesListed
        <5> QED  BY <1>2, <2>2, <5>1
      <4>2. CASE p \notin DOMAIN dir.files
        <5>1. e.type = "file" /\ p = Read(e).path
          BY <2>1, <3>2, <4>2 DEF WithFile
        <5> QED  BY <1>2, <2>2, <2>3, <5>1
      <4> QED  BY <4>1, <4>2
    <3> QED  BY <3>1, <3>2 DEF FilesListed
  <2> QED  BY <2>1, <2>4, <2>5 DEF IsTree, next
<1>5. \/ IsRecord(next) /\ next.lines = dir.lines /\ next.files = dir.files
      \/ /\ e.type \in {"dir", "file", "symlink"}
         /\ next = [dir EXCEPT !.lines = Append(@, Line(Read(e))),
                               !.files = IF e.type = "file" THEN WithFile(@, Read(e)) ELSE @,
                               !.more = (e.cut = "none")]
  BY <1>1 DEF ExtractEntry, IsRecord
<1> QED  BY <1>3, <1>4, <1>5

\* What comes from an archive is a directory, with at most one line for each entry.
LEMMA ExtractedIsTree ==
    ASSUME NEW archive, Len(archive) \in Nat
    PROVE  IsTree(ExtractCPIO(archive), Len(archive))
<1> DEFINE T == { k \in Nat : k \in 0 .. Len(archive) => IsTree(Directories(archive)[k], k) }
<1>1. 0 \in T
  BY DirectoriesStep, EmptyIsTree
<1>2. ASSUME NEW k \in Nat, k \in T PROVE k + 1 \in T
  <2>1. SUFFICES ASSUME k + 1 \in 0 .. Len(archive)
                 PROVE  IsTree(Directories(archive)[k + 1], k + 1)
    OBVIOUS
  <2>2. k \in 0 .. Len(archive) /\ k + 1 \in 1 .. Len(archive) /\ k + 1 - 1 = k
    BY <2>1
  <2>3. Directories(archive)[k + 1] = ExtractEntry(Directories(archive)[k], archive[k + 1])
    BY <2>2, DirectoriesStep
  <2>4. IsTree(Directories(archive)[k], k)
    BY <1>2, <2>2
  <2> QED  BY <2>3, <2>4, EntryKeepsTree
<1>3. Nat \subseteq T
  <2> HIDE DEF T
  <2> QED  BY <1>1, <1>2, Induct
<1>4. Len(archive) \in T
  BY <1>3
<1> QED  BY <1>4 DEF ExtractCPIO

-----------------------------------------------------------------------------
(* BuildCPIO, and ExtractCPIO of what it builds.                           *)

\* A line as it comes back: with permissions, and without what is behind a quote.
Relined(e) ==
    [e EXCEPT !.mode = Permissions(e), !.target = IF e.type = "symlink" THEN Target(e) ELSE e.target]

\* The paths of the files among the first lines.
PathsUpTo(dir, n) == { dir.lines[k].path : k \in { j \in 1 .. n : dir.lines[j].type = "file" } }

\* again is what the first n lines of dir are unpacked to.
SameUpTo(again, dir, n) ==
    /\ IsRecord(again) /\ again.ok /\ again.more
    /\ again.lines \in Seq(RangeOf(again.lines)) /\ Len(again.lines) = n
    /\ \A k \in 1 .. n : again.lines[k] = Relined(dir.lines[k])
    /\ again.files = [p \in PathsUpTo(dir, n) |-> dir.files[p]]

\* An archive has an entry for each line, and the trailer.
LEMMA ArchiveOf ==
    ASSUME NEW dir, NEW most, LinesOK(dir, most)
    PROVE  /\ BuildCPIO(dir) \in Seq(RangeOf(BuildCPIO(dir)))
           /\ Len(BuildCPIO(dir)) = Len(dir.lines) + 1 /\ Len(dir.lines) \in Nat
           /\ \A k \in 1 .. Len(dir.lines) : BuildCPIO(dir)[k] = BuildEntry(dir, dir.lines[k])
           /\ BuildCPIO(dir)[Len(dir.lines) + 1] = TRAILER
<1> DEFINE n == Len(dir.lines)
           entries == [k \in DOMAIN dir.lines |-> BuildEntry(dir, dir.lines[k])]
           S == { BuildEntry(dir, dir.lines[k]) : k \in 1 .. n }
<1>1. n \in Nat /\ DOMAIN dir.lines = 1 .. n
  BY DEF LinesOK
<1>2. entries = [k \in 1 .. n |-> BuildEntry(dir, dir.lines[k])]
  BY <1>1
<1>3. entries \in [1 .. n -> S]
  <2> HIDE DEF n
  <2> QED  BY <1>2
<1>4. entries \in Seq(S) /\ Len(entries) = n
  <2> HIDE DEF n, S, entries
  <2> QED  BY <1>1, <1>3
<1>5. entries \in Seq(RangeOf(entries))
  <2> HIDE DEF n, S, entries
  <2> QED  BY <1>4, SeqOverRange
<1>6. \A k \in 1 .. n : entries[k] = BuildEntry(dir, dir.lines[k])
  <2> HIDE DEF n
  <2> QED  BY <1>2
<1>7. BuildCPIO(dir) = Append(entries, TRAILER)
  BY DEF BuildCPIO
<1> HIDE DEF entries, n, S
<1>8. /\ Append(entries, TRAILER) \in Seq(RangeOf(Append(entries, TRAILER)))
      /\ Len(Append(entries, TRAILER)) = n + 1
      /\ \A k \in 1 .. n : Append(entries, TRAILER)[k] = entries[k]
      /\ Append(entries, TRAILER)[n + 1] = TRAILER
  BY <1>4, <1>5, AppendOverRange
<1> QED  BY <1>1, <1>6, <1>7, <1>8 DEF n

\* The entry of a line gives the line back.
LEMMA EntryOfLine ==
    ASSUME NEW dir, NEW e, IsLine(e)
    PROVE  /\ BuildEntry(dir, e).magic = "070701" /\ BuildEntry(dir, e).type = e.type
           /\ BuildEntry(dir, e).path = e.path
           /\ BuildEntry(dir, e).cut = "none" /\ Read(BuildEntry(dir, e)) = BuildEntry(dir, e)
           /\ e.type = "file" => BuildEntry(dir, e).data = dir.files[e.path]
           /\ Line(BuildEntry(dir, e)) = Relined(e)
<1> DEFINE entry == BuildEntry(dir, e)
<1>1. /\ entry.magic = "070701" /\ entry.type = e.type /\ entry.path = e.path
      /\ entry.mode = Permissions(e) /\ entry.uid = e.uid /\ entry.cut = "none"
  BY DEF BuildEntry
<1>2. /\ e.type = "file" => entry.data = dir.files[e.path]
      /\ e.type = "symlink" => entry.data = Target(e)
  BY DEF BuildEntry
<1>3. Line(entry) = [path |-> e.path, type |-> e.type, mode |-> Permissions(e), uid |-> e.uid,
                     target |-> IF e.type = "symlink" THEN Target(e) ELSE e.target]
  <2> HIDE DEF entry
  <2> QED  BY <1>1, <1>2 DEF Line, IsLine
<1>4. Relined(e) = [path |-> e.path, type |-> e.type, mode |-> Permissions(e), uid |-> e.uid,
                    target |-> IF e.type = "symlink" THEN Target(e) ELSE e.target]
  <2> DEFINE mode == Permissions(e)
             target == IF e.type = "symlink" THEN Target(e) ELSE e.target
  <2>1. e = [path |-> e.path, type |-> e.type, mode |-> e.mode, uid |-> e.uid, target |-> e.target]
    BY DEF IsLine
  <2>2. Relined(e) = [e EXCEPT !.mode = mode, !.target = target]
    BY <2>1 DEF Relined
  <2> HIDE DEF mode, target
  <2>3. Relined(e) = [path |-> e.path, type |-> e.type, mode |-> mode, uid |-> e.uid, target |-> target]
    BY <2>1, <2>2
  <2> QED  BY <2>3 DEF mode, target
<1>5. Read(entry) = entry
  <2> HIDE DEF entry
  <2> QED  BY <1>1 DEF Read
<1> QED  BY <1>1, <1>2, <1>3, <1>4, <1>5

\* One line after the other comes back.
LEMMA LineComesBack ==
    ASSUME NEW dir, NEW n \in Nat, NEW again, SameUpTo(again, dir, n),
           IsLine(dir.lines[n + 1])
    PROVE  SameUpTo(ExtractEntry(again, BuildEntry(dir, dir.lines[n + 1])), dir, n + 1)
<1> DEFINE line  == dir.lines[n + 1]
           entry == BuildEntry(dir, line)
           next  == ExtractEntry(again, entry)
<1>1. /\ IsRecord(again) /\ again.ok /\ again.more
      /\ again.lines \in Seq(RangeOf(again.lines)) /\ Len(again.lines) = n
      /\ \A k \in 1 .. n : again.lines[k] = Relined(dir.lines[k])
      /\ again.files = [p \in PathsUpTo(dir, n) |-> dir.files[p]]
  BY DEF SameUpTo
<1>2. /\ entry.magic = "070701" /\ entry.type = line.type /\ entry.path = line.path
      /\ line.type = "file" => entry.data = dir.files[line.path]
      /\ Line(entry) = Relined(line) /\ line.type \in {"dir", "file", "symlink"}
      /\ entry.cut = "none" /\ Read(entry) = entry
  <2>1. line.type \in {"dir", "file", "symlink"}
    BY DEF IsLine
  <2>2. IsLine(line)
    OBVIOUS
  <2> HIDE DEF line
  <2> QED  BY <2>1, <2>2, EntryOfLine
<1> HIDE DEF entry
<1>3. next = [again EXCEPT !.lines = Append(@, Line(entry)),
                           !.files = IF entry.type = "file" THEN WithFile(@, entry) ELSE @,
                           !.more = (entry.cut = "none")]
  BY <1>1, <1>2 DEF ExtractEntry, Refused
<1> HIDE DEF next
<1>4. /\ IsRecord(next) /\ next.ok /\ next.more
      /\ next.lines = Append(again.lines, Relined(line))
      /\ next.files = IF line.type = "file" THEN WithFile(again.files, entry) ELSE again.files
  BY <1>1, <1>2, <1>3 DEF IsRecord
<1>5. /\ next.lines \in Seq(RangeOf(next.lines)) /\ Len(next.lines) = n + 1
      /\ \A k \in 1 .. n : next.lines[k] = again.lines[k]
      /\ next.lines[n + 1] = Relined(line)
  BY <1>1, <1>4, AppendOverRange
<1>6. \A k \in 1 .. n + 1 : next.lines[k] = Relined(dir.lines[k])
  <2>1. \A k \in 1 .. n + 1 : k \in 1 .. n \/ k = n + 1
    OBVIOUS
  <2> QED  BY <1>1, <1>5, <2>1
<1>7. PathsUpTo(dir, n + 1) = PathsUpTo(dir, n) \cup IF line.type = "file" THEN {line.path} ELSE {}
  BY DEF PathsUpTo
<1>8. next.files = [p \in PathsUpTo(dir, n + 1) |-> dir.files[p]]
  <2> HIDE DEF line
  <2>1. DOMAIN again.files = PathsUpTo(dir, n) /\ \A p \in PathsUpTo(dir, n) : again.files[p] = dir.files[p]
    BY <1>1
  <2>2. CASE line.type = "file"
    <3>1. next.files = [p \in PathsUpTo(dir, n) \cup {line.path} |->
                           IF p = line.path THEN dir.files[line.path] ELSE again.files[p]]
      BY <1>2, <1>4, <2>1, <2>2 DEF WithFile
    <3> QED  BY <1>7, <2>1, <2>2, <3>1
  <2>3. CASE line.type # "file"
    BY <1>1, <1>4, <1>7, <2>3
  <2> QED  BY <2>2, <2>3
<1> QED  BY <1>4, <1>5, <1>6, <1>8 DEF SameUpTo, next, entry

\* What was built from a directory is unpacked as that directory, with permissions
\* for every entry, and the targets of links up to their quotes.  (cpio.cc; Jni.cc, lines 48 to 55 and 107 to 113)
LEMMA BuiltComesBack ==
    ASSUME NEW dir, NEW most, IsTree(dir, most), CanBuild(dir)
    PROVE  /\ ExtractCPIO(BuildCPIO(dir)).ok
           /\ ExtractCPIO(BuildCPIO(dir)).files = dir.files
           /\ Len(ExtractCPIO(BuildCPIO(dir)).lines) = Len(dir.lines)
           /\ ExtractCPIO(BuildCPIO(dir)).lines \in Seq(RangeOf(ExtractCPIO(BuildCPIO(dir)).lines))
           /\ \A k \in 1 .. Len(dir.lines) :
                ExtractCPIO(BuildCPIO(dir)).lines[k] = Relined(dir.lines[k])
<1> DEFINE n == Len(dir.lines)
           archive == BuildCPIO(dir)
           T == { k \in Nat : k <= n => SameUpTo(Directories(archive)[k], dir, k) }
<1>1. LinesOK(dir, most) /\ FilesListed(dir)
  BY DEF IsTree
<1>2. /\ n \in Nat /\ Len(archive) = n + 1
      /\ \A k \in 1 .. n : archive[k] = BuildEntry(dir, dir.lines[k])
      /\ archive[n + 1] = TRAILER
  BY <1>1, ArchiveOf
<1>3. \A k \in 1 .. n : IsLine(dir.lines[k])
  BY <1>1 DEF LinesOK
<1> HIDE DEF n, archive
<1>4. 0 \in T
  <2>1. Directories(archive)[0] = EmptyDirectory
    BY <1>2, DirectoriesStep
  <2>2. PathsUpTo(dir, 0) = {}
    BY DEF PathsUpTo
  <2>3. /\ IsRecord(EmptyDirectory) /\ EmptyDirectory.ok /\ EmptyDirectory.more
        /\ EmptyDirectory.lines = <<>> /\ EmptyDirectory.files = <<>>
    BY DEF IsRecord, EmptyDirectory
  <2>4. <<>> \in Seq(RangeOf(<<>>)) /\ Len(<<>>) = 0 /\ <<>> = [p \in {} |-> dir.files[p]]
    OBVIOUS
  <2>5. SameUpTo(EmptyDirectory, dir, 0)
    BY <2>2, <2>3, <2>4 DEF SameUpTo
  <2> QED  BY <2>1, <2>5
<1>5. ASSUME NEW k \in Nat, k \in T PROVE k + 1 \in T
  <2>1. SUFFICES ASSUME k + 1 <= n
                 PROVE  SameUpTo(Directories(archive)[k + 1], dir, k + 1)
    OBVIOUS
  <2>2. k + 1 \in 1 .. n /\ k + 1 \in 1 .. Len(archive) /\ k + 1 - 1 = k /\ k <= n
    BY <1>2, <2>1
  <2>3. Directories(archive)[k + 1] = ExtractEntry(Directories(archive)[k], BuildEntry(dir, dir.lines[k + 1]))
    BY <1>2, <2>2, DirectoriesStep
  <2>4. SameUpTo(Directories(archive)[k], dir, k) /\ IsLine(dir.lines[k + 1])
    BY <1>3, <1>5, <2>2
  <2> QED  BY <2>3, <2>4, LineComesBack
<1>6. Nat \subseteq T
  <2> HIDE DEF T
  <2> QED  BY <1>4, <1>5, Induct
<1> DEFINE last == Directories(archive)[n]
<1>7. SameUpTo(last, dir, n)
  BY <1>2, <1>6
<1>8. ExtractCPIO(archive) = ExtractEntry(last, TRAILER)
  <2>1. n + 1 \in 1 .. Len(archive) /\ n + 1 - 1 = n
    BY <1>2
  <2> QED  BY <1>2, <2>1, DirectoriesStep DEF ExtractCPIO
<1> HIDE DEF last
<1>9. ExtractEntry(last, TRAILER) = [last EXCEPT !.more = FALSE]
  BY <1>7 DEF ExtractEntry, Refused, TRAILER, SameUpTo
<1>10. /\ ExtractCPIO(archive).ok /\ ExtractCPIO(archive).lines = last.lines
       /\ ExtractCPIO(archive).files = last.files
  BY <1>7, <1>8, <1>9 DEF SameUpTo, IsRecord
<1>11. PathsUpTo(dir, n) = DOMAIN dir.files
  <2>1. ASSUME NEW k \in 1 .. n, dir.lines[k].type = "file" PROVE dir.lines[k].path \in DOMAIN dir.files
    <3>1. k \in DOMAIN dir.lines
      BY <1>1 DEF LinesOK, n
    <3> QED  BY <2>1, <3>1 DEF CanBuild, Buildable
  <2>2. \A p \in DOMAIN dir.files : \E k \in 1 .. n : dir.lines[k].type = "file" /\ dir.lines[k].path = p
    BY <1>1 DEF FilesListed, n
  <2> QED  BY <2>1, <2>2 DEF PathsUpTo
<1>12. last.files = dir.files
  BY <1>1, <1>7, <1>11 DEF SameUpTo, FilesListed
<1> QED  BY <1>7, <1>10, <1>12 DEF SameUpTo, n, archive

-----------------------------------------------------------------------------
(***************************************************************************)
(* The inductive invariant of the second half.  The disk has room for the  *)
(* archive that is built and for what it is packed into; while a codec     *)
(* runs, the packed file so far, the unit the stream keeps, the buffer,    *)
(* what the codec keeps and what was read are, one after the other, the    *)
(* units of the packed archive.                                            *)
(***************************************************************************)

Archive == BuildCPIO(tree)
Packed  == Append(Archive, END)
Total    == Len(Archive)

\* A file in the place of the archive.
BuiltFile(units) ==
    [here |-> TRUE, format |-> compression_method,
     dict |-> IF compression_method = FORMAT_LZMA THEN DictSize ELSE 0, units |-> units]

MethodOK ==
    phase \in {"decompress", "untar", "unpacked", "compress", "built"} =>
        compression_method \in {FORMAT_NONE, FORMAT_LZ4, FORMAT_GZIP, FORMAT_LZMA}

TreeOK     == phase \in {"unpacked", "compress", "built"} => IsTree(tree, Content)
UnpackedOK ==
    phase = "unpacked" => call.op = "none" /\ room \in Int /\ room >= source.room - Content
CanOK      == phase \in {"compress", "built"} => CanBuild(tree)

\* o units are in the file, p were sent or are kept, b left the codec, h went in, a were read.
PackingLzma(o, p, b, h, a, eof, idle) ==
    /\ o <= p /\ p <= b /\ b <= h /\ h <= a
    /\ eof => a = Total
    /\ call = [op |-> "lzma", at |-> a, end |-> Total, buf |-> Part(Packed, h, a), eof |-> eof,
               held |-> Part(Packed, b, h), idle |-> idle,
               outbuf |-> Part(Packed, p, b), pending |-> Part(Packed, o, p)]
    /\ output = OutFile(FORMAT_LZMA, Part(Packed, 0, o))
    /\ room \in Int /\ room >= (Total + 1) - o
    /\ input.units = Archive

LzmaLoop ==
    \E o, p, b, h, a \in 0 .. Total, eof, idle \in BOOLEAN : PackingLzma(o, p, b, h, a, eof, idle)

\* Everything left the codec.
LzmaClose ==
    \E o \in 0 .. Total + 1 :
        /\ call.op = "lzma_end" /\ call.pending = Part(Packed, o, Total + 1)
        /\ output = OutFile(FORMAT_LZMA, Part(Packed, 0, o))
        /\ room \in Int /\ room >= (Total + 1) - o

GzipCall(a, held) ==
    [op |-> "gzip", at |-> a, end |-> Total, buf |-> <<>>, eof |-> FALSE, held |-> held, idle |-> FALSE,
     outbuf |-> <<>>, pending |-> <<>>]

PackingGzip(o, a) ==
    /\ o <= a
    /\ call = GzipCall(a, Part(Packed, o, a))
    /\ output = OutFile(FORMAT_GZIP, Part(Packed, 0, o))
    /\ input.units = Archive

GzipLoop == \E o, a \in 0 .. Total : PackingGzip(o, a)

Packing ==
    \/ compression_method = FORMAT_LZMA /\ (LzmaLoop \/ LzmaClose)
    \/ compression_method = FORMAT_GZIP /\ GzipLoop
    \/ compression_method = FORMAT_LZ4 /\ call.op = "lz4" /\ call.end = Total /\ input.units = Archive

CompressOK ==
    phase = "compress" =>
        /\ compression_method # FORMAT_NONE
        /\ \/ call.op = "none" /\ input.units = Archive /\ room \in Int /\ room >= Total + 1
           \/ Packing
           \/ call.op = "done" /\ input = BuiltFile(Packed)
           \/ call.op \in {"failed", "ended"}

BuiltOK ==
    phase = "built" =>
        /\ call.op = "none"
        /\ input = BuiltFile(IF compression_method = FORMAT_NONE THEN Archive ELSE Packed)

BInv ==
    /\ MethodOK
    /\ source.room >= Ample =>
        TreeOK /\ UnpackedOK /\ (misread \/ (CanOK /\ CompressOK /\ BuiltOK))

-----------------------------------------------------------------------------
(* UnpackCPIO and the edits.  (Jni.cc, lines 107 to 114)                   *)

\* A directory has no more files than lines.
LEMMA FewFiles ==
    ASSUME NEW dir, NEW most \in Nat, IsTree(dir, most)
    PROVE  /\ Cardinality(DOMAIN dir.files) \in Nat /\ Cardinality(DOMAIN dir.files) <= most
           /\ \A T \in SUBSET DOMAIN dir.files : Cardinality(T) \in Nat /\ Cardinality(T) <= most
<1> DEFINE n == Len(dir.lines)
           paths == { dir.lines[k].path : k \in 1 .. n }
           path == [k \in 1 .. n |-> dir.lines[k].path]
<1>1. n \in Nat /\ n <= most
  BY DEF IsTree, LinesOK
<1> HIDE DEF n
<1>2. IsFiniteSet(1 .. n) /\ Cardinality(1 .. n) = n
  <2>1. 1 \in Int /\ n \in Int
    BY <1>1
  <2>2. IsFiniteSet(1 .. n) /\ Cardinality(1 .. n) = IF 1 > n THEN 0 ELSE n - 1 + 1
    BY <2>1, FS_Interval
  <2> QED  BY <1>1, <2>2
<1>3. path \in Surjection(1 .. n, paths)
  BY DEF Surjection
<1>4. IsFiniteSet(paths) /\ Cardinality(paths) <= n
  <2> HIDE DEF paths, path
  <2> QED  BY <1>2, <1>3, FS_Surjection
<1>5. DOMAIN dir.files \subseteq paths
  BY DEF IsTree, FilesListed, n
<1>6. ASSUME NEW T \in SUBSET DOMAIN dir.files
      PROVE  Cardinality(T) \in Nat /\ Cardinality(T) <= most
  <2> HIDE DEF paths
  <2>1. T \in SUBSET paths
    BY <1>5
  <2>2. IsFiniteSet(T) /\ Cardinality(T) <= Cardinality(paths)
    BY <1>4, <2>1, FS_Subset
  <2>3. Cardinality(T) \in Nat /\ Cardinality(paths) \in Nat
    BY <1>4, <2>2, FS_CardinalityType
  <2> QED  BY <1>1, <1>4, <2>2, <2>3
<1> QED  BY <1>6

\* Where there is room for the archive, no file is short, wherever the reads end.
LEMMA UnpackCPIOMakesTree ==
    ASSUME SourceOK, source.room >= Ample, Complete, UnpackCPIO, phase' = "unpacked"
    PROVE  IsTree(tree', Content) /\ room' >= source.room - Content /\ room' \in Int
<1>1. /\ output.units = Data(Units) /\ room \in Int /\ room >= source.room - Content
      /\ Content \in Nat /\ Size \in Nat /\ Content <= Size /\ source.room \in Nat
      /\ 3 * (Size + 1) <= Ample /\ Ample \in Nat
  BY SourceFacts, DataIsSeg, RamdiskAssumption DEF Complete
<1>2. Len(output.units) = Content /\ output.units \in Seq({ Units[k] : k \in DOMAIN Units })
  <2>1. 0 \in 0 .. Size /\ Content \in 0 .. Size
    BY <1>1
  <2>2. Data(Units) = Seg(0, Content)
    BY DataIsSeg
  <2>3. Seg(0, Content) \in Seq({ Units[k] : k \in DOMAIN Units })
    BY <2>1, SegIsSeq
  <2> QED  BY <1>1, <2>2, <2>3 DEF Content
<1>3. PICK end \in 0 .. Len(output.units) :
        \E d \in Fitting(ExtractCPIO(SubSeq(output.units, 1, end))) :
          /\ tree' = d
          /\ d.ok => room' = room + Len(output.units)
                               - Cardinality({p \in DOMAIN d.files : d.files[p] # ShortFile})
          /\ ~d.ok => phase' = "failed"
  BY Zenon DEF UnpackCPIO
<1> DEFINE dir == ExtractCPIO(SubSeq(output.units, 1, end))
<1>4. IsTree(dir, Content)
  <2> DEFINE archive == SubSeq(output.units, 1, end)
  <2>1. Len(archive) = end /\ end \in Nat /\ end <= Content
    BY <1>1, <1>2
  <2> HIDE DEF archive
  <2>2. IsTree(ExtractCPIO(archive), end)
    BY <2>1, ExtractedIsTree
  <2>3. ASSUME NEW made, IsTree(made, end) PROVE IsTree(made, Content)
    BY <1>1, <2>1, <2>3 DEF IsTree, LinesOK
  <2> QED  BY <2>2, <2>3 DEF archive
<1> HIDE DEF dir
<1>5. Cardinality(DOMAIN dir.files) \in Nat /\ Cardinality(DOMAIN dir.files) <= Content
  BY <1>1, <1>4, FewFiles
<1>6. Fitting(dir) = {dir}
  <2>1. Cardinality(DOMAIN dir.files) <= room
    BY <1>1, <1>5
  <2> QED  BY <2>1 DEF Fitting
<1>7. /\ tree' = dir
      /\ dir.ok => room' = room + Len(output.units)
                             - Cardinality({p \in DOMAIN dir.files : dir.files[p] # ShortFile})
      /\ ~dir.ok => phase' = "failed"
  BY <1>3, <1>6 DEF dir
<1> DEFINE full == {p \in DOMAIN dir.files : dir.files[p] # ShortFile}
<1>8. full \in SUBSET DOMAIN dir.files
  OBVIOUS
<1> HIDE DEF full
<1>9. Cardinality(full) \in Nat /\ Cardinality(full) <= Content
  BY <1>1, <1>4, <1>8, FewFiles
<1>10. room' = room + Content - Cardinality(full)
  BY <1>2, <1>7 DEF full
<1> QED  BY <1>1, <1>4, <1>7, <1>9, <1>10

\* A file with other contents.
LEMMA EditKeepsTree ==
    ASSUME IsTree(tree, Content), EditFile
    PROVE  IsTree(tree', Content)
<1>1. PICK p \in DOMAIN tree.files, d \in NewData : tree' = [tree EXCEPT !.files[p] = d]
  BY DEF EditFile
<1>2. IsRecord(tree) /\ LinesOK(tree, Content) /\ FilesListed(tree)
  BY DEF IsTree
<1>3. /\ IsRecord(tree') /\ tree'.lines = tree.lines
      /\ tree'.files = [tree.files EXCEPT ![p] = d]
  BY <1>1, <1>2 DEF IsRecord
<1>4. tree'.files = [q \in DOMAIN tree.files |-> tree'.files[q]] /\ DOMAIN tree'.files = DOMAIN tree.files
  BY <1>2, <1>3 DEF FilesListed
<1>5. FilesListed(tree')
  BY <1>2, <1>3, <1>4 DEF FilesListed
<1>6. LinesOK(tree', Content)
  BY <1>2, <1>3 DEF LinesOK
<1> QED  BY <1>3, <1>5, <1>6 DEF IsTree

\* A file less.
LEMMA DeleteKeepsTree ==
    ASSUME IsTree(tree, Content), DeleteFile
    PROVE  IsTree(tree', Content)
<1>1. PICK p \in DOMAIN tree.files :
         tree' = [tree EXCEPT !.files = [q \in DOMAIN tree.files \ {p} |-> tree.files[q]]]
  BY DEF DeleteFile
<1>2. IsRecord(tree) /\ LinesOK(tree, Content) /\ FilesListed(tree)
  BY DEF IsTree
<1>3. /\ IsRecord(tree') /\ tree'.lines = tree.lines
      /\ tree'.files = [q \in DOMAIN tree.files \ {p} |-> tree.files[q]]
  BY <1>1, <1>2 DEF IsRecord
<1>4. DOMAIN tree'.files = DOMAIN tree.files \ {p}
  BY <1>3
<1>5. tree'.files = [q \in DOMAIN tree'.files |-> tree'.files[q]]
  BY <1>3, <1>4
<1>6. FilesListed(tree')
  BY <1>2, <1>3, <1>4, <1>5 DEF FilesListed
<1>7. LinesOK(tree', Content)
  BY <1>2, <1>3 DEF LinesOK
<1> QED  BY <1>3, <1>6, <1>7 DEF IsTree

-----------------------------------------------------------------------------
(* The archive, and what it is packed into.                                *)

\* An archive has no mark, and the packed one has its mark at the end.
LEMMA PackedFacts ==
    ASSUME SourceOK, IsTree(tree, Content)
    PROVE  /\ Archive \in Seq(RangeOf(Archive)) /\ Total \in Nat /\ Total = Len(Archive)
           /\ Packed \in Seq(RangeOf(Packed)) /\ Len(Packed) = Total + 1
           /\ Packed[Total + 1] = END
           /\ Total > 0 /\ Total <= Content + 1 /\ Archive[Total] = TRAILER
           /\ \A i \in 1 .. Total : Packed[i] = Archive[i]
<1>1. LinesOK(tree, Content)
  BY DEF IsTree
<1>2. /\ Archive \in Seq(RangeOf(Archive))
      /\ Total = Len(tree.lines) + 1 /\ Len(tree.lines) \in Nat
      /\ Archive[Len(tree.lines) + 1] = TRAILER
  BY <1>1, ArchiveOf DEF Archive, Total
<1>3. Len(tree.lines) <= Content
  BY <1>1 DEF LinesOK
<1>4. /\ Packed \in Seq(RangeOf(Packed)) /\ Len(Packed) = Total + 1
      /\ \A i \in 1 .. Total : Packed[i] = Archive[i]
      /\ Packed[Total + 1] = END
  <2> HIDE DEF Archive
  <2> QED  BY <1>2, AppendOverRange DEF Packed, Total
<1>5. Content \in Nat
  BY SourceFacts, DataIsSeg
<1>6. Total <= Content + 1
  BY <1>2, <1>3, <1>5
<1> QED  BY <1>2, <1>4, <1>6 DEF Total

\* Up to the mark the two are the same.
LEMMA PackedPart ==
    ASSUME SourceOK, IsTree(tree, Content), NEW a \in 0 .. Total, NEW b \in a .. Total
    PROVE  Part(Packed, a, b) = Part(Archive, a, b)
<1> DEFINE S == RangeOf(Packed) \cup RangeOf(Archive)
<1>1. /\ Packed \in Seq(S) /\ Archive \in Seq(S) /\ Total \in Nat
      /\ Len(Packed) = Total + 1 /\ Len(Archive) = Total
      /\ \A i \in 1 .. Total : Packed[i] = Archive[i]
  <2>1. /\ Archive \in Seq(RangeOf(Archive)) /\ Packed \in Seq(RangeOf(Packed)) /\ Total \in Nat
        /\ Len(Packed) = Total + 1 /\ Len(Archive) = Total
        /\ \A i \in 1 .. Total : Packed[i] = Archive[i]
    BY PackedFacts
  <2> HIDE DEF Archive, Packed, Total
  <2> QED  BY <2>1
<1> HIDE DEF S, Archive, Packed, Total
<1>2. a \in 0 .. Len(Packed) /\ b \in a .. Len(Packed) /\ a \in 0 .. Len(Archive) /\ b \in a .. Len(Archive)
  BY <1>1
<1>3. /\ Part(Packed, a, b) \in Seq(S) /\ Len(Part(Packed, a, b)) = b - a
      /\ \A i \in 1 .. b - a : Part(Packed, a, b)[i] = Packed[a + i]
  BY <1>1, <1>2, PartIsSeq
<1>4. /\ Part(Archive, a, b) \in Seq(S) /\ Len(Part(Archive, a, b)) = b - a
      /\ \A i \in 1 .. b - a : Part(Archive, a, b)[i] = Archive[a + i]
  BY <1>1, <1>2, PartIsSeq
<1>5. \A i \in 1 .. b - a : a + i \in 1 .. Total
  BY <1>1
<1> QED  BY <1>1, <1>3, <1>4, <1>5, SeqEqual

\* The archive and its mark.
LEMMA PackedWhole ==
    ASSUME SourceOK, IsTree(tree, Content)
    PROVE  /\ Part(Packed, 0, Total) = Archive /\ Part(Packed, 0, Total + 1) = Packed
           /\ \A p \in 0 .. Total : Append(Part(Packed, p, Total), END) = Part(Packed, p, Total + 1)
<1>1. /\ Archive \in Seq(RangeOf(Archive)) /\ Total \in Nat /\ Total = Len(Archive)
      /\ Packed \in Seq(RangeOf(Packed)) /\ Len(Packed) = Total + 1
      /\ Packed[Total + 1] = END
  BY PackedFacts
<1>2. Part(Packed, 0, Total) = Archive
  <2>1. 0 \in 0 .. Total /\ Total \in 0 .. Total
    BY <1>1
  <2>2. Part(Packed, 0, Total) = Part(Archive, 0, Total)
    BY <2>1, PackedPart
  <2> HIDE DEF Archive, Packed, Total
  <2> QED  BY <1>1, <2>2, WholePart
<1>3. Part(Packed, 0, Total + 1) = Packed
  <2> HIDE DEF Archive, Packed, Total
  <2> QED  BY <1>1, WholePart
<1>4. ASSUME NEW p \in 0 .. Total
      PROVE  Append(Part(Packed, p, Total), END) = Part(Packed, p, Total + 1)
  <2> DEFINE S == RangeOf(Packed)
  <2> HIDE DEF Archive, Packed, Total
  <2>1. /\ Packed \in Seq(S) /\ END \in S
        /\ p \in 0 .. Len(Packed) /\ Total \in p .. Len(Packed) /\ Total + 1 \in p .. Len(Packed)
        /\ Total + 1 = Len(Packed)
    BY <1>1 DEF RangeOf
  <2> HIDE DEF S
  <2>2. /\ Part(Packed, p, Total) \in Seq(S) /\ Len(Part(Packed, p, Total)) = Total - p
        /\ \A i \in 1 .. Total - p : Part(Packed, p, Total)[i] = Packed[p + i]
    BY <2>1, PartIsSeq
  <2>3. /\ Part(Packed, p, Total + 1) \in Seq(S) /\ Len(Part(Packed, p, Total + 1)) = (Total + 1) - p
        /\ \A i \in 1 .. (Total + 1) - p : Part(Packed, p, Total + 1)[i] = Packed[p + i]
    BY <2>1, PartIsSeq
  <2>4. /\ Append(Part(Packed, p, Total), END) \in Seq(S)
        /\ Len(Append(Part(Packed, p, Total), END)) = Total - p + 1
        /\ \A i \in 1 .. Total - p : Append(Part(Packed, p, Total), END)[i] = Part(Packed, p, Total)[i]
        /\ Append(Part(Packed, p, Total), END)[Total - p + 1] = END
    BY <2>1, <2>2, AppendProperties
  <2>5. /\ Total - p \in Nat /\ (Total + 1) - p = Total - p + 1 /\ p + (Total - p + 1) = Total + 1
        /\ \A i \in 1 .. (Total + 1) - p : i \in 1 .. Total - p \/ i = Total - p + 1
    BY <1>1
  <2>6. \A i \in 1 .. (Total + 1) - p : Append(Part(Packed, p, Total), END)[i] = Part(Packed, p, Total + 1)[i]
    <3> TAKE i \in 1 .. (Total + 1) - p
    <3>1. Part(Packed, p, Total + 1)[i] = Packed[p + i]
      BY <2>3
    <3>2. CASE i \in 1 .. Total - p
      BY <2>2, <2>4, <3>1, <3>2
    <3>3. CASE i = Total - p + 1
      BY <1>1, <2>4, <2>5, <3>1, <3>3
    <3> QED  BY <2>5, <3>2, <3>3
  <2> QED  BY <2>3, <2>4, <2>5, <2>6, SeqEqual
<1> QED  BY <1>2, <1>3, <1>4

\* What is in a packed archive before its mark.
LEMMA PackedData ==
    ASSUME SourceOK, IsTree(tree, Content)
    PROVE  Data(Packed) = Archive /\ Data(Archive) = Archive
<1>1. /\ Total \in Nat /\ Total = Len(Archive) /\ Len(Packed) = Total + 1
      /\ Packed[Total + 1] = END /\ Total > 0 /\ Archive[Total] = TRAILER
  BY PackedFacts
<1>2. Part(Packed, 0, Total) = Archive
  BY PackedWhole
<1> HIDE DEF Archive, Packed, Total
<1>3. Marked(Packed)
  BY <1>1 DEF Marked
<1>4. Data(Packed) = Part(Packed, 0, Total)
  <2>1. Len(Packed) - 1 = Total /\ 0 + 1 = 1
    BY <1>1
  <2> QED  BY <1>3, <2>1 DEF Data, Part
<1>5. ~Marked(Archive)
  BY <1>1, RamdiskAssumption DEF Marked
<1> QED  BY <1>2, <1>4, <1>5 DEF Data

-----------------------------------------------------------------------------
(* The compressors.  (compressor.hpp; Jni.cc, lines 48 to 76)              *)

\* Where the next read of the archive ends.
ReadTo == Smaller(call.at + BufferSize, Total)

\* A read takes the next part of the archive, and a short one takes the last.
LEMMA ChunkIsPart ==
    ASSUME SourceOK, IsTree(tree, Content), input.units = Archive, call.at \in 0 .. Total,
           call.end = Total
    PROVE  /\ ReadTo \in call.at .. Total
           /\ Chunk = Part(Packed, call.at, ReadTo) /\ Len(Chunk) = ReadTo - call.at
           /\ Len(Chunk) < BufferSize => ReadTo = Total
<1>1. /\ Archive \in Seq(RangeOf(Archive)) /\ Total \in Nat /\ Total = Len(Archive)
      /\ BufferSize \in Nat /\ BufferSize > 0
  BY PackedFacts, RamdiskAssumption
<1>2. ReadTo \in call.at .. Total /\ (ReadTo - call.at < BufferSize => ReadTo = Total)
  BY <1>1 DEF Smaller, ReadTo
<1>3. Chunk = Part(Archive, call.at, ReadTo)
  BY <1>1 DEF Chunk, Part, ReadTo
<1>4. Part(Packed, call.at, ReadTo) = Part(Archive, call.at, ReadTo)
  BY <1>2, PackedPart
<1>5. Len(Part(Archive, call.at, ReadTo)) = ReadTo - call.at
  <2>1. call.at \in 0 .. Len(Archive) /\ ReadTo \in call.at .. Len(Archive)
    BY <1>1, <1>2
  <2> HIDE DEF Archive, Total, ReadTo
  <2> QED  BY <1>1, <2>1, PartIsSeq
<1> QED  BY <1>2, <1>3, <1>4, <1>5

\* The loop goes on where it says.
LEMMA LzmaGoesOn ==
    ASSUME tree' = tree,
           NEW o \in 0 .. Total, NEW p \in o .. Total, NEW b \in p .. Total,
           NEW h \in b .. Total, NEW a \in h .. Total, NEW eof \in BOOLEAN, NEW idle \in BOOLEAN,
           Total \in Nat,
           eof => a = Total,
           call' = [op |-> "lzma", at |-> a, end |-> Total, buf |-> Part(Packed, h, a), eof |-> eof,
                    held |-> Part(Packed, b, h), idle |-> idle,
                    outbuf |-> Part(Packed, p, b), pending |-> Part(Packed, o, p)],
           output' = OutFile(FORMAT_LZMA, Part(Packed, 0, o)),
           room' \in Int, room' >= (Total + 1) - o,
           input'.units = Archive
    PROVE  LzmaLoop'
<1>1. Packed' = Packed /\ Archive' = Archive /\ Total' = Total
  BY DEF Packed, Archive, Total
<1>2. /\ p \in 0 .. Total /\ b \in 0 .. Total /\ h \in 0 .. Total /\ a \in 0 .. Total
      /\ o <= p /\ p <= b /\ b <= h /\ h <= a
  OBVIOUS
<1>3. PackingLzma(o, p, b, h, a, eof, idle)'
  BY <1>1, <1>2 DEF PackingLzma
<1> QED  BY <1>1, <1>2, <1>3 DEF LzmaLoop

\* A round of the loop: whatever lzma_code takes and gives, the parts follow each
\* other; or the call fails.  (compressor.hpp, lines 128 to 195)
LEMMA LzmaRoundPacks ==
    ASSUME SourceOK, IsTree(tree, Content), tree' = tree, LzmaLoop, LzmaRound
    PROVE  LzmaLoop' \/ LzmaClose' \/ call'.op = "failed"
<1>1. PICK o \in 0 .. Total, p \in 0 .. Total, b \in 0 .. Total, h \in 0 .. Total, a \in 0 .. Total,
           eof \in BOOLEAN, idle \in BOOLEAN : PackingLzma(o, p, b, h, a, eof, idle)
  BY DEF LzmaLoop
<1>2. /\ o <= p /\ p <= b /\ b <= h /\ h <= a /\ (eof => a = Total)
      /\ call = [op |-> "lzma", at |-> a, end |-> Total, buf |-> Part(Packed, h, a), eof |-> eof,
                 held |-> Part(Packed, b, h), idle |-> idle,
                 outbuf |-> Part(Packed, p, b), pending |-> Part(Packed, o, p)]
      /\ output = OutFile(FORMAT_LZMA, Part(Packed, 0, o))
      /\ room \in Int /\ room >= (Total + 1) - o /\ input.units = Archive
  BY <1>1 DEF PackingLzma
<1>3. /\ call.at = a /\ call.end = Total /\ call.buf = Part(Packed, h, a) /\ call.eof = eof
      /\ call.held = Part(Packed, b, h) /\ call.outbuf = Part(Packed, p, b)
      /\ call.pending = Part(Packed, o, p)
  BY <1>2
<1> DEFINE S == RangeOf(Packed)
<1>4. /\ Packed \in Seq(S) /\ Len(Packed) = Total + 1 /\ Total \in Nat
      /\ BufferSize \in Nat /\ BufferSize > 0
  BY PackedFacts, RamdiskAssumption
<1> DEFINE c == ReadTo
<1>5. /\ c \in a .. Total /\ Chunk = Part(Packed, a, c) /\ Len(Chunk) = c - a
      /\ Len(Chunk) < BufferSize => c = Total
  BY <1>2, <1>3, ChunkIsPart
<1> HIDE DEF c
<1>6. Packed' = Packed /\ Total' = Total
  BY DEF Packed, Archive, Total
<1>7. \A q \in 0 .. Total : Append(Part(Packed, q, Total), END) = Part(Packed, q, Total + 1)
  BY PackedWhole
<1> HIDE DEF S
<1> DEFINE fill == call.buf = <<>> /\ ~call.eof
           buf  == IF fill THEN Chunk ELSE call.buf
           eof2 == IF fill THEN Len(Chunk) < BufferSize ELSE call.eof
           at   == IF fill THEN call.at + Len(Chunk) ELSE call.at
           free == BufferSize - Len(call.outbuf)
           held(taken) == call.held \o SubSeq(buf, 1, taken)
           outbuf(taken, given) == call.outbuf \o SubSeq(held(taken), 1, given)
           end(taken, given) == eof2 /\ taken = Len(buf) /\ given = Len(held(taken))
           bytes(taken, given) ==
               IF end(taken, given) THEN Append(outbuf(taken, given), END)
               ELSE IF Len(outbuf(taken, given)) = BufferSize THEN outbuf(taken, given) ELSE <<>>
\* The buffer after the read.
<1>8. at \in h .. Total /\ buf = Part(Packed, h, at) /\ (eof2 => at = Total)
  <2> HIDE DEF Packed, Archive, Total
  <2>1. CASE fill
    <3>1. h \in 0 .. Len(Packed) /\ a \in h .. Len(Packed)
      BY <1>2, <1>4
    <3>2. Len(Part(Packed, h, a)) = a - h
      BY <1>4, <3>1, PartIsSeq
    <3>3. h = a
      BY <1>2, <1>3, <1>4, <2>1, <3>2
    <3>4. Len(Chunk) = c - a /\ c \in Int /\ a \in Int /\ call.at = a
      BY <1>3, <1>4, <1>5
    <3>5. at = call.at + Len(Chunk) /\ buf = Chunk /\ eof2 = (Len(Chunk) < BufferSize)
      BY <2>1
    <3> HIDE DEF at, buf, eof2, fill
    <3>6. at = c
      BY <3>4, <3>5
    <3>7. eof2 => at = Total
      BY <1>5, <3>4, <3>5, <3>6
    <3>8. at \in h .. Total
      BY <1>5, <3>3, <3>6
    <3> QED  BY <1>5, <3>3, <3>5, <3>6, <3>7, <3>8
  <2>2. CASE ~fill
    BY <1>2, <1>3, <1>4, <2>2
  <2> QED  BY <2>1, <2>2
<1>9. eof2 \in BOOLEAN
  <2> HIDE DEF Packed, Archive, Total
  <2>1. CASE fill
    BY <2>1
  <2>2. CASE ~fill
    BY <1>3, <2>2
  <2> QED  BY <2>1, <2>2
<1> DEFINE ret(taken, given) ==
               IF end(taken, given) THEN "LZMA_STREAM_END"
               ELSE IF taken + given = 0 THEN Stalled ELSE "LZMA_OK"
           Goes(taken, given) ==
               /\ Written(bytes(taken, given))
               /\ call' = [call EXCEPT !.op = IF end(taken, given) THEN "lzma_end" ELSE "lzma",
                      !.buf = Drop(buf, taken), !.eof = eof2, !.at = at,
                      !.held = Drop(held(taken), given), !.idle = (taken + given = 0),
                      !.outbuf = IF bytes(taken, given) = <<>> THEN outbuf(taken, given) ELSE <<>>,
                      !.pending = Pending(bytes(taken, given))]
               /\ UNCHANGED input
           Round(taken, given) ==
               /\ taken + given = 0 => buf = <<>> /\ (eof2 => held(taken) = <<>>)
               /\ \/ /\ ret(taken, given) \in {"LZMA_OK", "LZMA_STREAM_END"}
                     /\ WriteFits(bytes(taken, given))
                     /\ Goes(taken, given)
                  \/ /\ ret(taken, given) = "LZMA_BUF_ERROR" \/ ~WriteFits(bytes(taken, given))
                     /\ Fail(NoFile)
<1>10. PICK taken \in 0 .. Len(buf) :
         \E given \in 0 .. Smaller(free, Len(held(taken))) : Round(taken, given)
  BY ZenonT(60) DEF LzmaRound
<1>11. PICK given \in 0 .. Smaller(free, Len(held(taken))) : Goes(taken, given) \/ Fail(NoFile)
  BY <1>10, ZenonT(60)
<1>12. CASE Fail(NoFile)
  BY <1>12 DEF Fail, Idle
<1>13. CASE ~Fail(NoFile)
  <2> DEFINE k == h + taken
             d == b + given
  <2> HIDE DEF buf, at, eof2, fill, Packed, Archive, Total
  \* What went in.
  <2>1. /\ Len(buf) = at - h /\ taken \in 0 .. at - h /\ k \in h .. at /\ k \in h .. Total
        /\ k \in b .. Total /\ taken = k - h
    <3>1. h \in 0 .. Len(Packed) /\ at \in h .. Len(Packed)
      BY <1>4, <1>8
    <3>2. Len(buf) = at - h
      BY <1>4, <1>8, <3>1, PartIsSeq
    <3> QED  BY <1>2, <1>4, <1>8, <3>2
  <2>2. SubSeq(buf, 1, taken) = Part(Packed, h, k) /\ Drop(buf, taken) = Part(Packed, k, at)
    <3>1. /\ Packed \in Seq(S) /\ h \in 0 .. Len(Packed) /\ at \in h .. Len(Packed)
          /\ taken \in 0 .. at - h
      BY <1>4, <1>8, <2>1
    <3>2. /\ SubSeq(Part(Packed, h, at), 1, taken) = Part(Packed, h, h + taken)
          /\ Drop(Part(Packed, h, at), taken) = Part(Packed, h + taken, at)
      BY <3>1, TakePart
    <3> QED  BY <1>8, <3>2
  <2>3. held(taken) = Part(Packed, b, k) /\ Len(held(taken)) = k - b
    <3> HIDE DEF k
    <3>1. b \in 0 .. Len(Packed) /\ h \in b .. Len(Packed) /\ k \in h .. Len(Packed) /\ k \in b .. Len(Packed)
      BY <1>2, <1>4, <2>1
    <3>2. Part(Packed, b, h) \o Part(Packed, h, k) = Part(Packed, b, k)
      BY <1>4, <3>1, PartConcat
    <3>3. Len(Part(Packed, b, k)) = k - b
      BY <1>4, <3>1, PartIsSeq
    <3> QED  BY <1>3, <2>2, <3>2, <3>3
  <2> HIDE DEF held
  \* What came out.
  <2>4. given \in 0 .. k - b /\ d \in b .. k /\ d \in p .. Total /\ d \in 0 .. Total /\ k \in d .. Total /\ given = d - b
    <3>1. Len(call.outbuf) \in Nat
      <4>1. p \in 0 .. Len(Packed) /\ b \in p .. Len(Packed)
        BY <1>2, <1>4
      <4>2. Len(Part(Packed, p, b)) = b - p
        BY <1>4, <4>1, PartIsSeq
      <4>3. b - p \in Nat
        BY <1>2, <1>4
      <4> QED  BY <1>3, <4>2, <4>3
    <3>2. given \in 0 .. Len(held(taken))
      <4>1. free \in Int
        BY <1>4, <3>1
      <4>2. Len(held(taken)) \in Nat
        BY <2>1, <2>3
      <4> HIDE DEF free
      <4> QED  BY <1>11, <4>1, <4>2 DEF Smaller
    <3>3. b <= k /\ p <= b /\ b \in Nat /\ p \in Nat /\ k \in 0 .. Total /\ given \in 0 .. k - b
      BY <1>2, <1>4, <2>1, <2>3, <3>2
    <3> HIDE DEF k
    <3> QED  BY <1>4, <3>3
  <2>5. SubSeq(held(taken), 1, given) = Part(Packed, b, d) /\ Drop(held(taken), given) = Part(Packed, d, k)
    <3> HIDE DEF k
    <3>1. b \in 0 .. Len(Packed) /\ k \in b .. Len(Packed)
      BY <1>4, <2>1
    <3> QED  BY <1>4, <2>3, <2>4, <3>1, TakePart
  <2>6. outbuf(taken, given) = Part(Packed, p, d)
    <3> HIDE DEF d
    <3>1. p \in 0 .. Len(Packed) /\ b \in p .. Len(Packed) /\ d \in b .. Len(Packed)
      BY <1>2, <1>4, <2>1, <2>4
    <3> QED  BY <1>3, <1>4, <2>5, <3>1, PartConcat
  <2> HIDE DEF k, d, outbuf, end, bytes
  <2>7. /\ Written(bytes(taken, given)) /\ input' = input
        /\ call' = [call EXCEPT !.op = IF end(taken, given) THEN "lzma_end" ELSE "lzma",
               !.buf = Drop(buf, taken), !.eof = eof2, !.at = at,
               !.held = Drop(held(taken), given), !.idle = (taken + given = 0),
               !.outbuf = IF bytes(taken, given) = <<>> THEN outbuf(taken, given) ELSE <<>>,
               !.pending = Pending(bytes(taken, given))]
    BY <1>11, <1>13
  <2>8. PICK stall \in BOOLEAN : stall = (taken + given = 0)
    OBVIOUS
  <2>9. call' = [op |-> IF end(taken, given) THEN "lzma_end" ELSE "lzma", at |-> at, end |-> Total,
                 buf |-> Part(Packed, k, at), eof |-> eof2, held |-> Part(Packed, d, k),
                 idle |-> stall,
                 outbuf |-> IF bytes(taken, given) = <<>> THEN Part(Packed, p, d) ELSE <<>>,
                 pending |-> Pending(bytes(taken, given))]
    BY <1>2, <2>2, <2>5, <2>6, <2>7, <2>8
  <2>10. o \in 0 .. Len(Packed) /\ p \in o .. Len(Packed) /\ d \in p .. Len(Packed)
    BY <1>2, <1>4, <2>4
  <2>11. /\ call.pending = Part(Packed, o, p) /\ output = OutFile(FORMAT_LZMA, Part(Packed, 0, o))
         /\ room \in Int /\ Packed \in Seq(S)
    BY <1>2, <1>3, <1>4
  <2>12. o \in Int /\ Total \in Int /\ room >= (Total + 1) - o
    BY <1>2, <1>4
  <2>13. CASE end(taken, given)
    <3>1. d = Total
      BY <1>4, <1>8, <2>1, <2>3, <2>4, <2>13 DEF end
    <3>2. bytes(taken, given) = Part(Packed, p, Total + 1)
      BY <1>7, <2>6, <2>13, <3>1 DEF bytes
    <3>3. Total + 1 \in p .. Len(Packed)
      BY <1>2, <1>4
    <3>4. PICK n \in 0 .. Total + 1 :
            /\ output' = OutFile(FORMAT_LZMA, Part(Packed, 0, n))
            /\ room' = room - (n - o)
            /\ Pending(Part(Packed, p, Total + 1)) = Part(Packed, n, Total + 1)
      BY <2>7, <2>10, <2>11, <3>2, <3>3, WritePart
    <3>5. room' \in Int /\ room' >= (Total + 1) - n
      BY <2>11, <2>12, <3>4
    <3>6. call'.op = "lzma_end" /\ call'.pending = Part(Packed, n, Total + 1)
      BY <2>9, <2>13, <3>2, <3>4
    <3> QED  BY <1>6, <3>4, <3>5, <3>6 DEF LzmaClose
  <2>14. CASE ~end(taken, given) /\ bytes(taken, given) # <<>>
    <3>1. bytes(taken, given) = Part(Packed, p, d)
      BY <2>6, <2>14 DEF bytes
    <3>2. PICK n \in 0 .. d :
            /\ output' = OutFile(FORMAT_LZMA, Part(Packed, 0, n))
            /\ room' = room - (n - o)
            /\ Pending(Part(Packed, p, d)) = Part(Packed, n, d)
      BY <2>7, <2>10, <2>11, <3>1, WritePart
    <3>3. room' \in Int /\ room' >= (Total + 1) - n
      BY <2>4, <2>11, <2>12, <3>2
    <3>4. Part(Packed, d, d) = <<>>
      BY <2>4, EmptyPart
    <3>5. call' = [op |-> "lzma", at |-> at, end |-> Total, buf |-> Part(Packed, k, at), eof |-> eof2,
                   held |-> Part(Packed, d, k), idle |-> stall,
                   outbuf |-> Part(Packed, d, d), pending |-> Part(Packed, n, d)]
      BY <2>9, <2>14, <3>1, <3>2, <3>4
    <3>6. n \in 0 .. Total /\ d \in n .. Total /\ d \in d .. Total /\ k \in d .. Total /\ at \in k .. Total
      BY <1>4, <1>8, <2>1, <2>4
    <3>7. input'.units = Archive /\ (eof2 => at = Total)
      BY <1>2, <1>8, <2>7
    <3> QED  BY <1>4, <1>9, <3>2, <3>3, <3>5, <3>6, <3>7, LzmaGoesOn
  <2>15. CASE ~end(taken, given) /\ bytes(taken, given) = <<>>
    <3>1. output' = output /\ room' = room /\ Pending(bytes(taken, given)) = call.pending
      BY <2>7, <2>15 DEF Written, Pending
    <3>2. call' = [op |-> "lzma", at |-> at, end |-> Total, buf |-> Part(Packed, k, at), eof |-> eof2,
                   held |-> Part(Packed, d, k), idle |-> stall,
                   outbuf |-> Part(Packed, p, d), pending |-> Part(Packed, o, p)]
      BY <1>3, <2>9, <2>15, <3>1
    <3>3. p \in o .. Total /\ d \in p .. Total /\ k \in d .. Total /\ at \in k .. Total
      BY <1>2, <1>4, <1>8, <2>1, <2>4
    <3>4. /\ output' = OutFile(FORMAT_LZMA, Part(Packed, 0, o))
          /\ room' \in Int /\ room' >= (Total + 1) - o
          /\ input'.units = Archive /\ (eof2 => at = Total)
      BY <1>2, <1>8, <2>7, <3>1
    <3> QED  BY <1>4, <1>9, <3>2, <3>3, <3>4, LzmaGoesOn
  <2> QED  BY <2>13, <2>14, <2>15
<1> QED  BY <1>12, <1>13

\* The stream is closed and the packed archive takes the place of the archive.
LEMMA LzmaEndPacks ==
    ASSUME SourceOK, IsTree(tree, Content), LzmaClose, LzmaEnd,
           source' = source, tree' = tree, compression_method = FORMAT_LZMA
    PROVE  call'.op = "done" /\ input' = BuiltFile(Packed)'
<1>1. PICK o \in 0 .. Total + 1 :
         /\ call.pending = Part(Packed, o, Total + 1)
         /\ output = OutFile(FORMAT_LZMA, Part(Packed, 0, o))
         /\ room \in Int /\ room >= (Total + 1) - o
  BY DEF LzmaClose
<1> DEFINE S == RangeOf(Packed)
<1>2. /\ Packed \in Seq(S) /\ Len(Packed) = Total + 1 /\ Total \in Nat
      /\ o \in 0 .. Len(Packed) /\ Total + 1 \in o .. Len(Packed)
  BY PackedFacts
<1>3. Part(Packed, 0, Total + 1) = Packed
  BY PackedWhole
<1> HIDE DEF S
<1>4. Part(Packed, 0, o) \o Closed(Part(Packed, o, Total + 1)) = Part(Packed, 0, Total + 1)
  <2> HIDE DEF Packed, Total
  <2> QED  BY <1>1, <1>2, ClosePart
<1>5. output.units \o Closed(call.pending) = Packed
  BY <1>1, <1>3, <1>4 DEF OutFile
<1>6. Replace(FORMAT_LZMA, DictSize, Packed)
  BY <1>5, Zenon DEF LzmaEnd
<1>7. BuiltFile(Packed)' = [here |-> TRUE, format |-> FORMAT_LZMA, dict |-> DictSize, units |-> Packed]
  BY DEF BuiltFile, compression_method, Packed, Archive
<1> QED  BY <1>6, <1>7 DEF Replace, Idle

\* gzwrite keeps what it likes and writes the rest.
LEMMA GzipWritePacks ==
    ASSUME SourceOK, IsTree(tree, Content), tree' = tree, GzipLoop, GzipWrite
    PROVE  GzipLoop'
<1>1. PICK o \in 0 .. Total, a \in 0 .. Total : PackingGzip(o, a)
  BY DEF GzipLoop
<1>2. /\ o <= a /\ call = GzipCall(a, Part(Packed, o, a))
      /\ output = OutFile(FORMAT_GZIP, Part(Packed, 0, o)) /\ input.units = Archive
  BY <1>1 DEF PackingGzip
<1>3. call.at = a /\ call.end = Total /\ call.held = Part(Packed, o, a)
  BY <1>2 DEF GzipCall
<1> DEFINE S == RangeOf(Packed)
<1>4. /\ Packed \in Seq(S) /\ Len(Packed) = Total + 1 /\ Total \in Nat
      /\ BufferSize \in Nat /\ BufferSize > 0
  BY PackedFacts, RamdiskAssumption
<1>5. PICK c \in a .. Total : c = ReadTo /\ Chunk = Part(Packed, a, c) /\ Len(Chunk) = c - a
  <2>1. /\ ReadTo \in a .. Total
        /\ Chunk = Part(Packed, a, ReadTo) /\ Len(Chunk) = ReadTo - a
    BY <1>2, <1>3, ChunkIsPart
  <2> QED  BY <2>1
<1>6. Packed' = Packed /\ Total' = Total /\ Archive' = Archive
  BY DEF Packed, Archive, Total
<1> DEFINE held == call.held \o Chunk
<1>7. PICK given \in 0 .. Len(held) :
         /\ output' = [output EXCEPT !.units = @ \o SubSeq(held, 1, given)]
         /\ call' = [call EXCEPT !.at = @ + BufferSize, !.held = Drop(held, given)]
         /\ input' = input
  BY Zenon DEF GzipWrite
<1>8. a + BufferSize = c
  <2>1. Len(Chunk) = BufferSize
    BY DEF GzipWrite
  <2> QED  BY <1>4, <1>5, <2>1
<1> HIDE DEF S, Packed, Total, Archive
<1>9. held = Part(Packed, o, c) /\ Len(held) = c - o
  <2>1. o \in 0 .. Len(Packed) /\ a \in o .. Len(Packed) /\ c \in a .. Len(Packed) /\ c \in o .. Len(Packed)
    BY <1>2, <1>4, <1>5
  <2>2. Part(Packed, o, a) \o Part(Packed, a, c) = Part(Packed, o, c)
    BY <1>4, <2>1, PartConcat
  <2>3. Len(Part(Packed, o, c)) = c - o
    BY <1>4, <2>1, PartIsSeq
  <2> QED  BY <1>3, <1>5, <2>2, <2>3
<1> HIDE DEF held
<1> DEFINE n == o + given
<1>10. given \in 0 .. c - o /\ n \in o .. c /\ n \in 0 .. Total /\ c \in 0 .. Total /\ n <= c
  BY <1>2, <1>4, <1>5, <1>9
<1>11. SubSeq(held, 1, given) = Part(Packed, o, n) /\ Drop(held, given) = Part(Packed, n, c)
  <2>1. o \in 0 .. Len(Packed) /\ c \in o .. Len(Packed)
    BY <1>2, <1>4, <1>5
  <2>2. /\ SubSeq(Part(Packed, o, c), 1, given) = Part(Packed, o, o + given)
        /\ Drop(Part(Packed, o, c), given) = Part(Packed, o + given, c)
    <3>1. Packed \in Seq(S) /\ given \in 0 .. c - o
      BY <1>4, <1>10
    <3> QED  BY <2>1, <3>1, TakePart
  <2> QED  BY <1>9, <2>2
<1>12. output' = OutFile(FORMAT_GZIP, Part(Packed, 0, n))
  <2> HIDE DEF n
  <2>1. 0 \in 0 .. Len(Packed) /\ o \in 0 .. Len(Packed) /\ n \in o .. Len(Packed)
    BY <1>2, <1>4, <1>10
  <2>2. Part(Packed, 0, o) \o Part(Packed, o, n) = Part(Packed, 0, n)
    BY <1>4, <2>1, PartConcat
  <2> QED  BY <1>2, <1>7, <1>11, <2>2 DEF OutFile
<1> HIDE DEF n
<1>13. call' = GzipCall(c, Part(Packed, n, c))
  BY <1>2, <1>7, <1>8, <1>11 DEF GzipCall
<1>14. PackingGzip(n, c)'
  BY <1>2, <1>6, <1>7, <1>10, <1>12, <1>13 DEF PackingGzip, GzipCall
<1> QED  BY <1>6, <1>10, <1>14 DEF GzipLoop

\* gzclose writes the rest, and the packed archive takes the place of the archive.
LEMMA GzipEndPacks ==
    ASSUME SourceOK, IsTree(tree, Content), GzipLoop, GzipEnd,
           source' = source, tree' = tree, compression_method = FORMAT_GZIP
    PROVE  call'.op = "done" /\ input' = BuiltFile(Packed)'
<1>1. PICK o \in 0 .. Total, a \in 0 .. Total : PackingGzip(o, a)
  BY DEF GzipLoop
<1>2. /\ o <= a /\ call = GzipCall(a, Part(Packed, o, a))
      /\ output = OutFile(FORMAT_GZIP, Part(Packed, 0, o)) /\ input.units = Archive
  BY <1>1 DEF PackingGzip
<1>3. call.at = a /\ call.end = Total /\ call.held = Part(Packed, o, a)
  BY <1>2 DEF GzipCall
<1> DEFINE S == RangeOf(Packed)
<1>4. Packed \in Seq(S) /\ Len(Packed) = Total + 1 /\ Total \in Nat
  BY PackedFacts
<1>5. Chunk = Part(Packed, a, Total)
  <2>1. input.units = Archive /\ call.at = a /\ call.end = Total
    BY <1>2, <1>3
  <2>2. Len(Chunk) < BufferSize
    BY DEF GzipEnd
  <2> QED  BY <2>1, <2>2, ChunkIsPart
<1>6. Part(Packed, 0, Total) = Archive
  BY PackedWhole
<1>7. output.units \o GzipRest = Archive
  <2> HIDE DEF S, Packed, Total, Archive
  <2>1. /\ o \in 0 .. Len(Packed) /\ a \in o .. Len(Packed) /\ 0 \in 0 .. Len(Packed)
        /\ Total \in a .. Len(Packed) /\ Total \in o .. Len(Packed) /\ o \in 0 .. Len(Packed)
    BY <1>2, <1>4
  <2>2. GzipRest = Part(Packed, o, Total)
    BY <1>3, <1>4, <1>5, <2>1, PartConcat DEF GzipRest
  <2>3. Part(Packed, 0, o) \o Part(Packed, o, Total) = Part(Packed, 0, Total)
    BY <1>4, <2>1, PartConcat
  <2> QED  BY <1>2, <1>6, <2>2, <2>3 DEF OutFile
<1>8. Replace(FORMAT_GZIP, 0, Packed)
  BY <1>7, Zenon DEF GzipEnd, Packed
<1>9. BuiltFile(Packed)' = [here |-> TRUE, format |-> FORMAT_GZIP, dict |-> 0, units |-> Packed]
  BY DEF BuiltFile, compression_method, Packed, Archive, FORMAT_GZIP, FORMAT_LZMA
<1> QED  BY <1>8, <1>9 DEF Replace, Idle

\* CompressLZ4File packs the archive, or the process ends.
LEMMA Lz4Packs ==
    ASSUME SourceOK, IsTree(tree, Content), Lz4, input.units = Archive, call.end = Total,
           source' = source, tree' = tree, compression_method = FORMAT_LZ4
    PROVE  \/ call'.op = "done" /\ input' = BuiltFile(Packed)'
           \/ call'.op = "ended"
<1>1. BuiltFile(Packed)' = [here |-> TRUE, format |-> FORMAT_LZ4, dict |-> 0, units |-> Packed]
  BY DEF BuiltFile, compression_method, Packed, Archive, FORMAT_LZ4, FORMAT_LZMA
<1>2. CASE Replace(FORMAT_LZ4, 0, Append(SubSeq(input.units, 1, call.end), END))
  <2>1. SubSeq(Archive, 1, Total) = Archive
    <3>1. Archive \in Seq(RangeOf(Archive)) /\ Total = Len(Archive)
      BY PackedFacts
    <3> HIDE DEF Archive, Total
    <3>2. Part(Archive, 0, Total) = Archive /\ 0 + 1 = 1
      BY <3>1, WholePart
    <3> QED  BY <3>2 DEF Part
  <2>2. Append(SubSeq(input.units, 1, call.end), END) = Packed
    BY <2>1 DEF Packed
  <2> QED  BY <1>1, <1>2, <2>2 DEF Replace, Idle
<1>3. CASE call' = [Idle EXCEPT !.op = "ended"]
  BY <1>3 DEF Idle
<1> QED  BY <1>2, <1>3 DEF Lz4

\* A step of a codec while the archive is packed.
LEMMA StreamPacks ==
    ASSUME SourceOK, IsTree(tree, Content), source' = source, tree' = tree,
           phase = "compress", CompressOK, StreamStep
    PROVE  \/ Packing'
           \/ call'.op = "done" /\ input' = BuiltFile(Packed)'
           \/ call'.op \in {"failed", "ended"}
<1>1. compression_method' = compression_method
  BY DEF compression_method
<1>2. CASE compression_method = FORMAT_LZMA /\ LzmaLoop
  <2>1. call.op = "lzma"
    BY <1>2 DEF LzmaLoop, PackingLzma
  <2>2. LzmaRound \/ LzmaReadFails
    BY <2>1, StreamRuns
  <2>3. CASE LzmaRound
    <3>1. LzmaLoop' \/ LzmaClose' \/ call'.op = "failed"
      BY <1>2, <2>3, LzmaRoundPacks
    <3> QED  BY <1>1, <1>2, <3>1 DEF Packing
  <2>4. CASE LzmaReadFails
    BY <2>4 DEF LzmaReadFails, Fail, Idle
  <2> QED  BY <2>2, <2>3, <2>4
<1>3. CASE compression_method = FORMAT_LZMA /\ LzmaClose
  <2>1. LzmaEnd
    BY <1>3, StreamRuns DEF LzmaClose
  <2> QED  BY <1>3, <2>1, LzmaEndPacks
<1>4. CASE compression_method = FORMAT_GZIP /\ GzipLoop
  <2>1. call.op = "gzip"
    BY <1>4 DEF GzipLoop, PackingGzip, GzipCall
  <2>2. GzipWrite \/ GzipEnd \/ GzipFails
    BY <2>1, StreamRuns
  <2>3. CASE GzipWrite
    BY <1>1, <1>4, <2>3, GzipWritePacks DEF Packing
  <2>4. CASE GzipEnd
    BY <1>4, <2>4, GzipEndPacks
  <2>5. CASE GzipFails
    BY <2>5 DEF GzipFails, Fail, Idle
  <2> QED  BY <2>2, <2>3, <2>4, <2>5
<1>5. CASE compression_method = FORMAT_LZ4 /\ call.op = "lz4" /\ call.end = Total /\ input.units = Archive
  <2>1. Lz4
    BY <1>5, StreamRuns
  <2> QED  BY <1>5, <2>1, Lz4Packs
<1>6. CASE call.op \in {"none", "done", "failed", "ended"}
  BY <1>6, StreamRuns
<1> QED  BY <1>2, <1>3, <1>4, <1>5, <1>6 DEF CompressOK, Packing

-----------------------------------------------------------------------------
(* The phases.                                                             *)

\* The disk has room for the archive, and for a mark behind it.
\* (Jni.cc, lines 129 to 143)
LEMMA BuildArchiveFits ==
    ASSUME SourceOK, source.room >= Ample, IsTree(tree, Content),
           room \in Int, room >= source.room - Content, BuildArchive, ~misread', tree' = tree
    PROVE  \/ /\ CanBuild(tree)
              /\ input' = [NewFile(FORMAT_NONE) EXCEPT !.units = Archive]
              /\ room' \in Int /\ room' >= Total + 1
              /\ phase' = IF compression_method = FORMAT_NONE THEN "built" ELSE "compress"
           \/ phase' = "refused"
<1>1. /\ Content \in Nat /\ Size \in Nat /\ Content <= Size /\ source.room \in Nat
      /\ 3 * (Size + 1) <= Ample /\ Ample \in Nat
  BY SourceFacts, DataIsSeg, RamdiskAssumption
<1>2. Archive \in Seq(RangeOf(Archive)) /\ Total = Len(Archive) /\ Total \in Nat /\ Total <= Content + 1
  BY PackedFacts
<1>3. room >= Total /\ room - Total \in Int /\ room - Total >= Total + 1
  BY <1>1, <1>2
<1> HIDE DEF Archive, Total
<1>4. Closed(Archive) = Archive
  <2>1. Closed(Archive) = Part(Archive, 0, Total)
    <3>1. Smaller(room, Len(Archive)) = Total /\ 0 + 1 = 1
      BY <1>2, <1>3 DEF Smaller
    <3> QED  BY <3>1 DEF Closed, Part
  <2> QED  BY <1>2, <2>1, WholePart
<1>7. IF CanBuild(tree)
      THEN LET units == Closed(Archive)
           IN  /\ input' = [NewFile(FORMAT_NONE) EXCEPT !.units = units]
               /\ room' = room - Len(units)
               /\ phase' = IF compression_method = FORMAT_NONE THEN "built" ELSE "compress"
      ELSE phase' = "refused"
  <2>1. PICK dir \in Readings(tree) :
          /\ IF CanBuild(dir)
             THEN LET units == Closed(BuildCPIO(dir))
                  IN  /\ input' = [NewFile(FORMAT_NONE) EXCEPT !.units = units]
                      /\ room' = room - Len(units)
                      /\ phase' = IF compression_method = FORMAT_NONE THEN "built" ELSE "compress"
             ELSE phase' = "refused" /\ UNCHANGED <<input, room>>
          /\ misread' = (dir # tree)
    BY Zenon DEF BuildArchive
  <2>2. dir = tree
    BY <2>1
  <2> QED  BY <2>1, <2>2, Zenon DEF Archive
<1>5. CASE CanBuild(tree)
  <2>1. /\ input' = [NewFile(FORMAT_NONE) EXCEPT !.units = Closed(Archive)]
        /\ room' = room - Len(Closed(Archive))
        /\ phase' = IF compression_method = FORMAT_NONE THEN "built" ELSE "compress"
    BY <1>5, <1>7, Zenon
  <2> QED  BY <1>2, <1>3, <1>4, <1>5, <2>1
<1>6. CASE ~CanBuild(tree)
  BY <1>6, <1>7, Zenon
<1> QED  BY <1>5, <1>6

\* While the archive is packed, the call has not returned.
LEMMA PackingRuns ==
    ASSUME Packing
    PROVE  call.op \in {"lzma", "lzma_end", "gzip", "lz4"}
<1>1. LzmaLoop => call.op = "lzma"
  BY DEF LzmaLoop, PackingLzma
<1>2. LzmaClose => call.op = "lzma_end"
  BY DEF LzmaClose
<1>3. GzipLoop => call.op = "gzip"
  BY DEF GzipLoop, PackingGzip, GzipCall
<1> QED  BY <1>1, <1>2, <1>3 DEF Packing

\* A compressor begins with nothing read and nothing written.
LEMMA CompressBegins ==
    ASSUME SourceOK, IsTree(tree, Content), BuildCompress, CompressOK, MethodOK, ~misread'
    PROVE  Packing' /\ phase' = "compress" /\ compression_method # FORMAT_NONE
<1>10. PICK end \in 0 .. Len(input.units) :
         /\ call' = [Idle EXCEPT !.op = Compressor, !.end = end]
         /\ misread' = (misread \/ end < Len(input.units))
  BY DEF BuildCompress, Begin
<1>1. /\ phase = "compress" /\ call.op = "none"
      /\ output' = NewFile(compression_method)
      /\ input' = input /\ room' = room /\ source' = source /\ phase' = phase /\ tree' = tree
  BY DEF BuildCompress
<1>2. ~Packing
  BY <1>1, PackingRuns
<1>3. /\ compression_method \in {FORMAT_LZ4, FORMAT_GZIP, FORMAT_LZMA}
      /\ input.units = Archive /\ room \in Int /\ room >= Total + 1
  BY <1>1, <1>2 DEF CompressOK, MethodOK
<1>4. compression_method' = compression_method /\ Archive' = Archive /\ Packed' = Packed /\ Total' = Total
  BY <1>1 DEF compression_method, Archive, Packed, Total
<1>5. Total \in Nat /\ 0 \in 0 .. Total /\ 0 <= 0
  BY PackedFacts
<1>11. end = Total
  <2>1. Len(input.units) = Total
    BY <1>3 DEF Total
  <2>2. ~(end < Len(input.units))
    BY <1>10, Zenon
  <2>3. end \in 0 .. Len(input.units)
    BY <1>10
  <2> HIDE DEF Total
  <2> QED  BY <1>5, <2>1, <2>2, <2>3
<1>6. Part(Packed, 0, 0) = <<>>
  BY EmptyPart
<1>7. CASE compression_method = FORMAT_LZMA
  <2>1. call' = [Idle EXCEPT !.op = "lzma", !.end = Total]
    BY <1>7, <1>10, <1>11 DEF Compressor, FORMAT_LZMA, FORMAT_LZ4, FORMAT_GZIP
  <2>2. PICK no \in BOOLEAN : no = FALSE
    OBVIOUS
  <2>3. call' = [op |-> "lzma", at |-> 0, end |-> Total, buf |-> Part(Packed, 0, 0), eof |-> no,
                 held |-> Part(Packed, 0, 0), idle |-> no,
                 outbuf |-> Part(Packed, 0, 0), pending |-> Part(Packed, 0, 0)]
    BY <1>6, <2>1, <2>2 DEF Idle
  <2>4. output' = OutFile(FORMAT_LZMA, Part(Packed, 0, 0))
    BY <1>1, <1>6, <1>7 DEF NewFile, OutFile
  <2>5. room' \in Int /\ room' >= (Total + 1) - 0
    BY <1>1, <1>3, <1>5
  <2>6. LzmaLoop'
    BY <1>1, <1>3, <1>5, <2>2, <2>3, <2>4, <2>5, LzmaGoesOn
  <2>7. Packing'
    BY <1>4, <1>7, <2>6 DEF Packing
  <2> QED  BY <1>1, <1>7, <2>7 DEF FORMAT_NONE, FORMAT_LZMA
<1>8. CASE compression_method = FORMAT_GZIP
  <2>1. call' = [Idle EXCEPT !.op = "gzip", !.end = Total]
    BY <1>8, <1>10, <1>11 DEF Compressor, FORMAT_LZMA, FORMAT_LZ4, FORMAT_GZIP
  <2>2. call' = GzipCall(0, Part(Packed, 0, 0))
    BY <1>6, <2>1 DEF Idle, GzipCall
  <2>3. output' = OutFile(FORMAT_GZIP, Part(Packed, 0, 0))
    BY <1>1, <1>6, <1>8 DEF NewFile, OutFile
  <2>4. PackingGzip(0, 0)'
    BY <1>1, <1>3, <1>4, <1>5, <2>2, <2>3 DEF PackingGzip, GzipCall
  <2>5. GzipLoop'
    BY <1>4, <1>5, <2>4 DEF GzipLoop
  <2>6. Packing'
    BY <1>4, <1>8, <2>5 DEF Packing
  <2> QED  BY <1>1, <1>8, <2>6 DEF FORMAT_NONE, FORMAT_GZIP
<1>9. CASE compression_method = FORMAT_LZ4
  <2>1. call'.op = "lz4" /\ call'.end = Total
    BY <1>9, <1>10, <1>11 DEF Compressor, Idle, FORMAT_LZMA, FORMAT_LZ4, FORMAT_GZIP
  <2> QED  BY <1>1, <1>3, <1>4, <1>9, <2>1 DEF Packing, FORMAT_NONE, FORMAT_LZ4
<1> QED  BY <1>1, <1>3, <1>7, <1>8, <1>9 DEF FORMAT_NONE, FORMAT_LZ4, FORMAT_GZIP, FORMAT_LZMA

\* The invariant holds at first.
LEMMA BInit == Init => BInv
BY DEF Init, BInv, MethodOK, TreeOK, UnpackedOK, CanOK, CompressOK, BuiltOK

\* Every step keeps the invariant.
LEMMA BStep == RInv /\ BInv /\ [Next]_vars => BInv'
<1> SUFFICES ASSUME RInv, BInv, [Next]_vars
             PROVE  BInv'
  OBVIOUS
<1>1. source' = source
  BY DEF vars, Next, UnpackDecompress, UnpackOther, UnpackNone, Decompressed, CallDone, UnpackCPIO,
         EditFile, DeleteFile, BuildCopy, BuildArchive, BuildCompress, Compressed, Stream
<1>2. /\ compression_method' = compression_method /\ Content' = Content
      /\ (source'.room >= Ample) = (source.room >= Ample)
  BY <1>1 DEF compression_method, Content, Units
<1>3. SourceOK /\ UntarOK /\ MethodOK
  BY DEF RInv, BInv
<1>4. MethodOK'
  <2> USE <1>1, <1>2, <1>3 DEF MethodOK
  <2>1. CASE UnpackDecompress \/ UnpackOther \/ UnpackNone
    BY <2>1 DEF UnpackDecompress, UnpackOther, UnpackNone
  <2>2. CASE Decompressed \/ Compressed
    BY <2>2 DEF Decompressed, Compressed, CallDone
  <2>3. CASE UnpackCPIO
    BY <2>3 DEF UnpackCPIO
  <2>4. CASE EditFile \/ DeleteFile \/ BuildCopy \/ BuildArchive \/ BuildCompress
    BY <2>4 DEF EditFile, DeleteFile, BuildCopy, BuildArchive, BuildCompress
  <2>5. CASE Stream \/ UNCHANGED vars
    BY <2>5 DEF Stream, vars
  <2> QED  BY <2>1, <2>2, <2>3, <2>4, <2>5 DEF Next
\* On a smaller disk there is nothing more to keep.
<1>5. SUFFICES ASSUME source.room >= Ample
               PROVE  (TreeOK /\ UnpackedOK /\ (misread \/ (CanOK /\ CompressOK /\ BuiltOK)))'
  BY <1>2, <1>4 DEF BInv
<1>6. TreeOK /\ UnpackedOK /\ (misread \/ (CanOK /\ CompressOK /\ BuiltOK))
  BY <1>5 DEF BInv
<1> DEFINE Late == {"unpacked", "compress", "built"}
\* Nor before the directory is there, and where none is.
<1>7. ASSUME phase' \notin Late
      PROVE  (TreeOK /\ UnpackedOK /\ CanOK /\ CompressOK /\ BuiltOK)'
  BY <1>7 DEF TreeOK, UnpackedOK, CanOK, CompressOK, BuiltOK
<1>8. CASE UnpackDecompress \/ UnpackOther \/ UnpackNone \/ Decompressed \/ BuildCopy
  BY <1>7, <1>8 DEF UnpackDecompress, UnpackOther, UnpackNone, Decompressed, CallDone, BuildCopy
<1>9. CASE UnpackCPIO
  <2>1. phase = "untar" /\ call' = call /\ phase' \in {"unpacked", "failed"}
    BY <1>9 DEF UnpackCPIO
  <2>2. CASE phase' = "unpacked"
    <3>1. call.op = "none" /\ Complete
      BY <1>3, <2>1 DEF UntarOK
    <3>2. IsTree(tree', Content) /\ room' \in Int /\ room' >= source.room - Content
      BY <1>3, <1>5, <1>9, <2>2, <3>1, UnpackCPIOMakesTree
    <3> QED  BY <1>1, <1>2, <2>1, <2>2, <3>1, <3>2 DEF TreeOK, UnpackedOK, CanOK, CompressOK, BuiltOK
  <2> QED  BY <1>7, <2>1, <2>2
<1>10. CASE EditFile \/ DeleteFile
  <2>1. phase = "unpacked" /\ phase' = phase /\ call' = call /\ room' = room
    BY <1>10 DEF EditFile, DeleteFile
  <2>2. IsTree(tree', Content)
    BY <1>6, <1>10, <2>1, EditKeepsTree, DeleteKeepsTree DEF TreeOK
  <2> QED  BY <1>1, <1>2, <1>6, <2>1, <2>2 DEF TreeOK, UnpackedOK, CanOK, CompressOK, BuiltOK
<1>11. CASE BuildArchive
  <2>1. /\ phase = "unpacked" /\ call' = call /\ tree' = tree
        /\ phase' \in {"compress", "built", "refused"}
    BY <1>11 DEF BuildArchive
  <2>2. IsTree(tree, Content) /\ call.op = "none" /\ room \in Int /\ room >= source.room - Content
    BY <1>6, <2>1 DEF TreeOK, UnpackedOK
  <2>3. Archive' = Archive /\ Total' = Total
    BY <2>1 DEF Archive, Total
  <2>4. CASE /\ CanBuild(tree)
             /\ input' = [NewFile(FORMAT_NONE) EXCEPT !.units = Archive]
             /\ room' \in Int /\ room' >= Total + 1
             /\ phase' = IF compression_method = FORMAT_NONE THEN "built" ELSE "compress"
    <3>1. TreeOK' /\ CanOK' /\ UnpackedOK'
      BY <1>2, <2>1, <2>2, <2>4 DEF TreeOK, CanOK, UnpackedOK
    <3>2. CompressOK'
      BY <1>2, <2>1, <2>2, <2>3, <2>4 DEF CompressOK, NewFile
    <3>3. BuiltOK'
      <4>1. phase' = "built" => compression_method = FORMAT_NONE
        BY <2>4
      <4>2. compression_method = FORMAT_NONE => input' = BuiltFile(Archive)'
        <5>1. input' = [here |-> TRUE, format |-> FORMAT_NONE, dict |-> 0, units |-> Archive]
          BY <2>4 DEF NewFile
        <5>2. FORMAT_NONE # FORMAT_LZMA
          BY DEF FORMAT_NONE, FORMAT_LZMA
        <5> QED  BY <1>2, <2>3, <5>1, <5>2 DEF BuiltFile
      <4> QED  BY <1>2, <2>1, <2>2, <4>1, <4>2 DEF BuiltOK, BuiltFile
    <3> QED  BY <3>1, <3>2, <3>3
  <2>5. CASE phase' = "refused"
    BY <1>7, <2>5
  <2>6. CASE misread'
    BY <1>2, <2>1, <2>2, <2>6 DEF TreeOK, UnpackedOK
  <2> QED  BY <1>3, <1>5, <1>11, <2>1, <2>2, <2>4, <2>5, <2>6, BuildArchiveFits
<1>12. CASE BuildCompress
  <2>1. phase = "compress" /\ phase' = "compress" /\ tree' = tree /\ (misread => misread')
    BY <1>12 DEF BuildCompress
  <2>2. IsTree(tree, Content)
    BY <1>6, <2>1 DEF TreeOK
  <2>3. TreeOK' /\ UnpackedOK'
    BY <1>2, <2>1, <2>2 DEF TreeOK, UnpackedOK
  <2>4. CASE ~misread'
    <3>1. CanOK /\ CompressOK
      BY <1>6, <2>1, <2>4
    <3>2. Packing' /\ compression_method # FORMAT_NONE
      BY <1>3, <1>12, <2>2, <2>4, <3>1, CompressBegins
    <3>3. CompressOK'
      BY <1>2, <3>2 DEF CompressOK
    <3> QED  BY <2>1, <2>3, <3>1, <3>3 DEF CanOK, BuiltOK
  <2> QED  BY <2>3, <2>4
<1>13. CASE Compressed
  <2>1. /\ phase = "compress" /\ call.op \in {"done", "failed", "ended"} /\ call'.op = "none"
        /\ phase' = IF call.op = "done" THEN "built" ELSE "refused"
        /\ input' = input /\ tree' = tree /\ misread' = misread
    BY <1>13 DEF Compressed, CallDone, Idle
  <2>4. IsTree(tree, Content) /\ TreeOK' /\ UnpackedOK'
    BY <1>2, <1>6, <2>1 DEF TreeOK, UnpackedOK
  <2>5. CASE misread
    BY <2>1, <2>4, <2>5
  <2>2. CASE call.op = "done" /\ ~misread
    <3>1. ~Packing
      BY <2>2, PackingRuns
    <3>2. compression_method # FORMAT_NONE /\ input = BuiltFile(Packed)
      BY <1>6, <2>1, <2>2, <3>1 DEF CompressOK
    <3>3. BuiltFile(Packed)' = BuiltFile(Packed)
      BY <1>2, <2>1 DEF BuiltFile, Packed, Archive
    <3>4. BuiltOK'
      BY <1>2, <2>1, <3>2, <3>3 DEF BuiltOK, BuiltFile
    <3> QED  BY <1>6, <2>1, <2>2, <2>4, <3>4 DEF CanOK, CompressOK
  <2>3. CASE call.op # "done"
    BY <1>7, <2>1, <2>3
  <2> QED  BY <2>2, <2>3, <2>5
<1>14. CASE Stream
  <2>1. StreamStep /\ phase' = phase /\ tree' = tree /\ misread' = misread
    BY <1>14 DEF Stream
  <2>2. call.op # "none"
    BY <2>1, StreamRuns
  <2>3. phase # "unpacked" /\ (~misread => phase # "built")
    BY <1>6, <2>2 DEF UnpackedOK, BuiltOK
  <2>5. TreeOK' /\ UnpackedOK'
    BY <1>2, <1>6, <2>1, <2>3 DEF TreeOK, UnpackedOK
  <2>6. CASE misread
    BY <2>1, <2>5, <2>6
  <2>4. CASE phase = "compress" /\ ~misread
    <3>1. IsTree(tree, Content) /\ CanBuild(tree) /\ compression_method # FORMAT_NONE
      BY <1>6, <2>4 DEF TreeOK, CanOK, CompressOK
    <3>2. \/ Packing'
          \/ call'.op = "done" /\ input' = BuiltFile(Packed)'
          \/ call'.op \in {"failed", "ended"}
      BY <1>1, <1>3, <1>6, <2>1, <2>4, <3>1, StreamPacks
    <3>3. CompressOK'
      BY <1>2, <3>1, <3>2 DEF CompressOK
    <3> QED  BY <2>1, <2>4, <2>5, <3>1, <3>3 DEF CanOK, BuiltOK
  <2> QED  BY <1>7, <2>1, <2>3, <2>4, <2>6
<1>15. CASE UNCHANGED vars
  <2>1. /\ input' = input /\ output' = output /\ room' = room /\ call' = call
        /\ source' = source /\ phase' = phase /\ tree' = tree /\ misread' = misread
    BY <1>15 DEF vars
  <2>2. /\ Archive' = Archive /\ Packed' = Packed /\ Total' = Total
    BY <2>1 DEF Archive, Packed, Total
  <2>3. LzmaLoop' = LzmaLoop /\ LzmaClose' = LzmaClose /\ GzipLoop' = GzipLoop
    BY <2>1, <2>2 DEF LzmaLoop, PackingLzma, LzmaClose, GzipLoop, PackingGzip, GzipCall
  <2>4. Packing' = Packing
    BY <1>2, <2>1, <2>2, <2>3 DEF Packing
  <2>5. CompressOK' = CompressOK /\ BuiltOK' = BuiltOK /\ CanOK' = CanOK
    BY <1>2, <2>1, <2>2, <2>4 DEF CompressOK, BuiltOK, BuiltFile, CanOK
  <2> QED  BY <1>1, <1>2, <1>6, <2>1, <2>5 DEF TreeOK, UnpackedOK
<1> QED  BY <1>8, <1>9, <1>10, <1>11, <1>12, <1>13, <1>14, <1>15 DEF Next

-----------------------------------------------------------------------------
(* The header of what was built.  (Tools.cc)                               *)

\* The first n numbers are the ones of the magic, or they are not.
LEMMA StartsWith ==
    ASSUME NEW s \in Seq(Nat), NEW n \in 1 .. Len(s), NEW t \in Seq(Nat), Len(t) = n
    PROVE  /\ (\A i \in 1 .. n : s[i] = t[i]) => SubSeq(s, 1, n) = t
           /\ s[1] # t[1] => SubSeq(s, 1, n) # t
<1>1. 1 \in Int /\ n \in Int /\ \A i \in 1 .. n : s[i] \in Nat
  OBVIOUS
<1>2. /\ SubSeq(s, 1, n) \in Seq(Nat)
      /\ Len(SubSeq(s, 1, n)) = IF 1 <= n THEN n - 1 + 1 ELSE 0
      /\ \A i \in 1 .. n - 1 + 1 : SubSeq(s, 1, n)[i] = s[1 + i - 1]
  BY <1>1, SubSeqProperties
<1>3. Len(SubSeq(s, 1, n)) = n /\ \A i \in 1 .. n : SubSeq(s, 1, n)[i] = s[i]
  BY <1>1, <1>2
<1>4. (\A i \in 1 .. n : s[i] = t[i]) => SubSeq(s, 1, n) = t
  BY <1>2, <1>3, SeqEqual
<1>5. SubSeq(s, 1, n)[1] = s[1]
  BY <1>3
<1> QED  BY <1>4, <1>5

\* An archive starts with its magic.
LEMMA NoneDetected ==
    ASSUME NEW data, data = <<48, 55, 48, 55, 48, 49, 48, 48, 48, 48, 48, 48, 48, 48, 48, 48>>
    PROVE  getHeaderFormat(data) = FORMAT_NONE
<1> DEFINE magic == <<48, 55, 48, 55, 48, 49>>
<1>1. data \in Seq(Nat) /\ Len(data) = 16 /\ 6 \in 1 .. Len(data)
  OBVIOUS
<1>2. magic \in Seq(Nat) /\ Len(magic) = 6 /\ \A i \in 1 .. 6 : data[i] = magic[i]
  OBVIOUS
<1> HIDE DEF magic
<1>3. SubSeq(data, 1, 6) = magic
  BY <1>1, <1>2, StartsWith
<1> QED  BY <1>1, <1>3 DEF getHeaderFormat, isCpioNewcHeader, magic

\* What does not start with a 0 is no archive.
LEMMA NotNone ==
    ASSUME NEW data \in Seq(Nat), Len(data) = 16, data[1] # 48
    PROVE  ~isCpioNewcHeader(data)
<1> DEFINE first == <<48, 55, 48, 55, 48, 49>>
           second == <<48, 55, 48, 55, 48, 50>>
<1>1. /\ first \in Seq(Nat) /\ Len(first) = 6 /\ first[1] = 48
      /\ second \in Seq(Nat) /\ Len(second) = 6 /\ second[1] = 48 /\ 6 \in 1 .. Len(data)
  OBVIOUS
<1> HIDE DEF first, second
<1>2. SubSeq(data, 1, 6) # first /\ SubSeq(data, 1, 6) # second
  BY <1>1, StartsWith
<1> QED  BY <1>2 DEF isCpioNewcHeader, first, second

\* A stream of LZ4 starts with the magic of the legacy format.
LEMMA Lz4Detected ==
    ASSUME NEW data, data = <<2, 33, 76, 24, 9, 0, 0, 0, 31, 48, 55, 48, 55, 48, 49, 48>>
    PROVE  getHeaderFormat(data) = FORMAT_LZ4
<1> DEFINE magic == <<2, 33, 76, 24>>
<1>1. data \in Seq(Nat) /\ Len(data) = 16 /\ 4 \in 1 .. Len(data) /\ data[1] # 48
  OBVIOUS
<1>2. magic \in Seq(Nat) /\ Len(magic) = 4 /\ \A i \in 1 .. 4 : data[i] = magic[i]
  OBVIOUS
<1> HIDE DEF magic
<1>3. SubSeq(data, 1, 4) = magic
  BY <1>1, <1>2, StartsWith
<1>4. ~isCpioNewcHeader(data)
  BY <1>1, NotNone
<1> QED  BY <1>1, <1>3, <1>4 DEF getHeaderFormat, isLz4LegacyHeader, magic

\* What does not start with a 2 is no stream of LZ4.
LEMMA NotLz4 ==
    ASSUME NEW data \in Seq(Nat), Len(data) = 16, data[1] # 2
    PROVE  ~isLz4LegacyHeader(data)
<1> DEFINE magic == <<2, 33, 76, 24>>
<1>1. magic \in Seq(Nat) /\ Len(magic) = 4 /\ magic[1] = 2 /\ 4 \in 1 .. Len(data)
  OBVIOUS
<1> HIDE DEF magic
<1>2. SubSeq(data, 1, 4) # magic
  BY <1>1, StartsWith
<1> QED  BY <1>2 DEF isLz4LegacyHeader, magic

\* A stream of gzip starts with its magic.
LEMMA GzipDetected ==
    ASSUME NEW data, data = <<31, 139, 8, 0, 0, 0, 0, 0, 2, 3, 0, 0, 0, 0, 0, 0>>
    PROVE  getHeaderFormat(data) = FORMAT_GZIP
<1> DEFINE magic == <<31, 139>>
<1>1. data \in Seq(Nat) /\ Len(data) = 16 /\ 2 \in 1 .. Len(data) /\ data[1] # 48 /\ data[1] # 2
  OBVIOUS
<1>2. magic \in Seq(Nat) /\ Len(magic) = 2 /\ \A i \in 1 .. 2 : data[i] = magic[i]
  OBVIOUS
<1> HIDE DEF magic
<1>3. SubSeq(data, 1, 2) = magic
  BY <1>1, <1>2, StartsWith
<1>4. ~isCpioNewcHeader(data) /\ ~isLz4LegacyHeader(data)
  BY <1>1, NotNone, NotLz4
<1> QED  BY <1>1, <1>3, <1>4 DEF getHeaderFormat, isGzipHeader, magic

\* The properties byte, a dictionary of one bit, and the size of a content that is
\* not known.
LEMMA LzmaFields ==
    ASSUME NEW data \in Seq(Nat), Len(data) = 16, data[1] = 93,
           data[2] = 0, data[3] = 0, data[4] = 0, data[5] = 1,
           \A k \in 6 .. 13 : data[k] = 255
    PROVE  getHeaderFormat(data) = FORMAT_LZMA
<1> DEFINE gzip == <<31, 139>>
<1>1. 2 \in 1 .. Len(data) /\ data[1] # 48 /\ data[1] # 2
  OBVIOUS
<1>2. gzip \in Seq(Nat) /\ Len(gzip) = 2 /\ gzip[1] = 31
  OBVIOUS
<1> HIDE DEF gzip
<1>3. SubSeq(data, 1, 2) # gzip
  BY <1>1, <1>2, StartsWith
<1>4. ~isCpioNewcHeader(data) /\ ~isLz4LegacyHeader(data) /\ ~isGzipHeader(data)
  <2>1. ~isCpioNewcHeader(data) /\ ~isLz4LegacyHeader(data)
    BY <1>1, NotNone, NotLz4
  <2>2. ~isGzipHeader(data)
    BY <1>3 DEF isGzipHeader, gzip
  <2> QED  BY <2>1, <2>2
<1> DEFINE size == SubSeq(data, 2, 5)
<1>5. /\ size \in Seq(Nat) /\ Len(size) = 4
      /\ size[1] = 0 /\ size[2] = 0 /\ size[3] = 0 /\ size[4] = 1
  <2>1. 2 \in Int /\ 5 \in Int /\ \A i \in 2 .. 5 : data[i] \in Nat
    OBVIOUS
  <2>2. /\ size \in Seq(Nat) /\ Len(size) = IF 2 <= 5 THEN 5 - 2 + 1 ELSE 0
        /\ \A i \in 1 .. 5 - 2 + 1 : size[i] = data[2 + i - 1]
    BY <2>1, SubSeqProperties
  <2> HIDE DEF size
  <2>3. 1 \in 1 .. 5 - 2 + 1 /\ 2 \in 1 .. 5 - 2 + 1 /\ 3 \in 1 .. 5 - 2 + 1 /\ 4 \in 1 .. 5 - 2 + 1
    OBVIOUS
  <2>4. /\ size[1] = data[2 + 1 - 1] /\ size[2] = data[2 + 2 - 1]
        /\ size[3] = data[2 + 3 - 1] /\ size[4] = data[2 + 4 - 1]
    BY <2>2, <2>3, Zenon
  <2>5. 2 + 1 - 1 = 2 /\ 2 + 2 - 1 = 3 /\ 2 + 3 - 1 = 4 /\ 2 + 4 - 1 = 5 /\ 5 - 2 + 1 = 4
    OBVIOUS
  <2> QED  BY <2>2, <2>4, <2>5
<1> HIDE DEF size
<1>6. DOMAIN size = 1 .. 4 /\ 4 \in DOMAIN size
  BY <1>5
<1>7. \A j \in DOMAIN size \ {4} : size[j] = 0
  <2>1. \A j \in 1 .. 4 : j = 1 \/ j = 2 \/ j = 3 \/ j = 4
    OBVIOUS
  <2> QED  BY <1>5, <1>6, <2>1
<1>8. IsPowerOfTwo(size)
  BY <1>5, <1>6, <1>7 DEF IsPowerOfTwo
<1>9. isLzmaHeader(data)
  BY <1>8 DEF isLzmaHeader, size
<1> QED  BY <1>4, <1>9 DEF getHeaderFormat

\* The dictionary of this program's encoder is a power of two.
LEMMA LzmaDetected ==
    ASSUME NEW data, data = <<93, 0, 0, 0, 1, 255, 255, 255, 255, 255, 255, 255, 255, 0, 24, 0>>
    PROVE  getHeaderFormat(data) = FORMAT_LZMA
<1>1. data \in Seq(Nat) /\ Len(data) = 16 /\ data[1] = 93
  OBVIOUS
<1>2. data[2] = 0 /\ data[3] = 0 /\ data[4] = 0 /\ data[5] = 1
  OBVIOUS
<1>3. \A k \in 6 .. 13 : data[k] = 255
  OBVIOUS
<1> QED  BY <1>1, <1>2, <1>3, LzmaFields

\* The format that the ramdisk had is found again.
LEMMA BuiltDetected ==
    ASSUME NEW units, compression_method \in {FORMAT_NONE, FORMAT_LZ4, FORMAT_GZIP, FORMAT_LZMA}
    PROVE  getHeaderFormat(HeaderOf(BuiltFile(units))) = compression_method
<1> DEFINE file == BuiltFile(units)
<1>1. /\ file.format = compression_method
      /\ file.format = FORMAT_LZMA => file.dict = DictSize
  BY DEF BuiltFile
<1> HIDE DEF file
<1> USE DEF FORMAT_NONE, FORMAT_LZ4, FORMAT_GZIP, FORMAT_LZMA
<1>2. CASE compression_method = FORMAT_NONE
  BY <1>1, <1>2, NoneDetected DEF HeaderOf, file
<1>3. CASE compression_method = FORMAT_LZ4
  BY <1>1, <1>3, Lz4Detected DEF HeaderOf, file
<1>4. CASE compression_method = FORMAT_GZIP
  BY <1>1, <1>4, GzipDetected DEF HeaderOf, file
<1>5. CASE compression_method = FORMAT_LZMA
  <2>1. file.dict \div 16 = 1
    BY <1>1, <1>5 DEF DictSize
  <2> QED  BY <1>1, <1>5, <2>1, LzmaDetected DEF HeaderOf, file
<1> QED  BY <1>2, <1>3, <1>4, <1>5

-----------------------------------------------------------------------------
(* The theorem.                                                            *)

\* A line comes back as it was, or with the permissions that it had not, or without
\* what is behind a quote.
LEMMA RelinedFacts ==
    ASSUME NEW e, IsLine(e)
    PROVE  /\ Relined(e).mode # 0 /\ e.mode \in {0, Relined(e).mode}
           /\ Relined(e).path = e.path /\ Relined(e).type = e.type /\ Relined(e).uid = e.uid
           /\ Relined(e).target = IF e.type = "symlink" THEN Target(e) ELSE e.target
<1>1. /\ Relined(e).mode = Permissions(e) /\ Relined(e).path = e.path
      /\ Relined(e).type = e.type /\ Relined(e).uid = e.uid
      /\ Relined(e).target = IF e.type = "symlink" THEN Target(e) ELSE e.target
  BY DEF Relined, IsLine
<1> QED  BY <1>1 DEF Permissions

\* The invariant says more than the property.
LEMMA BInvBuilds == RInv /\ BInv => BuiltUnpacksAgain
<1> SUFFICES ASSUME RInv, BInv, phase = "built", source.room >= Ample, ~misread
             PROVE  LET again == ExtractCPIO(Data(input.units))
                    IN  /\ getHeaderFormat(HeaderOf(input)) = compression_method
                        /\ Whole(input) /\ Readable(input)
                        /\ again.ok /\ again.files = tree.files
                        /\ Len(again.lines) = Len(tree.lines)
                        /\ \A k \in DOMAIN again.lines :
                            /\ again.lines[k].mode # 0
                            /\ tree.lines[k].mode \in {0, again.lines[k].mode}
                            /\ \A field \in {"path", "type", "uid"} :
                                again.lines[k][field] = tree.lines[k][field]
                            /\ \/ again.lines[k].target = tree.lines[k].target
                               \/ /\ tree.lines[k].target \in Quoted
                                  /\ again.lines[k].target = BeforeQuote(tree.lines[k].target)
                        /\ Contains(input.units, TRAILER)
  BY DEF BuiltUnpacksAgain
<1> DEFINE units == IF compression_method = FORMAT_NONE THEN Archive ELSE Packed
           again == ExtractCPIO(Archive)
<1>1. /\ SourceOK /\ IsTree(tree, Content) /\ CanBuild(tree) /\ input = BuiltFile(units)
      /\ compression_method \in {FORMAT_NONE, FORMAT_LZ4, FORMAT_GZIP, FORMAT_LZMA}
  BY DEF RInv, BInv, MethodOK, TreeOK, CanOK, BuiltOK
<1>2. /\ Total \in Nat /\ Total > 0 /\ Total = Len(Archive) /\ Len(Packed) = Total + 1
      /\ Archive \in Seq(RangeOf(Archive)) /\ Packed \in Seq(RangeOf(Packed))
      /\ Archive[Total] = TRAILER /\ Packed[Total] = TRAILER /\ Packed[Total + 1] = END
  BY <1>1, PackedFacts
<1>3. Data(Packed) = Archive /\ Data(Archive) = Archive
  BY <1>1, PackedData
<1>4. /\ again.ok /\ again.files = tree.files /\ Len(again.lines) = Len(tree.lines)
      /\ again.lines \in Seq(RangeOf(again.lines))
      /\ \A k \in 1 .. Len(tree.lines) : again.lines[k] = Relined(tree.lines[k])
  BY <1>1, BuiltComesBack DEF Archive
<1>5. \A k \in 1 .. Len(tree.lines) : IsLine(tree.lines[k])
  BY <1>1 DEF IsTree, LinesOK
<1> HIDE DEF Archive, Packed, Total, units, again
<1>6. input.units = units /\ input.format = compression_method
  BY <1>1 DEF BuiltFile
<1>7. ExtractCPIO(Data(input.units)) = again
  BY <1>3, <1>6 DEF units, again
<1>8. getHeaderFormat(HeaderOf(input)) = compression_method
  BY <1>1, BuiltDetected
<1>9. Whole(input)
  <2>1. Total + 1 \in DOMAIN Packed
    BY <1>2
  <2>2. Has(Packed, END)
    BY <1>2, <2>1 DEF Has
  <2> QED  BY <1>6, <2>2 DEF Whole, units
<1>10. Readable(input)
  <2>1. input.format = FORMAT_LZMA => input.dict = DictSize
    BY <1>1 DEF BuiltFile
  <2> QED  BY <2>1 DEF Readable, DictSize, MemLimit
<1>11. ASSUME NEW k \in DOMAIN again.lines
       PROVE  /\ again.lines[k].mode # 0
              /\ tree.lines[k].mode \in {0, again.lines[k].mode}
              /\ \A field \in {"path", "type", "uid"} : again.lines[k][field] = tree.lines[k][field]
              /\ \/ again.lines[k].target = tree.lines[k].target
                 \/ /\ tree.lines[k].target \in Quoted
                    /\ again.lines[k].target = BeforeQuote(tree.lines[k].target)
  <2>1. k \in 1 .. Len(tree.lines)
    BY <1>4
  <2>2. again.lines[k] = Relined(tree.lines[k]) /\ IsLine(tree.lines[k])
    BY <1>4, <1>5, <2>1
  <2> DEFINE line == tree.lines[k]
  <2>3. /\ Relined(line).mode # 0 /\ line.mode \in {0, Relined(line).mode}
        /\ Relined(line).path = line.path /\ Relined(line).type = line.type /\ Relined(line).uid = line.uid
        /\ Relined(line).target = IF line.type = "symlink" THEN Target(line) ELSE line.target
    BY <2>2, RelinedFacts
  <2> QED  BY <2>2, <2>3 DEF Target
<1>12. Contains(input.units, TRAILER)
  <2>1. Total \in 1 .. Len(Archive) /\ Total \in 1 .. Len(Packed)
    BY <1>2
  <2> QED  BY <1>2, <1>6, <2>1 DEF Contains, units
<1> QED  BY <1>4, <1>7, <1>8, <1>9, <1>10, <1>11, <1>12

\* What is built is found to have the format that the ramdisk had, is read to its
\* end by the decoders of this program, and unpacked again gives the directory that
\* the user had.
THEOREM BuiltComesBackPacked == Spec => []BuiltUnpacksAgain
<1>1. RInv /\ [Next]_vars => RInv'
  BY RStep
<1>2. RInv /\ BInv /\ [Next]_vars => BInv'
  BY BStep
<1> QED  BY RInit, BInit, <1>1, <1>2, BInvBuilds, PTL DEF Spec
=============================================================================
