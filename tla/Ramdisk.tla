------------------------------ MODULE Ramdisk ------------------------------
(***************************************************************************)
(* UnpackRamdisk and BuildRamdisk of Jni.cc, with the detection of the     *)
(* format, the codecs and the archive: a ramdisk is unpacked, its          *)
(* directory is edited, and it is built again.  The disk may be too small, *)
(* and a read may fail.                                                    *)
(***************************************************************************)
EXTENDS StreamWrap, CpioCodec

CONSTANTS
    Sources,    \* the ramdisks: [header, file]
    Rooms,      \* the sizes of the disk, in units
    Ample,      \* a disk of this size has room for everything
    NewData     \* what an edit puts into a file

\* A mark can only be the last unit of a ramdisk, and one that is an archive has none.
\* Ample is enough for the archive, the one that is built and what it is packed into.
ASSUME RamdiskAssumption ==
    /\ BufferSize \in Nat \ {0} /\ Ample \in Nat /\ Rooms \subseteq Nat
    /\ TRAILER \notin {END, BAD}
    /\ \A s \in Sources :
        LET units == s.file.units
        IN  /\ units \in Seq({ units[k] : k \in DOMAIN units })
            /\ 3 * (Len(units) + 1) <= Ample
            /\ \A k \in 1 .. Len(units) - 1 : units[k] \notin {END, BAD}
            /\ getHeaderFormat(s.header) = FORMAT_NONE => Data(units) = units

VARIABLES
    source,     \* the ramdisk, and the disk, as they were at first
    phase,      \* what comes next
    tree,       \* the directory
    misread     \* a read failed, and what it gave was taken for everything

vars == <<input, output, room, call, source, phase, tree, misread>>

\* detect: the ramdisk is read by the unpacker of the image, 16 bytes of it.
compression_method == getHeaderFormat(source.header)

Init ==
    /\ source \in { [header |-> s.header, file |-> s.file, room |-> r] : s \in Sources, r \in Rooms }
    /\ input = source.file
    /\ output = NoFile
    /\ room = source.room
    /\ call = Idle
    /\ phase = "packed"
    /\ tree = EmptyDirectory
    /\ misread = FALSE

NewFile(format) == [here |-> TRUE, format |-> format, dict |-> 0, units |-> <<>>]

-----------------------------------------------------------------------------
(* UnpackRamdisk *)

Decompressor ==
    CASE compression_method = FORMAT_LZ4 -> "unlz4"
      [] compression_method = FORMAT_GZIP -> "gunzip"
      [] OTHER -> "unlzma"

\* gzread and LZ4 say that a read failed; for the loop of LZMA the file ends there.
UnpackDecompress ==
    /\ phase = "packed"
    /\ compression_method \in {FORMAT_LZ4, FORMAT_GZIP, FORMAT_LZMA}
    /\ \E end \in 0 .. Len(input.units) :
        /\ Decompressor # "unlzma" => end = Len(input.units)
        /\ Begin(Decompressor, end)
    /\ output' = NewFile(FORMAT_NONE)
    /\ phase' = "decompress"
    /\ UNCHANGED <<input, room, source, tree, misread>>

\* Compression method is unknown!
UnpackOther ==
    /\ phase = "packed" /\ compression_method = FORMAT_OTHER
    /\ phase' = "kept"
    /\ UNCHANGED <<input, output, room, call, source, tree, misread>>

UnpackNone ==
    /\ phase = "packed" /\ compression_method = FORMAT_NONE
    /\ output' = input
    /\ input' = NoFile
    /\ phase' = "untar"
    /\ UNCHANGED <<room, call, source, tree, misread>>

\* A call of a codec has ended; "ended" is the end of the process.
CallDone(from, to) ==
    /\ phase = from /\ call.op \in {"done", "failed", "ended"}
    /\ phase' = IF call.op = "done" THEN to ELSE IF from = "decompress" THEN "failed" ELSE "refused"
    /\ call' = Idle
    /\ UNCHANGED <<input, output, room, source, tree, misread>>

Decompressed == CallDone("decompress", "untar")

\* The files that do not fit are short, and nobody looks.
ShortFile == "cut short"

Fitting(dir) ==
    LET n == Cardinality(DOMAIN dir.files)
    IN  IF n <= room THEN {dir}
        ELSE { [dir EXCEPT !.files = [p \in DOMAIN dir.files |-> IF p \in kept THEN dir.files[p] ELSE ShortFile]] :
               kept \in { k \in SUBSET DOMAIN dir.files : Cardinality(k) = room } }

\* ExtractCPIO, and on success the archive goes; a read that fails is its end.
UnpackCPIO ==
    /\ phase = "untar"
    /\ \E end \in 0 .. Len(output.units) : \E dir \in Fitting(ExtractCPIO(SubSeq(output.units, 1, end))) :
        /\ tree' = dir
        /\ misread' = (end < Len(output.units))
        /\ IF dir.ok
           THEN /\ output' = NoFile
                /\ room' = room + Len(output.units)
                             - Cardinality({p \in DOMAIN dir.files : dir.files[p] # ShortFile})
                /\ phase' = "unpacked"
           ELSE /\ phase' = "failed"
                /\ UNCHANGED <<output, room>>
    /\ UNCHANGED <<input, call, source>>

-----------------------------------------------------------------------------
(* The user *)

EditFile ==
    /\ phase = "unpacked"
    /\ \E p \in DOMAIN tree.files, d \in NewData :
        tree.files[p] # d /\ tree' = [tree EXCEPT !.files[p] = d]
    /\ UNCHANGED <<input, output, room, call, source, phase, misread>>

DeleteFile ==
    /\ phase = "unpacked"
    /\ \E p \in DOMAIN tree.files :
        tree' = [tree EXCEPT !.files = [q \in DOMAIN tree.files \ {p} |-> tree.files[q]]]
    /\ UNCHANGED <<input, output, room, call, source, phase, misread>>

-----------------------------------------------------------------------------
(* BuildRamdisk *)

\* A ramdisk that is a file is copied, and a copy that fails goes unseen.
BuildCopy ==
    /\ phase = "kept"
    /\ output' = IF Fits(Len(input.units)) THEN input ELSE NoFile
    /\ room' = IF Fits(Len(input.units)) THEN room - Len(input.units) ELSE room
    /\ phase' = "copied"
    /\ UNCHANGED <<input, call, source, tree, misread>>

\* The directory as it is read: where a read fails the lines end, or a file is
\* zeros from there on.
Readings(dir) ==
    {dir} \cup { [dir EXCEPT !.lines = SubSeq(@, 1, n)] : n \in 0 .. Len(dir.lines) }
          \cup { [dir EXCEPT !.files[p] = Torn(@)] : p \in DOMAIN dir.files }

\* BuildCPIO; the archive is as long as the disk lets it be.
BuildArchive ==
    /\ phase = "unpacked"
    /\ \E dir \in Readings(tree) :
        /\ IF CanBuild(dir)
           THEN LET units == Closed(BuildCPIO(dir))
                IN  /\ input' = [NewFile(FORMAT_NONE) EXCEPT !.units = units]
                    /\ room' = room - Len(units)
                    /\ phase' = IF compression_method = FORMAT_NONE THEN "built" ELSE "compress"
           ELSE phase' = "refused" /\ UNCHANGED <<input, room>>
        /\ misread' = (dir # tree)
    /\ UNCHANGED <<output, call, source, tree>>

Compressor ==
    CASE compression_method = FORMAT_LZ4 -> "lz4"
      [] compression_method = FORMAT_GZIP -> "gzip"
      [] OTHER -> "lzma"

\* A read that fails may be taken for the end of the archive.
BuildCompress ==
    /\ phase = "compress" /\ call.op = "none"
    /\ \E end \in 0 .. Len(input.units) :
        /\ Begin(Compressor, end)
        /\ misread' = (misread \/ end < Len(input.units))
    /\ output' = NewFile(compression_method)
    /\ UNCHANGED <<input, room, source, phase, tree>>

Compressed == CallDone("compress", "built")

-----------------------------------------------------------------------------
Stream == StreamStep /\ UNCHANGED <<source, phase, tree, misread>>

Next ==
    \/ UnpackDecompress \/ UnpackOther \/ UnpackNone \/ Decompressed \/ UnpackCPIO
    \/ EditFile \/ DeleteFile
    \/ BuildCopy \/ BuildArchive \/ BuildCompress \/ Compressed
    \/ Stream

\* A call runs until it returns.
Spec == Init /\ [][Next]_vars /\ WF_vars(Stream)

-----------------------------------------------------------------------------
(* What an archive says, for a reader that knows hard links: the data of a *)
(* file is that of the last entry of its name, and of a file with several  *)
(* names that of the last entry of its number.                             *)

Entries(units) ==
    LET stop == {k \in DOMAIN units : units[k].type = "trailer"}
    IN  IF stop = {} THEN units ELSE SubSeq(units, 1, (CHOOSE k \in stop : \A j \in stop : k <= j) - 1)

LastWhere(entries, Test(_)) ==
    LET at == {k \in DOMAIN entries : Test(entries[k])}
    IN  entries[CHOOSE k \in at : \A j \in at : j <= k]

Meaning(units) ==
    LET entries == SelectSeq(Entries(units), LAMBDA e : e.type = "file")
        LastOf(p) == LastWhere(entries, LAMBDA e : e.path = p)
    IN  [p \in { entries[k].path : k \in DOMAIN entries } |->
            IF LastOf(p).ino = 0 THEN LastOf(p).data
            ELSE LastWhere(entries, LAMBDA e : e.ino = LastOf(p).ino).data]

HardLinked(units) == { units[k].path : k \in {j \in DOMAIN units : units[j].ino # 0} }

\* The contents are wholly there.
Whole(file) == file.format = FORMAT_NONE \/ Has(file.units, END)

\* The decoder of LZMA does not take everything.
Readable(file) == file.format = FORMAT_LZMA => file.dict <= MemLimit

HeaderOf(file) ==
    CASE file.format = FORMAT_NONE -> <<48, 55, 48, 55, 48, 49, 48, 48, 48, 48, 48, 48, 48, 48, 48, 48>>
      [] file.format = FORMAT_LZ4 -> <<2, 33, 76, 24, 9, 0, 0, 0, 31, 48, 55, 48, 55, 48, 49, 48>>
      [] file.format = FORMAT_GZIP -> <<31, 139, 8, 0, 0, 0, 0, 0, 2, 3, 0, 0, 0, 0, 0, 0>>
      [] file.format = FORMAT_LZMA -> <<93, 0, 0, 0, file.dict \div 16, 255, 255, 255, 255, 255, 255, 255, 255, 0, 24, 0>>

\* Until its directory is there, the ramdisk is on the disk, packed or as the
\* whole archive, whatever fails.
NothingLost ==
    phase \in {"packed", "decompress", "untar", "failed"} /\ source.room >= Ample =>
        \/ input = source.file
        \/ output.units = Data(source.file.units)

\* A directory that comes from a ramdisk has what the archive says: the lines in
\* the order of the entries, and the data; but entries of other types are gone,
\* and only one name of a hard-linked file has its data.  Of an archive that was
\* cut, every entry before the cut one is there; the cut one adds no more than a
\* line and a file with zeros for what is missing, and only that file may have
\* taken the place of another.  A stream of LZMA says where it ends: from one that
\* was cut no directory comes.  Reads that fail are excepted.
UnpackedIsArchive ==
    [][phase = "untar" /\ phase' = "unpacked" /\ source.room >= Ample /\ ~misread' =>
        LET units   == Entries(Data(source.file.units))
            whole   == SelectSeq(units, LAMBDA e : e.cut = "none")
            kept    == SelectSeq(whole, LAMBDA e : e.type # "device")
            meaning == Meaning(whole)
            cut     == {Read(units[k]) : k \in {j \in DOMAIN units : units[j].cut \notin {"none", "header"}}}
            zeroed  == {e \in cut : e.type = "file"}
            Zeroed  == {e.path : e \in zeroed}
        IN  /\ source.file.format = FORMAT_LZMA => Whole(source.file)
            /\ DOMAIN meaning \subseteq DOMAIN tree'.files
            /\ DOMAIN tree'.files \subseteq DOMAIN meaning \cup Zeroed
            /\ \A p \in DOMAIN tree'.files \ Zeroed :
                \/ tree'.files[p] = meaning[p]
                \/ p \in HardLinked(units) /\ tree'.files[p] = ""
            /\ \A e \in zeroed : tree'.files[e.path] = e.data
            /\ Len(tree'.lines) \in Len(kept) .. Len(kept) + Cardinality(cut)
            /\ \A k \in DOMAIN kept :
                /\ \A field \in {"path", "type", "mode", "uid"} : tree'.lines[k][field] = kept[k][field]
                /\ kept[k].type = "symlink" => tree'.lines[k].target = kept[k].data]_vars

\* Unless a read failed unseen, what was built is found to have the format the
\* ramdisk had, its stream can be read to its end by the decoders of this program,
\* and unpacked again it gives the directory that the user had, with the
\* permissions of the entries that had none filled in, and the targets that had a
\* quote without the quote and what is behind it.
BuiltUnpacksAgain ==
    phase = "built" /\ source.room >= Ample /\ ~misread =>
        LET again == ExtractCPIO(Data(input.units))
        IN  /\ getHeaderFormat(HeaderOf(input)) = compression_method
            /\ Whole(input) /\ Readable(input)
            /\ again.ok /\ again.files = tree.files
            /\ Len(again.lines) = Len(tree.lines)
            /\ \A k \in DOMAIN again.lines :
                /\ again.lines[k].mode # 0
                /\ tree.lines[k].mode \in {0, again.lines[k].mode}
                /\ \A field \in {"path", "type", "uid"} : again.lines[k][field] = tree.lines[k][field]
                /\ \/ again.lines[k].target = tree.lines[k].target
                   \/ /\ tree.lines[k].target \in Quoted
                      /\ again.lines[k].target = BeforeQuote(tree.lines[k].target)
            /\ Contains(input.units, TRAILER)

\* Whatever the codec takes and gives in one call, and wherever the file was
\* cut, the loops around it come to an end.
CallEnds ==
    call.op \notin {"none", "done", "failed", "ended"} ~> call.op \in {"done", "failed", "ended"}

=============================================================================
