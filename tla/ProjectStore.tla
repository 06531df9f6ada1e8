---------------------------- MODULE ProjectStore ----------------------------
(***************************************************************************)
(* The life of a project directory below ABIK/: the native calls           *)
(* jniExtract and jniBuild (Jni.cc) as sequences of the file operations a  *)
(* crash can separate, the user who edits and deletes files between two    *)
(* calls, and the kill of the process at any moment.                       *)
(*                                                                         *)
(* One native call runs at a time: the discipline ABIKCore asks for with   *)
(* "ABIK is currently working. Please wait."  (AbikApp shows how far the   *)
(* user interface really enforces it.)                                     *)
(***************************************************************************)
EXTENDS Naturals, Sequences

CONSTANTS
    Base,         \* names an image file can have, without its extension
    MaxCopy,      \* bound: a name is tried up to "<base>_<MaxCopy>"
    MaxRev,       \* bound: how often the user edits one file
    Image,        \* the images the user may pick
    NoImage,      \* "comes from no image"
    Part,         \* section names: "kernel", "ramdisk", "dtb", ...
    Vendor,       \* the images that are vendor_boot images
    SectionsOf,   \* [Image -> Seq(Part)]: sections in extraction order
    RamdisksOf,   \* [Image -> Seq(Part)]: the ramdisks among them, in order
    Repacked,     \* [Image -> SUBSET Part]: the sections a build writes back
    Format        \* [Image -> [Part -> Formats]]: compression of a ramdisk

Compressors == {"lz4", "gzip", "lzma"}
Formats     == Compressors \cup {"none", "other"}

\* The elements of a sequence, and a sequence that repeats none of them.
Elems(s)     == {s[k] : k \in DOMAIN s}
Injective(s) == \A j, k \in DOMAIN s : s[j] = s[k] => j = k

ASSUME StoreAssumption ==
    /\ MaxCopy \in Nat /\ MaxRev \in Nat
    /\ NoImage \notin Image
    /\ Vendor \subseteq Image
    /\ SectionsOf \in [Image -> Seq(Part)]
    /\ RamdisksOf \in [Image -> Seq(Part)]
    /\ Repacked \in [Image -> SUBSET Part]
    /\ Format \in [Image -> [Part -> Formats]]
    /\ \A i \in Image : /\ Injective(SectionsOf[i])
                        /\ Injective(RamdisksOf[i])
                        /\ Elems(RamdisksOf[i]) \subseteq Elems(SectionsOf[i])
                        /\ Repacked[i] \subseteq Elems(SectionsOf[i])

\* A directory name: <<b, 0>> is "<b>", <<b, k>> is "<b>_<k>".
Copies == 0 .. MaxCopy
Names  == Base \X Copies

(***************************************************************************)
(* What a path holds: nothing, a regular file with the bytes of an image   *)
(* section, an uncompressed cpio archive, or an unpacked directory tree.   *)
(* "whole" is FALSE while it is being written, and for what was made from  *)
(* something unfinished; "rev" counts the user's edits.                    *)
(***************************************************************************)
NoFile == [kind |-> "none", whole |-> FALSE, img |-> NoImage, rev |-> 0]

Content == {NoFile} \cup [kind : {"file", "cpio", "dir"}, whole : BOOLEAN,
                          img : Image \cup {NoImage}, rev : 0 .. MaxRev]

\* The data of c in another form, complete and while it is being written.
As(kind, c)    == [kind |-> kind, whole |-> c.whole, img |-> c.img, rev |-> c.rev]
Begun(kind, c) == [kind |-> kind, whole |-> FALSE, img |-> c.img, rev |-> c.rev]

\* The bytes of one section inside image i.
Section(i) == [kind |-> "file", whole |-> TRUE, img |-> i, rev |-> 0]

\* .parserconfig: absent, written, or written and followed by its SHA-1.
NoConfig == [state |-> "none", img |-> NoImage, dec |-> FALSE]
Config   == {NoConfig} \cup [state : {"unsigned", "signed"}, img : Image, dec : BOOLEAN]

\* image-new / vendor_boot-new: absent, being written, complete.
Output   == [state : {"none", "open", "written"}, sect : [Part -> Content]]
NoFiles  == [p \in Part |-> NoFile]
NoOutput == [state |-> "none", sect |-> NoFiles]

VARIABLES
    present,   \* the directories that exist
    config,    \* [Names -> Config]:              <dir>/.parserconfig
    node,      \* [Names -> [Part -> Content]]:   <dir>/<part>
    tmp,       \* [Names -> [Part -> Content]]:   <dir>/<part>.tmp
    build,     \* [Names -> [Part -> Content]]:   <dir>/<part>.build
    buildtmp,  \* [Names -> SUBSET Part]: where <dir>/<part>.build.tmp exists
    out,       \* [Names -> Output]:              <dir>/image-new
    job,       \* the native call in progress
    done,      \* history: directories whose extraction was reported "Done"
    gone       \* history: parts somebody deleted from a directory

files == <<present, config, node, tmp, build, buildtmp, out>>
ghost == <<done, gone>>
vars  == <<present, config, node, tmp, build, buildtmp, out, job, done, gone>>

ExtractPC == {"pick", "mkdir", "parse", "image", "write", "config", "sign",
              "ramdisk", "inflate", "unlink", "untardir", "untar", "rmtmp",
              "cleanup", "done"}
BuildPC   == {"validate", "pack", "cpio", "compress", "replace", "copy", "open",
              "sections", "tidy", "done"}

\* The call in progress.  The last two fields are history, of the errors the
\* code does not look at: the parts that an error of reading or writing kept
\* this build from packing as they are, and the parts whose intermediate file
\* could not be removed.
Job == [op : {"none", "extract", "build"}, pc : {"idle"} \cup ExtractPC \cup BuildPC,
        work : Names \cup {<<>>}, img : Image \cup {NoImage}, dec : BOOLEAN,
        n : Nat, ok : BOOLEAN, spoilt : SUBSET Part, unremoved : SUBSET Part]

Idle == [op |-> "none", pc |-> "idle", work |-> <<>>, img |-> NoImage,
         dec |-> FALSE, n |-> 0, ok |-> FALSE, spoilt |-> {}, unremoved |-> {}]

\* The sections and the ramdisks of the image at hand, and the ramdisk whose
\* turn it is.
Sections == SectionsOf[job.img]
Ramdisks == RamdisksOf[job.img]
Rd       == Ramdisks[job.n]

\* The steps that work on ramdisk Rd.
RamdiskPC == {"inflate", "unlink", "untardir", "untar", "rmtmp",
              "cpio", "compress", "replace", "copy"}

\* What the program counter says about the rest of the call's state: both
\* loops stay within their tables.
JobOK ==
    /\ job.op = "none" => job.pc = "idle"
    /\ job.op = "extract" => job.pc \in ExtractPC /\ job.work \in Names /\ job.img \in Image
    /\ job.op = "build" => job.pc \in BuildPC /\ job.work \in Names
    /\ job.pc \in BuildPC \ {"validate", "done"} => job.img \in Image
    /\ job.pc = "image" => job.n \in 1 .. Len(Sections) + 1
    /\ job.pc = "write" => job.n \in 1 .. Len(Sections)
    /\ job.pc \in {"ramdisk", "pack"} => job.n \in 1 .. Len(Ramdisks) + 1
    /\ job.pc = "sign" => config[job.work] =
                             [state |-> "unsigned", img |-> job.img, dec |-> job.dec]
    /\ job.pc \in RamdiskPC => job.n \in 1 .. Len(Ramdisks)

TypeOK ==
    /\ present \in SUBSET Names
    /\ config \in [Names -> Config]
    /\ node \in [Names -> [Part -> Content]]
    /\ tmp \in [Names -> [Part -> Content]]
    /\ build \in [Names -> [Part -> Content]]
    /\ buildtmp \in [Names -> SUBSET Part]
    /\ out \in [Names -> Output]
    /\ job \in Job /\ JobOK
    /\ done \in SUBSET Names
    /\ gone \in [Names -> SUBSET Part]

Init ==
    /\ present = {}
    /\ config = [d \in Names |-> NoConfig]
    /\ node = [d \in Names |-> NoFiles]
    /\ tmp = [d \in Names |-> NoFiles]
    /\ build = [d \in Names |-> NoFiles]
    /\ buildtmp = [d \in Names |-> {}]
    /\ out = [d \in Names |-> NoOutput]
    /\ job = Idle
    /\ done = {}
    /\ gone = [d \in Names |-> {}]

-----------------------------------------------------------------------------
(***************************************************************************)
(* Extraction: jniExtract and unpackbootimg_wrapper.                       *)
(***************************************************************************)

\* The call is in an extraction (a build) and about to run step pc.
Extracting(pc) == job.op = "extract" /\ job.pc = pc
Building(pc)   == job.op = "build" /\ job.pc = pc

Goto(pc) == job' = [job EXCEPT !.pc = pc]

\* Every failure of unpackbootimg_wrapper ends in the remove_all of jniExtract.
FailExtraction == Goto("cleanup") /\ UNCHANGED <<files, ghost>>

\* Fault: the first candidate is taken without asking whether it exists.
FirstFreeUntested(b, k) == k = 0

\* get_unique_path: the first of "<b>", "<b>_1", "<b>_2", ... that is absent.
FirstFree(b, k) == /\ <<b, k>> \notin present
                   /\ \A j \in 0 .. k - 1 : <<b, j>> \in present

\* The bridge calls jniExtract with the picked image; dec is the switch
\* "Decompress Ramdisk".  Bound: one of the names of b is still free.
StartExtract(b, i, dec) ==
    /\ job.pc = "idle"
    /\ \E k \in Copies : <<b, k>> \notin present
    /\ job' = [Idle EXCEPT !.op = "extract", !.pc = "pick", !.work = <<b, 0>>,
                           !.img = i, !.dec = dec]
    /\ UNCHANGED <<files, ghost>>

PickUnique ==
    /\ Extracting("pick")
    /\ \E k \in Copies :
          /\ FirstFree(job.work[1], k)
          /\ job' = [job EXCEPT !.pc = "mkdir", !.work = <<job.work[1], k>>]
    /\ UNCHANGED <<files, ghost>>

CreateWorkDir ==
    /\ Extracting("mkdir")
    /\ \/ /\ present' = present \cup {job.work}
          /\ Goto("parse")
          /\ UNCHANGED <<config, node, tmp, build, buildtmp, out, ghost>>
       \/ FailExtraction

\* Magic, header, section table.  An unreadable or unsupported header fails;
\* AppendSHA1 then finds no configuration to sign and fails as well.
ParseHeader ==
    /\ Extracting("parse")
    /\ \/ /\ job' = [job EXCEPT !.pc = "image", !.n = 1]
          /\ UNCHANGED <<files, ghost>>
       \/ FailExtraction

\* ExtractImage: seek and read the section, open the file ...
OpenSection ==
    /\ Extracting("image")
    /\ job.n <= Len(Sections)
    /\ \/ /\ node' = [node EXCEPT ![job.work][Sections[job.n]] =
                                      Begun("file", Section(job.img))]
          /\ Goto("write")
          /\ UNCHANGED <<present, config, tmp, build, buildtmp, out, ghost>>
       \/ FailExtraction

\* Fault: the loop advances twice.
WriteSectionTwice ==
    /\ Extracting("write")
    /\ node' = [node EXCEPT ![job.work][Sections[job.n]] = Section(job.img)]
    /\ job' = [job EXCEPT !.pc = "image", !.n = job.n + 2]
    /\ UNCHANGED <<present, config, tmp, build, buildtmp, out, ghost>>

\* ... and write it.
WriteSection ==
    /\ Extracting("write")
    /\ \/ /\ node' = [node EXCEPT ![job.work][Sections[job.n]] = Section(job.img)]
          /\ job' = [job EXCEPT !.pc = "image", !.n = job.n + 1]
          /\ UNCHANGED <<present, config, tmp, build, buildtmp, out, ghost>>
       \/ FailExtraction

\* Fault: the loop stops one section early.
AllSectionsButLast ==
    /\ Extracting("image")
    /\ job.n >= Len(Sections)
    /\ Goto("config")
    /\ UNCHANGED <<files, ghost>>

AllSections ==
    /\ Extracting("image")
    /\ job.n > Len(Sections)
    /\ Goto("config")
    /\ UNCHANGED <<files, ghost>>

WriteConfig ==
    /\ Extracting("config")
    /\ config' = [config EXCEPT ![job.work] =
                      [state |-> "unsigned", img |-> job.img, dec |-> job.dec]]
    /\ Goto("sign")
    /\ UNCHANGED <<present, node, tmp, build, buildtmp, out, ghost>>

SignConfig ==
    /\ Extracting("sign")
    /\ \/ /\ config' = [config EXCEPT ![job.work].state = "signed"]
          /\ job' = [job EXCEPT !.pc = "ramdisk", !.n = 1]
          /\ UNCHANGED <<present, node, tmp, build, buildtmp, out, ghost>>
       \/ FailExtraction

-----------------------------------------------------------------------------
(***************************************************************************)
(* UnpackRamdisk, for every ramdisk of the image in turn.                  *)
(***************************************************************************)

\* Fault: the loop over the ramdisks does not advance past such a ramdisk.
KeepRamdiskForever ==
    /\ Extracting("ramdisk")
    /\ job.dec /\ job.n <= Len(Ramdisks)
    /\ Format[job.img][Rd] = "other"
    /\ UNCHANGED vars

\* A ramdisk of unknown compression stays as it is.
KeepRamdisk ==
    /\ Extracting("ramdisk")
    /\ job.dec /\ job.n <= Len(Ramdisks)
    /\ Format[job.img][Rd] = "other"
    /\ job' = [job EXCEPT !.n = job.n + 1]
    /\ UNCHANGED <<files, ghost>>

\* FORMAT_NONE: the archive itself, renamed to <ramdisk>.tmp.  When that fails
\* ExtractCPIO finds no <ramdisk>.tmp to open.
RenameRamdisk ==
    /\ Extracting("ramdisk")
    /\ job.dec /\ job.n <= Len(Ramdisks)
    /\ Format[job.img][Rd] = "none"
    /\ \/ /\ tmp' = [tmp EXCEPT ![job.work][Rd] = As("cpio", node[job.work][Rd])]
          /\ node' = [node EXCEPT ![job.work][Rd] = NoFile]
          /\ Goto("untardir")
          /\ UNCHANGED <<present, config, build, buildtmp, out, ghost>>
       \/ FailExtraction

\* Decompress*File: open <ramdisk>.tmp and write it ...
BeginInflate ==
    /\ Extracting("ramdisk")
    /\ job.dec /\ job.n <= Len(Ramdisks)
    /\ Format[job.img][Rd] \in Compressors
    /\ tmp' = [tmp EXCEPT ![job.work][Rd] = Begun("cpio", node[job.work][Rd])]
    /\ Goto("inflate")
    /\ UNCHANGED <<present, config, node, build, buildtmp, out, ghost>>

\* ... close it, or remove what was written when the input is corrupt.
EndInflate ==
    /\ Extracting("inflate")
    /\ \/ /\ tmp' = [tmp EXCEPT ![job.work][Rd] = As("cpio", node[job.work][Rd])]
          /\ Goto("unlink")
       \/ /\ tmp' = [tmp EXCEPT ![job.work][Rd] = NoFile]
          /\ Goto("cleanup")
    /\ UNCHANGED <<present, config, node, build, buildtmp, out, ghost>>

\* The compressed input goes only after its archive is complete.
RemoveInput ==
    /\ Extracting("unlink")
    /\ \/ /\ node' = [node EXCEPT ![job.work][Rd] = NoFile]
          /\ Goto("untardir")
          /\ UNCHANGED <<present, config, tmp, build, buildtmp, out, ghost>>
       \/ FailExtraction

\* ExtractCPIO refuses a directory that exists; otherwise it creates it,
\* with the list of entries in <ramdisk>/.parserconfig ...
BeginUntar ==
    /\ Extracting("untardir")
    /\ \/ /\ node[job.work][Rd].kind = "none"
          /\ node' = [node EXCEPT ![job.work][Rd] = Begun("dir", tmp[job.work][Rd])]
          /\ Goto("untar")
          /\ UNCHANGED <<present, config, tmp, build, buildtmp, out, ghost>>
       \/ FailExtraction

\* ... and unpacks entry after entry until the trailer.
EndUntar ==
    /\ Extracting("untar")
    /\ \/ /\ node' = [node EXCEPT ![job.work][Rd] = As("dir", tmp[job.work][Rd])]
          /\ Goto("rmtmp")
          /\ UNCHANGED <<present, config, tmp, build, buildtmp, out, ghost>>
       \/ FailExtraction

\* The archive is removed; an error of remove_all is not looked at.
RemoveArchive ==
    /\ Extracting("rmtmp")
    /\ \/ /\ tmp' = [tmp EXCEPT ![job.work][Rd] = NoFile]
          /\ job' = [job EXCEPT !.pc = "ramdisk", !.n = job.n + 1]
       \/ /\ job' = [job EXCEPT !.pc = "ramdisk", !.n = job.n + 1,
                                 !.unremoved = job.unremoved \cup {Rd}]
          /\ UNCHANGED tmp
    /\ UNCHANGED <<present, config, node, build, buildtmp, out, ghost>>

\* "Done": nothing left to unpack.
ExtractionDone ==
    /\ Extracting("ramdisk")
    /\ ~ job.dec \/ job.n > Len(Ramdisks)
    /\ job' = [job EXCEPT !.pc = "done", !.ok = TRUE]
    /\ done' = done \cup {job.work}
    /\ UNCHANGED <<files, gone>>

\* The directory a failed extraction removes: jniExtract passes workdir, the
\* name before get_unique_path, to remove_all.
CleanupTarget == <<job.work[1], 0>>

\* Directory d has some file for part p.
HasFiles(d, p) == \/ node[d][p] # NoFile \/ tmp[d][p] # NoFile
                  \/ build[d][p] # NoFile \/ p \in buildtmp[d]

\* The files of part p leave directory d.
RemovePart(d, p) ==
    /\ node'  = [node EXCEPT ![d][p] = NoFile]
    /\ tmp'   = [tmp EXCEPT ![d][p] = NoFile]
    /\ build' = [build EXCEPT ![d][p] = NoFile]
    /\ buildtmp' = [buildtmp EXCEPT ![d] = @ \ {p}]
    /\ gone'  = [gone EXCEPT ![d] = @ \cup {p}]

\* remove_all deletes the files in the order the directory lists them (all
\* files of one part go at once: an abstraction) ...
CleanupPart ==
    /\ Extracting("cleanup")
    /\ \E p \in Part : HasFiles(CleanupTarget, p) /\ RemovePart(CleanupTarget, p)
    /\ done' = done \ {CleanupTarget}
    /\ UNCHANGED <<present, config, out, job>>

CleanupConfig ==
    /\ Extracting("cleanup")
    /\ config[CleanupTarget].state # "none"
    /\ config' = [config EXCEPT ![CleanupTarget] = NoConfig]
    /\ done' = done \ {CleanupTarget}
    /\ UNCHANGED <<present, node, tmp, build, buildtmp, out, job, gone>>

\* Directory d and everything in it.
RemoveTree(d) ==
    /\ present' = present \ {d}
    /\ config'  = [config EXCEPT ![d] = NoConfig]
    /\ node'    = [node EXCEPT ![d] = NoFiles]
    /\ tmp'     = [tmp EXCEPT ![d] = NoFiles]
    /\ build'   = [build EXCEPT ![d] = NoFiles]
    /\ buildtmp' = [buildtmp EXCEPT ![d] = {}]
    /\ out'     = [out EXCEPT ![d] = NoOutput]
    /\ done'    = done \ {d}
    /\ gone'    = [gone EXCEPT ![d] = {}]

\* ... and then the directory itself, or stops at an error nobody looks at.
CleanupEnd ==
    /\ Extracting("cleanup")
    /\ Goto("done")
    /\ RemoveTree(CleanupTarget) \/ UNCHANGED <<files, ghost>>

-----------------------------------------------------------------------------
(***************************************************************************)
(* Build: mkbootimg_wrapper, BuildRamdisk and the two image writers.       *)
(***************************************************************************)

\* The user picked the project directory d.
StartBuild(d) ==
    /\ job.pc = "idle"
    /\ d \in present
    /\ job' = [Idle EXCEPT !.op = "build", !.pc = "validate", !.work = d]
    /\ UNCHANGED <<files, ghost>>

\* A return before try_clean: what BuildRamdisk left behind stays.
AbortBuild == Goto("done") /\ UNCHANGED <<files, ghost>>

\* The configuration exists, its SHA-1 matches, and it names the image kind.
ValidateConfig ==
    /\ Building("validate")
    /\ IF config[job.work].state = "signed"
       THEN /\ job' = [job EXCEPT !.pc = "pack", !.n = 1,
                                  !.img = config[job.work].img,
                                  !.dec = config[job.work].dec]
            /\ UNCHANGED <<files, ghost>>
       ELSE AbortBuild

\* The compression the configuration records for the ramdisk at hand.
Compression == IF job.dec THEN Format[job.img][Rd] ELSE "other"

\* BuildCPIO: open the list of entries, open <ramdisk>.build ...
BeginCpio ==
    /\ Building("pack")
    /\ job.n <= Len(Ramdisks)
    /\ node[job.work][Rd].kind = "dir"
    /\ \/ /\ build' = [build EXCEPT ![job.work][Rd] = Begun("cpio", node[job.work][Rd])]
          /\ Goto("cpio")
          /\ UNCHANGED <<present, config, node, tmp, buildtmp, out, ghost>>
       \/ AbortBuild

\* ... and archive every entry of the list.  Nobody looks whether its data
\* could be read, nor whether the archive could be written.
EndCpio ==
    /\ Building("cpio")
    /\ \/ /\ build' = [build EXCEPT ![job.work][Rd] = As("cpio", node[job.work][Rd])]
          /\ Goto("compress")
          /\ UNCHANGED <<present, config, node, tmp, buildtmp, out, ghost>>
       \/ /\ job' = [job EXCEPT !.pc = "compress", !.spoilt = job.spoilt \cup {Rd}]
          /\ UNCHANGED <<files, ghost>>
       \/ AbortBuild

\* Compress*File: open <ramdisk>.build.tmp and write it ...  For FORMAT_NONE
\* the archive itself is what the image stores.
BeginCompress ==
    /\ Building("compress")
    /\ \/ /\ Compression \in Compressors
          /\ buildtmp' = [buildtmp EXCEPT ![job.work] = @ \cup {Rd}]
          /\ Goto("replace")
          /\ UNCHANGED <<present, config, node, tmp, build, out, ghost>>
       \/ Compression \in Compressors /\ AbortBuild
       \/ /\ Compression \notin Compressors
          /\ build' = [build EXCEPT ![job.work][Rd] =
                IF Compression = "other" THEN @ ELSE As("file", @)]
          /\ job' = [job EXCEPT !.pc = "pack", !.n = job.n + 1]
          /\ UNCHANGED <<present, config, node, tmp, buildtmp, out, ghost>>

\* ... and rename it over <ramdisk>.build.  When writing or renaming fails it
\* is removed (LZMA, a failed rename) or left (gzip, LZ4, a failed removal).
\* An error of reading (LZ4), or of closing the output (LZMA), goes unnoticed.
EndCompress ==
    /\ Building("replace")
    /\ \/ /\ build' = [build EXCEPT ![job.work][Rd] = As("file", @)]
          /\ buildtmp' = [buildtmp EXCEPT ![job.work] = @ \ {Rd}]
          /\ job' = [job EXCEPT !.pc = "pack", !.n = job.n + 1]
          /\ UNCHANGED <<present, config, node, tmp, out, ghost>>
       \/ /\ Compression \in {"lz4", "lzma"}
          /\ build' = [build EXCEPT ![job.work][Rd] = Begun("file", @)]
          /\ buildtmp' = [buildtmp EXCEPT ![job.work] = @ \ {Rd}]
          /\ job' = [job EXCEPT !.pc = "pack", !.n = job.n + 1,
                                !.spoilt = job.spoilt \cup {Rd}]
          /\ UNCHANGED <<present, config, node, tmp, out, ghost>>
       \/ /\ buildtmp' = [buildtmp EXCEPT ![job.work] = @ \ {Rd}]
          /\ Goto("done")
          /\ UNCHANGED <<present, config, node, tmp, build, out, ghost>>
       \/ AbortBuild

\* Fault: copy_file skips a <ramdisk>.build that exists.
BeginCopySkipsExisting ==
    /\ Building("pack")
    /\ job.n <= Len(Ramdisks)
    /\ node[job.work][Rd].kind # "dir"
    /\ IF node[job.work][Rd].kind = "none" \/ build[job.work][Rd].kind # "none"
       THEN /\ job' = [job EXCEPT !.n = job.n + 1]
            /\ UNCHANGED <<files, ghost>>
       ELSE /\ build' = [build EXCEPT ![job.work][Rd] = Begun("file", node[job.work][Rd])]
            /\ Goto("copy")
            /\ UNCHANGED <<present, config, node, tmp, buildtmp, out, ghost>>

\* copy_file failed and nobody looks at its error: the build goes on with the
\* next ramdisk and whatever <ramdisk>.build there is.
CopyFailed ==
    /\ job' = [job EXCEPT !.pc = "pack", !.n = job.n + 1,
                          !.spoilt = job.spoilt \cup {Rd}]
    /\ UNCHANGED <<files, ghost>>

\* A ramdisk that is no directory is copied over <ramdisk>.build.  When it
\* does not exist, or one of the two cannot be opened, the file stays that an
\* earlier build left there ...
BeginCopy ==
    /\ Building("pack")
    /\ job.n <= Len(Ramdisks)
    /\ node[job.work][Rd].kind # "dir"
    /\ \/ /\ node[job.work][Rd].kind # "none"
          /\ build' = [build EXCEPT ![job.work][Rd] = Begun("file", node[job.work][Rd])]
          /\ Goto("copy")
          /\ UNCHANGED <<present, config, node, tmp, buildtmp, out, ghost>>
       \/ CopyFailed

\* ... and when reading or writing fails, the part that was copied.
EndCopy ==
    /\ Building("copy")
    /\ \/ /\ build' = [build EXCEPT ![job.work][Rd] = node[job.work][Rd]]
          /\ job' = [job EXCEPT !.pc = "pack", !.n = job.n + 1]
          /\ UNCHANGED <<present, config, node, tmp, buildtmp, out, ghost>>
       \/ CopyFailed

AllRamdisks ==
    /\ Building("pack")
    /\ job.n > Len(Ramdisks)
    /\ Goto("open")
    /\ UNCHANGED <<files, ghost>>

\* remove_all on the previous image, then create the new one.
OpenOutput ==
    /\ Building("open")
    /\ \/ /\ out' = [out EXCEPT ![job.work] = [state |-> "open", sect |-> NoFiles]]
          /\ Goto("sections")
       \/ /\ out' = [out EXCEPT ![job.work] = NoOutput]
          /\ Goto("tidy")
    /\ UNCHANGED <<present, config, node, tmp, build, buildtmp, ghost>>

\* Fault: ramdisks are packed from <ramdisk>, not from what was built of it.
SourceUnbuilt(d, p) == node[d][p]

\* Where a section is read from: ramdisks from <ramdisk>.build.
Source(d, p) == IF p \in Elems(Ramdisks) THEN build[d][p] ELSE node[d][p]

\* Fault: write_section returns true when the file cannot be opened.
WritableAlways(d) == TRUE

\* WriteBootImage gives up at a section file it cannot open;
\* VendorBootBuilder takes a missing file for an empty one.
Writable(d) == job.img \in Vendor \/ \A p \in Repacked[job.img] : Source(d, p).kind # "none"

\* What the image holds of part p when the parts in cut could not be read, or
\* written, to their end.
Packs(d, p, cut) ==
    IF p \notin Repacked[job.img] THEN NoFile
    ELSE IF p \in cut THEN Begun("file", Source(d, p)) ELSE Source(d, p)

\* The writers look whether a section file can be opened, and at no error of
\* the streams after that.
WriteImage ==
    /\ Building("sections")
    /\ IF Writable(job.work)
       THEN \E cut \in SUBSET {p \in Repacked[job.img] : Source(job.work, p).kind # "none"} :
            /\ out' = [out EXCEPT ![job.work] =
                          [state |-> "written",
                           sect  |-> [p \in Part |-> Packs(job.work, p, cut)]]]
            /\ job' = [job EXCEPT !.pc = "tidy", !.ok = TRUE,
                                  !.spoilt = job.spoilt \cup cut]
       ELSE Goto("tidy") /\ UNCHANGED out
    /\ UNCHANGED <<present, config, node, tmp, build, buildtmp, ghost>>

\* The parts that have a <part>.build.
Built == {p \in Part : build[job.work][p].kind # "none"}

\* try_clean leaves the files <part>.build of the parts in kept.
Tidy(kept, unremoved) ==
    /\ build' = [build EXCEPT ![job.work] =
                    [p \in Part |-> IF p \in kept THEN build[job.work][p] ELSE NoFile]]
    /\ job' = [job EXCEPT !.pc = "done", !.unremoved = unremoved]
    /\ UNCHANGED <<present, config, node, tmp, buildtmp, out, ghost>>

\* Fault: only a failed build cleans up.
TryCleanAfterFailure ==
    /\ Building("tidy")
    /\ IF job.ok THEN Tidy(Built, {}) ELSE Tidy({}, {})

\* try_clean(workdir, ".build"): whatever cannot be removed stays, and all of
\* it when the directory cannot be listed to its end.
TryClean ==
    /\ Building("tidy")
    /\ \E kept \in SUBSET Built : Tidy(kept, kept)

-----------------------------------------------------------------------------
\* The native call returns to the bridge.
Return ==
    /\ job.pc = "done"
    /\ job' = Idle
    /\ UNCHANGED <<files, ghost>>

\* The process dies: a kill, or END_PROCESS in lz4io.c.  Files stay.
Crash ==
    /\ job.pc # "idle"
    /\ job' = Idle
    /\ UNCHANGED <<files, ghost>>

\* The user changes a file, or something inside an unpacked ramdisk ...
Edit(d, p) ==
    /\ job.pc = "idle"
    /\ node[d][p].kind # "none" /\ node[d][p].rev < MaxRev
    /\ node' = [node EXCEPT ![d][p].rev = @ + 1]
    /\ UNCHANGED <<present, config, tmp, build, buildtmp, out, job, ghost>>

\* ... deletes one ...
Delete(d, p) ==
    /\ job.pc = "idle"
    /\ node[d][p].kind # "none"
    /\ node' = [node EXCEPT ![d][p] = NoFile]
    /\ gone' = [gone EXCEPT ![d] = @ \cup {p}]
    /\ UNCHANGED <<present, config, tmp, build, buildtmp, out, job, done>>

\* ... or cleans a whole directory (the dialog of cleanBtn, deleteRecursively).
Clean(d) ==
    /\ job.pc = "idle"
    /\ d \in present
    /\ RemoveTree(d)
    /\ UNCHANGED job

ExtractStep ==
    \/ PickUnique \/ CreateWorkDir \/ ParseHeader
    \/ OpenSection \/ WriteSection \/ AllSections
    \/ WriteConfig \/ SignConfig
    \/ KeepRamdisk \/ RenameRamdisk \/ BeginInflate \/ EndInflate \/ RemoveInput
    \/ BeginUntar \/ EndUntar \/ RemoveArchive \/ ExtractionDone
    \/ CleanupPart \/ CleanupConfig \/ CleanupEnd

BuildStep ==
    \/ ValidateConfig \/ BeginCpio \/ EndCpio \/ BeginCompress \/ EndCompress
    \/ BeginCopy \/ EndCopy \/ AllRamdisks
    \/ OpenOutput \/ WriteImage \/ TryClean

NativeStep == ExtractStep \/ BuildStep \/ Return

UserStep ==
    \/ \E b \in Base, i \in Image, dec \in BOOLEAN : StartExtract(b, i, dec)
    \/ \E d \in Names : StartBuild(d) \/ Clean(d)
    \/ \E d \in Names, p \in Part : Edit(d, p) \/ Delete(d, p)

Next == NativeStep \/ Crash \/ UserStep

\* A call that has begun goes on: its thread is never starved.  The user owes
\* nothing, and no crash has to happen.
Fairness == WF_vars(NativeStep)

Spec == Init /\ [][Next]_vars /\ Fairness

-----------------------------------------------------------------------------
(***************************************************************************)
(* What the code owes its user.                                            *)
(***************************************************************************)

\* The data of part p can still be had from directory d.
Recoverable(d, p) == node[d][p].whole \/ tmp[d][p].whole

\* unpackbootimg_wrapper signs the configuration last, and UnpackRamdisk drops
\* a form of a ramdisk only when the next one is complete: whatever crash or
\* failure interrupts the extraction, a directory with a valid configuration
\* lacks no section of its image unless somebody deleted it.
NothingLost ==
    \A d \in Names : config[d].state = "signed" =>
        \A p \in Elems(SectionsOf[config[d].img]) \ gone[d] : Recoverable(d, p)

\* Extracting, editing and building gives back the image: a build reported
\* "Done" on a project whose extraction was reported "Done" and from which
\* nothing was deleted holds every section of the image in the form the image
\* had, with the user's latest edits, whatever crashes and builds came before.
\* The one exception is a part that this very build could not read or write as
\* it is, by an error the code does not look at: "Done" does not tell it from
\* the others.
RoundTrip ==
    (/\ Building("done") /\ job.ok
     /\ job.work \in done /\ gone[job.work] = {})
    => \A p \in Repacked[job.img] \ job.spoilt :
          out[job.work].sect[p] =
              [Section(job.img) EXCEPT !.rev = node[job.work][p].rev]

\* What an image holds of content c: nothing of a file that is not there.
Stored(c) == IF c.kind = "none" THEN NoFile ELSE As("file", c)

\* A build reported "Done" packs what the project directory holds now, in any
\* directory it accepts, never the <ramdisk>.build of an earlier build and
\* never something half written.  The exception is again an error nobody looks
\* at: of a ramdisk that was deleted, or that copy_file cannot read, an earlier
\* <ramdisk>.build is packed, or nothing, and of a part that was read or
\* written in part that part.
BuildIsFresh ==
    (Building("done") /\ job.ok)
    => \A p \in Repacked[job.img] \ job.spoilt :
          out[job.work].sect[p] = Stored(node[job.work][p])

\* A boot image reported "Done" has all its sections, though one that could not
\* be read or written to its end in part (WriteBootImage refuses a missing
\* file), whatever was deleted before.
BootImageComplete ==
    (Building("done") /\ job.ok /\ job.img \notin Vendor)
    => \A p \in Repacked[job.img] : out[job.work].sect[p].kind # "none"

\* The build at hand compresses what it archives of p.
Compresses(p) == /\ p \in Elems(Ramdisks) /\ node[job.work][p].kind = "dir"
                 /\ job.dec /\ Format[job.img][p] \in Compressors

\* A call reported "Done" leaves no intermediate file it could remove: no
\* <ramdisk>.tmp after an extraction, no <ramdisk>.build after a build, even
\* when an earlier build died and left its own.  A <ramdisk>.build.tmp that an
\* earlier build left goes with the next one that compresses that ramdisk; of
\* a ramdisk that was deleted or replaced by a file meanwhile it stays.
NoDebris ==
    (job.pc = "done" /\ job.ok)
    => \A p \in Part \ job.unremoved :
          IF job.op = "extract"
          THEN tmp[job.work][p] = NoFile
          ELSE /\ build[job.work][p] = NoFile
               /\ Compresses(p) => p \notin buildtmp[job.work]

\* Everything in directory d.
Files(d) == <<d \in present, config[d], node[d], tmp[d], build[d], buildtmp[d], out[d]>>

\* An extraction leaves the projects alone that were extracted before, up to
\* its cleanup, and even in its cleanup when it works in "<b>" itself.
ExtractionSparesProjects ==
    [][ (job.op = "extract" /\ (job.pc # "cleanup" \/ job.work[2] = 0))
        => \A d \in done : Files(d)' = Files(d) ]_vars

\* The same without the exception: get_unique_path gives a second extraction
\* of an image a directory of its own so that the first one stays.
ExtractionKeepsProjects ==
    [][ job.op = "extract" => \A d \in done : Files(d)' = Files(d) ]_vars

\* A native call ends, so the bridge can reset isABIKRunning.
CallsEnd == job.pc # "idle" ~> job.pc = "idle"
=============================================================================
