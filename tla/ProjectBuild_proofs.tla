------------------------- MODULE ProjectBuild_proofs -------------------------
(***************************************************************************)
(* Proofs about ProjectStore, continued: what a call that reports "Done"   *)
(* has done, for every set of images, sections and names.                  *)
(***************************************************************************)
EXTENDS ProjectStore_proofs

-----------------------------------------------------------------------------
(***************************************************************************)
(* The inductive invariant: what holds of every directory at any time, how *)
(* far the extraction in progress has come, and how far the build.         *)
(***************************************************************************)

\* c is what was extracted from image i, in one form or another, complete.
FromImage(c, i) == c.kind # "none" /\ c.whole /\ c.img = i

\* Nothing was ever written below d, or all of it was removed.
Bare(d) == /\ config[d] = NoConfig
           /\ node[d] = NoFiles /\ tmp[d] = NoFiles
           /\ build[d] = NoFiles /\ buildtmp[d] = {}

\* A build may archive <d>/<p>: its extraction unpacked it.
Unpacked(d, p) == /\ config[d].dec /\ p \in Elems(RamdisksOf[config[d].img])
                  /\ Format[config[d].img][p] # "other"

\* A directory that is not there is bare and no project; <part> is never an
\* archive, and in a signed directory a tree only where one was unpacked; a
\* finished project has all that nobody deleted.
DirOK(d) ==
    /\ d \notin present => Bare(d) /\ d \notin done
    /\ \A p \in Part : node[d][p].kind # "cpio"
    /\ config[d].state = "signed" =>
          \A p \in Part : node[d][p].kind = "dir" => Unpacked(d, p)
    /\ d \in done =>
          /\ config[d].state = "signed"
          /\ \A p \in Elems(SectionsOf[config[d].img]) \ gone[d] :
                FromImage(node[d][p], config[d].img)

\* The configuration the call works with is the one in its directory.
ConfigAtHand == config[job.work] = [state |-> "signed", img |-> job.img, dec |-> job.dec]

\* The steps before the signature.
Copying == {"parse", "image", "write", "config", "sign"}

\* The first k sections of the image have been extracted.
Copied(k) == \A m \in 1 .. k : FromImage(node[job.work][Sections[m]], job.img)

\* No archive is left but those that could not be removed.
Cleared == \A p \in Part \ job.unremoved : tmp[job.work][p] = NoFile

\* An extraction works in a new directory, copies files and nothing else into
\* it, and unpacks one ramdisk at a time, always with one complete form of it.
ExtractOK ==
    job.op = "extract" =>
        /\ job.pc = "mkdir" => job.work \notin present
        /\ job.pc \in Copying \cup RamdiskPC \cup {"ramdisk"} => job.work \in present
        /\ job.pc \notin {"pick", "done"} => job.work \notin done
        /\ job.pc \in Copying =>
              tmp[job.work] = NoFiles /\ \A p \in Part : node[job.work][p].kind # "dir"
        /\ job.pc \in {"image", "write"} => Copied(job.n - 1)
        /\ job.pc \in {"config", "sign"} => Copied(Len(Sections))
        /\ job.pc = "ramdisk" =>
              /\ ConfigAtHand /\ Cleared
              /\ \A p \in Elems(Sections) : FromImage(node[job.work][p], job.img)
        /\ job.pc \in RamdiskPC =>
              /\ ConfigAtHand /\ job.dec /\ Format[job.img][Rd] # "other"
              /\ \A p \in Part \ job.unremoved : p # Rd => tmp[job.work][p] = NoFile
              /\ \A p \in Elems(Sections) : p # Rd => FromImage(node[job.work][p], job.img)
        /\ job.pc \in {"inflate", "unlink", "rmtmp"} =>
              FromImage(node[job.work][Rd], job.img)
        /\ job.pc \in {"unlink", "untardir", "untar"} =>
              tmp[job.work][Rd].whole /\ tmp[job.work][Rd].img = job.img
        /\ job.ok => job.pc = "done" /\ Cleared

\* What the build has made of ramdisk p: <p>.build is what an image can store
\* of the present <p>, unless it was spoilt, and <p>.build.tmp is gone.
Made(p) == /\ p \notin job.spoilt => build[job.work][p] = Stored(node[job.work][p])
           /\ Compresses(p) => p \notin buildtmp[job.work]

\* The image that was written holds what the directory holds, up to what was
\* spoilt.
Packed ==
    /\ \A p \in Repacked[job.img] \ job.spoilt :
          out[job.work].sect[p] = Stored(node[job.work][p])
    /\ job.img \notin Vendor =>
          \A p \in Repacked[job.img] : out[job.work].sect[p].kind # "none"

\* No ramdisk the build compressed has a <ramdisk>.build.tmp.
Renamed == \A p \in Part : Compresses(p) => p \notin buildtmp[job.work]

\* A build makes one <ramdisk>.build after the other and reads them last.
BuildOK ==
    job.op = "build" =>
        /\ job.pc \notin {"validate", "done"} \/ job.ok => ConfigAtHand
        /\ job.pc \in {"pack", "cpio", "compress", "replace", "copy"} =>
              \A m \in 1 .. job.n - 1 : Made(Ramdisks[m])
        /\ job.pc \in {"cpio", "compress", "replace"} => node[job.work][Rd].kind = "dir"
        /\ job.pc \in {"compress", "replace"} /\ Rd \notin job.spoilt =>
              build[job.work][Rd] = As("cpio", node[job.work][Rd])
        /\ job.pc = "copy" => node[job.work][Rd].kind = "file"
        /\ job.pc \in {"open", "sections"} =>
              \A m \in 1 .. Len(Ramdisks) : Made(Ramdisks[m])
        /\ job.ok => job.pc \in {"tidy", "done"} /\ Packed /\ Renamed
        /\ job.ok /\ job.pc = "done" =>
              \A p \in Part \ job.unremoved : build[job.work][p] = NoFile

DoneInv == TypeOK /\ (\A d \in Names : DirOK(d)) /\ ExtractOK /\ BuildOK

-----------------------------------------------------------------------------
(* What all steps have in common. *)

\* Writing one file of directory d leaves the other files and directories alone.
LEMMA WriteAt ==
    ASSUME NEW f \in [Names -> [Part -> Content]],
           NEW d \in Names, NEW p \in Part, NEW c \in Content,
           NEW g, g = [f EXCEPT ![d][p] = c]
    PROVE  /\ g[d][p] = c
           /\ \A q \in Part : q # p => g[d][q] = f[d][q]
           /\ \A e \in Names : e # d => g[e] = f[e]
  OBVIOUS

\* A directory in which nothing happens stays as it is.
LEMMA SameDirectory ==
    ASSUME NEW d \in Names, DirOK(d), Files(d)' = Files(d), gone'[d] = gone[d],
           d \in done' => d \in done
    PROVE  DirOK(d)'
<1>1. /\ (d \in present') = (d \in present) /\ config'[d] = config[d]
      /\ node'[d] = node[d] /\ tmp'[d] = tmp[d] /\ build'[d] = build[d]
      /\ buildtmp'[d] = buildtmp[d]
  BY DEF Files
<1> QED  BY <1>1 DEF DirOK, Bare, Unpacked

\* A removed directory is bare.
LEMMA RemovedDirectory ==
    ASSUME TypeOK, \A d \in Names : DirOK(d), NEW e \in Names, RemoveTree(e)
    PROVE  \A d \in Names : DirOK(d)'
<1>1. DirOK(e)'
  BY ContentTypes DEF TypeOK, RemoveTree, DirOK, Bare, NoConfig, NoFiles, NoFile
<1>2. ASSUME NEW d \in Names, d # e PROVE DirOK(d)'
  <2>1. Files(d)' = Files(d) /\ gone'[d] = gone[d] /\ (d \in done' => d \in done)
    BY <1>2 DEF TypeOK, RemoveTree, Files
  <2> QED  BY <2>1, SameDirectory
<1> QED  BY <1>1, <1>2

\* The forms of a content keep what matters of it.
LEMMA Forms ==
    ASSUME NEW c \in Content, NEW kind \in {"none", "file", "cpio", "dir"}
    PROVE  /\ As(kind, c).kind = kind /\ As(kind, c).whole = c.whole /\ As(kind, c).img = c.img
           /\ Begun(kind, c).kind = kind
           /\ As("file", As(kind, c)) = As("file", c)
           /\ c.kind = "file" => As("file", c) = c
  BY DEF Content, NoFile, As, Begun

\* Sections and ramdisks of the image at hand.
LEMMA Listed ==
    ASSUME NEW i \in Image
    PROVE  /\ \A p : p \in Elems(SectionsOf[i]) <=>
                     \E m \in 1 .. Len(SectionsOf[i]) : p = SectionsOf[i][m]
           /\ \A p : p \in Elems(RamdisksOf[i]) <=>
                     \E m \in 1 .. Len(RamdisksOf[i]) : p = RamdisksOf[i][m]
           /\ Elems(RamdisksOf[i]) \subseteq Elems(SectionsOf[i])
           /\ Elems(SectionsOf[i]) \subseteq Part
           /\ Repacked[i] \subseteq Elems(SectionsOf[i])
<1>1. /\ DOMAIN SectionsOf[i] = 1 .. Len(SectionsOf[i])
      /\ DOMAIN RamdisksOf[i] = 1 .. Len(RamdisksOf[i])
  BY SectionTypes
<1>2. Elems(SectionsOf[i]) \subseteq Part
  BY <1>1, SectionTypes DEF Elems
<1> QED  BY <1>1, <1>2, StoreAssumption DEF Elems

-----------------------------------------------------------------------------
(* The steps of an extraction. *)

\* Up to its cleanup, an extraction changes its own directory and no other, and
\* reports none but its own as done.
LEMMA OwnDirectory ==
    ASSUME TypeOK, ExtractStep, job.pc # "cleanup"
    PROVE  /\ job.op = "extract" /\ job.work \in Names /\ job.img \in Image
           /\ \A d \in Names : d # job.work =>
                 /\ Files(d)' = Files(d) /\ gone'[d] = gone[d]
                 /\ d \in done' <=> d \in done
<1> USE DEF files, ghost, Extracting, Files
<1>t. /\ config \in [Names -> Config] /\ node \in [Names -> [Part -> Content]]
      /\ tmp \in [Names -> [Part -> Content]] /\ JobOK
  BY DEF TypeOK
<1>1. job.op = "extract"
  BY DEF ExtractStep, PickUnique, CreateWorkDir, ParseHeader, OpenSection, WriteSection,
         AllSections, WriteConfig, SignConfig, KeepRamdisk, RenameRamdisk, BeginInflate,
         EndInflate, RemoveInput, BeginUntar, EndUntar, RemoveArchive, ExtractionDone,
         CleanupPart, CleanupConfig, CleanupEnd
<1>2. job.work \in Names /\ job.img \in Image
  BY <1>1, <1>t DEF JobOK
<1>3. CASE PickUnique \/ ParseHeader \/ AllSections \/ KeepRamdisk \/ ExtractionDone
  BY <1>1, <1>2, <1>3 DEF PickUnique, ParseHeader, AllSections, KeepRamdisk, ExtractionDone,
     FailExtraction
<1>4. CASE CreateWorkDir
  <2>1. \A d \in Names : d # job.work => (d \in present' <=> d \in present)
    BY <1>4 DEF CreateWorkDir, FailExtraction
  <2>2. UNCHANGED <<config, node, tmp, build, buildtmp, out, ghost>>
    BY <1>4 DEF CreateWorkDir, FailExtraction
  <2>3. ASSUME NEW d \in Names, d # job.work PROVE (d \in present') = (d \in present)
    BY <2>1, <2>3
  <2> QED  BY <1>1, <1>2, <2>2, <2>3
<1>5. CASE WriteConfig \/ SignConfig
  BY <1>1, <1>2, <1>5, <1>t DEF WriteConfig, SignConfig, FailExtraction
<1>6. CASE OpenSection \/ WriteSection \/ RemoveInput \/ BeginUntar \/ EndUntar
  BY <1>1, <1>2, <1>6, <1>t DEF OpenSection, WriteSection, RemoveInput, BeginUntar, EndUntar,
     FailExtraction
<1>7. CASE RenameRamdisk \/ BeginInflate \/ EndInflate \/ RemoveArchive
  BY <1>1, <1>2, <1>7, <1>t DEF RenameRamdisk, BeginInflate, EndInflate, RemoveArchive,
     FailExtraction
<1>8. CASE CleanupPart \/ CleanupConfig \/ CleanupEnd
  BY <1>8 DEF CleanupPart, CleanupConfig, CleanupEnd
<1> QED  BY <1>3, <1>5, <1>6, <1>7, <1>8, <1>4 DEF ExtractStep

\* Every step of an extraction keeps the invariant.
LEMMA ExtractDoneInv ==
    DoneInv /\ ExtractStep => (\A d \in Names : DirOK(d)') /\ ExtractOK' /\ BuildOK'
<1> SUFFICES ASSUME DoneInv, ExtractStep
             PROVE  (\A d \in Names : DirOK(d)') /\ ExtractOK' /\ BuildOK'
  OBVIOUS
<1> USE DEF files, ghost, Extracting, Goto
<1>t. /\ TypeOK /\ JobOK /\ job \in Job
      /\ config \in [Names -> Config] /\ present \in SUBSET Names
      /\ node \in [Names -> [Part -> Content]]
      /\ tmp \in [Names -> [Part -> Content]]
      /\ done \in SUBSET Names /\ gone \in [Names -> SUBSET Part]
  BY DEF DoneInv, TypeOK
<1>i. ExtractOK /\ \A d \in Names : DirOK(d)
  BY DEF DoneInv
<1>o. job.op = "extract" /\ job.work \in Names /\ job.img \in Image /\ DirOK(job.work)
  <2>1. job.op = "extract"
    BY DEF ExtractStep, PickUnique, CreateWorkDir, ParseHeader, OpenSection, WriteSection,
           AllSections, WriteConfig, SignConfig, KeepRamdisk, RenameRamdisk, BeginInflate,
           EndInflate, RemoveInput, BeginUntar, EndUntar, RemoveArchive, ExtractionDone,
           CleanupPart, CleanupConfig, CleanupEnd
  <2> QED  BY <1>t, <1>i, <2>1 DEF JobOK
<1>d. ASSUME job.pc # "cleanup", job'.work = job.work, DirOK(job.work)'
      PROVE  \A d \in Names : DirOK(d)'
  <2> SUFFICES ASSUME NEW d \in Names, d # job.work PROVE DirOK(d)'
    BY <1>d
  <2> QED  BY <1>t, <1>i, <1>d, OwnDirectory, SameDirectory
<1>s. ASSUME UNCHANGED <<files, ghost>> PROVE \A d \in Names : DirOK(d)'
  BY <1>s, <1>i, SameDirectory DEF Files
<1>b. ASSUME job'.op = "extract" PROVE BuildOK'
  BY <1>b DEF BuildOK
<1>h. /\ job.pc \in RamdiskPC => Rd \in Part
      /\ job.pc = "ramdisk" /\ job.n <= Len(Ramdisks) =>
            Rd \in Part /\ job.n \in 1 .. Len(Ramdisks)
      /\ job.pc = "write" => Sections[job.n] \in Part
      /\ job.pc = "image" /\ job.n <= Len(Sections) =>
            Sections[job.n] \in Part /\ job.n \in 1 .. Len(Sections)
  BY <1>t, AtHand
<1>f. ASSUME FailExtraction, job.pc \notin {"pick", "cleanup", "done"}
      PROVE  (\A d \in Names : DirOK(d)') /\ ExtractOK' /\ BuildOK'
  <2>1. /\ job'.pc = "cleanup" /\ job'.op = job.op /\ job'.work = job.work
        /\ job'.img = job.img /\ job'.ok = job.ok
    BY <1>f, <1>t DEF FailExtraction, Job
  <2>2. ExtractOK'
    BY <1>f, <1>i, <1>o, <2>1 DEF FailExtraction, ExtractOK, Copying, RamdiskPC
  <2> QED  BY <1>f, <1>b, <1>s, <1>o, <2>1, <2>2 DEF FailExtraction
<1>1. CASE PickUnique
  <2>1. PICK k \in Copies : /\ FirstFree(job.work[1], k)
                           /\ job' = [job EXCEPT !.pc = "mkdir", !.work = <<job.work[1], k>>]
    BY <1>1 DEF PickUnique
  <2>2. /\ job'.pc = "mkdir" /\ job'.op = job.op /\ job'.ok = job.ok
        /\ job'.work = <<job.work[1], k>> /\ job'.work \notin present
    BY <1>t, <2>1 DEF Job, FirstFree
  <2>3. job'.work \in Names
    BY <1>t, <1>o, <2>2 DEF Names
  <2>4. job'.work \notin done
    BY <1>i, <2>2, <2>3 DEF DirOK
  <2>5. UNCHANGED <<files, ghost>> /\ job.pc = "pick"
    BY <1>1 DEF PickUnique
  <2>6. ExtractOK'
    BY <1>i, <1>o, <2>2, <2>4, <2>5 DEF ExtractOK, Cleared, Copying, RamdiskPC
  <2> QED  BY <1>b, <1>s, <1>o, <2>2, <2>5, <2>6
<1>2. CASE CreateWorkDir
  <2> SUFFICES ASSUME ~ FailExtraction PROVE (\A d \in Names : DirOK(d)') /\ ExtractOK' /\ BuildOK'
    BY <1>2, <1>f DEF CreateWorkDir
  <2>1. job' = [job EXCEPT !.pc = "parse"]
    BY <1>2 DEF CreateWorkDir
  <2>2. /\ job'.pc = "parse" /\ job'.n = job.n /\ job'.op = job.op
        /\ job'.work = job.work /\ job'.img = job.img /\ job'.dec = job.dec /\ job'.ok = job.ok
        /\ job'.unremoved = job.unremoved
    BY <1>t, <2>1 DEF Job
  <2>3. /\ job.pc = "mkdir" /\ present' = present \cup {job.work}
        /\ UNCHANGED <<config, node, tmp, build, buildtmp, gone, done>>
    BY <1>2 DEF CreateWorkDir
  <2>4. job.work \notin present /\ job.work \notin done /\ ~ job.ok
    BY <1>i, <1>o, <2>3 DEF ExtractOK
  <2>5. Bare(job.work)
    BY <1>o, <2>4 DEF DirOK
  <2>6. DirOK(job.work)'
    BY <1>o, <2>2, <2>3, <2>4, <2>5 DEF DirOK, Bare, NoConfig
  <2>7. ExtractOK'
    BY <1>o, <2>2, <2>3, <2>4, <2>5 DEF ExtractOK, Cleared, Copying, RamdiskPC, Bare, NoFiles, NoFile
  <2> QED  BY <1>b, <1>d, <1>o, <2>2, <2>3, <2>6, <2>7
<1>3. CASE ParseHeader
  <2> SUFFICES ASSUME ~ FailExtraction PROVE (\A d \in Names : DirOK(d)') /\ ExtractOK' /\ BuildOK'
    BY <1>3, <1>f DEF ParseHeader
  <2>1. job' = [job EXCEPT !.pc = "image", !.n = 1]
    BY <1>3 DEF ParseHeader
  <2>2. /\ job'.pc = "image" /\ job'.n = 1 /\ job'.op = job.op
        /\ job'.work = job.work /\ job'.img = job.img /\ job'.dec = job.dec /\ job'.ok = job.ok
        /\ job'.unremoved = job.unremoved
    BY <1>t, <2>1 DEF Job
  <2>3. job.pc = "parse" /\ UNCHANGED <<files, ghost>>
    BY <1>3 DEF ParseHeader
  <2>4. ExtractOK'
    BY <1>i, <1>o, <2>2, <2>3 DEF ExtractOK, Cleared, Copying, RamdiskPC, Copied
  <2> QED  BY <1>b, <1>s, <1>o, <2>2, <2>3, <2>4
<1>4. CASE OpenSection
  <2> SUFFICES ASSUME ~ FailExtraction PROVE (\A d \in Names : DirOK(d)') /\ ExtractOK' /\ BuildOK'
    BY <1>4, <1>f DEF OpenSection
  <2>1. job' = [job EXCEPT !.pc = "write"]
    BY <1>4 DEF OpenSection
  <2>2. /\ job'.pc = "write" /\ job'.n = job.n /\ job'.op = job.op
        /\ job'.work = job.work /\ job'.img = job.img /\ job'.dec = job.dec /\ job'.ok = job.ok
        /\ job'.unremoved = job.unremoved
    BY <1>t, <2>1 DEF Job
  <2>3. node' = [node EXCEPT ![job.work][Sections[job.n]] = Begun("file", Section(job.img))]
    BY <1>4 DEF OpenSection
  <2>4. Sections[job.n] \in Part /\ Begun("file", Section(job.img)) \in Content
    BY <1>4, <1>t, <1>o, <1>h, ContentTypes, FormTypes DEF OpenSection, RamdiskPC
  <2>5. /\ node'[job.work][Sections[job.n]] = Begun("file", Section(job.img))
        /\ \A q \in Part : q # Sections[job.n] => node'[job.work][q] = node[job.work][q]
    BY <1>t, <1>o, <2>3, <2>4, WriteAt
  <2>6. /\ job.pc = "image" /\ job.n \in 1 .. Len(Sections)
        /\ UNCHANGED <<present, config, tmp, build, buildtmp, out, ghost>>
    BY <1>4, <1>h DEF OpenSection
  <2>7. \A m \in 1 .. job.n - 1 : Sections[m] \in Part /\ Sections[m] # Sections[job.n]
    BY <1>o, <2>6, Tables, SectionTypes DEF Sections
  <2>8. Begun("file", Section(job.img)).kind = "file"
    BY DEF Begun
  <2>9. DirOK(job.work)'
    BY <1>i, <1>o, <2>2, <2>5, <2>6, <2>8 DEF DirOK, Bare, Unpacked, ExtractOK, Copying
  <2>10. Copied(job.n - 1)'
    BY <1>i, <1>o, <2>2, <2>5, <2>6, <2>7 DEF ExtractOK, Copied, Sections
  <2>11. ExtractOK'
    BY <1>i, <1>o, <2>2, <2>5, <2>6, <2>8, <2>10 DEF ExtractOK, Cleared, Copying, RamdiskPC
  <2> QED  BY <1>b, <1>d, <1>o, <2>2, <2>6, <2>9, <2>11
<1>5. CASE WriteSection
  <2> SUFFICES ASSUME ~ FailExtraction PROVE (\A d \in Names : DirOK(d)') /\ ExtractOK' /\ BuildOK'
    BY <1>5, <1>f DEF WriteSection
  <2>1. job' = [job EXCEPT !.pc = "image", !.n = job.n + 1]
    BY <1>5 DEF WriteSection
  <2>2. /\ job'.pc = "image" /\ job'.n = job.n + 1 /\ job'.op = job.op
        /\ job'.work = job.work /\ job'.img = job.img /\ job'.dec = job.dec /\ job'.ok = job.ok
        /\ job'.unremoved = job.unremoved
    BY <1>t, <2>1 DEF Job
  <2>3. node' = [node EXCEPT ![job.work][Sections[job.n]] = Section(job.img)]
    BY <1>5 DEF WriteSection
  <2>4. Sections[job.n] \in Part /\ Section(job.img) \in Content
    BY <1>5, <1>t, <1>o, <1>h, ContentTypes DEF WriteSection, RamdiskPC
  <2>5. /\ node'[job.work][Sections[job.n]] = Section(job.img)
        /\ \A q \in Part : q # Sections[job.n] => node'[job.work][q] = node[job.work][q]
    BY <1>t, <1>o, <2>3, <2>4, WriteAt
  <2>6. /\ job.pc = "write" /\ job.n \in 1 .. Len(Sections)
        /\ UNCHANGED <<present, config, tmp, build, buildtmp, out, ghost>>
    BY <1>5, <1>t DEF WriteSection, JobOK
  <2>7. \A m \in 1 .. job.n - 1 : Sections[m] \in Part /\ Sections[m] # Sections[job.n]
    BY <1>o, <2>6, Tables, SectionTypes DEF Sections
  <2>8. Section(job.img).kind = "file" /\ FromImage(Section(job.img), job.img)
    BY DEF Section, FromImage
  <2>9. /\ job.work \in present /\ job.work \notin done /\ ~ job.ok
        /\ tmp[job.work] = NoFiles /\ \A p \in Part : node[job.work][p].kind # "dir"
        /\ \A m \in 1 .. job.n - 1 : FromImage(node[job.work][Sections[m]], job.img)
    BY <1>i, <1>o, <2>6 DEF ExtractOK, Cleared, Copying, Copied
  <2>10. DirOK(job.work)'
    BY <1>o, <2>2, <2>5, <2>6, <2>8, <2>9 DEF DirOK
  <2>11. job'.n - 1 = job.n /\ job.n \in Nat
    BY <1>t, <2>2 DEF Job
  <2>12. Copied(job.n - 1)'
    <3> SUFFICES ASSUME NEW k \in 1 .. job.n
                 PROVE  FromImage(node'[job.work][Sections[k]], job.img)
      BY <2>2, <2>11 DEF Copied, Sections
    <3>1. CASE k = job.n
      BY <2>5, <2>8, <3>1
    <3>2. CASE k \in 1 .. job.n - 1
      BY <2>5, <2>7, <2>9, <3>2
    <3> QED  BY <2>11, <3>1, <3>2
  <2>13. ExtractOK'
    BY <1>o, <2>2, <2>5, <2>6, <2>8, <2>12, <2>9 DEF ExtractOK, Cleared, Copying, RamdiskPC
  <2> QED  BY <1>b, <1>d, <1>o, <2>2, <2>6, <2>10, <2>13
<1>6. CASE AllSections
  <2>1. job' = [job EXCEPT !.pc = "config"]
    BY <1>6 DEF AllSections
  <2>2. /\ job'.pc = "config" /\ job'.n = job.n /\ job'.op = job.op
        /\ job'.work = job.work /\ job'.img = job.img /\ job'.dec = job.dec /\ job'.ok = job.ok
        /\ job'.unremoved = job.unremoved
    BY <1>t, <2>1 DEF Job
  <2>3. /\ job.pc = "image" /\ job.n > Len(Sections) /\ UNCHANGED <<files, ghost>>
    BY <1>6 DEF AllSections
  <2>4. job.n = Len(Sections) + 1
    <3>1. job.n \in 1 .. Len(Sections) + 1
      BY <1>t, <2>3 DEF JobOK
    <3>2. Len(Sections) \in Nat
      BY <1>o, SectionTypes DEF Sections
    <3> QED  BY <2>3, <3>1, <3>2
  <2>5. Copied(Len(Sections))'
    BY <1>i, <1>o, <2>2, <2>3, <2>4, SectionTypes DEF ExtractOK, Copied, Sections
  <2>6. ExtractOK'
    BY <1>i, <1>o, <2>2, <2>3, <2>5 DEF ExtractOK, Cleared, Copying, RamdiskPC, Sections
  <2> QED  BY <1>b, <1>s, <1>o, <2>2, <2>3, <2>6
<1>7. CASE WriteConfig
  <2>1. job' = [job EXCEPT !.pc = "sign"]
    BY <1>7 DEF WriteConfig
  <2>2. /\ job'.pc = "sign" /\ job'.n = job.n /\ job'.op = job.op
        /\ job'.work = job.work /\ job'.img = job.img /\ job'.dec = job.dec /\ job'.ok = job.ok
        /\ job'.unremoved = job.unremoved
    BY <1>t, <2>1 DEF Job
  <2>3. /\ job.pc = "config" /\ UNCHANGED <<present, node, tmp, build, buildtmp, out, ghost>>
        /\ config'[job.work].state = "unsigned"
    BY <1>7, <1>t, <1>o DEF WriteConfig
  <2>4. DirOK(job.work)'
    BY <1>i, <1>o, <2>2, <2>3 DEF DirOK, Bare, ExtractOK, Copying
  <2>5. ExtractOK'
    BY <1>i, <1>o, <2>2, <2>3 DEF ExtractOK, Cleared, Copying, RamdiskPC, Copied, Sections
  <2> QED  BY <1>b, <1>d, <1>o, <2>2, <2>3, <2>4, <2>5
<1>8. CASE SignConfig
  <2> SUFFICES ASSUME ~ FailExtraction PROVE (\A d \in Names : DirOK(d)') /\ ExtractOK' /\ BuildOK'
    BY <1>8, <1>f DEF SignConfig
  <2>1. job' = [job EXCEPT !.pc = "ramdisk", !.n = 1]
    BY <1>8 DEF SignConfig
  <2>2. /\ job'.pc = "ramdisk" /\ job'.n = 1 /\ job'.op = job.op
        /\ job'.work = job.work /\ job'.img = job.img /\ job'.dec = job.dec /\ job'.ok = job.ok
        /\ job'.unremoved = job.unremoved
    BY <1>t, <2>1 DEF Job
  <2>3. /\ job.pc = "sign" /\ UNCHANGED <<present, node, tmp, build, buildtmp, out, ghost>>
        /\ config' = [config EXCEPT ![job.work].state = "signed"]
    BY <1>8 DEF SignConfig
  <2>4. config[job.work] = [state |-> "unsigned", img |-> job.img, dec |-> job.dec]
    BY <1>t, <2>3 DEF JobOK
  <2>5. ConfigAtHand'
    BY <1>t, <1>o, <2>2, <2>3, <2>4 DEF ConfigAtHand
  <2>6. \A p \in Elems(Sections) : FromImage(node[job.work][p], job.img)
    BY <1>i, <1>o, <2>3, Tables DEF ExtractOK, Copied, Sections
  <2>7. DirOK(job.work)'
    BY <1>i, <1>o, <2>2, <2>3, <2>5 DEF DirOK, Bare, ExtractOK, Copying, ConfigAtHand
  <2>8. ExtractOK'
    <3>1. tmp[job.work] = NoFiles /\ job.work \in present /\ job.work \notin done /\ ~ job.ok
      BY <1>i, <1>o, <2>3 DEF ExtractOK, Copying
    <3>2. Cleared'
      BY <1>o, <2>2, <2>3, <3>1 DEF Cleared, NoFiles
    <3> QED  BY <1>o, <2>2, <2>3, <2>5, <2>6, <3>1, <3>2
         DEF ExtractOK, Copying, RamdiskPC, Sections, ghost
  <2> QED  BY <1>b, <1>d, <1>o, <2>2, <2>3, <2>7, <2>8
<1>9. CASE KeepRamdisk
  <2>1. job' = [job EXCEPT !.n = job.n + 1]
    BY <1>9 DEF KeepRamdisk
  <2>2. /\ job'.pc = job.pc /\ job'.n = job.n + 1 /\ job'.op = job.op
        /\ job'.work = job.work /\ job'.img = job.img /\ job'.dec = job.dec /\ job'.ok = job.ok
        /\ job'.unremoved = job.unremoved
    BY <1>t, <2>1 DEF Job
  <2>3. job.pc = "ramdisk" /\ UNCHANGED <<files, ghost>>
    BY <1>9 DEF KeepRamdisk
  <2>4. ExtractOK'
    BY <1>i, <1>o, <2>2, <2>3 DEF ExtractOK, Cleared, Copying, RamdiskPC, ConfigAtHand, Sections
  <2> QED  BY <1>b, <1>s, <1>o, <2>2, <2>3, <2>4
<1>10. CASE RenameRamdisk
  <2> SUFFICES ASSUME ~ FailExtraction PROVE (\A d \in Names : DirOK(d)') /\ ExtractOK' /\ BuildOK'
    BY <1>10, <1>f DEF RenameRamdisk
  <2>1. job' = [job EXCEPT !.pc = "untardir"]
    BY <1>10 DEF RenameRamdisk
  <2>2. /\ job'.pc = "untardir" /\ job'.n = job.n /\ job'.op = job.op
        /\ job'.work = job.work /\ job'.img = job.img /\ job'.dec = job.dec /\ job'.ok = job.ok
        /\ job'.unremoved = job.unremoved
    BY <1>t, <2>1 DEF Job
  <2>3. tmp' = [tmp EXCEPT ![job.work][Rd] = As("cpio", node[job.work][Rd])]
    BY <1>10 DEF RenameRamdisk
  <2>4. Rd \in Part /\ As("cpio", node[job.work][Rd]) \in Content
    BY <1>10, <1>t, <1>o, <1>h, FormTypes DEF RenameRamdisk, RamdiskPC
  <2>5. /\ tmp'[job.work][Rd] = As("cpio", node[job.work][Rd])
        /\ \A q \in Part : q # Rd => tmp'[job.work][q] = tmp[job.work][q]
    BY <1>t, <1>o, <2>3, <2>4, WriteAt
  <2>6. node' = [node EXCEPT ![job.work][Rd] = NoFile]
    BY <1>10 DEF RenameRamdisk
  <2>7. Rd \in Part /\ NoFile \in Content
    BY <1>10, <1>t, <1>o, <1>h, ContentTypes DEF RenameRamdisk, RamdiskPC
  <2>8. /\ node'[job.work][Rd] = NoFile
        /\ \A q \in Part : q # Rd => node'[job.work][q] = node[job.work][q]
    BY <1>t, <1>o, <2>6, <2>7, WriteAt
  <2>9. /\ job.pc = "ramdisk" /\ job.dec /\ Format[job.img][Rd] = "none"
        /\ Rd \in Elems(Sections) /\ UNCHANGED <<present, config, build, buildtmp, out, ghost>>
    BY <1>10, <1>o, <1>h, Listed DEF RenameRamdisk, Rd, Ramdisks, Sections
  <2>10. tmp'[job.work][Rd].whole /\ tmp'[job.work][Rd].img = job.img
    BY <1>i, <1>o, <2>5, <2>9 DEF ExtractOK, FromImage, As
  <2>11. DirOK(job.work)'
    BY <1>i, <1>o, <2>2, <2>8, <2>9 DEF DirOK, Bare, Unpacked, ExtractOK, NoFile
  <2>12. ExtractOK'
    BY <1>i, <1>o, <2>2, <2>5, <2>8, <2>9, <2>10, Listed
       DEF ExtractOK, Cleared, Copying, RamdiskPC, ConfigAtHand, Sections, Rd, Ramdisks, NoFiles
  <2> QED  BY <1>b, <1>d, <1>o, <2>2, <2>9, <2>11, <2>12
<1>11. CASE BeginInflate
  <2>1. job' = [job EXCEPT !.pc = "inflate"]
    BY <1>11 DEF BeginInflate
  <2>2. /\ job'.pc = "inflate" /\ job'.n = job.n /\ job'.op = job.op
        /\ job'.work = job.work /\ job'.img = job.img /\ job'.dec = job.dec /\ job'.ok = job.ok
        /\ job'.unremoved = job.unremoved
    BY <1>t, <2>1 DEF Job
  <2>3. tmp' = [tmp EXCEPT ![job.work][Rd] = Begun("cpio", node[job.work][Rd])]
    BY <1>11 DEF BeginInflate
  <2>4. Rd \in Part /\ Begun("cpio", node[job.work][Rd]) \in Content
    BY <1>11, <1>t, <1>o, <1>h, FormTypes DEF BeginInflate, RamdiskPC
  <2>5. /\ tmp'[job.work][Rd] = Begun("cpio", node[job.work][Rd])
        /\ \A q \in Part : q # Rd => tmp'[job.work][q] = tmp[job.work][q]
    BY <1>t, <1>o, <2>3, <2>4, WriteAt
  <2>6. /\ job.pc = "ramdisk" /\ job.dec /\ Format[job.img][Rd] # "other"
        /\ Rd \in Elems(Sections) /\ UNCHANGED <<present, config, node, build, buildtmp, out, ghost>>
    BY <1>11, <1>o, <1>h, Listed DEF BeginInflate, Rd, Ramdisks, Sections, Compressors
  <2>7. DirOK(job.work)'
    BY <1>i, <1>o, <2>2, <2>6 DEF DirOK, Bare, Unpacked, ExtractOK
  <2>8. ExtractOK'
    BY <1>i, <1>o, <2>2, <2>5, <2>6
       DEF ExtractOK, Cleared, Copying, RamdiskPC, ConfigAtHand, Sections, Rd, Ramdisks, NoFiles
  <2> QED  BY <1>b, <1>d, <1>o, <2>2, <2>6, <2>7, <2>8
<1>12. CASE EndInflate
  <2>1. /\ job.pc = "inflate" /\ Rd \in Part /\ UNCHANGED <<present, config, node, build, buildtmp, out, ghost>>
    BY <1>12, <1>h DEF EndInflate, RamdiskPC
  <2>2. job'.work = job.work
    BY <1>12, <1>t DEF EndInflate, Job
  <2>3. DirOK(job.work)'
    BY <1>i, <1>o, <2>2, <2>1 DEF DirOK, Bare, Unpacked, ExtractOK, RamdiskPC
  <2>4. CASE tmp' = [tmp EXCEPT ![job.work][Rd] = NoFile] /\ job' = [job EXCEPT !.pc = "cleanup"]
    <3>1. job'.pc = "cleanup" /\ job'.op = job.op /\ job'.work = job.work /\ job'.ok = job.ok
      BY <1>t, <2>4 DEF Job
    <3>2. ExtractOK'
      BY <1>i, <1>o, <2>1, <3>1 DEF ExtractOK, Cleared, Copying, RamdiskPC
    <3> QED  BY <1>b, <1>d, <1>o, <2>1, <2>3, <3>1, <3>2
  <2>5. CASE /\ tmp' = [tmp EXCEPT ![job.work][Rd] = As("cpio", node[job.work][Rd])]
             /\ job' = [job EXCEPT !.pc = "unlink"]
    <3>1. /\ job'.pc = "unlink" /\ job'.n = job.n /\ job'.op = job.op
          /\ job'.work = job.work /\ job'.img = job.img /\ job'.dec = job.dec /\ job'.ok = job.ok
          /\ job'.unremoved = job.unremoved
      BY <1>t, <2>5 DEF Job
    <3>2. As("cpio", node[job.work][Rd]) \in Content
      BY <1>t, <1>o, <2>1, FormTypes
    <3>3. /\ tmp'[job.work][Rd] = As("cpio", node[job.work][Rd])
          /\ \A q \in Part : q # Rd => tmp'[job.work][q] = tmp[job.work][q]
      BY <1>t, <1>o, <2>1, <2>5, <3>2, WriteAt
    <3>4. tmp'[job.work][Rd].whole /\ tmp'[job.work][Rd].img = job.img
      BY <1>i, <1>o, <2>1, <3>3 DEF ExtractOK, FromImage, As
    <3>5. ExtractOK'
      BY <1>i, <1>o, <2>1, <3>1, <3>3, <3>4
         DEF ExtractOK, Cleared, Copying, RamdiskPC, ConfigAtHand, Sections, Rd, Ramdisks
    <3> QED  BY <1>b, <1>d, <1>o, <2>1, <2>3, <3>1, <3>5
  <2> QED  BY <1>12, <2>4, <2>5 DEF EndInflate
<1>13. CASE RemoveInput
  <2> SUFFICES ASSUME ~ FailExtraction PROVE (\A d \in Names : DirOK(d)') /\ ExtractOK' /\ BuildOK'
    BY <1>13, <1>f DEF RemoveInput
  <2>1. job' = [job EXCEPT !.pc = "untardir"]
    BY <1>13 DEF RemoveInput
  <2>2. /\ job'.pc = "untardir" /\ job'.n = job.n /\ job'.op = job.op
        /\ job'.work = job.work /\ job'.img = job.img /\ job'.dec = job.dec /\ job'.ok = job.ok
        /\ job'.unremoved = job.unremoved
    BY <1>t, <2>1 DEF Job
  <2>3. node' = [node EXCEPT ![job.work][Rd] = NoFile]
    BY <1>13 DEF RemoveInput
  <2>4. Rd \in Part /\ NoFile \in Content
    BY <1>13, <1>t, <1>o, <1>h, ContentTypes DEF RemoveInput, RamdiskPC
  <2>5. /\ node'[job.work][Rd] = NoFile
        /\ \A q \in Part : q # Rd => node'[job.work][q] = node[job.work][q]
    BY <1>t, <1>o, <2>3, <2>4, WriteAt
  <2>6. job.pc = "unlink" /\ UNCHANGED <<present, config, tmp, build, buildtmp, out, ghost>>
    BY <1>13 DEF RemoveInput
  <2>7. DirOK(job.work)'
    BY <1>i, <1>o, <2>2, <2>5, <2>6 DEF DirOK, Bare, Unpacked, ExtractOK, RamdiskPC, NoFile
  <2>8. ExtractOK'
    BY <1>i, <1>o, <2>2, <2>5, <2>6, Listed
       DEF ExtractOK, Cleared, Copying, RamdiskPC, ConfigAtHand, Sections, Rd, Ramdisks
  <2> QED  BY <1>b, <1>d, <1>o, <2>2, <2>6, <2>7, <2>8
<1>14. CASE BeginUntar
  <2> SUFFICES ASSUME ~ FailExtraction PROVE (\A d \in Names : DirOK(d)') /\ ExtractOK' /\ BuildOK'
    BY <1>14, <1>f DEF BeginUntar
  <2>1. job' = [job EXCEPT !.pc = "untar"]
    BY <1>14 DEF BeginUntar
  <2>2. /\ job'.pc = "untar" /\ job'.n = job.n /\ job'.op = job.op
        /\ job'.work = job.work /\ job'.img = job.img /\ job'.dec = job.dec /\ job'.ok = job.ok
        /\ job'.unremoved = job.unremoved
    BY <1>t, <2>1 DEF Job
  <2>3. node' = [node EXCEPT ![job.work][Rd] = Begun("dir", tmp[job.work][Rd])]
    BY <1>14 DEF BeginUntar
  <2>4. Rd \in Part /\ Begun("dir", tmp[job.work][Rd]) \in Content
    BY <1>14, <1>t, <1>o, <1>h, FormTypes DEF BeginUntar, RamdiskPC
  <2>5. /\ node'[job.work][Rd] = Begun("dir", tmp[job.work][Rd])
        /\ \A q \in Part : q # Rd => node'[job.work][q] = node[job.work][q]
    BY <1>t, <1>o, <2>3, <2>4, WriteAt
  <2>6. job.pc = "untardir" /\ UNCHANGED <<present, config, tmp, build, buildtmp, out, ghost>>
    BY <1>14 DEF BeginUntar
  <2>7. /\ Begun("dir", tmp[job.work][Rd]).kind = "dir"
        /\ Rd \in Elems(RamdisksOf[job.img])
    BY <1>t, <1>o, <2>6, Listed DEF Begun, Rd, Ramdisks, JobOK, RamdiskPC
  <2>8. DirOK(job.work)'
    BY <1>i, <1>o, <2>2, <2>5, <2>6, <2>7
       DEF DirOK, Bare, Unpacked, ExtractOK, RamdiskPC, ConfigAtHand
  <2>9. ExtractOK'
    BY <1>i, <1>o, <2>2, <2>5, <2>6, Listed
       DEF ExtractOK, Cleared, Copying, RamdiskPC, ConfigAtHand, Sections, Rd, Ramdisks
  <2> QED  BY <1>b, <1>d, <1>o, <2>2, <2>6, <2>8, <2>9
<1>15. CASE EndUntar
  <2> SUFFICES ASSUME ~ FailExtraction PROVE (\A d \in Names : DirOK(d)') /\ ExtractOK' /\ BuildOK'
    BY <1>15, <1>f DEF EndUntar
  <2>1. job' = [job EXCEPT !.pc = "rmtmp"]
    BY <1>15 DEF EndUntar
  <2>2. /\ job'.pc = "rmtmp" /\ job'.n = job.n /\ job'.op = job.op
        /\ job'.work = job.work /\ job'.img = job.img /\ job'.dec = job.dec /\ job'.ok = job.ok
        /\ job'.unremoved = job.unremoved
    BY <1>t, <2>1 DEF Job
  <2>3. node' = [node EXCEPT ![job.work][Rd] = As("dir", tmp[job.work][Rd])]
    BY <1>15 DEF EndUntar
  <2>4. Rd \in Part /\ As("dir", tmp[job.work][Rd]) \in Content
    BY <1>15, <1>t, <1>o, <1>h, FormTypes DEF EndUntar, RamdiskPC
  <2>5. /\ node'[job.work][Rd] = As("dir", tmp[job.work][Rd])
        /\ \A q \in Part : q # Rd => node'[job.work][q] = node[job.work][q]
    BY <1>t, <1>o, <2>3, <2>4, WriteAt
  <2>6. job.pc = "untar" /\ UNCHANGED <<present, config, tmp, build, buildtmp, out, ghost>>
    BY <1>15 DEF EndUntar
  <2>7. /\ As("dir", tmp[job.work][Rd]).kind = "dir"
        /\ Rd \in Elems(RamdisksOf[job.img])
    BY <1>t, <1>o, <2>6, Listed DEF As, Rd, Ramdisks, JobOK, RamdiskPC
  <2>8. DirOK(job.work)'
    BY <1>i, <1>o, <2>2, <2>5, <2>6, <2>7
       DEF DirOK, Bare, Unpacked, ExtractOK, RamdiskPC, ConfigAtHand
  <2>9. FromImage(node'[job.work][Rd], job.img)
    BY <1>i, <1>o, <2>5, <2>6 DEF ExtractOK, FromImage, As
  <2>10. ExtractOK'
    BY <1>i, <1>o, <2>2, <2>5, <2>6, <2>9, Listed
       DEF ExtractOK, Cleared, Copying, RamdiskPC, ConfigAtHand, Sections, Rd, Ramdisks
  <2> QED  BY <1>b, <1>d, <1>o, <2>2, <2>6, <2>8, <2>10
<1>16. CASE RemoveArchive
  <2>1. job.pc = "rmtmp" /\ UNCHANGED <<present, config, node, build, buildtmp, out, ghost>>
    BY <1>16 DEF RemoveArchive
  <2>2. /\ job'.pc = "ramdisk" /\ job'.n = job.n + 1 /\ job'.op = job.op
        /\ job'.work = job.work /\ job'.img = job.img /\ job'.dec = job.dec /\ job'.ok = job.ok
    BY <1>16, <1>t DEF RemoveArchive, Job
  <2>3. \/ tmp' = [tmp EXCEPT ![job.work][Rd] = NoFile] /\ job'.unremoved = job.unremoved
        \/ tmp' = tmp /\ job'.unremoved = job.unremoved \cup {Rd}
    BY <1>16, <1>t DEF RemoveArchive, Job
  <2>4. Rd \in Part /\ NoFile \in Content
    BY <1>16, <1>t, <1>o, <1>h, ContentTypes DEF RemoveArchive, RamdiskPC
  <2>5. /\ Rd \in job'.unremoved \/ tmp'[job.work][Rd] = NoFile
        /\ job.unremoved \subseteq job'.unremoved
        /\ \A q \in Part : q # Rd => tmp'[job.work][q] = tmp[job.work][q]
    BY <1>t, <1>o, <2>3, <2>4, WriteAt
  <2>6. \A q \in Part \ job.unremoved : q # Rd => tmp[job.work][q] = NoFile
    BY <1>i, <1>o, <2>1 DEF ExtractOK, RamdiskPC
  <2>7. Cleared'
    BY <2>2, <2>5, <2>6 DEF Cleared
  <2>8. \A p \in Elems(Sections) : FromImage(node[job.work][p], job.img)
    BY <1>i, <1>o, <2>1 DEF ExtractOK, RamdiskPC
  <2>9. DirOK(job.work)'
    BY <1>i, <1>o, <2>1, <2>2 DEF DirOK, Bare, Unpacked, ExtractOK, RamdiskPC
  <2>10. ExtractOK'
    BY <1>i, <1>o, <2>1, <2>2, <2>7, <2>8 DEF ExtractOK, Copying, RamdiskPC, ConfigAtHand, Sections
  <2> QED  BY <1>b, <1>d, <1>o, <2>1, <2>2, <2>9, <2>10
<1>17. CASE ExtractionDone
  <2>1. /\ job' = [job EXCEPT !.pc = "done", !.ok = TRUE] /\ job.pc = "ramdisk"
        /\ done' = done \cup {job.work} /\ UNCHANGED <<files, gone>>
    BY <1>17 DEF ExtractionDone
  <2>2. job'.pc = "done" /\ job'.op = job.op /\ job'.work = job.work
        /\ job'.unremoved = job.unremoved
    BY <1>t, <2>1 DEF Job
  <2>3. DirOK(job.work)'
    BY <1>i, <1>o, <2>1, <2>2 DEF DirOK, Bare, Unpacked, ExtractOK, ConfigAtHand, Sections
  <2>4. ExtractOK'
    BY <1>i, <1>o, <2>1, <2>2 DEF ExtractOK, Cleared, Copying, RamdiskPC
  <2> QED  BY <1>b, <1>d, <1>o, <2>1, <2>2, <2>3, <2>4
<1>c. ASSUME job.pc = "cleanup"
      PROVE  CleanupTarget \in Names /\ ~ job.ok /\ job.work \notin done
  BY <1>c, <1>i, <1>o, StoreAssumption DEF CleanupTarget, Names, Copies, ExtractOK
<1>e. ASSUME job.pc = "cleanup", UNCHANGED job, done' = done \ {CleanupTarget} PROVE ExtractOK'
  BY <1>c, <1>e, <1>o DEF ExtractOK, Cleared, Copying, RamdiskPC
<1>18. CASE CleanupPart
  <2>1. /\ job.pc = "cleanup" /\ done' = done \ {CleanupTarget}
        /\ UNCHANGED <<present, config, out, job>>
    BY <1>18 DEF CleanupPart
  <2>2. PICK p \in Part : HasFiles(CleanupTarget, p) /\ RemovePart(CleanupTarget, p)
    BY <1>18 DEF CleanupPart
  <2>3. CleanupTarget \in Names
    BY <1>c, <2>1
  <2>4. build \in [Names -> [Part -> Content]]
    BY <1>t DEF TypeOK
  <2>5. /\ CleanupTarget' = CleanupTarget /\ CleanupTarget \notin done'
        /\ \A q \in Part : node'[CleanupTarget][q] \in {node[CleanupTarget][q], NoFile}
    BY <1>t, <2>1, <2>2, <2>3 DEF RemovePart, CleanupTarget
  <2>6. CleanupTarget \in present
    BY <1>i, <2>2, <2>3 DEF HasFiles, DirOK, Bare, NoFiles
  <2>7. DirOK(CleanupTarget)'
    BY <1>i, <2>1, <2>3, <2>5, <2>6 DEF DirOK, Unpacked, NoFile
  <2>8. ASSUME NEW d \in Names, d # CleanupTarget PROVE DirOK(d)'
    <3>1. Files(d)' = Files(d) /\ gone'[d] = gone[d]
      BY <1>t, <2>1, <2>2, <2>3, <2>4, <2>8 DEF RemovePart, Files
    <3> QED  BY <1>i, <2>1, <3>1, SameDirectory
  <2>9. \A d \in Names : DirOK(d)'
    BY <2>7, <2>8, <2>5
  <2>10. job'.op = "extract"
    BY <1>o, <2>1
  <2> QED  BY <1>b, <1>e, <2>1, <2>9, <2>10
<1>19. CASE CleanupConfig
  <2>1. /\ job.pc = "cleanup" /\ done' = done \ {CleanupTarget}
        /\ config' = [config EXCEPT ![CleanupTarget] = NoConfig]
        /\ UNCHANGED <<present, node, tmp, build, buildtmp, out, job, gone>>
    BY <1>19 DEF CleanupConfig
  <2>2. CleanupTarget \in Names
    BY <1>c, <2>1
  <2>3. CleanupTarget' = CleanupTarget
    BY <2>1 DEF CleanupTarget
  <2>4. DirOK(CleanupTarget)'
    BY <1>t, <1>i, <2>1, <2>2, <2>3 DEF DirOK, Bare, NoConfig
  <2>5. ASSUME NEW d \in Names, d # CleanupTarget PROVE DirOK(d)'
    <3>1. Files(d)' = Files(d) /\ gone'[d] = gone[d]
      BY <1>t, <2>1, <2>2, <2>5 DEF Files
    <3> QED  BY <1>i, <2>1, <3>1, SameDirectory
  <2>6. \A d \in Names : DirOK(d)'
    BY <2>4, <2>5, <2>3
  <2>7. job'.op = "extract"
    BY <1>o, <2>1
  <2> QED  BY <1>b, <1>e, <2>1, <2>6, <2>7
<1>20. CASE CleanupEnd
  <2>1. job.pc = "cleanup" /\ job' = [job EXCEPT !.pc = "done"]
    BY <1>20 DEF CleanupEnd
  <2>2. job'.pc = "done" /\ job'.op = job.op /\ ~ job'.ok
    BY <1>t, <1>c, <2>1 DEF Job
  <2>3. ExtractOK'
    BY <2>2 DEF ExtractOK, Cleared, Copying, RamdiskPC
  <2>4. CleanupTarget \in Names
    BY <1>c, <2>1
  <2>5. CASE RemoveTree(CleanupTarget)
    BY <1>b, <1>t, <1>i, <1>o, <2>2, <2>3, <2>4, <2>5, RemovedDirectory
  <2>6. CASE UNCHANGED <<files, ghost>>
    BY <1>b, <1>i, <1>o, <2>2, <2>3, <2>6, SameDirectory DEF Files
  <2> QED  BY <1>20, <2>5, <2>6 DEF CleanupEnd
<1> QED
  BY <1>1, <1>2, <1>3, <1>4, <1>5, <1>6, <1>7, <1>8, <1>9, <1>10, <1>11, <1>12, <1>13,
     <1>14, <1>15, <1>16, <1>17, <1>18, <1>19, <1>20 DEF ExtractStep

-----------------------------------------------------------------------------
(* The steps of a build. *)

\* A build writes <ramdisk>.build and the image, and nothing else.
LEMMA BuildWrites ==
    ASSUME TypeOK, BuildStep
    PROVE  /\ job.op = "build" /\ job'.op = "build"
           /\ job.work \in Names /\ job'.work = job.work
           /\ UNCHANGED <<present, config, node, tmp, done, gone>>
           /\ \A d \in Names : d # job.work =>
                 build'[d] = build[d] /\ buildtmp'[d] = buildtmp[d]
<1> USE DEF files, ghost, Building, Goto, AbortBuild
<1>t. job \in Job /\ JobOK /\ build \in [Names -> [Part -> Content]]
      /\ buildtmp \in [Names -> SUBSET Part]
  BY DEF TypeOK
<1>1. job.op = "build" /\ UNCHANGED <<present, config, node, tmp, done, gone>>
  BY DEF BuildStep, ValidateConfig, BeginCpio, EndCpio, BeginCompress, EndCompress, BeginCopy,
         CopyFailed, EndCopy, AllRamdisks, OpenOutput, WriteImage, TryClean, Tidy
<1>2. job'.op = "build" /\ job'.work = job.work
  BY <1>1, <1>t DEF BuildStep, ValidateConfig, BeginCpio, EndCpio, BeginCompress,
     EndCompress, BeginCopy, CopyFailed, EndCopy, AllRamdisks, OpenOutput, WriteImage, TryClean,
     Tidy, Job
<1>3. job.work \in Names
  BY <1>1, <1>t DEF JobOK
<1>4. \A d \in Names : d # job.work => build'[d] = build[d] /\ buildtmp'[d] = buildtmp[d]
  <2>1. CASE ValidateConfig \/ AllRamdisks \/ OpenOutput \/ WriteImage
    BY <2>1 DEF ValidateConfig, AllRamdisks, OpenOutput, WriteImage
  <2>2. CASE BeginCpio \/ EndCpio
    BY <2>2, <1>t, <1>3 DEF BeginCpio, EndCpio
  <2>3. CASE BeginCompress \/ EndCompress
    BY <2>3, <1>t, <1>3 DEF BeginCompress, EndCompress
  <2>4. CASE BeginCopy \/ EndCopy \/ TryClean
    BY <2>4, <1>t, <1>3 DEF BeginCopy, EndCopy, CopyFailed, TryClean, Tidy
  <2> QED  BY <2>1, <2>2, <2>3, <2>4 DEF BuildStep
<1> QED  BY <1>1, <1>2, <1>3, <1>4

\* Every step of a build keeps the invariant.
LEMMA BuildDoneInv ==
    DoneInv /\ BuildStep => (\A d \in Names : DirOK(d)') /\ ExtractOK' /\ BuildOK'
<1> SUFFICES ASSUME DoneInv, BuildStep
             PROVE  (\A d \in Names : DirOK(d)') /\ ExtractOK' /\ BuildOK'
  OBVIOUS
<1> USE DEF files, ghost, Building, Goto
<1>t. /\ TypeOK /\ JobOK /\ job \in Job
      /\ config \in [Names -> Config] /\ present \in SUBSET Names
      /\ node \in [Names -> [Part -> Content]]
      /\ build \in [Names -> [Part -> Content]]
      /\ buildtmp \in [Names -> SUBSET Part]
      /\ out \in [Names -> Output]
  BY DEF DoneInv, TypeOK
<1>i. BuildOK /\ \A d \in Names : DirOK(d)
  BY DEF DoneInv
<1>o. /\ job.op = "build" /\ job'.op = "build"
      /\ job.work \in Names /\ job'.work = job.work
      /\ UNCHANGED <<present, config, node, tmp, done, gone>>
      /\ \A d \in Names : d # job.work => build'[d] = build[d] /\ buildtmp'[d] = buildtmp[d]
  BY <1>t, BuildWrites
<1>h. /\ job.pc \in RamdiskPC => job.img \in Image /\ Rd \in Part /\ job.n \in 1 .. Len(Ramdisks)
      /\ job.pc = "pack" /\ job.n <= Len(Ramdisks) =>
            job.img \in Image /\ Rd \in Part /\ job.n \in 1 .. Len(Ramdisks)
  BY <1>t, AtHand DEF JobOK
<1>c. job.pc \notin {"validate", "done"} => ConfigAtHand /\ job.img \in Image /\ job.work \in present
  <2> SUFFICES ASSUME job.pc \notin {"validate", "done"}
               PROVE  ConfigAtHand /\ job.img \in Image /\ job.work \in present
    OBVIOUS
  <2>1. ConfigAtHand
    BY <1>i, <1>o DEF BuildOK
  <2>2. job.img \in Image
    BY <1>t, <1>o DEF JobOK
  <2>3. config[job.work] # NoConfig
    BY <2>1 DEF ConfigAtHand, NoConfig
  <2> QED  BY <1>i, <1>o, <2>1, <2>2, <2>3 DEF DirOK, Bare
<1>d. \A d \in Names : DirOK(d)'
  <2> SUFFICES ASSUME NEW d \in Names PROVE DirOK(d)'
    OBVIOUS
  <2>1. CASE d \notin present
    <3>1. build'[d] = build[d] /\ buildtmp'[d] = buildtmp[d]
      <4>1. CASE d = job.work
        <5>1. job.pc \in {"validate", "done"}
          BY <1>c, <2>1, <4>1
        <5> QED  BY <5>1 DEF BuildStep, ValidateConfig, BeginCpio, EndCpio, BeginCompress,
                 EndCompress, BeginCopy, EndCopy, AllRamdisks, OpenOutput, WriteImage, TryClean,
                 AbortBuild
      <4> QED  BY <1>o, <4>1
    <3> QED  BY <1>i, <1>o, <3>1 DEF DirOK, Bare, Unpacked
  <2>2. CASE d \in present
    BY <1>i, <1>o, <2>2 DEF DirOK, Bare, Unpacked
  <2> QED  BY <2>1, <2>2
<1>e. ExtractOK'
  BY <1>o DEF ExtractOK
<1> SUFFICES BuildOK'
  BY <1>d, <1>e
<1>k. job.pc \notin {"tidy", "done"} => ~ job.ok
  BY <1>i, <1>o DEF BuildOK
<1>a. ASSUME AbortBuild, job.pc \notin {"tidy", "done"} PROVE BuildOK'
  <2>1. job'.pc = "done" /\ ~ job'.ok
    BY <1>t, <1>a, <1>k DEF AbortBuild, Job
  <2> QED  BY <2>1 DEF BuildOK
<1>g. ASSUME job.pc \notin {"validate", "done"}, job'.img = job.img, job'.dec = job.dec
      PROVE  ConfigAtHand'
  BY <1>c, <1>g, <1>o DEF ConfigAtHand
<1>r. ASSUME job.pc \notin {"validate", "done"}, job.n \in 1 .. Len(Ramdisks)
      PROVE  \A m \in 1 .. job.n - 1 : Ramdisks[m] \in Part /\ Ramdisks[m] # Rd
  <2>1. job.img \in Image
    BY <1>c, <1>r
  <2> QED  BY <1>r, <2>1, Tables, SectionTypes DEF Ramdisks, Rd
<1>1. CASE ValidateConfig
  <2>1. job.pc = "validate" /\ ~ job.ok
    BY <1>1, <1>k DEF ValidateConfig
  <2> SUFFICES ASSUME ~ AbortBuild PROVE BuildOK'
    BY <1>a, <2>1
  <2>2. /\ config[job.work].state = "signed"
        /\ job' = [job EXCEPT !.pc = "pack", !.n = 1, !.img = config[job.work].img,
                              !.dec = config[job.work].dec]
    BY <1>1 DEF ValidateConfig
  <2>3. /\ job'.pc = "pack" /\ job'.n = 1 /\ ~ job'.ok
        /\ job'.img = config[job.work].img /\ job'.dec = config[job.work].dec
    BY <1>t, <2>1, <2>2 DEF Job
  <2>4. config[job.work] = [state |-> "signed", img |-> job'.img, dec |-> job'.dec]
    <3>1. config[job.work] \in Config
      BY <1>t, <1>o
    <3> QED  BY <2>3, <2>2, <3>1 DEF Config, NoConfig
  <2>5. ConfigAtHand'
    BY <1>o, <2>4 DEF ConfigAtHand
  <2> QED  BY <1>o, <2>3, <2>5 DEF BuildOK
<1>2. CASE BeginCpio
  <2>1. /\ job.pc = "pack" /\ ~ job.ok /\ node[job.work][Rd].kind = "dir"
        /\ Rd \in Part /\ job.n \in 1 .. Len(Ramdisks)
    BY <1>2, <1>k, <1>h DEF BeginCpio
  <2> SUFFICES ASSUME ~ AbortBuild PROVE BuildOK'
    BY <1>a, <2>1
  <2>2. /\ build' = [build EXCEPT ![job.work][Rd] = Begun("cpio", node[job.work][Rd])]
        /\ job' = [job EXCEPT !.pc = "cpio"] /\ UNCHANGED buildtmp
    BY <1>2 DEF BeginCpio
  <2>3. /\ job'.pc = "cpio" /\ job'.n = job.n /\ ~ job'.ok
        /\ job'.img = job.img /\ job'.dec = job.dec /\ job'.spoilt = job.spoilt
    BY <1>t, <2>1, <2>2 DEF Job
  <2>4. Begun("cpio", node[job.work][Rd]) \in Content
    BY <1>t, <1>o, <2>1, FormTypes
  <2>5. \A q \in Part : q # Rd => build'[job.work][q] = build[job.work][q]
    BY <1>t, <1>o, <2>1, <2>4, <2>2, WriteAt
  <2>6. \A m \in 1 .. job.n - 1 : Ramdisks[m] \in Part /\ Ramdisks[m] # Rd
    BY <1>r, <2>1
  <2>7. \A m \in 1 .. job.n - 1 : Made(Ramdisks[m])
    BY <1>i, <1>o, <2>1 DEF BuildOK
  <2>8. \A m \in 1 .. job'.n - 1 : Made(Ramdisks[m])'
    BY <1>o, <2>2, <2>3, <2>5, <2>6, <2>7 DEF Made, Compresses, Ramdisks
  <2> QED  BY <1>g, <1>o, <2>1, <2>3, <2>8 DEF BuildOK, Rd, Ramdisks
<1>3. CASE EndCpio
  <2>1. /\ job.pc = "cpio" /\ ~ job.ok /\ node[job.work][Rd].kind = "dir"
        /\ Rd \in Part /\ job.n \in 1 .. Len(Ramdisks)
    BY <1>3, <1>i, <1>o, <1>k, <1>h DEF EndCpio, RamdiskPC, BuildOK
  <2> SUFFICES ASSUME ~ AbortBuild PROVE BuildOK'
    BY <1>a, <2>1
  <2>2. /\ UNCHANGED buildtmp
        /\ \/ /\ build' = [build EXCEPT ![job.work][Rd] = As("cpio", node[job.work][Rd])]
              /\ job' = [job EXCEPT !.pc = "compress"]
           \/ /\ build' = build
              /\ job' = [job EXCEPT !.pc = "compress", !.spoilt = job.spoilt \cup {Rd}]
    BY <1>3 DEF EndCpio
  <2>3. /\ job'.pc = "compress" /\ job'.n = job.n /\ ~ job'.ok
        /\ job'.img = job.img /\ job'.dec = job.dec /\ job.spoilt \subseteq job'.spoilt
        /\ build' = build => Rd \in job'.spoilt \/ job' = [job EXCEPT !.pc = "compress"]
    BY <1>t, <2>1, <2>2 DEF Job
  <2>4. As("cpio", node[job.work][Rd]) \in Content
    BY <1>t, <1>o, <2>1, FormTypes
  <2>5. /\ Rd \notin job'.spoilt => build'[job.work][Rd] = As("cpio", node[job.work][Rd])
        /\ \A q \in Part : q # Rd => build'[job.work][q] = build[job.work][q]
    <3>1. CASE build' = [build EXCEPT ![job.work][Rd] = As("cpio", node[job.work][Rd])]
      BY <1>t, <1>o, <2>1, <2>4, <3>1, WriteAt
    <3>2. CASE build' = build /\ job' = [job EXCEPT !.pc = "compress", !.spoilt = job.spoilt \cup {Rd}]
      <4>1. Rd \in job'.spoilt
        BY <1>t, <3>2 DEF Job
      <4> QED  BY <3>2, <4>1
    <3> QED  BY <2>2, <3>1, <3>2
  <2>6. \A m \in 1 .. job.n - 1 : Ramdisks[m] \in Part /\ Ramdisks[m] # Rd
    BY <1>r, <2>1
  <2>7. \A m \in 1 .. job.n - 1 : Made(Ramdisks[m])
    BY <1>i, <1>o, <2>1 DEF BuildOK
  <2>8. \A m \in 1 .. job'.n - 1 : Made(Ramdisks[m])'
    BY <1>o, <2>2, <2>3, <2>5, <2>6, <2>7 DEF Made, Compresses, Ramdisks
  <2> QED  BY <1>g, <1>o, <2>1, <2>3, <2>5, <2>8 DEF BuildOK, Rd, Ramdisks
<1>n. ASSUME job.pc \in {"pack", "compress", "replace", "copy"},
             job.n \in 1 .. Len(Ramdisks), Rd \in Part,
             \A q \in Part : q # Rd =>
                /\ build'[job.work][q] = build[job.work][q]
                /\ q \in buildtmp'[job.work] => q \in buildtmp[job.work],
             job.spoilt \subseteq job'.spoilt,
             Rd \notin job'.spoilt => build'[job.work][Rd] = Stored(node[job.work][Rd]),
             Compresses(Rd) => Rd \notin buildtmp'[job.work],
             job'.pc = "pack", job'.n = job.n + 1,
             job'.img = job.img, job'.dec = job.dec, job'.ok = job.ok
      PROVE  BuildOK'
  <2>0. job.n \in Nat /\ ~ job.ok
    BY <1>t, <1>k, <1>n DEF Job
  <2>1. job'.n - 1 = job.n /\ job.n \in Nat /\ ~ job.ok
    BY <2>0, <1>n
  <2>2. \A m \in 1 .. job.n - 1 : Ramdisks[m] \in Part /\ Ramdisks[m] # Rd
    BY <1>r, <1>n
  <2>3. \A m \in 1 .. job.n - 1 : Made(Ramdisks[m])
    BY <1>i, <1>o, <1>n DEF BuildOK
  <2>5. /\ Ramdisks' = Ramdisks /\ job'.work = job.work /\ node' = node
        /\ \A p : Compresses(p)' = Compresses(p)
    BY <1>n, <1>o DEF Ramdisks, Compresses
  <2>4. \A m \in 1 .. job'.n - 1 : Made(Ramdisks[m])'
    <3> SUFFICES ASSUME NEW m \in 1 .. job.n PROVE Made(Ramdisks[m])'
      BY <2>1
    <3>1. CASE m = job.n
      <4>1. Ramdisks[m] = Rd
        BY <3>1 DEF Rd
      <4> QED  BY <1>n, <2>5, <4>1 DEF Made
    <3>2. CASE m \in 1 .. job.n - 1
      <4>1. Ramdisks[m] \in Part /\ Ramdisks[m] # Rd /\ Made(Ramdisks[m])
        BY <2>2, <2>3, <3>2
      <4> QED  BY <1>n, <2>5, <4>1 DEF Made
    <3> QED  BY <2>1, <3>1, <3>2
  <2> QED  BY <1>g, <1>n, <1>o, <2>1, <2>4 DEF BuildOK
<1>p. ASSUME job.pc \in {"compress", "replace"}
      PROVE  Unpacked(job.work, Rd) /\ Compression = Format[job.img][Rd] /\ Compression # "other"
  <2>1. Rd \in Part /\ node[job.work][Rd].kind = "dir"
    BY <1>p, <1>h, <1>i, <1>o DEF RamdiskPC, BuildOK
  <2>2. Unpacked(job.work, Rd)
    BY <1>c, <1>i, <1>o, <1>p, <2>1 DEF DirOK, ConfigAtHand
  <2> QED  BY <1>c, <1>p, <2>2 DEF Unpacked, ConfigAtHand, Compression
<1>4. CASE BeginCompress
  <2>1. /\ job.pc = "compress" /\ ~ job.ok /\ node[job.work][Rd].kind = "dir"
        /\ Rd \notin job.spoilt => build[job.work][Rd] = As("cpio", node[job.work][Rd])
        /\ Rd \in Part /\ job.n \in 1 .. Len(Ramdisks)
    BY <1>4, <1>i, <1>o, <1>k, <1>h DEF BeginCompress, RamdiskPC, BuildOK
  <2> SUFFICES ASSUME ~ AbortBuild PROVE BuildOK'
    BY <1>a, <2>1
  <2>2. CASE Compression \in Compressors
    <3>1. /\ job' = [job EXCEPT !.pc = "replace"] /\ UNCHANGED build
          /\ buildtmp' = [buildtmp EXCEPT ![job.work] = buildtmp[job.work] \cup {Rd}]
      BY <1>4, <2>2 DEF BeginCompress
    <3>2. /\ job'.pc = "replace" /\ job'.n = job.n /\ ~ job'.ok
          /\ job'.img = job.img /\ job'.dec = job.dec /\ job'.spoilt = job.spoilt
      BY <1>t, <2>1, <3>1 DEF Job
    <3>3. \A q \in Part : q # Rd /\ q \in buildtmp'[job.work] => q \in buildtmp[job.work]
      BY <1>t, <1>o, <3>1
    <3>4. \A m \in 1 .. job.n - 1 : Ramdisks[m] \in Part /\ Ramdisks[m] # Rd
      BY <1>r, <2>1
    <3>5. \A m \in 1 .. job.n - 1 : Made(Ramdisks[m])
      BY <1>i, <1>o, <2>1 DEF BuildOK
    <3>6. \A m \in 1 .. job'.n - 1 : Made(Ramdisks[m])'
      BY <1>o, <3>1, <3>2, <3>3, <3>4, <3>5 DEF Made, Compresses, Ramdisks
    <3> QED  BY <1>g, <1>o, <2>1, <3>1, <3>2, <3>6 DEF BuildOK, Rd, Ramdisks
  <2>3. CASE Compression \notin Compressors
    <3>1. /\ build' = [build EXCEPT ![job.work][Rd] = As("file", build[job.work][Rd])]
          /\ job' = [job EXCEPT !.pc = "pack", !.n = job.n + 1] /\ UNCHANGED buildtmp
      BY <1>4, <1>p, <2>1, <2>3 DEF BeginCompress
    <3>2. /\ job'.pc = "pack" /\ job'.n = job.n + 1 /\ job'.ok = job.ok
          /\ job'.img = job.img /\ job'.dec = job.dec /\ job'.spoilt = job.spoilt
      BY <1>t, <3>1 DEF Job
    <3>3. /\ node[job.work][Rd] \in Content
          /\ As("file", build[job.work][Rd]) \in Content
          /\ Rd \notin job.spoilt =>
                As("file", build[job.work][Rd]) = Stored(node[job.work][Rd])
      <4>1. node[job.work][Rd] \in Content /\ build[job.work][Rd] \in Content
        BY <1>t, <1>o, <2>1
      <4>2. As("file", As("cpio", node[job.work][Rd])) = Stored(node[job.work][Rd])
        BY <2>1, <4>1, Forms DEF Stored
      <4>3. As("file", build[job.work][Rd]) \in Content
        BY <4>1, FormTypes
      <4> QED  BY <2>1, <4>1, <4>2, <4>3
    <3>4. /\ Rd \notin job.spoilt => build'[job.work][Rd] = Stored(node[job.work][Rd])
          /\ \A q \in Part : q # Rd => build'[job.work][q] = build[job.work][q]
      BY <1>t, <1>o, <2>1, <3>1, <3>3, WriteAt
    <3>5. ~ Compresses(Rd)
      BY <1>p, <2>1, <2>3 DEF Compresses
    <3> QED  BY <1>n, <2>1, <3>1, <3>2, <3>4, <3>5
  <2> QED  BY <2>2, <2>3
<1>11. CASE EndCompress
  <2>1. /\ job.pc = "replace" /\ ~ job.ok /\ node[job.work][Rd].kind = "dir"
        /\ Rd \notin job.spoilt => build[job.work][Rd] = As("cpio", node[job.work][Rd])
        /\ Rd \in Part /\ job.n \in 1 .. Len(Ramdisks)
    BY <1>11, <1>i, <1>o, <1>k, <1>h DEF EndCompress, RamdiskPC, BuildOK
  <2> SUFFICES ASSUME ~ AbortBuild PROVE BuildOK'
    BY <1>a, <2>1
  <2>2. CASE job' = [job EXCEPT !.pc = "done"]
    <3>1. job'.pc = "done" /\ ~ job'.ok
      BY <1>t, <2>1, <2>2 DEF Job
    <3> QED  BY <3>1 DEF BuildOK
  <2>3. CASE /\ build' = [build EXCEPT ![job.work][Rd] = As("file", build[job.work][Rd])]
             /\ buildtmp' = [buildtmp EXCEPT ![job.work] = buildtmp[job.work] \ {Rd}]
             /\ job' = [job EXCEPT !.pc = "pack", !.n = job.n + 1]
    <3>1. /\ job'.pc = "pack" /\ job'.n = job.n + 1 /\ job'.ok = job.ok
          /\ job'.img = job.img /\ job'.dec = job.dec /\ job'.spoilt = job.spoilt
      BY <1>t, <2>3 DEF Job
    <3>2. /\ node[job.work][Rd] \in Content
          /\ As("file", build[job.work][Rd]) \in Content
          /\ Rd \notin job.spoilt =>
                As("file", build[job.work][Rd]) = Stored(node[job.work][Rd])
      <4>1. node[job.work][Rd] \in Content /\ build[job.work][Rd] \in Content
        BY <1>t, <1>o, <2>1
      <4>2. As("file", As("cpio", node[job.work][Rd])) = Stored(node[job.work][Rd])
        BY <2>1, <4>1, Forms DEF Stored
      <4>3. As("file", build[job.work][Rd]) \in Content
        BY <4>1, FormTypes
      <4> QED  BY <2>1, <4>1, <4>2, <4>3
    <3>3. /\ Rd \notin job.spoilt => build'[job.work][Rd] = Stored(node[job.work][Rd])
          /\ \A q \in Part : q # Rd => build'[job.work][q] = build[job.work][q]
      BY <1>t, <1>o, <2>1, <2>3, <3>2, WriteAt
    <3>4. buildtmp'[job.work] = buildtmp[job.work] \ {Rd}
      BY <1>t, <1>o, <2>3
    <3> QED  BY <1>n, <2>1, <3>1, <3>3, <3>4
  <2>4. CASE /\ build' = [build EXCEPT ![job.work][Rd] = Begun("file", build[job.work][Rd])]
             /\ buildtmp' = [buildtmp EXCEPT ![job.work] = buildtmp[job.work] \ {Rd}]
             /\ job' = [job EXCEPT !.pc = "pack", !.n = job.n + 1,
                                   !.spoilt = job.spoilt \cup {Rd}]
    <3>1. /\ job'.pc = "pack" /\ job'.n = job.n + 1 /\ job'.ok = job.ok
          /\ job'.img = job.img /\ job'.dec = job.dec /\ job'.spoilt = job.spoilt \cup {Rd}
      BY <1>t, <2>4 DEF Job
    <3>2. Begun("file", build[job.work][Rd]) \in Content
      BY <1>t, <1>o, <2>1, FormTypes
    <3>3. \A q \in Part : q # Rd => build'[job.work][q] = build[job.work][q]
      BY <1>t, <1>o, <2>1, <2>4, <3>2, WriteAt
    <3>4. buildtmp'[job.work] = buildtmp[job.work] \ {Rd}
      BY <1>t, <1>o, <2>4
    <3> QED  BY <1>n, <2>1, <3>1, <3>3, <3>4
  <2> QED  BY <1>11, <2>2, <2>3, <2>4 DEF EndCompress
<1>x. ASSUME CopyFailed, job.pc \in {"pack", "copy"}, Rd \in Part,
             job.n \in 1 .. Len(Ramdisks), node[job.work][Rd].kind # "dir"
      PROVE  BuildOK'
  <2>1. /\ job' = [job EXCEPT !.pc = "pack", !.n = job.n + 1,
                             !.spoilt = job.spoilt \cup {Rd}]
        /\ UNCHANGED <<build, buildtmp>>
    BY <1>x DEF CopyFailed
  <2>2. /\ job'.pc = "pack" /\ job'.n = job.n + 1 /\ job'.ok = job.ok
        /\ job'.img = job.img /\ job'.dec = job.dec /\ job'.spoilt = job.spoilt \cup {Rd}
    BY <1>t, <2>1 DEF Job
  <2>3. ~ Compresses(Rd)
    BY <1>x DEF Compresses
  <2> QED  BY <1>n, <1>x, <2>1, <2>2, <2>3
<1>5. CASE BeginCopy
  <2>1. /\ job.pc = "pack" /\ ~ job.ok /\ node[job.work][Rd].kind # "dir"
        /\ Rd \in Part /\ job.n \in 1 .. Len(Ramdisks)
    BY <1>5, <1>k, <1>h DEF BeginCopy
  <2> SUFFICES ASSUME ~ CopyFailed PROVE BuildOK'
    BY <1>x, <2>1
  <2>2. /\ build' = [build EXCEPT ![job.work][Rd] = Begun("file", node[job.work][Rd])]
        /\ job' = [job EXCEPT !.pc = "copy"] /\ UNCHANGED buildtmp
        /\ node[job.work][Rd].kind # "none"
    BY <1>5 DEF BeginCopy
  <2>3. /\ job'.pc = "copy" /\ job'.n = job.n /\ ~ job'.ok
        /\ job'.img = job.img /\ job'.dec = job.dec /\ job'.spoilt = job.spoilt
    BY <1>t, <2>1, <2>2 DEF Job
  <2>4. Begun("file", node[job.work][Rd]) \in Content /\ node[job.work][Rd] \in Content
    BY <1>t, <1>o, <2>1, FormTypes
  <2>5. \A q \in Part : q # Rd => build'[job.work][q] = build[job.work][q]
    BY <1>t, <1>o, <2>1, <2>2, <2>4, WriteAt
  <2>6. \A m \in 1 .. job.n - 1 : Ramdisks[m] \in Part /\ Ramdisks[m] # Rd
    BY <1>r, <2>1
  <2>7. \A m \in 1 .. job.n - 1 : Made(Ramdisks[m])
    BY <1>i, <1>o, <2>1 DEF BuildOK
  <2>8. \A m \in 1 .. job'.n - 1 : Made(Ramdisks[m])'
    BY <1>o, <2>2, <2>3, <2>5, <2>6, <2>7 DEF Made, Compresses, Ramdisks
  <2>9. node[job.work][Rd].kind = "file"
    BY <1>i, <1>o, <2>1, <2>2, <2>4 DEF DirOK, Content, NoFile
  <2> QED  BY <1>g, <1>o, <2>1, <2>3, <2>8, <2>9 DEF BuildOK, Rd, Ramdisks
<1>6. CASE EndCopy
  <2>1. /\ job.pc = "copy" /\ node[job.work][Rd].kind = "file"
        /\ Rd \in Part /\ job.n \in 1 .. Len(Ramdisks)
    BY <1>6, <1>i, <1>o, <1>h DEF EndCopy, RamdiskPC, BuildOK
  <2> SUFFICES ASSUME ~ CopyFailed PROVE BuildOK'
    BY <1>x, <2>1
  <2>2. /\ build' = [build EXCEPT ![job.work][Rd] = node[job.work][Rd]]
        /\ job' = [job EXCEPT !.pc = "pack", !.n = job.n + 1] /\ UNCHANGED buildtmp
    BY <1>6 DEF EndCopy
  <2>3. /\ job'.pc = "pack" /\ job'.n = job.n + 1 /\ job'.ok = job.ok
        /\ job'.img = job.img /\ job'.dec = job.dec /\ job'.spoilt = job.spoilt
    BY <1>t, <2>2 DEF Job
  <2>4. node[job.work][Rd] \in Content /\ Stored(node[job.work][Rd]) = node[job.work][Rd]
    BY <1>t, <1>o, <2>1, Forms DEF Stored
  <2>5. /\ build'[job.work][Rd] = node[job.work][Rd]
        /\ \A q \in Part : q # Rd => build'[job.work][q] = build[job.work][q]
    BY <1>t, <1>o, <2>1, <2>2, <2>4, WriteAt
  <2>6. ~ Compresses(Rd)
    BY <2>1 DEF Compresses
  <2> QED  BY <1>n, <2>1, <2>2, <2>3, <2>4, <2>5, <2>6
<1>7. CASE AllRamdisks
  <2>1. /\ job.pc = "pack" /\ job.n > Len(Ramdisks) /\ UNCHANGED <<build, buildtmp>>
        /\ job' = [job EXCEPT !.pc = "open"]
    BY <1>7 DEF AllRamdisks
  <2>2. /\ job'.pc = "open" /\ job'.img = job.img /\ job'.dec = job.dec /\ ~ job'.ok
        /\ job'.spoilt = job.spoilt
    BY <1>t, <1>k, <2>1 DEF Job
  <2>3. Len(Ramdisks) \in Nat /\ job.n \in Nat
    BY <1>c, <1>t, <2>1, SectionTypes DEF Ramdisks, Job
  <2>4. \A m \in 1 .. Len(Ramdisks) : Made(Ramdisks[m])
    BY <1>i, <1>o, <2>1, <2>3 DEF BuildOK
  <2>5. (\A m \in 1 .. Len(Ramdisks) : Made(Ramdisks[m]))'
    BY <1>o, <2>1, <2>2, <2>4 DEF Made, Compresses, Ramdisks
  <2> QED  BY <1>g, <1>o, <2>1, <2>2, <2>5 DEF BuildOK
<1>8. CASE OpenOutput
  <2>1. job.pc = "open" /\ UNCHANGED <<build, buildtmp>>
    BY <1>8 DEF OpenOutput
  <2>2. /\ job'.pc \in {"sections", "tidy"} /\ job'.img = job.img /\ job'.dec = job.dec
        /\ ~ job'.ok /\ job'.spoilt = job.spoilt
    BY <1>8, <1>t, <1>k DEF OpenOutput, Job
  <2>3. \A m \in 1 .. Len(Ramdisks) : Made(Ramdisks[m])
    BY <1>i, <1>o, <2>1 DEF BuildOK
  <2>4. (\A m \in 1 .. Len(Ramdisks) : Made(Ramdisks[m]))'
    BY <1>o, <2>1, <2>2, <2>3 DEF Made, Compresses, Ramdisks
  <2> QED  BY <1>g, <1>o, <2>1, <2>2, <2>4 DEF BuildOK
<1>9. CASE WriteImage
  <2>1. job.pc = "sections" /\ UNCHANGED <<build, buildtmp>> /\ ~ job.ok
    BY <1>9, <1>k DEF WriteImage
  <2>2. /\ job'.pc = "tidy" /\ job'.img = job.img /\ job'.dec = job.dec
        /\ job'.ok => Writable(job.work)
        /\ job.spoilt \subseteq job'.spoilt
    <3>1. CASE Writable(job.work)
      <4>1. PICK cut \in SUBSET {p \in Repacked[job.img] : Source(job.work, p).kind # "none"} :
               job' = [job EXCEPT !.pc = "tidy", !.ok = TRUE, !.spoilt = job.spoilt \cup cut]
        BY <1>9, <3>1 DEF WriteImage
      <4> QED  BY <1>t, <3>1, <4>1 DEF Job
    <3>2. CASE ~ Writable(job.work)
      BY <1>9, <1>t, <2>1, <3>2 DEF WriteImage, Job
    <3> QED  BY <3>1, <3>2
  <2>3. ASSUME Writable(job.work) PROVE Packed'
    <3>1. \A p \in Repacked[job.img] :
             /\ p \in Part
             /\ p \notin job'.spoilt => out'[job.work].sect[p] = Source(job.work, p)
             /\ out'[job.work].sect[p].kind = "none" => Source(job.work, p).kind = "none"
      <4>1. PICK cut \in SUBSET {p \in Repacked[job.img] : Source(job.work, p).kind # "none"} :
               /\ out' = [out EXCEPT ![job.work] =
                             [state |-> "written",
                              sect  |-> [p \in Part |-> Packs(job.work, p, cut)]]]
               /\ job' = [job EXCEPT !.pc = "tidy", !.ok = TRUE, !.spoilt = job.spoilt \cup cut]
        BY <1>9, <2>3 DEF WriteImage
      <4>2. out'[job.work].sect = [p \in Part |-> Packs(job.work, p, cut)]
        BY <1>t, <1>o, <4>1
      <4>3. job'.spoilt = job.spoilt \cup cut
        BY <1>t, <4>1 DEF Job
      <4> QED  BY <1>c, <2>1, <4>2, <4>3, Listed DEF Packs, Begun
    <3>2. job.img \notin Vendor =>
             \A p \in Repacked[job.img] : Source(job.work, p).kind # "none"
      BY <2>3 DEF Writable
    <3>3. ASSUME NEW p \in Repacked[job.img] \ job.spoilt
          PROVE  Source(job.work, p) = Stored(node[job.work][p])
      <4>1. p \in Part /\ node[job.work][p] \in Content
        BY <1>t, <1>o, <3>1
      <4>2. CASE p \in Elems(Ramdisks)
        <5>1. PICK m \in 1 .. Len(Ramdisks) : p = Ramdisks[m]
          BY <1>c, <2>1, <4>2, Listed DEF Ramdisks
        <5>2. Made(p)
          BY <1>i, <1>o, <2>1, <5>1 DEF BuildOK
        <5> QED  BY <3>3, <4>2, <5>2 DEF Made, Source
      <4>3. CASE p \notin Elems(Ramdisks)
        <5>1. node[job.work][p].kind # "dir"
          BY <1>c, <1>i, <1>o, <2>1, <4>1, <4>3 DEF DirOK, Unpacked, ConfigAtHand, Ramdisks
        <5>2. node[job.work][p].kind # "cpio"
          BY <1>i, <1>o, <4>1 DEF DirOK
        <5>3. CASE node[job.work][p].kind = "file"
          BY <4>1, <4>3, <5>3, Forms DEF Source, Stored
        <5>4. CASE node[job.work][p].kind = "none"
          <6>1. node[job.work][p] = NoFile
            BY <4>1, <5>4 DEF Content
          <6> QED  BY <4>3, <5>4, <6>1 DEF Source, Stored
        <5> QED  BY <4>1, <5>1, <5>2, <5>3, <5>4 DEF Content, NoFile
      <4> QED  BY <4>2, <4>3
    <3> QED  BY <1>o, <2>2, <3>1, <3>2, <3>3 DEF Packed
  <2>4. Renamed'
    <3> SUFFICES ASSUME NEW p \in Part, Compresses(p) PROVE p \notin buildtmp[job.work]
      BY <1>o, <2>1, <2>2 DEF Renamed, Compresses, Ramdisks
    <3>1. PICK m \in 1 .. Len(Ramdisks) : p = Ramdisks[m]
      BY <1>c, <2>1, Listed DEF Compresses, Ramdisks
    <3> QED  BY <1>i, <1>o, <2>1, <3>1 DEF BuildOK, Made
  <2> QED  BY <1>g, <1>o, <2>1, <2>2, <2>3, <2>4 DEF BuildOK
<1>10. CASE TryClean
  <2>1. PICK kept \in SUBSET Built : Tidy(kept, kept)
    BY <1>10 DEF TryClean
  <2>2. /\ job.pc = "tidy" /\ UNCHANGED <<out, buildtmp>>
        /\ build' = [build EXCEPT ![job.work] =
              [p \in Part |-> IF p \in kept THEN build[job.work][p] ELSE NoFile]]
        /\ job' = [job EXCEPT !.pc = "done", !.unremoved = kept]
    BY <1>10, <2>1 DEF TryClean, Tidy
  <2>3. /\ job'.pc = "done" /\ job'.img = job.img /\ job'.dec = job.dec /\ job'.ok = job.ok
        /\ job'.spoilt = job.spoilt /\ job'.unremoved = kept
    BY <1>t, <2>2 DEF Job
  <2>4. \A p \in Part \ kept : build'[job.work][p] = NoFile
    BY <1>t, <1>o, <2>2
  <2>5. job.ok => Packed /\ Renamed
    BY <1>i, <1>o DEF BuildOK
  <2>6. job.ok => Packed' /\ Renamed'
    BY <1>o, <2>2, <2>3, <2>5 DEF Packed, Renamed, Compresses, Ramdisks
  <2> QED  BY <1>g, <1>o, <2>2, <2>3, <2>4, <2>6 DEF BuildOK
<1> QED
  BY <1>1, <1>2, <1>3, <1>4, <1>5, <1>6, <1>7, <1>8, <1>9, <1>10, <1>11 DEF BuildStep

-----------------------------------------------------------------------------
(* Everything else, and the theorems. *)

\* The return of a native call, a crash, and what the user does between two
\* calls keep the invariant as well: no call is under way afterwards that has
\* come any further than its first step.
LEMMA OtherDoneInv ==
    DoneInv /\ (Return \/ Crash \/ UserStep) =>
        (\A d \in Names : DirOK(d)') /\ ExtractOK' /\ BuildOK'
<1> SUFFICES ASSUME DoneInv, Return \/ Crash \/ UserStep
             PROVE  (\A d \in Names : DirOK(d)') /\ ExtractOK' /\ BuildOK'
  OBVIOUS
<1> USE DEF files, ghost
<1>t. /\ TypeOK /\ job \in Job /\ JobOK
      /\ node \in [Names -> [Part -> Content]] /\ gone \in [Names -> SUBSET Part]
  BY DEF DoneInv, TypeOK
<1>i. \A d \in Names : DirOK(d)
  BY DEF DoneInv
<1>j. ASSUME \/ job'.op = "none"
             \/ job'.op = "extract" /\ job'.pc = "pick" /\ job'.ok = FALSE
             \/ job'.op = "build" /\ job'.pc = "validate" /\ job'.ok = FALSE
      PROVE  ExtractOK' /\ BuildOK'
  BY <1>j DEF ExtractOK, BuildOK, Copying, RamdiskPC
<1>d. job.pc = "idle" => job.op = "none"
  BY <1>t DEF Job, JobOK, ExtractPC, BuildPC
<1>s. ASSUME UNCHANGED <<files, ghost>> PROVE \A d \in Names : DirOK(d)'
  BY <1>s, <1>i, SameDirectory DEF Files
<1>1. CASE Return \/ Crash
  <2>1. job'.op = "none" /\ UNCHANGED <<files, ghost>>
    BY <1>1 DEF Return, Crash, Idle
  <2> QED  BY <1>j, <1>s, <2>1
<1>2. ASSUME NEW b \in Base, NEW i \in Image, NEW dec \in BOOLEAN, StartExtract(b, i, dec)
      PROVE  (\A d \in Names : DirOK(d)') /\ ExtractOK' /\ BuildOK'
  <2>1. job'.op = "extract" /\ job'.pc = "pick" /\ job'.ok = FALSE /\ UNCHANGED <<files, ghost>>
    BY <1>2 DEF StartExtract, Idle
  <2> QED  BY <1>j, <1>s, <2>1
<1>3. ASSUME NEW d \in Names, StartBuild(d)
      PROVE  (\A e \in Names : DirOK(e)') /\ ExtractOK' /\ BuildOK'
  <2>1. job'.op = "build" /\ job'.pc = "validate" /\ job'.ok = FALSE /\ UNCHANGED <<files, ghost>>
    BY <1>3 DEF StartBuild, Idle
  <2> QED  BY <1>j, <1>s, <2>1
<1>4. ASSUME NEW d \in Names, Clean(d)
      PROVE  (\A e \in Names : DirOK(e)') /\ ExtractOK' /\ BuildOK'
  <2>1. job'.op = "none"
    BY <1>4, <1>d DEF Clean
  <2> QED  BY <1>4, <1>i, <1>j, <1>t, <2>1, RemovedDirectory DEF Clean
<1>5. ASSUME NEW d \in Names, NEW p \in Part, Edit(d, p)
      PROVE  (\A e \in Names : DirOK(e)') /\ ExtractOK' /\ BuildOK'
  <2>1. /\ job'.op = "none" /\ node[d][p].kind # "none"
        /\ UNCHANGED <<present, config, tmp, build, buildtmp, out, ghost>>
        /\ node' = [node EXCEPT ![d][p] = [node[d][p] EXCEPT !.rev = node[d][p].rev + 1]]
    BY <1>5, <1>d DEF Edit
  <2>2. \A e \in Names, q \in Part :
           /\ node'[e][q].kind = node[e][q].kind /\ node'[e][q].img = node[e][q].img
           /\ node'[e][q].whole = node[e][q].whole
    <3>1. node[d][p] \in Content
      BY <1>t
    <3>2. LET c == [node[d][p] EXCEPT !.rev = node[d][p].rev + 1]
          IN  c.kind = node[d][p].kind /\ c.img = node[d][p].img /\ c.whole = node[d][p].whole
      BY <3>1 DEF Content
    <3> QED  BY <1>t, <2>1, <3>2
  <2>3. \A e \in Names : e # d => node'[e] = node[e]
    BY <1>t, <2>1
  <2>4. d \in present
    BY <1>i, <2>1 DEF DirOK, Bare, NoFiles, NoFile
  <2>5. \A e \in Names, q \in Part, i \in Image : FromImage(node[e][q], i) => FromImage(node'[e][q], i)
    BY <2>2 DEF FromImage
  <2>6. ASSUME NEW e \in Names PROVE DirOK(e)'
    <3>1. e \notin present => Bare(e)' /\ e \notin done
      BY <1>i, <2>1, <2>3, <2>4 DEF DirOK, Bare
    <3>2. \A q \in Part : node'[e][q].kind # "cpio"
      BY <1>i, <2>2 DEF DirOK
    <3>3. config[e].state = "signed" => \A q \in Part : node'[e][q].kind = "dir" => Unpacked(e, q)'
      BY <1>i, <2>1, <2>2 DEF DirOK, Unpacked
    <3>4. e \in done => \A q \in Elems(SectionsOf[config[e].img]) \ gone[e] :
                            FromImage(node'[e][q], config[e].img)
      <4> SUFFICES ASSUME e \in done, NEW q \in Elems(SectionsOf[config[e].img]) \ gone[e]
                   PROVE  FromImage(node'[e][q], config[e].img)
        OBVIOUS
      <4>1. config[e].state = "signed" /\ FromImage(node[e][q], config[e].img)
        BY <1>i DEF DirOK
      <4>2. config[e].img \in Image
        BY <1>t, <4>1 DEF TypeOK, Config, NoConfig
      <4>3. q \in Part
        BY <4>2, Listed
      <4> QED  BY <2>5, <4>1, <4>2, <4>3
    <3> QED  BY <1>i, <2>1, <3>1, <3>2, <3>3, <3>4 DEF DirOK
  <2> QED  BY <1>j, <2>1, <2>6
<1>6. ASSUME NEW d \in Names, NEW p \in Part, Delete(d, p)
      PROVE  (\A e \in Names : DirOK(e)') /\ ExtractOK' /\ BuildOK'
  <2>1. /\ job'.op = "none" /\ node[d][p].kind # "none"
        /\ UNCHANGED <<present, config, tmp, build, buildtmp, out, done>>
        /\ node' = [node EXCEPT ![d][p] = NoFile]
        /\ gone' = [gone EXCEPT ![d] = gone[d] \cup {p}]
    BY <1>6, <1>d DEF Delete
  <2>2. DirOK(d)'
    <3>1. d \in present
      BY <1>i, <2>1 DEF DirOK, Bare, NoFiles, NoFile
    <3>2. NoFile \in Content
      BY <1>t, ContentTypes
    <3>3. /\ node'[d][p] = NoFile /\ gone'[d] = gone[d] \cup {p}
          /\ \A q \in Part : q # p => node'[d][q] = node[d][q]
      BY <1>t, <2>1, <3>2, WriteAt
    <3>4. \A q \in Part : node'[d][q].kind # "cpio"
      BY <1>i, <3>3 DEF DirOK, NoFile
    <3>5. config[d].state = "signed" => \A q \in Part : node'[d][q].kind = "dir" => Unpacked(d, q)'
      BY <1>i, <2>1, <3>3 DEF DirOK, Unpacked, NoFile
    <3>6. d \in done => \A q \in Elems(SectionsOf[config[d].img]) \ gone'[d] :
                            FromImage(node'[d][q], config[d].img)
      <4> SUFFICES ASSUME d \in done, NEW q \in Elems(SectionsOf[config[d].img]) \ gone'[d]
                   PROVE  FromImage(node'[d][q], config[d].img)
        OBVIOUS
      <4>1. q \notin gone[d] /\ q # p
        BY <3>3
      <4>2. config[d].state = "signed" /\ FromImage(node[d][q], config[d].img)
        BY <1>i, <4>1 DEF DirOK
      <4>3. q \in Part
        BY <1>t, <4>2, Listed DEF TypeOK, Config, NoConfig
      <4> QED  BY <3>3, <4>1, <4>2, <4>3
    <3> QED  BY <1>i, <2>1, <3>1, <3>4, <3>5, <3>6 DEF DirOK
  <2>3. ASSUME NEW e \in Names, e # d PROVE DirOK(e)'
    <3>1. node'[e] = node[e] /\ gone'[e] = gone[e]
      BY <1>t, <2>1, <2>3
    <3> QED  BY <1>i, <2>1, <3>1, SameDirectory DEF Files
  <2> QED  BY <1>j, <2>1, <2>2, <2>3
<1> QED  BY <1>1, <1>2, <1>3, <1>4, <1>5, <1>6 DEF UserStep

\* The invariant holds from the start and in every step.
LEMMA DoneInvHolds == Spec => []DoneInv
<1>1. Init => DoneInv
  <2> SUFFICES ASSUME Init PROVE DoneInv
    OBVIOUS
  <2>1. \A d \in Names : DirOK(d)
    BY DEF Init, DirOK, Bare, NoConfig, NoFiles, NoFile
  <2>2. ExtractOK /\ BuildOK
    BY DEF Init, Idle, ExtractOK, BuildOK
  <2> QED  BY <2>1, <2>2, InitTypeOK DEF DoneInv
<1>2. DoneInv /\ [Next]_vars => DoneInv'
  <2> SUFFICES ASSUME DoneInv, [Next]_vars PROVE DoneInv'
    OBVIOUS
  <2>1. CASE UNCHANGED vars
    <3>1. TypeOK' /\ ExtractOK'
      BY <2>1 DEF vars, DoneInv, TypeOK, JobOK, Sections, Ramdisks, Rd, ExtractOK, Copied,
                  Cleared, ConfigAtHand
    <3>2. BuildOK' /\ \A d \in Names : DirOK(d)'
      BY <2>1 DEF vars, DoneInv, BuildOK, Ramdisks, Rd, ConfigAtHand, Made, Packed, Renamed,
                  Compresses, DirOK, Bare, Unpacked
    <3> QED  BY <3>1, <3>2 DEF DoneInv
  <2>2. CASE Next
    <3>1. TypeOK'
      BY <2>2, ExtractTypeOK, BuildTypeOK, OtherTypeOK DEF DoneInv, Next, NativeStep
    <3>2. (\A d \in Names : DirOK(d)') /\ ExtractOK' /\ BuildOK'
      BY <2>2, ExtractDoneInv, BuildDoneInv, OtherDoneInv DEF Next, NativeStep
    <3> QED  BY <3>1, <3>2 DEF DoneInv
  <2> QED  BY <2>1, <2>2
<1> QED  BY <1>1, <1>2, PTL DEF Spec

\* A call that reports "Done" leaves in its directory no <ramdisk>.tmp and no
\* <ramdisk>.build but those it could not remove, and no <ramdisk>.build.tmp
\* of a ramdisk it compressed: an extraction works in a directory that did not
\* exist and unpacks one ramdisk at a time, try_clean removes every .build, and
\* a rename moves every .build.tmp away.
THEOREM NoDebrisLeft == Spec => []NoDebris
<1>1. DoneInv => NoDebris
  BY DEF DoneInv, TypeOK, Job, JobOK, ExtractOK, BuildOK, Cleared, Renamed, NoDebris,
     ExtractPC, BuildPC
<1> QED  BY <1>1, DoneInvHolds, PTL

\* A boot image reported "Done" has all its sections, whatever was deleted.
THEOREM BootImagesComplete == Spec => []BootImageComplete
<1>1. DoneInv => BootImageComplete
  BY DEF DoneInv, BuildOK, Packed, BootImageComplete, Building
<1> QED  BY <1>1, DoneInvHolds, PTL

\* A build reported "Done" packs what the directory holds now, never what an
\* earlier build left there, be the project complete or not, up to the
\* ramdisks whose copy failed unnoticed.
THEOREM BuildsAreFresh == Spec => []BuildIsFresh
<1>1. DoneInv => BuildIsFresh
  BY DEF DoneInv, BuildOK, Packed, BuildIsFresh, Building
<1> QED  BY <1>1, DoneInvHolds, PTL

\* Extracting an image, editing the files and building gives the image back,
\* with the latest edits, whatever crashes, failures and builds came between,
\* up to the ramdisks that this build failed to copy.
THEOREM ImageComesBack == Spec => []RoundTrip
<1>1. DoneInv => RoundTrip
  <2> SUFFICES ASSUME DoneInv, Building("done"), job.ok, job.work \in done,
                      gone[job.work] = {},
                      NEW p \in Repacked[job.img] \ job.spoilt
               PROVE  out[job.work].sect[p] =
                          [Section(job.img) EXCEPT !.rev = node[job.work][p].rev]
    BY DEF RoundTrip
  <2>1. job.op = "build" /\ job.pc = "done"
    BY DEF Building
  <2>2. /\ job.work \in Names /\ DirOK(job.work) /\ config[job.work] \in Config
        /\ node \in [Names -> [Part -> Content]]
    BY <2>1 DEF DoneInv, TypeOK, JobOK
  <2>3. ConfigAtHand /\ Packed
    BY <2>1 DEF DoneInv, BuildOK
  <2>4. config[job.work].state = "signed" /\ config[job.work].img = job.img
    BY <2>3 DEF ConfigAtHand
  <2>5. job.img \in Image
    BY <2>2, <2>4 DEF Config, NoConfig
  <2>6. p \in Part /\ p \in Elems(SectionsOf[job.img])
    BY <2>5, Listed
  <2>7. FromImage(node[job.work][p], job.img)
    BY <2>2, <2>4, <2>6 DEF DirOK
  <2>8. out[job.work].sect[p] = As("file", node[job.work][p])
    BY <2>3, <2>7 DEF Packed, Stored, FromImage
  <2>9. As("file", node[job.work][p]) =
           [kind |-> "file", whole |-> TRUE, img |-> job.img, rev |-> node[job.work][p].rev]
    BY <2>2, <2>6, <2>7 DEF FromImage, As, Content
  <2>10. [Section(job.img) EXCEPT !.rev = node[job.work][p].rev] =
           [kind |-> "file", whole |-> TRUE, img |-> job.img, rev |-> node[job.work][p].rev]
    <3>1. \A k, w, i, r : [[kind |-> k, whole |-> w, img |-> i, rev |-> 0] EXCEPT !.rev = r] =
                         [kind |-> k, whole |-> w, img |-> i, rev |-> r]
      BY Z3
    <3>2. \A i, r : [[kind |-> "file", whole |-> TRUE, img |-> i, rev |-> 0] EXCEPT !.rev = r] =
                    [kind |-> "file", whole |-> TRUE, img |-> i, rev |-> r]
      BY <3>1, Zenon
    <3>3. Section(job.img) = [kind |-> "file", whole |-> TRUE, img |-> job.img, rev |-> 0]
      BY DEF Section
    <3> QED  BY <3>2, <3>3, Zenon
  <2> QED  BY <2>8, <2>9, <2>10
<1> QED  BY <1>1, DoneInvHolds, PTL

\* Up to its cleanup, and in it when it works in "<b>" itself, an extraction
\* leaves every project alone that was extracted before: get_unique_path gives
\* it a directory that does not exist, hence one that is no project.
THEOREM ProjectsSpared == Spec => ExtractionSparesProjects
<1>1. DoneInv /\ [Next]_vars =>
        [ (job.op = "extract" /\ (job.pc # "cleanup" \/ job.work[2] = 0))
          => \A d \in done : Files(d)' = Files(d) ]_vars
  <2> SUFFICES ASSUME DoneInv, Next, job.op = "extract", job.pc # "cleanup" \/ job.work[2] = 0,
                      NEW d \in done
               PROVE  Files(d)' = Files(d)
    OBVIOUS
  <2>t. /\ TypeOK /\ job \in Job /\ JobOK /\ d \in Names /\ job.work \in Names
        /\ config \in [Names -> Config] /\ out \in [Names -> Output]
        /\ node \in [Names -> [Part -> Content]] /\ tmp \in [Names -> [Part -> Content]]
        /\ build \in [Names -> [Part -> Content]] /\ buildtmp \in [Names -> SUBSET Part]
    BY DEF DoneInv, TypeOK, JobOK
  <2>u. ASSUME UNCHANGED files PROVE Files(d)' = Files(d)
    BY <2>u DEF files, Files
  <2>1. CASE ExtractStep /\ job.pc = "pick"
    <3>1. PickUnique
      BY <2>1 DEF ExtractStep, PickUnique, CreateWorkDir, ParseHeader, OpenSection,
         WriteSection, AllSections, WriteConfig, SignConfig, KeepRamdisk, RenameRamdisk,
         BeginInflate, EndInflate, RemoveInput, BeginUntar, EndUntar, RemoveArchive,
         ExtractionDone, CleanupPart, CleanupConfig, CleanupEnd, Extracting
    <3> QED  BY <2>u, <3>1 DEF PickUnique
  <2>2. CASE ExtractStep /\ job.pc \notin {"pick", "cleanup", "done"}
    <3>1. job.work \notin done
      BY <2>2 DEF DoneInv, ExtractOK
    <3> QED  BY <2>t, <2>2, <3>1, OwnDirectory
  <2>3. CASE ExtractStep /\ job.pc = "cleanup"
    <3>1. job.work[2] = 0 /\ job.work = <<job.work[1], 0>> /\ job.work \notin done
      BY <2>t, <2>3 DEF DoneInv, ExtractOK, Names
    <3>2. CleanupTarget = job.work /\ d # CleanupTarget
      BY <3>1 DEF CleanupTarget
    <3>3. CleanupPart \/ CleanupConfig \/ CleanupEnd
      BY <2>3 DEF ExtractStep, PickUnique, CreateWorkDir, ParseHeader, OpenSection,
         WriteSection, AllSections, WriteConfig, SignConfig, KeepRamdisk, RenameRamdisk,
         BeginInflate, EndInflate, RemoveInput, BeginUntar, EndUntar, RemoveArchive,
         ExtractionDone, CleanupPart, CleanupConfig, CleanupEnd, Extracting
    <3>4. CASE CleanupPart
      BY <2>t, <3>2, <3>4 DEF CleanupPart, RemovePart, Files
    <3>5. CASE CleanupConfig
      BY <2>t, <3>2, <3>5 DEF CleanupConfig, Files
    <3>6. CASE CleanupEnd
      <4>1. CASE RemoveTree(CleanupTarget)
        <5>1. (d \in present') = (d \in present)
          BY <3>2, <4>1 DEF RemoveTree
        <5> QED  BY <2>t, <3>2, <4>1, <5>1 DEF RemoveTree, Files
      <4> QED  BY <2>u, <3>6, <4>1 DEF CleanupEnd
    <3> QED  BY <3>3, <3>4, <3>5, <3>6
  <2>4. CASE ExtractStep /\ job.pc = "done"
    BY <2>4 DEF ExtractStep, PickUnique, CreateWorkDir, ParseHeader, OpenSection,
       WriteSection, AllSections, WriteConfig, SignConfig, KeepRamdisk, RenameRamdisk,
       BeginInflate, EndInflate, RemoveInput, BeginUntar, EndUntar, RemoveArchive,
       ExtractionDone, CleanupPart, CleanupConfig, CleanupEnd, Extracting
  <2>5. CASE Return \/ Crash
    BY <2>u, <2>5 DEF Return, Crash
  <2>6. ~ BuildStep
    BY <2>t, BuildWrites
  <2>7. ~ UserStep
    BY <2>t DEF UserStep, StartExtract, StartBuild, Clean, Edit, Delete, JobOK, ExtractPC
  <2> QED  BY <2>1, <2>2, <2>3, <2>4, <2>5, <2>6, <2>7 DEF Next, NativeStep
<1>2. Spec => [][Next]_vars
  BY DEF Spec
<1> QED  BY <1>1, <1>2, DoneInvHolds, PTL DEF ExtractionSparesProjects
=============================================================================
