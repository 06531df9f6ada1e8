------------------------- MODULE ProjectStore_proofs -------------------------
(***************************************************************************)
(* Proofs about ProjectStore for every set of images, sections and names.  *)
(***************************************************************************)
EXTENDS ProjectStore, TLAPS

-----------------------------------------------------------------------------
(* The operators on file contents and on sequences. *)

\* What a new directory, a section and a missing file hold are contents.
LEMMA ContentTypes ==
    /\ NoFile \in Content
    /\ NoFiles \in [Part -> Content]
    /\ NoOutput \in Output
    /\ \A i \in Image : Section(i) \in Content
<1>1. NoFile \in Content
  BY StoreAssumption DEF NoFile, Content
<1>2. NoFiles \in [Part -> Content]
  BY <1>1 DEF NoFiles
<1>3. NoOutput \in Output
  BY <1>2 DEF NoOutput, Output
<1>4. \A i \in Image : Section(i) \in Content
  BY StoreAssumption DEF Section, Content
<1> QED  BY <1>1, <1>2, <1>3, <1>4

\* Turning data into another form, or beginning to, gives a content again.
LEMMA FormTypes ==
    ASSUME NEW c \in Content, NEW kind \in {"file", "cpio", "dir"}
    PROVE  As(kind, c) \in Content /\ Begun(kind, c) \in Content
<1>1. /\ c.whole \in BOOLEAN /\ c.img \in Image \cup {NoImage} /\ c.rev \in 0 .. MaxRev
  <2>1. CASE c = NoFile
    BY <2>1, StoreAssumption DEF NoFile
  <2>2. CASE c # NoFile
    BY <2>2 DEF Content
  <2> QED  BY <2>1, <2>2
<1> QED  BY <1>1 DEF Content, As, Begun

\* The tables of an image name parts.
LEMMA SectionTypes ==
    ASSUME NEW i \in Image
    PROVE  /\ SectionsOf[i] \in Seq(Part) /\ RamdisksOf[i] \in Seq(Part)
           /\ Len(SectionsOf[i]) \in Nat /\ Len(RamdisksOf[i]) \in Nat
           /\ \A n \in 1 .. Len(SectionsOf[i]) : SectionsOf[i][n] \in Part
           /\ \A n \in 1 .. Len(RamdisksOf[i]) : RamdisksOf[i][n] \in Part
<1>1. SectionsOf[i] \in Seq(Part) /\ RamdisksOf[i] \in Seq(Part)
  BY StoreAssumption
<1> QED  BY <1>1

\* Writing one file of one directory.
LEMMA UpdateTypes ==
    ASSUME NEW f \in [Names -> [Part -> Content]],
           NEW d \in Names, NEW p \in Part, NEW c \in Content
    PROVE  [f EXCEPT ![d][p] = c] \in [Names -> [Part -> Content]]
  OBVIOUS

-----------------------------------------------------------------------------
(* Type correctness. *)

\* The empty store has its types.
LEMMA InitTypeOK == Init => TypeOK
<1> SUFFICES ASSUME Init PROVE TypeOK
  OBVIOUS
<1>1. job \in Job
  BY DEF Init, Idle, Job
<1>2. JobOK
  BY DEF Init, Idle, JobOK, BuildPC, RamdiskPC
<1>3. config \in [Names -> Config]
  BY DEF Init, Config
<1> QED  BY <1>1, <1>2, <1>3, ContentTypes DEF Init, TypeOK

\* What JobOK says of the ramdisk and the section at hand.
LEMMA AtHand ==
    ASSUME TypeOK
    PROVE  /\ job.op \in {"extract", "build"} => job.work \in Names
           /\ job.pc \in RamdiskPC => job.img \in Image /\ Rd \in Part
           /\ job.pc \in {"ramdisk", "pack"} /\ job.n <= Len(Ramdisks) =>
                 job.img \in Image /\ Rd \in Part /\ job.n \in 1 .. Len(Ramdisks)
           /\ job.pc = "write" => Sections[job.n] \in Part
           /\ job.pc = "image" /\ job.n <= Len(Sections) =>
                 Sections[job.n] \in Part /\ job.n \in 1 .. Len(Sections)
<1>1. job \in Job /\ JobOK
  BY DEF TypeOK
<1>2. job.op \in {"extract", "build"} \/ job.pc = "idle"
  BY <1>1 DEF Job, JobOK
<1>3. ~(job.pc = "idle") /\ ~(job.pc \in {"validate", "done"}) => job.img \in Image
  BY <1>1, <1>2 DEF Job, JobOK, ExtractPC, BuildPC
<1>4. job.op \in {"extract", "build"} => job.work \in Names
  BY <1>1 DEF JobOK
<1>5. job.pc \in RamdiskPC => job.img \in Image /\ Rd \in Part
  BY <1>1, <1>3, SectionTypes DEF JobOK, RamdiskPC, Rd, Ramdisks
<1>6. job.pc \in {"ramdisk", "pack"} /\ job.n <= Len(Ramdisks) =>
         job.img \in Image /\ Rd \in Part /\ job.n \in 1 .. Len(Ramdisks)
  BY <1>1, <1>3, SectionTypes DEF JobOK, Rd, Ramdisks
<1>7. job.pc = "write" => Sections[job.n] \in Part
  BY <1>1, <1>3, SectionTypes DEF JobOK, Sections
<1>8. job.pc = "image" /\ job.n <= Len(Sections) =>
         Sections[job.n] \in Part /\ job.n \in 1 .. Len(Sections)
  BY <1>1, <1>3, SectionTypes DEF JobOK, Sections
<1> QED  BY <1>4, <1>5, <1>6, <1>7, <1>8

\* Removing a directory and everything in it.
LEMMA RemoveTreeTypes ==
    ASSUME TypeOK, NEW d \in Names, RemoveTree(d)
    PROVE  /\ config' \in [Names -> Config] /\ present' \in SUBSET Names
           /\ node' \in [Names -> [Part -> Content]]
           /\ tmp' \in [Names -> [Part -> Content]]
           /\ build' \in [Names -> [Part -> Content]]
           /\ buildtmp' \in [Names -> SUBSET Part]
           /\ out' \in [Names -> Output]
           /\ done' \in SUBSET Names /\ gone' \in [Names -> SUBSET Part]
<1>1. NoConfig \in Config
  BY DEF Config
<1>2. /\ present' \in SUBSET Names /\ done' \in SUBSET Names
      /\ config' \in [Names -> Config] /\ gone' \in [Names -> SUBSET Part]
  BY <1>1 DEF TypeOK, RemoveTree
<1>3. /\ node' \in [Names -> [Part -> Content]]
      /\ tmp' \in [Names -> [Part -> Content]]
      /\ build' \in [Names -> [Part -> Content]]
      /\ buildtmp' \in [Names -> SUBSET Part]
      /\ out' \in [Names -> Output]
  BY ContentTypes DEF TypeOK, RemoveTree
<1> QED  BY <1>2, <1>3

\* Every step of jniExtract keeps the types.
LEMMA ExtractTypeOK == TypeOK /\ ExtractStep => TypeOK'
<1> SUFFICES ASSUME TypeOK, ExtractStep PROVE TypeOK'
  OBVIOUS
<1> USE DEF files, ghost, Extracting, Goto
<1>j. job \in Job
  BY DEF TypeOK
<1>t. /\ JobOK
      /\ config \in [Names -> Config] /\ present \in SUBSET Names
      /\ node \in [Names -> [Part -> Content]]
      /\ tmp \in [Names -> [Part -> Content]]
      /\ build \in [Names -> [Part -> Content]]
      /\ buildtmp \in [Names -> SUBSET Part]
      /\ out \in [Names -> Output]
      /\ done \in SUBSET Names /\ gone \in [Names -> SUBSET Part]
  BY DEF TypeOK
<1>n. /\ job.n + 1 \in Nat
      /\ "image" \in ExtractPC /\ "ramdisk" \in ExtractPC /\ "pack" \in BuildPC
  BY <1>j DEF Job, ExtractPC, BuildPC
<1>w. job.op \in {"extract", "build"} => job.work \in Names
  BY <1>t DEF JobOK
<1>h. /\ job.pc \in RamdiskPC => Rd \in Part
      /\ job.pc = "ramdisk" /\ job.n <= Len(Ramdisks) =>
            Rd \in Part /\ job.n \in 1 .. Len(Ramdisks)
      /\ job.pc = "write" => Sections[job.n] \in Part
      /\ job.pc = "image" /\ job.n <= Len(Sections) =>
            Sections[job.n] \in Part /\ job.n \in 1 .. Len(Sections)
  BY AtHand
<1>f. ASSUME FailExtraction, job.op = "extract" PROVE TypeOK'
  BY <1>f, <1>j, <1>t
     DEF FailExtraction, TypeOK, Job, JobOK, ExtractPC, BuildPC, RamdiskPC, Sections,
         Ramdisks
<1>1. CASE PickUnique
  <2>1. PICK k \in Copies : job' = [job EXCEPT !.pc = "mkdir", !.work = <<job.work[1], k>>]
    BY <1>1 DEF PickUnique
  <2>2. <<job.work[1], k>> \in Names
    BY <1>1, <1>t, <2>1 DEF PickUnique, JobOK, Names
  <2>3. (job \in Job /\ JobOK)'
    BY <1>1, <1>j, <1>t, <2>1, <2>2
       DEF PickUnique, Job, JobOK, ExtractPC, BuildPC, RamdiskPC, Sections, Ramdisks
  <2> QED  BY <1>1, <1>t, <2>3 DEF PickUnique, TypeOK
<1>2. CASE CreateWorkDir
  <2> SUFFICES ASSUME ~ FailExtraction PROVE TypeOK'
    BY <1>2, <1>f DEF CreateWorkDir
  <2>1. job' = [job EXCEPT !.pc = "parse"]
    BY <1>2 DEF CreateWorkDir
  <2>2. /\ job' \in Job /\ job'.pc = "parse" /\ job'.n = job.n
        /\ job'.op = job.op /\ job'.work = job.work /\ job'.img = job.img
    BY <1>j, <2>1 DEF Job, ExtractPC, BuildPC
  <2>3. JobOK'
    BY <1>2, <1>j, <1>t, <2>2, SectionTypes DEF CreateWorkDir, Job, JobOK, ExtractPC,
       BuildPC, RamdiskPC, Sections, Ramdisks
  <2>4. present' \in SUBSET Names
    BY <1>2, <1>t, <1>w DEF CreateWorkDir
  <2> QED  BY <1>2, <1>t, <2>2, <2>3, <2>4 DEF CreateWorkDir, TypeOK
<1>3. CASE ParseHeader
  <2> SUFFICES ASSUME ~ FailExtraction PROVE TypeOK'
    BY <1>3, <1>f DEF ParseHeader
  <2>1. job' = [job EXCEPT !.pc = "image", !.n = 1]
    BY <1>3 DEF ParseHeader
  <2>2. /\ job' \in Job /\ job'.pc = "image" /\ job'.n = 1
        /\ job'.op = job.op /\ job'.work = job.work /\ job'.img = job.img
    BY <1>j, <2>1 DEF Job, ExtractPC, BuildPC
  <2>3. JobOK'
    BY <1>3, <1>j, <1>t, <2>2, SectionTypes DEF ParseHeader, Job, JobOK, ExtractPC,
       BuildPC, RamdiskPC, Sections, Ramdisks
  <2> QED  BY <1>3, <1>t, <2>2, <2>3 DEF ParseHeader, TypeOK
<1>4. CASE OpenSection
  <2> SUFFICES ASSUME ~ FailExtraction PROVE TypeOK'
    BY <1>4, <1>f DEF OpenSection
  <2>1. job' = [job EXCEPT !.pc = "write"]
    BY <1>4 DEF OpenSection
  <2>2. /\ job' \in Job /\ job'.pc = "write" /\ job'.n = job.n
        /\ job'.op = job.op /\ job'.work = job.work /\ job'.img = job.img
    BY <1>j, <2>1 DEF Job, ExtractPC, BuildPC
  <2>3. JobOK'
    BY <1>4, <1>j, <1>t, <2>2, SectionTypes, <1>h DEF OpenSection, Job, JobOK,
       ExtractPC, BuildPC, RamdiskPC, Sections, Ramdisks
  <2>4. node' = [node EXCEPT ![job.work][Sections[job.n]] = Begun("file", Section(job.img))]
    BY <1>4 DEF OpenSection
  <2>5. /\ job.work \in Names /\ Sections[job.n] \in Part
        /\ Begun("file", Section(job.img)) \in Content
    BY <1>4, <1>t, <1>w, <1>h, ContentTypes, FormTypes DEF OpenSection, JobOK
  <2>6. node' \in [Names -> [Part -> Content]]
    BY <1>t, <2>4, <2>5, UpdateTypes
  <2> QED  BY <1>4, <1>t, <2>2, <2>3, <2>6 DEF OpenSection, TypeOK
<1>5. CASE WriteSection
  <2> SUFFICES ASSUME ~ FailExtraction PROVE TypeOK'
    BY <1>5, <1>f DEF WriteSection
  <2>1. job' = [job EXCEPT !.pc = "image", !.n = job.n + 1]
    BY <1>5 DEF WriteSection
  <2>2. /\ job' \in Job /\ job'.pc = "image" /\ job'.n = job.n + 1
        /\ job'.op = job.op /\ job'.work = job.work /\ job'.img = job.img
    BY <1>j, <1>n, <2>1 DEF Job
  <2>3. JobOK'
    BY <1>5, <1>j, <1>t, <2>2, SectionTypes DEF WriteSection, Job, JobOK, ExtractPC,
       BuildPC, RamdiskPC, Sections, Ramdisks
  <2>4. node' = [node EXCEPT ![job.work][Sections[job.n]] = Section(job.img)]
    BY <1>5 DEF WriteSection
  <2>5. /\ job.work \in Names /\ Sections[job.n] \in Part
        /\ Section(job.img) \in Content
    BY <1>5, <1>t, <1>w, <1>h, ContentTypes DEF WriteSection, JobOK
  <2>6. node' \in [Names -> [Part -> Content]]
    BY <1>t, <2>4, <2>5, UpdateTypes
  <2> QED  BY <1>5, <1>t, <2>2, <2>3, <2>6 DEF WriteSection, TypeOK
<1>6. CASE AllSections
  <2>1. job' = [job EXCEPT !.pc = "config"]
    BY <1>6 DEF AllSections
  <2>2. /\ job' \in Job /\ job'.pc = "config" /\ job'.n = job.n
        /\ job'.op = job.op /\ job'.work = job.work /\ job'.img = job.img
    BY <1>j, <2>1 DEF Job, ExtractPC, BuildPC
  <2>3. JobOK'
    BY <1>6, <1>j, <1>t, <2>2, SectionTypes DEF AllSections, Job, JobOK, ExtractPC,
       BuildPC, RamdiskPC, Sections, Ramdisks
  <2> QED  BY <1>6, <1>t, <2>2, <2>3 DEF AllSections, TypeOK
<1>7. CASE WriteConfig
  <2>1. job' = [job EXCEPT !.pc = "sign"]
    BY <1>7 DEF WriteConfig
  <2>2. /\ job' \in Job /\ job'.pc = "sign" /\ job'.n = job.n
        /\ job'.op = job.op /\ job'.work = job.work /\ job'.img = job.img /\ job'.dec = job.dec
    BY <1>j, <2>1 DEF Job, ExtractPC, BuildPC
  <2>3. JobOK'
    BY <1>7, <1>j, <1>t, <2>2, SectionTypes DEF WriteConfig, Job, JobOK, ExtractPC,
       BuildPC, RamdiskPC, Sections, Ramdisks
  <2>4. config' \in [Names -> Config]
    BY <1>7, <1>j, <1>t, <1>w DEF WriteConfig, JobOK, Job, Config
  <2> QED  BY <1>7, <1>t, <2>2, <2>3, <2>4 DEF WriteConfig, TypeOK
<1>8. CASE SignConfig
  <2> SUFFICES ASSUME ~ FailExtraction PROVE TypeOK'
    BY <1>8, <1>f DEF SignConfig
  <2>1. job' = [job EXCEPT !.pc = "ramdisk", !.n = 1]
    BY <1>8 DEF SignConfig
  <2>2. /\ job' \in Job /\ job'.pc = "ramdisk" /\ job'.n = 1
        /\ job'.op = job.op /\ job'.work = job.work /\ job'.img = job.img
    BY <1>j, <2>1 DEF Job, ExtractPC, BuildPC
  <2>3. JobOK'
    BY <1>8, <1>j, <1>t, <2>2, SectionTypes DEF SignConfig, Job, JobOK, ExtractPC,
       BuildPC, RamdiskPC, Sections, Ramdisks
  <2>4. config' \in [Names -> Config]
    <3>1. config' = [config EXCEPT ![job.work].state = "signed"]
      BY <1>8 DEF SignConfig
    <3>2. /\ job.work \in Names /\ job.img \in Image /\ job.dec \in BOOLEAN
          /\ config[job.work] = [state |-> "unsigned", img |-> job.img, dec |-> job.dec]
      BY <1>8, <1>j, <1>t, <1>w DEF SignConfig, JobOK, Job
    <3>3. [config[job.work] EXCEPT !.state = "signed"] \in Config
      BY <3>2 DEF Config
    <3> QED  BY <1>t, <3>1, <3>2, <3>3
  <2> QED  BY <1>8, <1>t, <2>2, <2>3, <2>4 DEF SignConfig, TypeOK
<1>9. CASE KeepRamdisk
  <2>1. job' = [job EXCEPT !.n = job.n + 1]
    BY <1>9 DEF KeepRamdisk
  <2>2. /\ job' \in Job /\ job'.pc = job.pc /\ job'.n = job.n + 1
        /\ job'.op = job.op /\ job'.work = job.work /\ job'.img = job.img
    BY <1>j, <1>n, <2>1 DEF Job
  <2>3. JobOK'
    BY <1>9, <1>j, <1>t, <2>2, SectionTypes, <1>h DEF KeepRamdisk, Job, JobOK,
       ExtractPC, BuildPC, RamdiskPC, Sections, Ramdisks
  <2> QED  BY <1>9, <1>t, <2>2, <2>3 DEF KeepRamdisk, TypeOK
<1>10. CASE RenameRamdisk
  <2> SUFFICES ASSUME ~ FailExtraction PROVE TypeOK'
    BY <1>10, <1>f DEF RenameRamdisk
  <2>1. job' = [job EXCEPT !.pc = "untardir"]
    BY <1>10 DEF RenameRamdisk
  <2>2. /\ job' \in Job /\ job'.pc = "untardir" /\ job'.n = job.n
        /\ job'.op = job.op /\ job'.work = job.work /\ job'.img = job.img
    BY <1>j, <2>1 DEF Job, ExtractPC, BuildPC
  <2>3. JobOK'
    BY <1>10, <1>j, <1>t, <2>2, SectionTypes, <1>h DEF RenameRamdisk, Job, JobOK,
       ExtractPC, BuildPC, RamdiskPC, Sections, Ramdisks
  <2>4. tmp' = [tmp EXCEPT ![job.work][Rd] = As("cpio", node[job.work][Rd])]
    BY <1>10 DEF RenameRamdisk
  <2>5. /\ job.work \in Names /\ Rd \in Part
        /\ As("cpio", node[job.work][Rd]) \in Content
    BY <1>10, <1>t, <1>w, <1>h, FormTypes DEF RenameRamdisk
  <2>6. tmp' \in [Names -> [Part -> Content]]
    BY <1>t, <2>4, <2>5, UpdateTypes
  <2>7. node' = [node EXCEPT ![job.work][Rd] = NoFile]
    BY <1>10 DEF RenameRamdisk
  <2>8. /\ job.work \in Names /\ Rd \in Part
        /\ NoFile \in Content
    BY <1>10, <1>t, <1>w, <1>h, ContentTypes DEF RenameRamdisk
  <2>9. node' \in [Names -> [Part -> Content]]
    BY <1>t, <2>7, <2>8, UpdateTypes
  <2> QED  BY <1>10, <1>t, <2>2, <2>3, <2>6, <2>9 DEF RenameRamdisk, TypeOK
<1>11. CASE BeginInflate
  <2>1. job' = [job EXCEPT !.pc = "inflate"]
    BY <1>11 DEF BeginInflate
  <2>2. /\ job' \in Job /\ job'.pc = "inflate" /\ job'.n = job.n
        /\ job'.op = job.op /\ job'.work = job.work /\ job'.img = job.img
    BY <1>j, <2>1 DEF Job, ExtractPC, BuildPC
  <2>3. JobOK'
    BY <1>11, <1>j, <1>t, <2>2, SectionTypes, <1>h DEF BeginInflate, Job, JobOK,
       ExtractPC, BuildPC, RamdiskPC, Sections, Ramdisks
  <2>4. tmp' = [tmp EXCEPT ![job.work][Rd] = Begun("cpio", node[job.work][Rd])]
    BY <1>11 DEF BeginInflate
  <2>5. /\ job.work \in Names /\ Rd \in Part
        /\ Begun("cpio", node[job.work][Rd]) \in Content
    BY <1>11, <1>t, <1>w, <1>h, FormTypes DEF BeginInflate
  <2>6. tmp' \in [Names -> [Part -> Content]]
    BY <1>t, <2>4, <2>5, UpdateTypes
  <2> QED  BY <1>11, <1>t, <2>2, <2>3, <2>6 DEF BeginInflate, TypeOK
<1>12. CASE EndInflate
  <2>1. (job \in Job /\ JobOK)'
    BY <1>12, <1>j, <1>t
       DEF EndInflate, Job, JobOK, ExtractPC, BuildPC, RamdiskPC, Sections, Ramdisks
  <2>2. job.work \in Names /\ Rd \in Part
    BY <1>12, <1>w, <1>h DEF EndInflate, RamdiskPC
  <2>3. NoFile \in Content /\ As("cpio", node[job.work][Rd]) \in Content
    BY <1>t, <2>2, ContentTypes, FormTypes
  <2>4. \E c \in Content : tmp' = [tmp EXCEPT ![job.work][Rd] = c]
    BY <1>12, <2>3 DEF EndInflate
  <2>5. tmp' \in [Names -> [Part -> Content]]
    BY <1>t, <2>2, <2>4, UpdateTypes
  <2> QED  BY <1>12, <1>t, <2>1, <2>5 DEF EndInflate, TypeOK
<1>13. CASE RemoveInput
  <2> SUFFICES ASSUME ~ FailExtraction PROVE TypeOK'
    BY <1>13, <1>f DEF RemoveInput
  <2>1. job' = [job EXCEPT !.pc = "untardir"]
    BY <1>13 DEF RemoveInput
  <2>2. /\ job' \in Job /\ job'.pc = "untardir" /\ job'.n = job.n
        /\ job'.op = job.op /\ job'.work = job.work /\ job'.img = job.img
    BY <1>j, <2>1 DEF Job, ExtractPC, BuildPC
  <2>3. JobOK'
    BY <1>13, <1>j, <1>t, <2>2, SectionTypes DEF RemoveInput, Job, JobOK, ExtractPC,
       BuildPC, RamdiskPC, Sections, Ramdisks
  <2>4. node' = [node EXCEPT ![job.work][Rd] = NoFile]
    BY <1>13 DEF RemoveInput
  <2>5. /\ job.work \in Names /\ Rd \in Part
        /\ NoFile \in Content
    BY <1>13, <1>t, <1>w, <1>h, ContentTypes DEF RemoveInput, RamdiskPC
  <2>6. node' \in [Names -> [Part -> Content]]
    BY <1>t, <2>4, <2>5, UpdateTypes
  <2> QED  BY <1>13, <1>t, <2>2, <2>3, <2>6 DEF RemoveInput, TypeOK
<1>14. CASE BeginUntar
  <2> SUFFICES ASSUME ~ FailExtraction PROVE TypeOK'
    BY <1>14, <1>f DEF BeginUntar
  <2>1. job' = [job EXCEPT !.pc = "untar"]
    BY <1>14 DEF BeginUntar
  <2>2. /\ job' \in Job /\ job'.pc = "untar" /\ job'.n = job.n
        /\ job'.op = job.op /\ job'.work = job.work /\ job'.img = job.img
    BY <1>j, <2>1 DEF Job, ExtractPC, BuildPC
  <2>3. JobOK'
    BY <1>14, <1>j, <1>t, <2>2, SectionTypes DEF BeginUntar, Job, JobOK, ExtractPC,
       BuildPC, RamdiskPC, Sections, Ramdisks
  <2>4. node' = [node EXCEPT ![job.work][Rd] = Begun("dir", tmp[job.work][Rd])]
    BY <1>14 DEF BeginUntar
  <2>5. /\ job.work \in Names /\ Rd \in Part
        /\ Begun("dir", tmp[job.work][Rd]) \in Content
    BY <1>14, <1>t, <1>w, <1>h, FormTypes DEF BeginUntar, RamdiskPC
  <2>6. node' \in [Names -> [Part -> Content]]
    BY <1>t, <2>4, <2>5, UpdateTypes
  <2> QED  BY <1>14, <1>t, <2>2, <2>3, <2>6 DEF BeginUntar, TypeOK
<1>15. CASE EndUntar
  <2> SUFFICES ASSUME ~ FailExtraction PROVE TypeOK'
    BY <1>15, <1>f DEF EndUntar
  <2>1. job' = [job EXCEPT !.pc = "rmtmp"]
    BY <1>15 DEF EndUntar
  <2>2. /\ job' \in Job /\ job'.pc = "rmtmp" /\ job'.n = job.n
        /\ job'.op = job.op /\ job'.work = job.work /\ job'.img = job.img
    BY <1>j, <2>1 DEF Job, ExtractPC, BuildPC
  <2>3. JobOK'
    BY <1>15, <1>j, <1>t, <2>2, SectionTypes DEF EndUntar, Job, JobOK, ExtractPC,
       BuildPC, RamdiskPC, Sections, Ramdisks
  <2>4. node' = [node EXCEPT ![job.work][Rd] = As("dir", tmp[job.work][Rd])]
    BY <1>15 DEF EndUntar
  <2>5. /\ job.work \in Names /\ Rd \in Part
        /\ As("dir", tmp[job.work][Rd]) \in Content
    BY <1>15, <1>t, <1>w, <1>h, FormTypes DEF EndUntar, RamdiskPC
  <2>6. node' \in [Names -> [Part -> Content]]
    BY <1>t, <2>4, <2>5, UpdateTypes
  <2> QED  BY <1>15, <1>t, <2>2, <2>3, <2>6 DEF EndUntar, TypeOK
<1>16. CASE RemoveArchive
  <2>1. /\ job.pc = "rmtmp" /\ job.op = "extract" /\ job.work \in Names /\ Rd \in Part
        /\ UNCHANGED config
    BY <1>16, <1>w, <1>h DEF RemoveArchive, RamdiskPC
  <2>2. /\ job' \in Job /\ job'.pc = "ramdisk" /\ job'.n = job.n + 1
        /\ job'.op = job.op /\ job'.work = job.work /\ job'.img = job.img
    <3>1. job.unremoved \cup {Rd} \in SUBSET Part
      BY <1>j, <2>1 DEF Job
    <3> QED  BY <1>16, <1>j, <1>n, <3>1 DEF RemoveArchive, Job
  <2>3. JobOK'
    BY <1>t, <1>j, <2>1, <2>2, SectionTypes DEF Job, JobOK,
       ExtractPC, BuildPC, RamdiskPC, Sections, Ramdisks
  <2>4. tmp' \in [Names -> [Part -> Content]]
    <3>1. tmp' = [tmp EXCEPT ![job.work][Rd] = NoFile] \/ tmp' = tmp
      BY <1>16 DEF RemoveArchive
    <3>2. NoFile \in Content
      BY ContentTypes
    <3>3. [tmp EXCEPT ![job.work][Rd] = NoFile] \in [Names -> [Part -> Content]]
      BY <1>t, <2>1, <3>2, UpdateTypes
    <3> QED  BY <1>t, <3>1, <3>3
  <2> QED  BY <1>16, <1>t, <2>2, <2>3, <2>4 DEF RemoveArchive, TypeOK
<1>17. CASE ExtractionDone
  <2>1. job' = [job EXCEPT !.pc = "done", !.ok = TRUE]
    BY <1>17 DEF ExtractionDone
  <2>2. /\ job' \in Job /\ job'.pc = "done" /\ job'.n = job.n
        /\ job'.op = job.op /\ job'.work = job.work /\ job'.img = job.img
    BY <1>j, <2>1 DEF Job, ExtractPC, BuildPC
  <2>3. JobOK'
    BY <1>17, <1>j, <1>t, <2>2, SectionTypes DEF ExtractionDone, Job, JobOK,
       ExtractPC, BuildPC, RamdiskPC, Sections, Ramdisks
  <2>4. done' \in SUBSET Names
    BY <1>17, <1>t, <1>w DEF ExtractionDone
  <2> QED  BY <1>17, <1>t, <2>2, <2>3, <2>4 DEF ExtractionDone, TypeOK
<1>18. CASE CleanupPart
  <2>1. CleanupTarget \in Names
    BY <1>18, <1>t, <1>w, StoreAssumption DEF CleanupPart, CleanupTarget, Names, Copies
  <2>2. PICK p \in Part : RemovePart(CleanupTarget, p)
    BY <1>18 DEF CleanupPart
  <2>3. /\ node' \in [Names -> [Part -> Content]]
        /\ tmp' \in [Names -> [Part -> Content]]
        /\ build' \in [Names -> [Part -> Content]]
    BY <1>t, <2>1, <2>2, ContentTypes, UpdateTypes DEF RemovePart
  <2>4. gone' \in [Names -> SUBSET Part] /\ buildtmp' \in [Names -> SUBSET Part]
    BY <1>t, <2>1, <2>2 DEF RemovePart
  <2>5. JobOK'
    BY <1>18, <1>t
       DEF CleanupPart, JobOK, ExtractPC, BuildPC, RamdiskPC, Sections, Ramdisks
  <2> QED  BY <1>18, <1>j, <1>t, <2>3, <2>4, <2>5 DEF CleanupPart, TypeOK
<1>19. CASE CleanupConfig
  <2>1. CleanupTarget \in Names
    BY <1>19, <1>t, <1>w, StoreAssumption DEF CleanupConfig, CleanupTarget, Names, Copies
  <2>2. config' \in [Names -> Config]
    BY <1>19, <1>t, <2>1 DEF CleanupConfig, Config
  <2>3. JobOK'
    BY <1>19, <1>t
       DEF CleanupConfig, JobOK, ExtractPC, BuildPC, RamdiskPC, Sections, Ramdisks
  <2> QED  BY <1>19, <1>j, <1>t, <2>2, <2>3 DEF CleanupConfig, TypeOK
<1>20. CASE CleanupEnd
  <2>1. CleanupTarget \in Names
    BY <1>20, <1>t, <1>w, StoreAssumption DEF CleanupEnd, CleanupTarget, Names, Copies
  <2>2. (job \in Job /\ JobOK)'
    BY <1>20, <1>j, <1>t
       DEF CleanupEnd, Job, JobOK, ExtractPC, BuildPC, RamdiskPC, Sections, Ramdisks
  <2>3. CASE RemoveTree(CleanupTarget)
    BY <1>t, <2>1, <2>2, <2>3, RemoveTreeTypes DEF TypeOK
  <2>4. CASE UNCHANGED <<files, ghost>>
    BY <1>t, <2>2, <2>4 DEF TypeOK
  <2> QED  BY <1>20, <2>3, <2>4 DEF CleanupEnd
<1> QED
  BY <1>1, <1>2, <1>3, <1>4, <1>5, <1>6, <1>7, <1>8, <1>9, <1>10, <1>11, <1>12, <1>13,
     <1>14, <1>15, <1>16, <1>17, <1>18, <1>19, <1>20
     DEF ExtractStep

\* Every step of jniBuild keeps the types.
LEMMA BuildTypeOK == TypeOK /\ BuildStep => TypeOK'
<1> SUFFICES ASSUME TypeOK, BuildStep PROVE TypeOK'
  OBVIOUS
<1> USE DEF files, ghost, Building, Goto
<1>j. job \in Job
  BY DEF TypeOK
<1>t. /\ JobOK
      /\ config \in [Names -> Config] /\ present \in SUBSET Names
      /\ node \in [Names -> [Part -> Content]]
      /\ tmp \in [Names -> [Part -> Content]]
      /\ build \in [Names -> [Part -> Content]]
      /\ buildtmp \in [Names -> SUBSET Part]
      /\ out \in [Names -> Output]
      /\ done \in SUBSET Names /\ gone \in [Names -> SUBSET Part]
  BY DEF TypeOK
<1>n. /\ job.n + 1 \in Nat
      /\ "image" \in ExtractPC /\ "ramdisk" \in ExtractPC /\ "pack" \in BuildPC
  BY <1>j DEF Job, ExtractPC, BuildPC
<1>w. job.op \in {"extract", "build"} => job.work \in Names
  BY <1>t DEF JobOK
<1>h. /\ job.pc \in RamdiskPC => Rd \in Part
      /\ job.pc = "pack" /\ job.n <= Len(Ramdisks) =>
            Rd \in Part /\ job.n \in 1 .. Len(Ramdisks)
  BY AtHand
<1>f. ASSUME AbortBuild, job.op = "build" PROVE TypeOK'
  BY <1>f, <1>j, <1>t
     DEF AbortBuild, TypeOK, Job, JobOK, ExtractPC, BuildPC, RamdiskPC, Sections, Ramdisks
<1>1. CASE ValidateConfig
  <2>1. CASE config[job.work].state = "signed"
    <3>1. job.work \in Names /\ config[job.work].img \in Image /\ config[job.work].dec \in BOOLEAN
      BY <1>1, <1>t, <1>w, <2>1 DEF ValidateConfig, Config, NoConfig
    <3>2. job' = [job EXCEPT !.pc = "pack", !.n = 1, !.img = config[job.work].img,
                             !.dec = config[job.work].dec]
      BY <1>1, <2>1 DEF ValidateConfig
    <3>3. /\ job' \in Job /\ job'.op = job.op /\ job'.pc = "pack" /\ job'.work = job.work
          /\ job'.img = config[job.work].img /\ job'.n = 1
      BY <1>j, <3>1, <3>2 DEF Job, BuildPC
    <3>4. JobOK'
      BY <1>1, <1>j, <1>t, <3>1, <3>3, SectionTypes
         DEF ValidateConfig, Job, JobOK, ExtractPC, BuildPC, RamdiskPC, Ramdisks
    <3> QED  BY <1>1, <1>t, <2>1, <3>3, <3>4 DEF ValidateConfig, TypeOK
  <2> QED  BY <1>1, <1>f, <2>1 DEF ValidateConfig
<1>2. CASE BeginCpio
  <2> SUFFICES ASSUME ~ AbortBuild PROVE TypeOK'
    BY <1>2, <1>f DEF BeginCpio
  <2>1. job' = [job EXCEPT !.pc = "cpio"]
    BY <1>2 DEF BeginCpio
  <2>2. /\ job' \in Job /\ job'.pc = "cpio" /\ job'.n = job.n
        /\ job'.op = job.op /\ job'.work = job.work /\ job'.img = job.img
    BY <1>j, <2>1 DEF Job, ExtractPC, BuildPC
  <2>3. JobOK'
    BY <1>2, <1>j, <1>t, <2>2, SectionTypes, <1>h DEF BeginCpio, Job, JobOK,
       ExtractPC, BuildPC, RamdiskPC, Sections, Ramdisks
  <2>4. build' = [build EXCEPT ![job.work][Rd] = Begun("cpio", node[job.work][Rd])]
    BY <1>2 DEF BeginCpio
  <2>5. /\ job.work \in Names /\ Rd \in Part
        /\ Begun("cpio", node[job.work][Rd]) \in Content
    BY <1>2, <1>t, <1>w, <1>h, FormTypes DEF BeginCpio
  <2>6. build' \in [Names -> [Part -> Content]]
    BY <1>t, <2>4, <2>5, UpdateTypes
  <2> QED  BY <1>2, <1>t, <2>2, <2>3, <2>6 DEF BeginCpio, TypeOK
<1>3. CASE EndCpio
  <2> SUFFICES ASSUME ~ AbortBuild PROVE TypeOK'
    BY <1>3, <1>f DEF EndCpio
  <2>0. job.spoilt \cup {Rd} \in SUBSET Part /\ job.spoilt \in SUBSET Part
    BY <1>3, <1>j, <1>w, <1>h DEF EndCpio, RamdiskPC, Job
  <2>1. \E bad \in SUBSET Part : job' = [job EXCEPT !.pc = "compress", !.spoilt = bad]
    <3>1. [job EXCEPT !.pc = "compress"] = [job EXCEPT !.pc = "compress", !.spoilt = job.spoilt]
      BY <1>j DEF Job
    <3> QED  BY <1>3, <2>0, <3>1 DEF EndCpio
  <2>2. /\ job' \in Job /\ job'.pc = "compress" /\ job'.n = job.n
        /\ job'.op = job.op /\ job'.work = job.work /\ job'.img = job.img
    BY <1>j, <2>1 DEF Job, ExtractPC, BuildPC
  <2>3. JobOK'
    BY <1>3, <1>j, <1>t, <2>2, SectionTypes DEF EndCpio, Job, JobOK, ExtractPC,
       BuildPC, RamdiskPC, Sections, Ramdisks
  <2>4. \/ build' = [build EXCEPT ![job.work][Rd] = As("cpio", node[job.work][Rd])]
        \/ build' = build
    BY <1>3 DEF EndCpio
  <2>5. /\ job.work \in Names /\ Rd \in Part
        /\ As("cpio", node[job.work][Rd]) \in Content
    BY <1>3, <1>t, <1>w, <1>h, FormTypes DEF EndCpio, RamdiskPC
  <2>6. build' \in [Names -> [Part -> Content]]
    <3>1. [build EXCEPT ![job.work][Rd] = As("cpio", node[job.work][Rd])]
             \in [Names -> [Part -> Content]]
      BY <1>t, <2>5, UpdateTypes
    <3> QED  BY <1>t, <2>4, <3>1
  <2> QED  BY <1>3, <1>t, <2>2, <2>3, <2>6 DEF EndCpio, TypeOK
<1>4. CASE BeginCompress
  <2> SUFFICES ASSUME ~ AbortBuild PROVE TypeOK'
    BY <1>4, <1>f DEF BeginCompress
  <2>1. job.pc = "compress" /\ job.op = "build" /\ job.work \in Names /\ Rd \in Part
    BY <1>4, <1>w, <1>h DEF BeginCompress, RamdiskPC
  <2>2. CASE Compression \in Compressors
    <3>1. /\ job' = [job EXCEPT !.pc = "replace"]
          /\ buildtmp' = [buildtmp EXCEPT ![job.work] = buildtmp[job.work] \cup {Rd}]
          /\ UNCHANGED <<present, config, node, tmp, build, out, ghost>>
      BY <1>4, <2>2 DEF BeginCompress
    <3>2. /\ job' \in Job /\ job'.pc = "replace" /\ job'.n = job.n
          /\ job'.op = job.op /\ job'.work = job.work /\ job'.img = job.img
      BY <1>j, <3>1 DEF Job, BuildPC
    <3>3. JobOK'
      BY <1>t, <1>j, <2>1, <3>1, <3>2, SectionTypes
         DEF Job, JobOK, ExtractPC, BuildPC, RamdiskPC, Sections, Ramdisks
    <3>4. buildtmp' \in [Names -> SUBSET Part]
      BY <1>t, <2>1, <3>1
    <3> QED  BY <1>t, <3>1, <3>2, <3>3, <3>4 DEF TypeOK
  <2>3. CASE Compression \notin Compressors
    <3>1. /\ job' = [job EXCEPT !.pc = "pack", !.n = job.n + 1]
          /\ build' = [build EXCEPT ![job.work][Rd] =
                          IF Compression = "other" THEN build[job.work][Rd]
                                                   ELSE As("file", build[job.work][Rd])]
          /\ UNCHANGED <<present, config, node, tmp, buildtmp, out, ghost>>
      BY <1>4, <2>3 DEF BeginCompress
    <3>2. /\ job' \in Job /\ job'.pc = "pack" /\ job'.n = job.n + 1
          /\ job'.op = job.op /\ job'.work = job.work /\ job'.img = job.img
      BY <1>j, <1>n, <3>1 DEF Job
    <3>3. JobOK'
      BY <1>t, <1>j, <2>1, <3>1, <3>2, SectionTypes
         DEF Job, JobOK, ExtractPC, BuildPC, RamdiskPC, Sections, Ramdisks
    <3>4. build[job.work][Rd] \in Content /\ As("file", build[job.work][Rd]) \in Content
      BY <1>t, <2>1, FormTypes
    <3>5. \E c \in Content : build' = [build EXCEPT ![job.work][Rd] = c]
      BY <3>1, <3>4
    <3>6. build' \in [Names -> [Part -> Content]]
      BY <1>t, <2>1, <3>5, UpdateTypes
    <3> QED  BY <1>t, <3>1, <3>2, <3>3, <3>6 DEF TypeOK
  <2> QED  BY <2>2, <2>3
<1>11. CASE EndCompress
  <2> SUFFICES ASSUME ~ AbortBuild PROVE TypeOK'
    BY <1>11, <1>f DEF EndCompress
  <2>1. job.pc = "replace" /\ job.op = "build" /\ job.work \in Names /\ Rd \in Part
    BY <1>11, <1>w, <1>h DEF EndCompress, RamdiskPC
  <2>2. /\ buildtmp' = [buildtmp EXCEPT ![job.work] = buildtmp[job.work] \ {Rd}]
        /\ UNCHANGED <<present, config, node, tmp, out, ghost>>
    BY <1>11 DEF EndCompress
  <2>3. buildtmp' \in [Names -> SUBSET Part]
    BY <1>t, <2>1, <2>2
  <2>4. CASE \E bad \in SUBSET Part, c \in {As("file", build[job.work][Rd]),
                                            Begun("file", build[job.work][Rd])} :
                /\ job' = [job EXCEPT !.pc = "pack", !.n = job.n + 1, !.spoilt = bad]
                /\ build' = [build EXCEPT ![job.work][Rd] = c]
    <3>1. /\ job' \in Job /\ job'.pc = "pack" /\ job'.n = job.n + 1
          /\ job'.op = job.op /\ job'.work = job.work /\ job'.img = job.img
      BY <1>j, <1>n, <2>4 DEF Job
    <3>2. JobOK'
      BY <1>t, <1>j, <2>1, <2>2, <3>1, SectionTypes
         DEF Job, JobOK, ExtractPC, BuildPC, RamdiskPC, Sections, Ramdisks
    <3>3. /\ As("file", build[job.work][Rd]) \in Content
          /\ Begun("file", build[job.work][Rd]) \in Content
      BY <1>t, <2>1, FormTypes
    <3>4. build' \in [Names -> [Part -> Content]]
      BY <1>t, <2>1, <2>4, <3>3, UpdateTypes
    <3> QED  BY <1>t, <2>2, <2>3, <3>1, <3>2, <3>4 DEF TypeOK
  <2>5. CASE job' = [job EXCEPT !.pc = "done"] /\ UNCHANGED build
    <3>1. (job \in Job /\ JobOK)'
      BY <1>t, <1>j, <2>1, <2>2, <2>5
         DEF Job, JobOK, ExtractPC, BuildPC, RamdiskPC, Sections, Ramdisks
    <3> QED  BY <1>t, <2>2, <2>3, <2>5, <3>1 DEF TypeOK
  <2>6. /\ job.spoilt \cup {Rd} \in SUBSET Part /\ job.spoilt \in SUBSET Part
        /\ [job EXCEPT !.pc = "pack", !.n = job.n + 1] =
              [job EXCEPT !.pc = "pack", !.n = job.n + 1, !.spoilt = job.spoilt]
    BY <1>j, <2>1 DEF Job
  <2> QED  BY <1>11, <2>4, <2>5, <2>6 DEF EndCompress
<1>c. ASSUME CopyFailed, job.op = "build", job.pc \in {"pack", "copy"}, job.n <= Len(Ramdisks)
      PROVE  TypeOK'
  <2>1. job.work \in Names /\ Rd \in Part /\ job.n \in 1 .. Len(Ramdisks)
    BY <1>c, <1>w, <1>h, <1>t DEF RamdiskPC, JobOK
  <2>2. /\ job' = [job EXCEPT !.pc = "pack", !.n = job.n + 1,
                             !.spoilt = job.spoilt \cup {Rd}]
        /\ UNCHANGED <<files, ghost>>
    BY <1>c DEF CopyFailed
  <2>3. job.spoilt \cup {Rd} \in SUBSET Part
    BY <1>j, <2>1 DEF Job
  <2>4. /\ job' \in Job /\ job'.pc = "pack" /\ job'.n = job.n + 1
        /\ job'.op = job.op /\ job'.work = job.work /\ job'.img = job.img
    BY <1>j, <1>n, <2>2, <2>3 DEF Job
  <2>5. JobOK'
    BY <1>c, <1>t, <1>j, <2>1, <2>2, <2>4, SectionTypes
       DEF Job, JobOK, ExtractPC, BuildPC, RamdiskPC, Sections, Ramdisks
  <2> QED  BY <1>t, <2>2, <2>4, <2>5 DEF TypeOK
<1>5. CASE BeginCopy
  <2> SUFFICES ASSUME ~ CopyFailed PROVE TypeOK'
    BY <1>5, <1>c DEF BeginCopy
  <2>1. /\ job' = [job EXCEPT !.pc = "copy"]
        /\ build' = [build EXCEPT ![job.work][Rd] = Begun("file", node[job.work][Rd])]
    BY <1>5 DEF BeginCopy
  <2>2. /\ job' \in Job /\ job'.pc = "copy" /\ job'.n = job.n
        /\ job'.op = job.op /\ job'.work = job.work /\ job'.img = job.img
    BY <1>j, <2>1 DEF Job, BuildPC
  <2>3. JobOK'
    BY <1>5, <1>j, <1>t, <1>h, <2>2, SectionTypes
       DEF BeginCopy, Job, JobOK, ExtractPC, BuildPC, RamdiskPC, Sections, Ramdisks
  <2>4. /\ job.work \in Names /\ Rd \in Part
        /\ Begun("file", node[job.work][Rd]) \in Content
    BY <1>5, <1>t, <1>w, <1>h, FormTypes DEF BeginCopy
  <2>5. build' \in [Names -> [Part -> Content]]
    BY <1>t, <2>1, <2>4, UpdateTypes
  <2> QED  BY <1>5, <1>t, <2>2, <2>3, <2>5 DEF BeginCopy, TypeOK
<1>6. CASE EndCopy
  <2>c. job.n <= Len(Ramdisks) /\ job.pc = "copy" /\ job.op = "build"
    BY <1>6, <1>t, <1>j, SectionTypes DEF EndCopy, JobOK, RamdiskPC, Ramdisks, ExtractPC, BuildPC
  <2> SUFFICES ASSUME ~ CopyFailed PROVE TypeOK'
    BY <1>6, <1>c, <2>c DEF EndCopy
  <2>1. job' = [job EXCEPT !.pc = "pack", !.n = job.n + 1]
    BY <1>6 DEF EndCopy
  <2>2. /\ job' \in Job /\ job'.pc = "pack" /\ job'.n = job.n + 1
        /\ job'.op = job.op /\ job'.work = job.work /\ job'.img = job.img
    BY <1>j, <1>n, <2>1 DEF Job
  <2>3. JobOK'
    BY <1>6, <1>j, <1>t, <2>2, SectionTypes DEF EndCopy, Job, JobOK, ExtractPC,
       BuildPC, RamdiskPC, Sections, Ramdisks
  <2>4. build' = [build EXCEPT ![job.work][Rd] = node[job.work][Rd]]
    BY <1>6 DEF EndCopy
  <2>5. /\ job.work \in Names /\ Rd \in Part
        /\ node[job.work][Rd] \in Content
    BY <1>6, <1>t, <1>w, <1>h, <1>t DEF EndCopy, RamdiskPC
  <2>6. build' \in [Names -> [Part -> Content]]
    BY <1>t, <2>4, <2>5, UpdateTypes
  <2> QED  BY <1>6, <1>t, <2>2, <2>3, <2>6 DEF EndCopy, TypeOK
<1>7. CASE AllRamdisks
  <2>1. job' = [job EXCEPT !.pc = "open"]
    BY <1>7 DEF AllRamdisks
  <2>2. /\ job' \in Job /\ job'.pc = "open" /\ job'.n = job.n
        /\ job'.op = job.op /\ job'.work = job.work /\ job'.img = job.img
    BY <1>j, <2>1 DEF Job, ExtractPC, BuildPC
  <2>3. JobOK'
    BY <1>7, <1>j, <1>t, <2>2, SectionTypes DEF AllRamdisks, Job, JobOK, ExtractPC,
       BuildPC, RamdiskPC, Sections, Ramdisks
  <2> QED  BY <1>7, <1>t, <2>2, <2>3 DEF AllRamdisks, TypeOK
<1>8. CASE OpenOutput
  <2>1. (job \in Job /\ JobOK)'
    <3>1. job.pc = "open" /\ job.op = "build" /\ UNCHANGED config
      BY <1>8 DEF OpenOutput, Building
    <3>2. /\ job' \in Job /\ job'.pc \in {"sections", "tidy"} /\ job'.op = job.op
          /\ job'.work = job.work /\ job'.img = job.img /\ job'.n = job.n
      BY <1>8, <1>j DEF OpenOutput, Goto, Job, ExtractPC, BuildPC
    <3> QED  BY <1>t, <3>1, <3>2
             DEF TypeOK, JobOK, ExtractPC, BuildPC, RamdiskPC, Sections, Ramdisks
  <2>2. out' \in [Names -> Output]
    <3>1. [state |-> "open", sect |-> NoFiles] \in Output /\ NoOutput \in Output
      BY ContentTypes DEF Output
    <3>2. \/ out' = [out EXCEPT ![job.work] = [state |-> "open", sect |-> NoFiles]]
          \/ out' = [out EXCEPT ![job.work] = NoOutput]
      BY <1>8 DEF OpenOutput
    <3> QED  BY <1>t, <3>1, <3>2
  <2>3. UNCHANGED <<present, config, node, tmp, build, buildtmp, ghost>>
    BY <1>8 DEF OpenOutput
  <2> QED  BY <1>t, <2>1, <2>2, <2>3 DEF TypeOK
<1>9. CASE WriteImage
  <2>1. (job \in Job /\ JobOK)'
    <3>1. job.pc = "sections" /\ job.op = "build" /\ UNCHANGED config
      BY <1>9 DEF WriteImage, Building
    <3>2. \E b \in BOOLEAN, bad \in SUBSET Part :
             job' = [job EXCEPT !.pc = "tidy", !.ok = b, !.spoilt = bad]
      <4>1. CASE Writable(job.work)
        <5>1. PICK cut \in SUBSET {p \in Repacked[job.img] : Source(job.work, p).kind # "none"} :
                 job' = [job EXCEPT !.pc = "tidy", !.ok = TRUE, !.spoilt = job.spoilt \cup cut]
          BY <1>9, <4>1 DEF WriteImage
        <5>2. job.spoilt \cup cut \in SUBSET Part
          BY <1>9, <1>j, <1>t, <3>1, <5>1, StoreAssumption DEF Job, JobOK, BuildPC
        <5> QED  BY <5>1, <5>2
      <4>2. CASE ~ Writable(job.work)
        <5>1. job' = [job EXCEPT !.pc = "tidy"]
          BY <1>9, <4>2 DEF WriteImage, Goto
        <5>2. /\ job.ok \in BOOLEAN /\ job.spoilt \in SUBSET Part
              /\ [job EXCEPT !.pc = "tidy"] =
                    [job EXCEPT !.pc = "tidy", !.ok = job.ok, !.spoilt = job.spoilt]
          BY <1>j DEF Job
        <5> QED  BY <5>1, <5>2
      <4> QED  BY <4>1, <4>2
    <3>3. /\ job' \in Job /\ job'.pc = "tidy" /\ job'.op = job.op
          /\ job'.work = job.work /\ job'.img = job.img /\ job'.n = job.n
      BY <1>j, <3>2 DEF Job, ExtractPC, BuildPC
    <3> QED  BY <1>t, <3>1, <3>3 DEF JobOK, ExtractPC, BuildPC, RamdiskPC, Sections, Ramdisks
  <2>2. \A cut : \A p \in Part : Packs(job.work, p, cut) \in Content
    <3>1. \A p \in Part : Source(job.work, p) \in Content
      <4>1. job.work \in Names
        BY <1>9, <1>w DEF WriteImage, Building
      <4> QED  BY <1>t, <4>1 DEF Source
    <3> QED  BY <3>1, ContentTypes, FormTypes DEF Packs
  <2>3. out' \in [Names -> Output]
    <3> DEFINE o(cut) == [state |-> "written",
                          sect  |-> [p \in Part |-> Packs(job.work, p, cut)]]
    <3>1. \A cut : o(cut) \in Output
      BY <2>2 DEF Output
    <3>2. (\E cut : out' = [out EXCEPT ![job.work] = o(cut)]) \/ out' = out
      BY <1>9 DEF WriteImage
    <3> HIDE DEF o
    <3> QED  BY <1>t, <3>1, <3>2
  <2> QED  BY <1>9, <1>t, <2>1, <2>3 DEF WriteImage, TypeOK
<1>10. CASE TryClean
  <2>1. PICK kept \in SUBSET Built : Tidy(kept, kept)
    BY <1>10 DEF TryClean
  <2>2. kept \in SUBSET Part /\ job.pc = "tidy" /\ job.op = "build" /\ UNCHANGED config
    BY <1>10, <2>1 DEF TryClean, Built, Tidy
  <2>3. job' = [job EXCEPT !.pc = "done", !.unremoved = kept]
    BY <2>1 DEF Tidy
  <2>4. (job \in Job /\ JobOK)'
    BY <1>j, <1>t, <2>2, <2>3
       DEF Job, JobOK, ExtractPC, BuildPC, RamdiskPC, Sections, Ramdisks
  <2>5. build' \in [Names -> [Part -> Content]]
    BY <1>t, <1>w, <2>1, <2>2, ContentTypes DEF Tidy
  <2> QED  BY <1>t, <2>1, <2>4, <2>5 DEF Tidy, TypeOK
<1> QED
  BY <1>1, <1>2, <1>3, <1>4, <1>5, <1>6, <1>7, <1>8, <1>9, <1>10, <1>11 DEF BuildStep

\* Calls begin, end and die; the user edits, deletes and cleans.
LEMMA OtherTypeOK == TypeOK /\ (Return \/ Crash \/ UserStep) => TypeOK'
<1> SUFFICES ASSUME TypeOK, Return \/ Crash \/ UserStep PROVE TypeOK'
  OBVIOUS
<1> USE DEF files, ghost
<1>j. job \in Job
  BY DEF TypeOK
<1>t. /\ JobOK
      /\ config \in [Names -> Config] /\ present \in SUBSET Names
      /\ node \in [Names -> [Part -> Content]]
      /\ tmp \in [Names -> [Part -> Content]]
      /\ build \in [Names -> [Part -> Content]]
      /\ buildtmp \in [Names -> SUBSET Part]
      /\ out \in [Names -> Output]
      /\ done \in SUBSET Names /\ gone \in [Names -> SUBSET Part]
  BY DEF TypeOK
<1>n. /\ job.n + 1 \in Nat
      /\ "image" \in ExtractPC /\ "ramdisk" \in ExtractPC /\ "pack" \in BuildPC
  BY <1>j DEF Job, ExtractPC, BuildPC
<1>w. job.op \in {"extract", "build"} => job.work \in Names
  BY <1>t DEF JobOK
<1>i. Idle \in Job
  BY DEF Idle, Job
<1>1. CASE Return \/ Crash
  <2>1. JobOK'
    BY <1>1 DEF Return, Crash, Idle, JobOK, ExtractPC, BuildPC, RamdiskPC
  <2> QED  BY <1>1, <1>i, <1>t, <2>1 DEF Return, Crash, TypeOK
<1>2. ASSUME NEW b \in Base, NEW i \in Image, NEW dec \in BOOLEAN, StartExtract(b, i, dec)
      PROVE  TypeOK'
  <2>1. <<b, 0>> \in Names
    BY StoreAssumption DEF Names, Copies
  <2>2. job' = [op |-> "extract", pc |-> "pick", work |-> <<b, 0>>, img |-> i,
                dec |-> dec, n |-> 0, ok |-> FALSE, spoilt |-> {}, unremoved |-> {}]
    BY <1>2 DEF StartExtract, Idle
  <2>3. (job \in Job /\ JobOK)'
    BY <2>1, <2>2 DEF Job, JobOK, ExtractPC, BuildPC, RamdiskPC
  <2> QED  BY <1>2, <1>t, <2>3 DEF StartExtract, TypeOK
<1>3. ASSUME NEW d \in Names, StartBuild(d) PROVE TypeOK'
  <2>1. job' = [op |-> "build", pc |-> "validate", work |-> d, img |-> NoImage,
                dec |-> FALSE, n |-> 0, ok |-> FALSE, spoilt |-> {}, unremoved |-> {}]
    BY <1>3 DEF StartBuild, Idle
  <2>2. (job \in Job /\ JobOK)'
    BY <2>1 DEF Job, JobOK, ExtractPC, BuildPC, RamdiskPC
  <2> QED  BY <1>3, <1>t, <2>2 DEF StartBuild, TypeOK
<1>k. ASSUME job.pc = "idle", UNCHANGED job PROVE JobOK'
  BY <1>k, <1>t DEF JobOK, ExtractPC, BuildPC, RamdiskPC
<1>4. ASSUME NEW d \in Names, Clean(d) PROVE TypeOK'
  BY <1>4, <1>j, <1>k, RemoveTreeTypes DEF Clean, TypeOK
<1>5. ASSUME NEW d \in Names, NEW p \in Part, Edit(d, p) PROVE TypeOK'
  <2>1. node' = [node EXCEPT ![d][p] = [node[d][p] EXCEPT !.rev = node[d][p].rev + 1]]
    BY <1>5 DEF Edit
  <2>2. [node[d][p] EXCEPT !.rev = node[d][p].rev + 1] \in Content
    <3>1. node[d][p] \in Content /\ node[d][p].rev < MaxRev
      BY <1>5, <1>t DEF Edit
    <3>2. /\ node[d][p] \in [kind : {"file", "cpio", "dir"}, whole : BOOLEAN,
                            img : Image \cup {NoImage}, rev : 0 .. MaxRev]
          /\ node[d][p].rev \in 0 .. MaxRev
      BY <1>5, <3>1 DEF Edit, Content, NoFile
    <3>3. node[d][p].rev + 1 \in 0 .. MaxRev
      BY <3>1, <3>2, StoreAssumption
    <3> QED  BY <3>2, <3>3 DEF Content
  <2>3. node' \in [Names -> [Part -> Content]]
    BY <1>t, <2>1, <2>2, UpdateTypes
  <2> QED  BY <1>5, <1>j, <1>k, <1>t, <2>3 DEF Edit, TypeOK
<1>6. ASSUME NEW d \in Names, NEW p \in Part, Delete(d, p) PROVE TypeOK'
  <2>1. node' \in [Names -> [Part -> Content]]
    BY <1>6, <1>t, ContentTypes, UpdateTypes DEF Delete
  <2>2. gone' \in [Names -> SUBSET Part]
    BY <1>6, <1>t DEF Delete
  <2> QED  BY <1>6, <1>j, <1>k, <1>t, <2>1, <2>2 DEF Delete, TypeOK
<1> QED  BY <1>1, <1>2, <1>3, <1>4, <1>5, <1>6 DEF UserStep

\* The program counter, the loop counters and every file keep their types,
\* and both loops of a call stay within their section tables.
THEOREM TypeCorrect == Spec => []TypeOK
<1>1. Init => TypeOK
  BY InitTypeOK
<1>2. TypeOK /\ [Next]_vars => TypeOK'
  <2> SUFFICES ASSUME TypeOK, [Next]_vars PROVE TypeOK'
    OBVIOUS
  <2>1. CASE UNCHANGED vars
    BY <2>1 DEF vars, TypeOK, JobOK, Sections, Ramdisks
  <2> QED
    BY <2>1, ExtractTypeOK, BuildTypeOK, OtherTypeOK DEF Next, NativeStep
<1> QED  BY <1>1, <1>2, PTL DEF Spec
-----------------------------------------------------------------------------
(***************************************************************************)
(* NothingLost is not inductive: that a step of UnpackRamdisk keeps a      *)
(* ramdisk recoverable rests on what the extraction has written so far.    *)
(***************************************************************************)

\* The first k sections of the image are in the project directory, complete.
Written(k) == \A m \in 1 .. k : node[job.work][Sections[m]].whole

\* The ramdisks from the k-th on are as they were extracted.
Untouched(k) == \A m \in k .. Len(Ramdisks) : node[job.work][Ramdisks[m]].whole

\* A valid configuration is inside a directory.
SignedIsPresent == \A d \in Names : config[d].state = "signed" => d \in present

\* How far the extraction in progress has come.
ExtractInv ==
    job.op = "extract" =>
        /\ job.pc = "mkdir" => job.work \notin present
        /\ job.pc \in {"parse", "image", "write", "config"} =>
              job.work \in present /\ config[job.work].state # "signed"
        /\ job.pc = "sign" => job.work \in present
        /\ job.pc \in {"image", "write"} => Written(job.n - 1)
        /\ job.pc \in {"config", "sign"} => Written(Len(Sections))
        /\ job.pc = "ramdisk" => Untouched(job.n)
        /\ job.pc \in RamdiskPC => Untouched(job.n + 1)
        /\ job.pc \in {"inflate", "unlink", "rmtmp"} => node[job.work][Rd].whole
        /\ job.pc \in {"unlink", "untardir", "untar"} => tmp[job.work][Rd].whole

IInv == TypeOK /\ SignedIsPresent /\ ExtractInv /\ NothingLost

\* The empty store has lost nothing.
LEMMA InitIInv == Init => IInv
  BY InitTypeOK DEF Init, Idle, IInv, SignedIsPresent, ExtractInv, NothingLost, NoConfig

\* Writing one file of one directory leaves every other file alone.
LEMMA WriteOne ==
    ASSUME NEW f \in [Names -> [Part -> Content]],
           NEW d \in Names, NEW p \in Part, NEW c \in Content,
           NEW g, g = [f EXCEPT ![d][p] = c]
    PROVE  /\ g[d][p] = c
           /\ \A e \in Names, q \in Part : e # d \/ q # p => g[e][q] = f[e][q]
  OBVIOUS

\* Sections and ramdisks are parts, no table names one twice, and every
\* ramdisk is a section.
LEMMA Tables ==
    ASSUME NEW i \in Image
    PROVE  /\ \A m \in 1 .. Len(SectionsOf[i]) : SectionsOf[i][m] \in Part
           /\ \A m \in 1 .. Len(RamdisksOf[i]) : RamdisksOf[i][m] \in Part
           /\ \A m, n \in 1 .. Len(SectionsOf[i]) : SectionsOf[i][m] = SectionsOf[i][n] => m = n
           /\ \A m, n \in 1 .. Len(RamdisksOf[i]) : RamdisksOf[i][m] = RamdisksOf[i][n] => m = n
           /\ \A m \in 1 .. Len(RamdisksOf[i]) :
                 \E n \in 1 .. Len(SectionsOf[i]) : RamdisksOf[i][m] = SectionsOf[i][n]
           /\ \A p \in Elems(SectionsOf[i]) :
                 p \in Part /\ \E n \in 1 .. Len(SectionsOf[i]) : p = SectionsOf[i][n]
<1>1. /\ DOMAIN SectionsOf[i] = 1 .. Len(SectionsOf[i])
      /\ DOMAIN RamdisksOf[i] = 1 .. Len(RamdisksOf[i])
  BY SectionTypes
<1>2. /\ Injective(SectionsOf[i]) /\ Injective(RamdisksOf[i])
      /\ Elems(RamdisksOf[i]) \subseteq Elems(SectionsOf[i])
  BY StoreAssumption
<1>3. /\ \A m, n \in 1 .. Len(SectionsOf[i]) : SectionsOf[i][m] = SectionsOf[i][n] => m = n
      /\ \A m, n \in 1 .. Len(RamdisksOf[i]) : RamdisksOf[i][m] = RamdisksOf[i][n] => m = n
  BY <1>1, <1>2 DEF Injective
<1>4. \A p \in Elems(SectionsOf[i]) :
         p \in Part /\ \E n \in 1 .. Len(SectionsOf[i]) : p = SectionsOf[i][n]
  BY <1>1, SectionTypes DEF Elems
<1>5. \A m \in 1 .. Len(RamdisksOf[i]) : RamdisksOf[i][m] \in Elems(SectionsOf[i])
  BY <1>1, <1>2 DEF Elems
<1> QED  BY <1>3, <1>4, <1>5, SectionTypes

\* A step that touches no configuration, section, archive or deletion record
\* loses nothing.
LEMMA NothingTouched ==
    ASSUME NothingLost, UNCHANGED <<config, node, tmp, gone>>
    PROVE  NothingLost'
  BY DEF NothingLost, Recoverable

\* A step that writes files of directory w only, and whose w is not signed,
\* loses nothing.
LEMMA UnsignedWritten ==
    ASSUME NothingLost, NEW w \in Names, config'[w].state # "signed",
           \A d \in Names : d # w => /\ config'[d] = config[d] /\ gone'[d] = gone[d]
                                     /\ node'[d] = node[d] /\ tmp'[d] = tmp[d]
    PROVE  NothingLost'
  BY DEF NothingLost, Recoverable

\* A step on one part r of the signed directory w loses nothing when r is
\* still recoverable afterwards.
LEMMA OnePartWritten ==
    ASSUME TypeOK, NothingLost, NEW w \in Names, NEW r \in Part, node'[w][r].whole \/ tmp'[w][r].whole,
           UNCHANGED <<config, gone>>,
           \A d \in Names, q \in Part :
              d # w \/ q # r => node'[d][q] = node[d][q] /\ tmp'[d][q] = tmp[d][q]
    PROVE  NothingLost'
<1> SUFFICES ASSUME NEW d \in Names, config[d].state = "signed",
                    NEW p \in Elems(SectionsOf[config[d].img]) \ gone[d]
             PROVE  Recoverable(d, p)'
  BY DEF NothingLost
<1>1. config[d] \in Config
  BY DEF TypeOK
<1>2. p \in Part
  BY <1>1, Tables DEF Config, NoConfig
<1>3. Recoverable(d, p)
  BY DEF NothingLost
<1> QED  BY <1>2, <1>3 DEF Recoverable

\* Removing a directory with its configuration loses nothing elsewhere.
LEMMA RemoveTreeLosesNothing ==
    ASSUME TypeOK, SignedIsPresent, NothingLost, NEW d \in Names, RemoveTree(d)
    PROVE  SignedIsPresent' /\ NothingLost'
<1>1. /\ config'[d].state # "signed" /\ present' = present \ {d}
      /\ \A e \in Names : e # d => /\ config'[e] = config[e] /\ gone'[e] = gone[e]
                                   /\ node'[e] = node[e] /\ tmp'[e] = tmp[e]
  BY DEF TypeOK, RemoveTree, NoConfig
<1>2. NothingLost'
  BY <1>1, UnsignedWritten
<1>3. SignedIsPresent'
  BY <1>1 DEF SignedIsPresent
<1> QED  BY <1>2, <1>3

\* Every step of jniExtract keeps the strengthened invariant.
LEMMA ExtractIInv == IInv /\ ExtractStep => (SignedIsPresent /\ ExtractInv /\ NothingLost)'
<1> SUFFICES ASSUME IInv, ExtractStep PROVE (SignedIsPresent /\ ExtractInv /\ NothingLost)'
  OBVIOUS
<1> USE DEF files, ghost, Extracting, Goto
<1>j. job \in Job /\ JobOK
  BY DEF IInv, TypeOK
<1>t. /\ config \in [Names -> Config] /\ present \in SUBSET Names
      /\ node \in [Names -> [Part -> Content]]
      /\ tmp \in [Names -> [Part -> Content]]
      /\ build \in [Names -> [Part -> Content]]
      /\ gone \in [Names -> SUBSET Part]
  BY DEF IInv, TypeOK
<1>i. TypeOK /\ SignedIsPresent /\ ExtractInv /\ NothingLost
  BY DEF IInv
<1>w. job.op = "extract" => job.work \in Names /\ job.img \in Image
  BY <1>j DEF JobOK
<1>h. /\ job.pc \in RamdiskPC => Rd \in Part
      /\ job.pc = "ramdisk" /\ job.n <= Len(Ramdisks) =>
            Rd \in Part /\ job.n \in 1 .. Len(Ramdisks)
      /\ job.pc = "write" => Sections[job.n] \in Part
      /\ job.pc = "image" /\ job.n <= Len(Sections) =>
            Sections[job.n] \in Part /\ job.n \in 1 .. Len(Sections)
  BY <1>i, AtHand
<1>f. ASSUME FailExtraction PROVE (SignedIsPresent /\ ExtractInv /\ NothingLost)'
  <2>1. job'.pc = "cleanup" /\ UNCHANGED <<config, node, tmp, gone, present>>
    BY <1>f, <1>j DEF FailExtraction, Job
  <2> QED  BY <1>i, <2>1, NothingTouched DEF SignedIsPresent, ExtractInv, RamdiskPC
<1>1. CASE PickUnique
  <2>1. PICK k \in Copies : /\ FirstFree(job.work[1], k)
                            /\ job' = [job EXCEPT !.pc = "mkdir", !.work = <<job.work[1], k>>]
    BY <1>1 DEF PickUnique
  <2>2. job'.pc = "mkdir" /\ job'.work = <<job.work[1], k>>
    BY <1>j, <2>1 DEF Job
  <2>3. UNCHANGED <<config, node, tmp, gone, present>>
    BY <1>1 DEF PickUnique
  <2>4. ExtractInv'
    BY <2>1, <2>2, <2>3 DEF ExtractInv, RamdiskPC, FirstFree
  <2> QED  BY <1>i, <2>3, <2>4, NothingTouched DEF SignedIsPresent
<1>2. CASE CreateWorkDir
  <2> SUFFICES ASSUME ~ FailExtraction PROVE (SignedIsPresent /\ ExtractInv /\ NothingLost)'
    BY <1>2, <1>f DEF CreateWorkDir
  <2>1. job' = [job EXCEPT !.pc = "parse"]
    BY <1>2 DEF CreateWorkDir
  <2>2. /\ job'.pc = "parse" /\ job'.n = job.n
        /\ job'.op = job.op /\ job'.work = job.work /\ job'.img = job.img
    BY <1>j, <2>1 DEF Job
  <2>3. present' = present \cup {job.work} /\ UNCHANGED <<config, node, tmp, gone>>
    BY <1>2 DEF CreateWorkDir
  <2>4. ExtractInv'
    BY <1>2, <1>i, <1>w, <2>2, <2>3
       DEF CreateWorkDir, ExtractInv, SignedIsPresent, RamdiskPC
  <2> QED  BY <1>i, <2>3, <2>4, NothingTouched DEF SignedIsPresent
<1>3. CASE ParseHeader
  <2> SUFFICES ASSUME ~ FailExtraction PROVE (SignedIsPresent /\ ExtractInv /\ NothingLost)'
    BY <1>3, <1>f DEF ParseHeader
  <2>1. job' = [job EXCEPT !.pc = "image", !.n = 1]
    BY <1>3 DEF ParseHeader
  <2>2. /\ job'.pc = "image" /\ job'.n = 1
        /\ job'.op = job.op /\ job'.work = job.work /\ job'.img = job.img
    BY <1>j, <2>1 DEF Job
  <2>3. UNCHANGED <<config, node, tmp, gone, present>>
    BY <1>3 DEF ParseHeader
  <2>4. ExtractInv'
    BY <1>3, <1>i, <1>j, <1>w, <2>2, <2>3
       DEF ParseHeader, ExtractInv, RamdiskPC, Written, Untouched, Sections, Ramdisks
  <2> QED  BY <1>i, <2>3, <2>4, NothingTouched DEF SignedIsPresent
<1>4. CASE OpenSection
  <2> SUFFICES ASSUME ~ FailExtraction PROVE (SignedIsPresent /\ ExtractInv /\ NothingLost)'
    BY <1>4, <1>f DEF OpenSection
  <2>1. job' = [job EXCEPT !.pc = "write"]
    BY <1>4 DEF OpenSection
  <2>2. /\ job'.pc = "write" /\ job'.n = job.n
        /\ job'.op = job.op /\ job'.work = job.work /\ job'.img = job.img
    BY <1>j, <2>1 DEF Job
  <2>3. /\ job.work \in Names /\ job.img \in Image /\ Sections[job.n] \in Part
        /\ job.n \in 1 .. Len(Sections) /\ Begun("file", Section(job.img)) \in Content
    BY <1>4, <1>j, <1>w, <1>h, ContentTypes, FormTypes DEF OpenSection, JobOK
  <2>4. node' = [node EXCEPT ![job.work][Sections[job.n]] = Begun("file", Section(job.img))]
    BY <1>4 DEF OpenSection
  <2>5. /\ node'[job.work][Sections[job.n]] = Begun("file", Section(job.img))
        /\ \A e \in Names, q \in Part :
              e # job.work \/ q # Sections[job.n] => node'[e][q] = node[e][q]
    BY <1>t, <2>3, <2>4, WriteOne
  <2>6. \A m \in 1 .. Len(Sections) : Sections[m] \in Part /\ (Sections[m] = Sections[job.n] => m = job.n)
    BY <2>3, Tables DEF Sections
  <2>7. /\ job.work \in present /\ config[job.work].state # "signed" /\ Written(job.n - 1)
        /\ UNCHANGED <<config, tmp, gone, present>>
    BY <1>4, <1>i DEF OpenSection, ExtractInv
  <2>8. Written(job.n - 1)'
    <3>1. Len(Sections) \in Nat /\ job.n \in Nat
      BY <1>j, <2>3, SectionTypes DEF Sections, Job
    <3>2. ASSUME NEW m \in 1 .. job.n - 1
          PROVE  node'[job.work][Sections[m]].whole
      <4>1. m \in 1 .. Len(Sections) /\ m # job.n
        BY <2>3, <3>1
      <4>2. node'[job.work][Sections[m]] = node[job.work][Sections[m]]
        BY <2>3, <2>5, <2>6, <4>1
      <4> QED  BY <2>7, <4>2 DEF Written
    <3> QED  BY <2>2, <3>2 DEF Written, Sections
  <2>9. ExtractInv'
    BY <2>2, <2>7, <2>8 DEF ExtractInv, RamdiskPC
  <2>10. NothingLost'
    BY <1>i, <1>t, <2>3, <2>4, <2>7, UnsignedWritten
  <2> QED  BY <1>i, <2>7, <2>9, <2>10 DEF SignedIsPresent
<1>5. CASE WriteSection
  <2> SUFFICES ASSUME ~ FailExtraction PROVE (SignedIsPresent /\ ExtractInv /\ NothingLost)'
    BY <1>5, <1>f DEF WriteSection
  <2>1. job' = [job EXCEPT !.pc = "image", !.n = job.n + 1]
    BY <1>5 DEF WriteSection
  <2>2. /\ job'.pc = "image" /\ job'.n = job.n + 1
        /\ job'.op = job.op /\ job'.work = job.work /\ job'.img = job.img
    BY <1>j, <2>1 DEF Job
  <2>3. /\ job.work \in Names /\ job.img \in Image /\ Sections[job.n] \in Part
        /\ job.n \in 1 .. Len(Sections) /\ Section(job.img) \in Content
    BY <1>5, <1>j, <1>w, <1>h, ContentTypes, FormTypes DEF WriteSection, JobOK
  <2>4. node' = [node EXCEPT ![job.work][Sections[job.n]] = Section(job.img)]
    BY <1>5 DEF WriteSection
  <2>5. /\ node'[job.work][Sections[job.n]] = Section(job.img)
        /\ \A e \in Names, q \in Part :
              e # job.work \/ q # Sections[job.n] => node'[e][q] = node[e][q]
    BY <1>t, <2>3, <2>4, WriteOne
  <2>6. \A m \in 1 .. Len(Sections) : Sections[m] \in Part /\ (Sections[m] = Sections[job.n] => m = job.n)
    BY <2>3, Tables DEF Sections
  <2>7. /\ job.work \in present /\ config[job.work].state # "signed" /\ Written(job.n - 1)
        /\ UNCHANGED <<config, tmp, gone, present>>
    BY <1>5, <1>i DEF WriteSection, ExtractInv
  <2>8. Written(job.n - 1)'
    <3>1. Len(Sections) \in Nat /\ job.n \in Nat /\ job'.n - 1 = job.n
      BY <1>j, <2>2, <2>3, SectionTypes DEF Sections, Job
    <3>2. ASSUME NEW m \in 1 .. job.n
          PROVE  node'[job.work][Sections[m]].whole
      <4>1. CASE m = job.n
        BY <2>5, <4>1 DEF Section
      <4>2. CASE m # job.n
        <5>1. m \in 1 .. Len(Sections) /\ m \in 1 .. job.n - 1
          BY <2>3, <3>1, <4>2
        <5>2. node'[job.work][Sections[m]] = node[job.work][Sections[m]]
          BY <2>3, <2>5, <2>6, <4>2, <5>1
        <5> QED  BY <2>7, <5>1, <5>2 DEF Written
      <4> QED  BY <4>1, <4>2
    <3> QED  BY <2>2, <3>1, <3>2 DEF Written, Sections
  <2>9. ExtractInv'
    BY <2>2, <2>7, <2>8 DEF ExtractInv, RamdiskPC
  <2>10. NothingLost'
    BY <1>i, <1>t, <2>3, <2>4, <2>7, UnsignedWritten
  <2> QED  BY <1>i, <2>7, <2>9, <2>10 DEF SignedIsPresent
<1>6. CASE AllSections
  <2>1. job' = [job EXCEPT !.pc = "config"]
    BY <1>6 DEF AllSections
  <2>2. /\ job'.pc = "config" /\ job'.n = job.n
        /\ job'.op = job.op /\ job'.work = job.work /\ job'.img = job.img
    BY <1>j, <2>1 DEF Job
  <2>3. UNCHANGED <<config, node, tmp, gone, present>>
    BY <1>6 DEF AllSections
  <2>4. ExtractInv'
    BY <1>6, <1>i, <1>j, <1>w, SectionTypes, <2>2, <2>3
       DEF AllSections, ExtractInv, RamdiskPC, Written, Untouched, Sections, Ramdisks,
           JobOK
  <2> QED  BY <1>i, <2>3, <2>4, NothingTouched DEF SignedIsPresent
<1>7. CASE WriteConfig
  <2>1. job' = [job EXCEPT !.pc = "sign"]
    BY <1>7 DEF WriteConfig
  <2>2. /\ job'.pc = "sign" /\ job'.n = job.n
        /\ job'.op = job.op /\ job'.work = job.work /\ job'.img = job.img
    BY <1>j, <2>1 DEF Job
  <2>3. /\ config' = [config EXCEPT ![job.work] =
                        [state |-> "unsigned", img |-> job.img, dec |-> job.dec]]
        /\ UNCHANGED <<node, tmp, gone, present>>
    BY <1>7 DEF WriteConfig
  <2>4. job.work \in present /\ job.work \in Names /\ Written(Len(Sections))
    BY <1>7, <1>i, <1>w DEF WriteConfig, ExtractInv
  <2>5. ExtractInv'
    BY <2>2, <2>3, <2>4 DEF ExtractInv, RamdiskPC, Written, Sections
  <2>6. config'[job.work].state # "signed" /\ \A d \in Names : d # job.work => config'[d] = config[d]
    BY <1>t, <2>3, <2>4
  <2>7. NothingLost'
    BY <1>i, <2>3, <2>4, <2>6, UnsignedWritten
  <2>8. SignedIsPresent'
    BY <1>i, <2>3, <2>4, <2>6 DEF SignedIsPresent
  <2> QED  BY <2>5, <2>7, <2>8
<1>8. CASE SignConfig
  <2> SUFFICES ASSUME ~ FailExtraction PROVE (SignedIsPresent /\ ExtractInv /\ NothingLost)'
    BY <1>8, <1>f DEF SignConfig
  <2>1. job' = [job EXCEPT !.pc = "ramdisk", !.n = 1]
    BY <1>8 DEF SignConfig
  <2>2. /\ job'.pc = "ramdisk" /\ job'.n = 1
        /\ job'.op = job.op /\ job'.work = job.work /\ job'.img = job.img
    BY <1>j, <2>1 DEF Job
  <2>3. /\ config' = [config EXCEPT ![job.work].state = "signed"]
        /\ UNCHANGED <<node, tmp, gone, present>>
    BY <1>8 DEF SignConfig
  <2>4. /\ job.work \in present /\ job.work \in Names /\ job.img \in Image
        /\ Written(Len(Sections))
    BY <1>8, <1>i, <1>w DEF SignConfig, ExtractInv
  <2>5. config[job.work].img = job.img
    BY <1>8, <1>j DEF SignConfig, JobOK
  <2>6. config'[job.work].img = job.img /\ \A d \in Names : d # job.work => config'[d] = config[d]
    <3>1. config[job.work] = [state |-> "unsigned", img |-> job.img, dec |-> job.dec]
      BY <1>8, <1>j DEF SignConfig, JobOK
    <3> QED  BY <1>t, <2>3, <2>4, <3>1
  <2>7. Untouched(1)'
    BY <2>2, <2>3, <2>4, Tables DEF Written, Untouched, Sections, Ramdisks
  <2>8. ExtractInv'
    BY <2>2, <2>7 DEF ExtractInv, RamdiskPC
  <2>9. SignedIsPresent'
    BY <1>i, <2>3, <2>4, <2>6 DEF SignedIsPresent
  <2>10. NothingLost'
    <3> SUFFICES ASSUME NEW d \in Names, config'[d].state = "signed",
                        NEW p \in Elems(SectionsOf[config'[d].img]) \ gone[d]
                 PROVE  Recoverable(d, p)'
      BY <2>3 DEF NothingLost
    <3>1. CASE d = job.work
      BY <2>3, <2>4, <2>6, <3>1, Tables DEF Written, Sections, Recoverable
    <3>2. CASE d # job.work
      BY <1>i, <2>3, <2>6, <3>2 DEF NothingLost, Recoverable
    <3> QED  BY <3>1, <3>2
  <2> QED  BY <2>8, <2>9, <2>10
<1>9. CASE KeepRamdisk
  <2>1. job' = [job EXCEPT !.n = job.n + 1]
    BY <1>9 DEF KeepRamdisk
  <2>2. /\ job'.pc = job.pc /\ job'.n = job.n + 1
        /\ job'.op = job.op /\ job'.work = job.work /\ job'.img = job.img
    BY <1>j, <2>1 DEF Job
  <2>3. UNCHANGED <<config, node, tmp, gone, present>>
    BY <1>9 DEF KeepRamdisk
  <2>4. ExtractInv'
    BY <1>9, <1>i, <1>j, <1>w, <1>h, SectionTypes, <2>2, <2>3
       DEF KeepRamdisk, ExtractInv, RamdiskPC, Written, Untouched, Sections, Ramdisks
  <2> QED  BY <1>i, <2>3, <2>4, NothingTouched DEF SignedIsPresent
<1>10. CASE RenameRamdisk
  <2> SUFFICES ASSUME ~ FailExtraction PROVE (SignedIsPresent /\ ExtractInv /\ NothingLost)'
    BY <1>10, <1>f DEF RenameRamdisk
  <2>1. job' = [job EXCEPT !.pc = "untardir"]
    BY <1>10 DEF RenameRamdisk
  <2>2. /\ job'.pc = "untardir" /\ job'.n = job.n
        /\ job'.op = job.op /\ job'.work = job.work /\ job'.img = job.img
    BY <1>j, <2>1 DEF Job
  <2>3. /\ job.work \in Names /\ job.img \in Image /\ Rd \in Part
        /\ job.n \in 1 .. Len(Ramdisks)
    BY <1>10, <1>j, <1>w, <1>h DEF RenameRamdisk, RamdiskPC, JobOK
  <2>4. node' = [node EXCEPT ![job.work][Rd] = NoFile]
    BY <1>10 DEF RenameRamdisk
  <2>5. NoFile \in Content
    BY <1>t, <2>3, ContentTypes, FormTypes
  <2>6. /\ node'[job.work][Rd] = NoFile
        /\ \A e \in Names, q \in Part :
              e # job.work \/ q # Rd => node'[e][q] = node[e][q]
    BY <1>t, <2>3, <2>4, <2>5, WriteOne
  <2>7. tmp' = [tmp EXCEPT ![job.work][Rd] = As("cpio", node[job.work][Rd])]
    BY <1>10 DEF RenameRamdisk
  <2>8. As("cpio", node[job.work][Rd]) \in Content
    BY <1>t, <2>3, ContentTypes, FormTypes
  <2>9. /\ tmp'[job.work][Rd] = As("cpio", node[job.work][Rd])
        /\ \A e \in Names, q \in Part :
              e # job.work \/ q # Rd => tmp'[e][q] = tmp[e][q]
    BY <1>t, <2>3, <2>7, <2>8, WriteOne
  <2>10. UNCHANGED <<config, gone, present>>
    BY <1>10 DEF RenameRamdisk
  <2>11. \A m \in 1 .. Len(Ramdisks) : Ramdisks[m] \in Part /\ (Ramdisks[m] = Rd => m = job.n)
    BY <2>3, Tables DEF Ramdisks, Rd
  <2>12. node[job.work][Rd].whole /\ Untouched(job.n + 1)
    BY <1>10, <1>i, <2>3 DEF RenameRamdisk, ExtractInv, Untouched, Rd, RamdiskPC
  <2>13. Untouched(job.n + 1)'
    BY <1>j, <2>2, <2>3, <2>6, <2>9, <2>10, <2>11, <2>12, SectionTypes
       DEF Untouched, Ramdisks, Job
  <2>14. tmp'[job.work][Rd].whole
    BY <2>6, <2>9, <2>10, <2>12 DEF As
  <2>15. ExtractInv'
    BY <2>2, <2>13, <2>14 DEF ExtractInv, RamdiskPC, Rd, Ramdisks
  <2>16. NothingLost'
    BY <1>i, <2>3, <2>6, <2>9, <2>10, <2>14, OnePartWritten
  <2> QED  BY <1>i, <2>10, <2>15, <2>16 DEF SignedIsPresent
<1>11. CASE BeginInflate
  <2>1. job' = [job EXCEPT !.pc = "inflate"]
    BY <1>11 DEF BeginInflate
  <2>2. /\ job'.pc = "inflate" /\ job'.n = job.n
        /\ job'.op = job.op /\ job'.work = job.work /\ job'.img = job.img
    BY <1>j, <2>1 DEF Job
  <2>3. /\ job.work \in Names /\ job.img \in Image /\ Rd \in Part
        /\ job.n \in 1 .. Len(Ramdisks)
    BY <1>11, <1>j, <1>w, <1>h DEF BeginInflate, RamdiskPC, JobOK
  <2>4. tmp' = [tmp EXCEPT ![job.work][Rd] = Begun("cpio", node[job.work][Rd])]
    BY <1>11 DEF BeginInflate
  <2>5. Begun("cpio", node[job.work][Rd]) \in Content
    BY <1>t, <2>3, ContentTypes, FormTypes
  <2>6. /\ tmp'[job.work][Rd] = Begun("cpio", node[job.work][Rd])
        /\ \A e \in Names, q \in Part :
              e # job.work \/ q # Rd => tmp'[e][q] = tmp[e][q]
    BY <1>t, <2>3, <2>4, <2>5, WriteOne
  <2>7. UNCHANGED <<config, gone, present, node>>
    BY <1>11 DEF BeginInflate
  <2>8. \A m \in 1 .. Len(Ramdisks) : Ramdisks[m] \in Part /\ (Ramdisks[m] = Rd => m = job.n)
    BY <2>3, Tables DEF Ramdisks, Rd
  <2>9. node[job.work][Rd].whole /\ Untouched(job.n + 1)
    BY <1>11, <1>i, <2>3 DEF BeginInflate, ExtractInv, Untouched, Rd, RamdiskPC
  <2>10. Untouched(job.n + 1)'
    BY <1>j, <2>2, <2>3, <2>6, <2>7, <2>8, <2>9, SectionTypes DEF Untouched, Ramdisks, Job
  <2>11. node'[job.work][Rd].whole
    BY <2>6, <2>7, <2>9 DEF As
  <2>12. ExtractInv'
    BY <2>2, <2>10, <2>11 DEF ExtractInv, RamdiskPC, Rd, Ramdisks
  <2>13. NothingLost'
    BY <1>i, <2>3, <2>6, <2>7, <2>11, OnePartWritten
  <2> QED  BY <1>i, <2>7, <2>12, <2>13 DEF SignedIsPresent
<1>12. CASE EndInflate
  <2>1. /\ job.work \in Names /\ job.img \in Image /\ Rd \in Part /\ job.n \in 1 .. Len(Ramdisks)
        /\ UNCHANGED <<config, node, gone, present>>
    BY <1>12, <1>j, <1>w, <1>h DEF EndInflate, RamdiskPC, JobOK
  <2>2. node[job.work][Rd].whole /\ Untouched(job.n + 1)
    BY <1>12, <1>i DEF EndInflate, ExtractInv, RamdiskPC
  <2>3. NoFile \in Content /\ As("cpio", node[job.work][Rd]) \in Content
    BY <1>t, <2>1, ContentTypes, FormTypes
  <2>4. \A e \in Names, q \in Part : e # job.work \/ q # Rd => tmp'[e][q] = tmp[e][q]
    BY <1>12, <1>t, <2>1, <2>3, WriteOne DEF EndInflate
  <2>5. NothingLost'
    <3>1. node'[job.work][Rd].whole
      BY <2>1, <2>2
    <3> QED  BY <1>i, <2>1, <2>4, <3>1, OnePartWritten
  <2>6. /\ job'.op = job.op /\ job'.work = job.work /\ job'.img = job.img /\ job'.n = job.n
        /\ job'.pc \in {"unlink", "cleanup"}
    BY <1>12, <1>j DEF EndInflate, Job
  <2>7. job'.pc = "unlink" => tmp'[job.work][Rd].whole
    <3>1. job'.pc = "unlink" => tmp' = [tmp EXCEPT ![job.work][Rd] = As("cpio", node[job.work][Rd])]
      BY <1>12, <1>j DEF EndInflate, Job
    <3>2. job'.pc = "unlink" => tmp'[job.work][Rd] = As("cpio", node[job.work][Rd])
      BY <1>t, <2>1, <2>3, <3>1, WriteOne
    <3> QED  BY <2>2, <3>2 DEF As
  <2>8. ExtractInv'
    <3>1. Untouched(job.n + 1)' /\ Rd' = Rd
      BY <2>1, <2>2, <2>6 DEF Untouched, Rd, Ramdisks
    <3> QED  BY <2>1, <2>2, <2>6, <2>7, <3>1 DEF ExtractInv, RamdiskPC
  <2> QED  BY <1>i, <2>1, <2>5, <2>8 DEF SignedIsPresent
<1>13. CASE RemoveInput
  <2> SUFFICES ASSUME ~ FailExtraction PROVE (SignedIsPresent /\ ExtractInv /\ NothingLost)'
    BY <1>13, <1>f DEF RemoveInput
  <2>1. job' = [job EXCEPT !.pc = "untardir"]
    BY <1>13 DEF RemoveInput
  <2>2. /\ job'.pc = "untardir" /\ job'.n = job.n
        /\ job'.op = job.op /\ job'.work = job.work /\ job'.img = job.img
    BY <1>j, <2>1 DEF Job
  <2>3. /\ job.work \in Names /\ job.img \in Image /\ Rd \in Part
        /\ job.n \in 1 .. Len(Ramdisks)
    BY <1>13, <1>j, <1>w, <1>h DEF RemoveInput, RamdiskPC, JobOK
  <2>4. node' = [node EXCEPT ![job.work][Rd] = NoFile]
    BY <1>13 DEF RemoveInput
  <2>5. NoFile \in Content
    BY <1>t, <2>3, ContentTypes, FormTypes
  <2>6. /\ node'[job.work][Rd] = NoFile
        /\ \A e \in Names, q \in Part :
              e # job.work \/ q # Rd => node'[e][q] = node[e][q]
    BY <1>t, <2>3, <2>4, <2>5, WriteOne
  <2>7. UNCHANGED <<config, gone, present, tmp>>
    BY <1>13 DEF RemoveInput
  <2>8. \A m \in 1 .. Len(Ramdisks) : Ramdisks[m] \in Part /\ (Ramdisks[m] = Rd => m = job.n)
    BY <2>3, Tables DEF Ramdisks, Rd
  <2>9. tmp[job.work][Rd].whole /\ Untouched(job.n + 1)
    BY <1>13, <1>i, <2>3 DEF RemoveInput, ExtractInv, Untouched, Rd, RamdiskPC
  <2>10. Untouched(job.n + 1)'
    BY <1>j, <2>2, <2>3, <2>6, <2>7, <2>8, <2>9, SectionTypes DEF Untouched, Ramdisks, Job
  <2>11. tmp'[job.work][Rd].whole
    BY <2>6, <2>7, <2>9 DEF As
  <2>12. ExtractInv'
    BY <2>2, <2>10, <2>11 DEF ExtractInv, RamdiskPC, Rd, Ramdisks
  <2>13. NothingLost'
    BY <1>i, <2>3, <2>6, <2>7, <2>11, OnePartWritten
  <2> QED  BY <1>i, <2>7, <2>12, <2>13 DEF SignedIsPresent
<1>14. CASE BeginUntar
  <2> SUFFICES ASSUME ~ FailExtraction PROVE (SignedIsPresent /\ ExtractInv /\ NothingLost)'
    BY <1>14, <1>f DEF BeginUntar
  <2>1. job' = [job EXCEPT !.pc = "untar"]
    BY <1>14 DEF BeginUntar
  <2>2. /\ job'.pc = "untar" /\ job'.n = job.n
        /\ job'.op = job.op /\ job'.work = job.work /\ job'.img = job.img
    BY <1>j, <2>1 DEF Job
  <2>3. /\ job.work \in Names /\ job.img \in Image /\ Rd \in Part
        /\ job.n \in 1 .. Len(Ramdisks)
    BY <1>14, <1>j, <1>w, <1>h DEF BeginUntar, RamdiskPC, JobOK
  <2>4. node' = [node EXCEPT ![job.work][Rd] = Begun("dir", tmp[job.work][Rd])]
    BY <1>14 DEF BeginUntar
  <2>5. Begun("dir", tmp[job.work][Rd]) \in Content
    BY <1>t, <2>3, ContentTypes, FormTypes
  <2>6. /\ node'[job.work][Rd] = Begun("dir", tmp[job.work][Rd])
        /\ \A e \in Names, q \in Part :
              e # job.work \/ q # Rd => node'[e][q] = node[e][q]
    BY <1>t, <2>3, <2>4, <2>5, WriteOne
  <2>7. UNCHANGED <<config, gone, present, tmp>>
    BY <1>14 DEF BeginUntar
  <2>8. \A m \in 1 .. Len(Ramdisks) : Ramdisks[m] \in Part /\ (Ramdisks[m] = Rd => m = job.n)
    BY <2>3, Tables DEF Ramdisks, Rd
  <2>9. tmp[job.work][Rd].whole /\ Untouched(job.n + 1)
    BY <1>14, <1>i, <2>3 DEF BeginUntar, ExtractInv, Untouched, Rd, RamdiskPC
  <2>10. Untouched(job.n + 1)'
    BY <1>j, <2>2, <2>3, <2>6, <2>7, <2>8, <2>9, SectionTypes DEF Untouched, Ramdisks, Job
  <2>11. tmp'[job.work][Rd].whole
    BY <2>6, <2>7, <2>9 DEF As
  <2>12. ExtractInv'
    BY <2>2, <2>10, <2>11 DEF ExtractInv, RamdiskPC, Rd, Ramdisks
  <2>13. NothingLost'
    BY <1>i, <2>3, <2>6, <2>7, <2>11, OnePartWritten
  <2> QED  BY <1>i, <2>7, <2>12, <2>13 DEF SignedIsPresent
<1>15. CASE EndUntar
  <2> SUFFICES ASSUME ~ FailExtraction PROVE (SignedIsPresent /\ ExtractInv /\ NothingLost)'
    BY <1>15, <1>f DEF EndUntar
  <2>1. job' = [job EXCEPT !.pc = "rmtmp"]
    BY <1>15 DEF EndUntar
  <2>2. /\ job'.pc = "rmtmp" /\ job'.n = job.n
        /\ job'.op = job.op /\ job'.work = job.work /\ job'.img = job.img
    BY <1>j, <2>1 DEF Job
  <2>3. /\ job.work \in Names /\ job.img \in Image /\ Rd \in Part
        /\ job.n \in 1 .. Len(Ramdisks)
    BY <1>15, <1>j, <1>w, <1>h DEF EndUntar, RamdiskPC, JobOK
  <2>4. node' = [node EXCEPT ![job.work][Rd] = As("dir", tmp[job.work][Rd])]
    BY <1>15 DEF EndUntar
  <2>5. As("dir", tmp[job.work][Rd]) \in Content
    BY <1>t, <2>3, ContentTypes, FormTypes
  <2>6. /\ node'[job.work][Rd] = As("dir", tmp[job.work][Rd])
        /\ \A e \in Names, q \in Part :
              e # job.work \/ q # Rd => node'[e][q] = node[e][q]
    BY <1>t, <2>3, <2>4, <2>5, WriteOne
  <2>7. UNCHANGED <<config, gone, present, tmp>>
    BY <1>15 DEF EndUntar
  <2>8. \A m \in 1 .. Len(Ramdisks) : Ramdisks[m] \in Part /\ (Ramdisks[m] = Rd => m = job.n)
    BY <2>3, Tables DEF Ramdisks, Rd
  <2>9. tmp[job.work][Rd].whole /\ Untouched(job.n + 1)
    BY <1>15, <1>i, <2>3 DEF EndUntar, ExtractInv, Untouched, Rd, RamdiskPC
  <2>10. Untouched(job.n + 1)'
    BY <1>j, <2>2, <2>3, <2>6, <2>7, <2>8, <2>9, SectionTypes DEF Untouched, Ramdisks, Job
  <2>11. node'[job.work][Rd].whole
    BY <2>6, <2>7, <2>9 DEF As
  <2>12. ExtractInv'
    BY <2>2, <2>10, <2>11 DEF ExtractInv, RamdiskPC, Rd, Ramdisks
  <2>13. NothingLost'
    BY <1>i, <2>3, <2>6, <2>7, <2>11, OnePartWritten
  <2> QED  BY <1>i, <2>7, <2>12, <2>13 DEF SignedIsPresent
<1>16. CASE RemoveArchive
  <2>2. /\ job'.pc = "ramdisk" /\ job'.n = job.n + 1
        /\ job'.op = job.op /\ job'.work = job.work /\ job'.img = job.img
    BY <1>16, <1>j DEF RemoveArchive, Job
  <2>3. /\ job.work \in Names /\ job.img \in Image /\ Rd \in Part
        /\ job.n \in 1 .. Len(Ramdisks)
    BY <1>16, <1>j, <1>w, <1>h DEF RemoveArchive, RamdiskPC, JobOK
  <2>4. tmp' = [tmp EXCEPT ![job.work][Rd] = NoFile] \/ tmp' = tmp
    BY <1>16 DEF RemoveArchive
  <2>5. NoFile \in Content
    BY <1>t, <2>3, ContentTypes, FormTypes
  <2>6. \A e \in Names, q \in Part : e # job.work \/ q # Rd => tmp'[e][q] = tmp[e][q]
    BY <1>t, <2>3, <2>4, <2>5, WriteOne
  <2>7. UNCHANGED <<config, gone, present, node>>
    BY <1>16 DEF RemoveArchive
  <2>8. \A m \in 1 .. Len(Ramdisks) : Ramdisks[m] \in Part /\ (Ramdisks[m] = Rd => m = job.n)
    BY <2>3, Tables DEF Ramdisks, Rd
  <2>9. node[job.work][Rd].whole /\ Untouched(job.n + 1)
    BY <1>16, <1>i, <2>3 DEF RemoveArchive, ExtractInv, Untouched, Rd, RamdiskPC
  <2>10. Untouched(job.n)'
    BY <1>j, <2>2, <2>3, <2>6, <2>7, <2>8, <2>9, SectionTypes DEF Untouched, Ramdisks, Job
  <2>11. node'[job.work][Rd].whole
    BY <2>7, <2>9
  <2>12. ExtractInv'
    BY <2>2, <2>10, <2>11 DEF ExtractInv, RamdiskPC, Rd, Ramdisks
  <2>13. NothingLost'
    BY <1>i, <2>3, <2>6, <2>7, <2>11, OnePartWritten
  <2> QED  BY <1>i, <2>7, <2>12, <2>13 DEF SignedIsPresent
<1>17. CASE ExtractionDone
  <2>1. job'.pc = "done" /\ UNCHANGED <<config, node, tmp, gone, present>>
    BY <1>17, <1>j DEF ExtractionDone, Job
  <2> QED  BY <1>i, <2>1, NothingTouched DEF SignedIsPresent, ExtractInv, RamdiskPC
<1>18. CASE CleanupPart
  <2>1. CleanupTarget \in Names
    BY <1>18, <1>w, StoreAssumption DEF CleanupPart, CleanupTarget, Names, Copies
  <2>2. PICK p \in Part : RemovePart(CleanupTarget, p)
    BY <1>18 DEF CleanupPart
  <2>3. job.pc = "cleanup" /\ UNCHANGED <<config, present, job>>
    BY <1>18 DEF CleanupPart
  <2>4. /\ gone'[CleanupTarget] = gone[CleanupTarget] \cup {p}
        /\ \A d \in Names : d # CleanupTarget => gone'[d] = gone[d]
    BY <1>t, <2>1, <2>2 DEF RemovePart
  <2>5. \A d \in Names, q \in Part :
           d # CleanupTarget \/ q # p => node'[d][q] = node[d][q] /\ tmp'[d][q] = tmp[d][q]
    BY <1>t, <2>1, <2>2, ContentTypes, WriteOne DEF RemovePart
  <2>6. NothingLost'
    <3> SUFFICES ASSUME NEW d \in Names, config[d].state = "signed",
                        NEW q \in Elems(SectionsOf[config[d].img]) \ gone'[d]
                 PROVE  Recoverable(d, q)'
      BY <2>3 DEF NothingLost
    <3>1. q \notin gone[d] /\ (d # CleanupTarget \/ q # p)
      BY <2>4
    <3>2. q \in Part
      BY <1>t, Tables DEF Config, NoConfig
    <3> QED  BY <1>i, <2>5, <3>1, <3>2 DEF NothingLost, Recoverable
  <2> QED  BY <1>i, <2>3, <2>6 DEF SignedIsPresent, ExtractInv, RamdiskPC
<1>19. CASE CleanupConfig
  <2>1. CleanupTarget \in Names
    BY <1>19, <1>w, StoreAssumption DEF CleanupConfig, CleanupTarget, Names, Copies
  <2>2. /\ job.pc = "cleanup" /\ config' = [config EXCEPT ![CleanupTarget] = NoConfig]
        /\ UNCHANGED <<node, tmp, gone, present, job>>
    BY <1>19 DEF CleanupConfig
  <2>3. config'[CleanupTarget].state # "signed" /\ \A d \in Names : d # CleanupTarget => config'[d] = config[d]
    BY <1>t, <2>1, <2>2 DEF NoConfig
  <2>4. NothingLost'
    BY <1>i, <2>1, <2>2, <2>3, UnsignedWritten
  <2> QED  BY <1>i, <2>2, <2>3, <2>4 DEF SignedIsPresent, ExtractInv, RamdiskPC
<1>20. CASE CleanupEnd
  <2>1. CleanupTarget \in Names
    BY <1>20, <1>w, StoreAssumption DEF CleanupEnd, CleanupTarget, Names, Copies
  <2>2. job'.pc = "done"
    BY <1>20, <1>j DEF CleanupEnd, Job
  <2>3. ExtractInv'
    BY <2>2 DEF ExtractInv, RamdiskPC
  <2>4. CASE RemoveTree(CleanupTarget)
    BY <1>i, <2>1, <2>3, <2>4, RemoveTreeLosesNothing
  <2>5. CASE UNCHANGED <<files, ghost>>
    BY <1>i, <2>3, <2>5, NothingTouched DEF SignedIsPresent
  <2> QED  BY <1>20, <2>4, <2>5 DEF CleanupEnd
<1> QED
  BY <1>1, <1>2, <1>3, <1>4, <1>5, <1>6, <1>7, <1>8, <1>9, <1>10, <1>11, <1>12, <1>13,
     <1>14, <1>15, <1>16, <1>17, <1>18, <1>19, <1>20 DEF ExtractStep

\* A build writes nothing the extraction wrote.
LEMMA BuildIInv == IInv /\ BuildStep => (SignedIsPresent /\ ExtractInv /\ NothingLost)'
<1> SUFFICES ASSUME IInv, BuildStep PROVE (SignedIsPresent /\ ExtractInv /\ NothingLost)'
  OBVIOUS
<1>1. job.op = "build" /\ UNCHANGED <<config, node, tmp, gone, present>>
  BY DEF BuildStep, ValidateConfig, BeginCpio, EndCpio, BeginCompress, EndCompress,
         BeginCopy, CopyFailed, EndCopy,
         AllRamdisks, OpenOutput, WriteImage, TryClean, Tidy, AbortBuild, Building, files, ghost
<1>2. job'.op = job.op
  BY DEF BuildStep, ValidateConfig, BeginCpio, EndCpio, BeginCompress, EndCompress,
         BeginCopy, CopyFailed, EndCopy,
         AllRamdisks, OpenOutput, WriteImage, TryClean, Tidy, AbortBuild, Building, Goto,
         IInv, TypeOK, Job
<1> QED  BY <1>1, <1>2, NothingTouched DEF IInv, SignedIsPresent, ExtractInv

\* So does everything that is not a step of a native call: its return, a
\* crash, and what the user does between two calls.
LEMMA OtherIInv ==
    IInv /\ (Return \/ Crash \/ UserStep) => (SignedIsPresent /\ ExtractInv /\ NothingLost)'
<1> SUFFICES ASSUME IInv, Return \/ Crash \/ UserStep
             PROVE  (SignedIsPresent /\ ExtractInv /\ NothingLost)'
  OBVIOUS
<1> USE DEF files, ghost
<1>t. /\ config \in [Names -> Config] /\ node \in [Names -> [Part -> Content]]
      /\ gone \in [Names -> SUBSET Part]
  BY DEF IInv, TypeOK
<1>i. TypeOK /\ SignedIsPresent /\ ExtractInv /\ NothingLost
  BY DEF IInv
<1>q. ASSUME UNCHANGED <<config, node, tmp, gone, present>>, job'.pc \in {"idle", "pick", "validate"}
      PROVE  (SignedIsPresent /\ ExtractInv /\ NothingLost)'
  BY <1>i, <1>q, NothingTouched DEF SignedIsPresent, ExtractInv, RamdiskPC
<1>1. CASE Return \/ Crash
  BY <1>1, <1>q DEF Return, Crash, Idle
<1>2. ASSUME NEW b \in Base, NEW i \in Image, NEW dec \in BOOLEAN, StartExtract(b, i, dec)
      PROVE  (SignedIsPresent /\ ExtractInv /\ NothingLost)'
  <2>1. job'.pc = "pick"
    BY <1>2 DEF StartExtract, Idle
  <2> QED  BY <1>2, <1>q, <2>1 DEF StartExtract
<1>3. ASSUME NEW d \in Names, StartBuild(d)
      PROVE  (SignedIsPresent /\ ExtractInv /\ NothingLost)'
  <2>1. job'.pc = "validate"
    BY <1>3 DEF StartBuild, Idle
  <2> QED  BY <1>3, <1>q, <2>1 DEF StartBuild
<1>4. ASSUME NEW d \in Names, Clean(d)
      PROVE  (SignedIsPresent /\ ExtractInv /\ NothingLost)'
  <2>1. ExtractInv'
    BY <1>4 DEF Clean, ExtractInv, RamdiskPC
  <2> QED  BY <1>4, <1>i, <2>1, RemoveTreeLosesNothing DEF Clean
<1>5. ASSUME NEW d \in Names, NEW p \in Part, Edit(d, p)
      PROVE  (SignedIsPresent /\ ExtractInv /\ NothingLost)'
  <2>1. job.pc = "idle" /\ UNCHANGED <<config, tmp, gone, present, job>>
    BY <1>5 DEF Edit
  <2>2. \A e \in Names, q \in Part : node'[e][q].whole = node[e][q].whole
    <3>1. node' = [node EXCEPT ![d][p] = [node[d][p] EXCEPT !.rev = node[d][p].rev + 1]]
      BY <1>5 DEF Edit
    <3>2. node[d][p] \in Content
      BY <1>t
    <3>3. [node[d][p] EXCEPT !.rev = node[d][p].rev + 1].whole = node[d][p].whole
      BY <3>2 DEF Content
    <3> QED  BY <1>t, <3>1, <3>3
  <2>3. NothingLost'
    <3> SUFFICES ASSUME NEW e \in Names, config[e].state = "signed",
                        NEW q \in Elems(SectionsOf[config[e].img]) \ gone[e]
                 PROVE  Recoverable(e, q)'
      BY <2>1 DEF NothingLost
    <3>1. q \in Part
      BY <1>t, Tables DEF Config, NoConfig
    <3> QED  BY <1>i, <2>1, <2>2, <3>1 DEF NothingLost, Recoverable
  <2> QED  BY <1>i, <2>1, <2>3 DEF SignedIsPresent, ExtractInv, RamdiskPC
<1>6. ASSUME NEW d \in Names, NEW p \in Part, Delete(d, p)
      PROVE  (SignedIsPresent /\ ExtractInv /\ NothingLost)'
  <2>1. job.pc = "idle" /\ UNCHANGED <<config, tmp, present, job>>
    BY <1>6 DEF Delete
  <2>2. \A e \in Names : gone[e] \subseteq gone'[e] /\ (e = d => p \in gone'[e])
    BY <1>6, <1>t DEF Delete
  <2>3. \A e \in Names, q \in Part : e # d \/ q # p => node'[e][q] = node[e][q]
    BY <1>6, <1>t, ContentTypes, WriteOne DEF Delete
  <2>4. NothingLost'
    <3> SUFFICES ASSUME NEW e \in Names, config[e].state = "signed",
                        NEW q \in Elems(SectionsOf[config[e].img]) \ gone'[e]
                 PROVE  Recoverable(e, q)'
      BY <2>1 DEF NothingLost
    <3>1. q \in Part
      BY <1>t, Tables DEF Config, NoConfig
    <3>2. q \notin gone[e] /\ (e # d \/ q # p)
      BY <2>2
    <3> QED  BY <1>i, <2>1, <2>3, <3>1, <3>2 DEF NothingLost, Recoverable
  <2> QED  BY <1>i, <2>1, <2>4 DEF SignedIsPresent, ExtractInv, RamdiskPC
<1> QED  BY <1>1, <1>2, <1>3, <1>4, <1>5, <1>6 DEF UserStep

\* Whatever crash, failure or later build interrupts or follows an extraction,
\* a directory with a valid configuration lacks no section of its image that
\* nobody deleted: configuration last, and no form of a ramdisk dropped before
\* the next one is complete.
THEOREM NoSectionLost == Spec => []NothingLost
<1>1. Init => IInv
  BY InitIInv
<1>2. IInv /\ [Next]_vars => IInv'
  <2> SUFFICES ASSUME IInv, [Next]_vars PROVE IInv'
    OBVIOUS
  <2>1. CASE UNCHANGED vars
    BY <2>1 DEF vars, IInv, TypeOK, JobOK, Sections, Ramdisks, Rd, SignedIsPresent,
                ExtractInv, Written, Untouched, NothingLost, Recoverable
  <2>2. CASE Next
    <3>1. TypeOK'
      BY <2>2, ExtractTypeOK, BuildTypeOK, OtherTypeOK DEF IInv, Next, NativeStep
    <3>2. (SignedIsPresent /\ ExtractInv /\ NothingLost)'
      BY <2>2, ExtractIInv, BuildIInv, OtherIInv DEF Next, NativeStep
    <3> QED  BY <3>1, <3>2 DEF IInv
  <2> QED  BY <2>1, <2>2
<1>3. IInv => NothingLost
  BY DEF IInv
<1> QED  BY <1>1, <1>2, <1>3, PTL DEF Spec
=============================================================================
