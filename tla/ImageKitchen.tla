---------------------------- MODULE ImageKitchen ----------------------------
(***************************************************************************)
(* The formats at work: an image is extracted to a project, which has      *)
(* files and a configuration; the user edits files; the project is built   *)
(* into a new image, which is extracted again.  The first image comes from *)
(* elsewhere (the mkbootimg of AOSP); all later ones are written here.     *)
(*                                                                         *)
(* The file operations in between, which can fail and be interrupted, are  *)
(* those of ProjectStore; each call is one step here.                      *)
(***************************************************************************)
EXTENDS Integers, Sequences

CONSTANTS
    U32, StringSize,
    BOOT_ARGS_SIZE, BOOT_EXTRA_ARGS_SIZE, BOOT_NAME_SIZE,
    BOOT_IMAGE_HEADER_V3_PAGESIZE, MaxVersion,
    VENDOR_BOOT_IMAGE_HEADER_V3_SIZE, VENDOR_BOOT_IMAGE_HEADER_V4_SIZE,
    VENDOR_BOOT_ARGS_SIZE, VENDOR_BOOT_NAME_SIZE, VENDOR_RAMDISK_NAME_SIZE,
    VENDOR_RAMDISK_TABLE_ENTRY_V4_SIZE, RamdiskFiles,
    BootOriginals, VendorOriginals,   \* descriptions of the first image
    NewSizes,                         \* sizes an edited file can have
    Contents,                         \* what the first images hold, by names
    PackedSize,                       \* the size of a ramdisk that was packed here
    MaxSize,                          \* bound: of a page, a section, a header
    MaxBuilds                         \* bound: images written here

B == INSTANCE BootImage
V == INSTANCE VendorBootImage
C == INSTANCE ParserConfig

VARIABLES
    kind,       \* "boot" or "vendor_boot"
    original,   \* the first image
    image,      \* the last image
    put,        \* what was put into it: a function from names to files
    project,    \* the project extracted last
    edited,     \* whether a file of it was edited since
    at,         \* "image": to be extracted, "project": to be built
    builds,     \* how many images were written here
    history     \* those images, and whether a file was edited before each

vars == <<kind, original, image, put, project, edited, at, builds, history>>

-----------------------------------------------------------------------------
(* What images from elsewhere can be: their sizes and strings fit into     *)
(* their fields, sections that their version has not are not there, and no *)
(* offset in them, or in what becomes of them by edits, needs a word more. *)

Strings(limit) == {s \in Seq(Nat) : Len(s) <= limit}

Formats == {B!FORMAT_NONE, B!FORMAT_LZ4, B!FORMAT_GZIP, B!FORMAT_LZMA, B!FORMAT_OTHER}

Files == {B!Absent} \cup [size: 1 .. MaxSize, is: [name: Contents, rev: {0}, format: Formats]]

BootDescriptions ==
    [version: 0 .. MaxVersion, page: 1 .. MaxSize, files: [B!Names -> Files],
     os: [version: (0 .. 127) \X (0 .. 127) \X (0 .. 127), patch: (0 .. 127) \X (0 .. 15)],
     address: 0 .. U32 - 1, dtb_address: 0 .. U32 * U32 - 1, name: Strings(BOOT_NAME_SIZE),
     cmdline: Strings(BOOT_ARGS_SIZE + BOOT_EXTRA_ARGS_SIZE), extra_cmdline: Strings(BOOT_EXTRA_ARGS_SIZE)]

IsBootImage(d) ==
    /\ d \in BootDescriptions
    /\ d.version < 3 => Len(d.cmdline) <= BOOT_ARGS_SIZE
    /\ d.version > 2 => d.files["second"] = B!Absent
    /\ d.version \notin {1, 2} => d.files["recovery_dtbo"] = B!Absent
    /\ d.version # 2 => d.files["dtb"] = B!Absent
    /\ d.version < 4 => d.files["boot_signature"] = B!Absent

\* A dtb has a magic of its own.
DtbFiles == {B!Absent} \cup [size: 1 .. MaxSize, is: [name: Contents, rev: {0}, format: {B!FORMAT_OTHER}]]

Ramdisks == [file: Files, type: Nat, name: Strings(VENDOR_RAMDISK_NAME_SIZE), board_id: Nat]

VendorDescriptions ==
    [version: Nat, page: 1 .. MaxSize, address: 0 .. U32 - 1, dtb_address: 0 .. U32 * U32 - 1,
     name: Strings(VENDOR_BOOT_NAME_SIZE), cmdline: Strings(VENDOR_BOOT_ARGS_SIZE),
     dtb: DtbFiles, bootconfig: Files, ramdisks: Seq(Ramdisks)]

IsVendorImage(d) ==
    /\ d \in VendorDescriptions
    /\ Len(d.ramdisks) <= Len(RamdiskFiles) /\ (8 + 2 * Len(d.ramdisks)) * MaxSize <= U32
    /\ d.version <= 3 => Len(d.ramdisks) = 1 /\ d.bootconfig = B!Absent
    /\ d.version > 3 => \A k \in DOMAIN d.ramdisks : d.ramdisks[k].file.size > 0

ASSUME KitchenAssumption ==
    /\ {U32, StringSize, MaxSize, MaxBuilds, MaxVersion} \subseteq Nat
    /\ Contents \subseteq STRING
    /\ PackedSize \in [[name: Contents \cup {"nothing"}, rev: {B!EDITED, B!REPACKED},
                         format: Formats \ {B!FORMAT_OTHER}] -> 1 .. MaxSize]
    /\ NewSizes \subseteq 1 .. MaxSize /\ 11 * MaxSize <= U32
    /\ {BOOT_IMAGE_HEADER_V3_PAGESIZE, VENDOR_BOOT_IMAGE_HEADER_V3_SIZE,
         VENDOR_BOOT_IMAGE_HEADER_V4_SIZE, VENDOR_RAMDISK_TABLE_ENTRY_V4_SIZE} \subseteq 1 .. MaxSize
    /\ {BOOT_ARGS_SIZE, BOOT_EXTRA_ARGS_SIZE, BOOT_NAME_SIZE,
         VENDOR_BOOT_ARGS_SIZE, VENDOR_BOOT_NAME_SIZE, VENDOR_RAMDISK_NAME_SIZE} \subseteq Nat \ {0}
    /\ \A n \in {3, BOOT_NAME_SIZE, BOOT_ARGS_SIZE + BOOT_EXTRA_ARGS_SIZE,
                 VENDOR_BOOT_ARGS_SIZE, VENDOR_BOOT_NAME_SIZE, VENDOR_RAMDISK_NAME_SIZE} : n < StringSize
    /\ RamdiskFiles \in Seq(STRING \ {"vendor_ramdisk", "bootconfig", "dtb"})
    /\ \A j, k \in DOMAIN RamdiskFiles : RamdiskFiles[j] = RamdiskFiles[k] => j = k

ASSUME OriginalsAssumption ==
    (\A d \in BootOriginals : IsBootImage(d)) /\ (\A d \in VendorOriginals : IsVendorImage(d))

-----------------------------------------------------------------------------
(* Images from elsewhere.  Every section begins on a page, each behind the *)
(* pages of those before it; a section that is not there has no page.      *)

Pages(size, page) == (size + page - 1) \div page

\* The page on which each section of a boot image begins.  The signature has the
\* place of the sections that its header version has not.
FirstPage(f, page) ==
    LET pages(n) == Pages(f[n].size, page)
        second   == 1 + pages("kernel") + pages("ramdisk")
        dtbo     == second + pages("second")
    IN  [kernel |-> 1, ramdisk |-> 1 + pages("kernel"), second |-> second, boot_signature |-> second,
         recovery_dtbo |-> dtbo, dtb |-> dtbo + pages("recovery_dtbo")]

\* A boot image: d gives the version, the page size, the six sections, the
\* addresses and the strings.
BootOriginal(d) ==
    LET f      == d.files
        page   == IF d.version >= 3 THEN BOOT_IMAGE_HEADER_V3_PAGESIZE ELSE d.page
        first  == FirstPage(f, page)
        end    == first["dtb"] + Pages(f["dtb"].size, page) + Pages(f["boot_signature"].size, page)
        dtbo   == IF f["recovery_dtbo"].size = 0 THEN 0 ELSE page * first["recovery_dtbo"]
        digest == <<f["kernel"], f["ramdisk"], f["second"]>>
                  \o (IF d.version > 0 THEN <<f["recovery_dtbo"]>> ELSE <<>>)
                  \o (IF d.version > 1 THEN <<f["dtb"]>> ELSE <<>>)
    IN  [header |->
            IF d.version >= 3
            THEN << f["kernel"].size, f["ramdisk"].size, d.os,
                    IF d.version > 3 THEN 1584 ELSE 1580, 0, 0, 0, 0, d.version, d.cmdline >>
                 \o (IF d.version > 3 THEN <<f["boot_signature"].size>> ELSE <<>>)
            ELSE << f["kernel"].size, d.address, f["ramdisk"].size, d.address,
                    f["second"].size, d.address, d.address, page, d.version,
                    d.os, d.name, d.cmdline, digest, d.extra_cmdline >>
                 \o (IF d.version > 0
                     THEN <<f["recovery_dtbo"].size, dtbo, 0,
                            IF d.version = 1 THEN 1648 ELSE 1660>> ELSE <<>>)
                 \o (IF d.version > 1
                     THEN <<f["dtb"].size, d.dtb_address % U32, d.dtb_address \div U32>> ELSE <<>>),
         parts |-> UNION {B!Chunk(page * first[n], f[n]) : n \in B!Names}, end |-> page * end]

\* A vendor_boot image: the ramdisks have no padding between them.
VendorOriginal(d) ==
    LET page   == d.page
        four   == d.version > 3
        size   == IF four THEN VENDOR_BOOT_IMAGE_HEADER_V4_SIZE ELSE VENDOR_BOOT_IMAGE_HEADER_V3_SIZE
        files  == [k \in DOMAIN d.ramdisks |-> d.ramdisks[k].file]
        before == V!Before(files)
        total  == V!Total(files)
        table  == [size |-> VENDOR_RAMDISK_TABLE_ENTRY_V4_SIZE * Len(files),
                   is |-> B!Content("table", 0, B!FORMAT_OTHER)]
        start  == page * Pages(size, page)
        dtbAt  == start + page * Pages(total, page)
        tableAt == dtbAt + page * Pages(d.dtb.size, page)
        configAt == tableAt + page * Pages(table.size, page)
    IN  [header |->
            << d.version, page, d.address, d.address, total, d.cmdline, d.address, d.name, size,
               d.dtb.size, d.dtb_address % U32, d.dtb_address \div U32 >>
            \o (IF four
                THEN <<table.size, Len(d.ramdisks), VENDOR_RAMDISK_TABLE_ENTRY_V4_SIZE,
                       d.bootconfig.size>> ELSE <<>>),
         parts |-> (UNION {B!Chunk(start + before[k], files[k]) : k \in DOMAIN files})
                   \cup B!Chunk(dtbAt, d.dtb)
                   \cup (IF four THEN B!Chunk(tableAt, table) \cup B!Chunk(configAt, d.bootconfig) ELSE {}),
         end   |-> IF four THEN configAt + page * Pages(d.bootconfig.size, page) ELSE tableAt,
         table |-> IF four
                   THEN [at |-> tableAt, entry_size |-> VENDOR_RAMDISK_TABLE_ENTRY_V4_SIZE,
                         entries |-> [k \in DOMAIN d.ramdisks |->
                             [size |-> files[k].size, offset |-> before[k],
                              type |-> d.ramdisks[k].type, name |-> d.ramdisks[k].name,
                              board_id |-> d.ramdisks[k].board_id,
                              ramdisk_compression |-> B!FORMAT_OTHER]]]
                   ELSE V!NoTable]

\* What such a vendor_boot image has in it, by the names of the project.
VendorFiles(d) ==
    LET files == IF d.version > 3 THEN {RamdiskFiles[k] : k \in DOMAIN d.ramdisks} \cup {"bootconfig"}
                                  ELSE {"vendor_ramdisk"}
    IN  [n \in files \cup (IF d.dtb.size > 0 THEN {"dtb"} ELSE {}) |->
            CASE n = "dtb" -> d.dtb [] n = "bootconfig" -> d.bootconfig
              [] n = "vendor_ramdisk" -> d.ramdisks[1].file
              [] OTHER -> d.ramdisks[CHOOSE k \in DOMAIN d.ramdisks : RamdiskFiles[k] = n].file]

-----------------------------------------------------------------------------
NoProject == [files |-> <<>>, config |-> [content |-> <<>>, digest |-> <<>>]]

Init ==
    /\ \/ \E d \in BootOriginals :
            kind = "boot" /\ original = BootOriginal(d) /\ put = d.files
       \/ \E d \in VendorOriginals :
            kind = "vendor_boot" /\ original = VendorOriginal(d) /\ put = VendorFiles(d)
    /\ image = original
    /\ project = NoProject
    /\ edited = FALSE
    /\ at = "image"
    /\ builds = 0
    /\ history = <<>>

\* jniExtract: unpackbootimg_wrapper tells the two kinds by their magic.
ExtractBoot ==
    /\ kind = "boot"
    /\ B!Unpackable(image)
    /\ LET u == B!Unpacked(image)
       IN  project' = [files |-> u.files, config |-> C!AppendSHA1(C!BootWrite(u.info))]

ExtractVendor ==
    /\ kind = "vendor_boot"
    /\ V!Unpackable(image)
    /\ LET u == V!Unpacked(image)
       IN  project' = [files |-> u.files, config |-> C!AppendSHA1(C!VendorWrite(u.info, u.table))]

Extract ==
    /\ at = "image"
    /\ ExtractBoot \/ ExtractVendor
    /\ at' = "project"
    /\ edited' = FALSE
    /\ UNCHANGED <<kind, original, image, put, builds, history>>

\* The user replaces a file, or changes something in the directory of a ramdisk,
\* whose size nobody looks at; once for every file (a bound).
Edit(n, size) ==
    /\ at = "project" /\ builds < MaxBuilds
    /\ project.files[n].size > 0
    /\ project.files[n].is.rev = 0
    /\ project' = [project EXCEPT !.files[n].size = size, !.files[n].is.rev = B!EDITED]
    /\ edited' = TRUE
    /\ UNCHANGED <<kind, original, image, put, at, builds, history>>

\* What BootConfig.Read and VendorBootConfig.Read find.
BootInfo == C!BootRead(project.config.content, B!NoInfo)
VendorInfo == C!VendorRead(project.config.content, V!ReadHeader([k \in 1 .. 16 |-> 0]))
VendorTable == C!VendorReadTable(project.config.content, VendorInfo.entry_num,
                   [size |-> 0, offset |-> 0, type |-> 0, name |-> <<>>, board_id |-> 0,
                    ramdisk_compression |-> B!FORMAT_OTHER])

\* jniBuild: mkbootimg_wrapper.
BuildBoot ==
    LET a == B!Args(BootInfo, project.files)
    IN  /\ project.config.content[1].value = B!BOOT_MAGIC
        /\ B!Writable(a) /\ B!Defined(a)
        /\ image' = B!WriteBootImage(a)

BuildVendor ==
    /\ project.config.content[1].value = V!VENDOR_BOOT_MAGIC
    /\ image' = V!Build(V!Args(VendorInfo, VendorTable, project.files))

Build ==
    /\ at = "project" /\ builds < MaxBuilds
    /\ C!ValidateSHA1(project.config)
    /\ BuildBoot \/ BuildVendor
    /\ put' = project.files
    /\ at' = "image"
    /\ builds' = builds + 1
    /\ history' = Append(history, [image |-> image', edited |-> edited])
    /\ UNCHANGED <<kind, original, project, edited>>

Next ==
    \/ Extract
    \/ \E n \in DOMAIN project.files, size \in NewSizes : Edit(n, size)
    \/ Build

Spec == Init /\ [][Next]_vars

-----------------------------------------------------------------------------
(* Properties *)

\* The same file, or one as a ramdisk and as the directory of what is in it.
SameContents(f, g) ==
    \/ f.size = 0 /\ g.size = 0
    \/ /\ f.size > 0 /\ g.size > 0
       /\ f.is.name = g.is.name /\ f.is.rev = g.is.rev
       /\ \/ f.size = g.size /\ f.is.format = g.is.format
          \/ B!DIRECTORY \in {f.is.format, g.is.format}

\* Every file of a project that was extracted holds exactly what was put under
\* its name into the image by the tool that made it or by the last build, and the
\* directory of a ramdisk what was in the ramdisk, no matter which of the other
\* sections are there and how long they are; nothing is extracted that was not put
\* there.  A build drops the boot signature.
SectionsKept ==
    at = "project" /\ ~edited =>
        \A n \in DOMAIN put \cup DOMAIN project.files :
            /\ n \in DOMAIN put /\ n \in DOMAIN project.files
            /\ \/ SameContents(project.files[n], put[n])
               \/ n = "boot_signature" /\ builds > 0 /\ project.files[n].size = 0

\* The header cells of a boot image that a build does not keep: the address of
\* a section that is not there (a fixed one is written); a patch level that is
\* not in a year (none is written); the last character of a full name; the
\* character that falls between the two fields of the command line, unless it
\* is the blank between them; the upper word of the address of the dtb; the
\* size of the signature, which is dropped; and of a ramdisk that was a directory
\* its size, the identifier, and the offset of the recovery dtbo behind it.  Two
\* short fields of the command line become one.
Unkept(h, directory) ==
    IF h[9] >= 3
    THEN (IF B!ParseOSPatchLevel(B!FormatOsPatchLevel(h[3])) # h[3].patch THEN {3} ELSE {}) \cup {11}
         \cup (IF directory THEN {2} ELSE {})
    ELSE LET month == B!ParseOSPatchLevel(B!FormatOsPatchLevel(h[10])) = h[10].patch
             split == \/ Len(h[12]) = BOOT_ARGS_SIZE - 1
                      \/ Len(h[12]) < BOOT_ARGS_SIZE - 1 /\ h[14] = <<>>
         IN  {k \in {2, 4, 6} : h[k - 1] = 0} \cup {21}
             \cup (IF month THEN {} ELSE {10})
             \cup (IF Len(h[11]) = BOOT_NAME_SIZE THEN {11} ELSE {})
             \cup (IF split THEN {} ELSE {12, 14})
             \cup (IF directory THEN {3, 13, 16} ELSE {})

\* The command line as the kernel gets it, the two fields with a blank between.
CommandLine(h) == h[12] \o (IF h[14] = <<>> THEN <<>> ELSE B!Space \o h[14])

\* The same of a vendor_boot image: the address of a dtb that is not there or
\* lies above 4 GiB, and the size of the ramdisks if one of them was a directory.
UnkeptVendor(h, directory) ==
    {k \in {11, 12} : h[10] = 0 \/ k = 12} \cup (IF directory THEN {5} ELSE {})

\* Whether the ramdisk of the first image, or one of its table, is of a known format,
\* and becomes a directory.
IsDirectory == B!Unpacked(original).info.ramdisk_compression # B!FORMAT_OTHER
VendorDirectories ==
    LET u == V!Unpacked(original)
    IN  {k \in DOMAIN u.table : u.table[k].ramdisk_compression # B!FORMAT_OTHER}
VendorHasDirectory ==
    V!Unpacked(original).info.ramdisk_compression # B!FORMAT_OTHER \/ VendorDirectories # {}

\* A build of a project that nobody edited writes the header the image came
\* with: every size, address, version, page size, name, command line, digest
\* and table, whichever header version, except for what Unkept names: of the table,
\* the size of a ramdisk that was a directory, and the offsets of those behind it.
HeaderKept ==
    builds >= 1 /\ ~history[1].edited =>
        LET h   == original.header
            new == history[1].image
        IN  IF kind = "boot"
            THEN /\ \A k \in DOMAIN h \ Unkept(h, IsDirectory) : B!ReadCell(new.header, k, 0) = h[k]
                 /\ h[9] < 3 /\ Len(CommandLine(h)) < BOOT_ARGS_SIZE =>
                        CommandLine(new.header) = CommandLine(h)
            ELSE /\ \A k \in DOMAIN h \ UnkeptVendor(h, VendorHasDirectory) : new.header[k] = h[k]
                 /\ Len(new.table.entries) = Len(original.table.entries)
                 /\ \A k \in DOMAIN new.table.entries :
                        LET e == new.table.entries[k]
                            o == original.table.entries[k]
                        IN  /\ e.type = o.type
                            /\ k \notin VendorDirectories => e.size = o.size
                            /\ VendorDirectories \cap 1 .. k - 1 = {} => e.offset = o.offset
                            /\ Len(o.name) < VENDOR_RAMDISK_NAME_SIZE => e.name = o.name

\* What a build loses, it loses once: to extract what was built and to build it
\* again gives the same image, bit by bit.
BuildsAreStable ==
    \A k \in 1 .. Len(history) - 1 :
        ~history[k + 1].edited => history[k + 1].image = history[k].image

\* Nothing is behind the header of a vendor_boot image without a table of ramdisks.
BareVendor(h) == h[1] <= 3 /\ h[5] = 0 /\ h[10] = 0

\* What was built can always be extracted: every section, and every entry of
\* the table, lies within the file.  So can every image from elsewhere but one: a
\* vendor_boot image of header 3 with neither ramdisk nor dtb is refused.
CanBeExtracted ==
    at = "image" =>
        IF kind = "boot" THEN B!Unpackable(image)
        ELSE V!Unpackable(image) <=> ~(builds = 0 /\ BareVendor(image.header))
=============================================================================
