-------------------------- MODULE VendorBootImage --------------------------
(***************************************************************************)
(* vendor_boot images, headers 3 and 4: UnpackVendorBootImage,             *)
(* VendorBootBuilder, and the arguments that mkbootimg_wrapper makes of a  *)
(* configuration.  Header 4 has a table of ramdisks, which lie one behind  *)
(* the other, and a section of bootconfig parameters.                      *)
(***************************************************************************)
EXTENDS ImageFile

CONSTANTS
    VENDOR_BOOT_IMAGE_HEADER_V3_SIZE, VENDOR_BOOT_IMAGE_HEADER_V4_SIZE,
    VENDOR_BOOT_ARGS_SIZE, VENDOR_BOOT_NAME_SIZE, VENDOR_RAMDISK_NAME_SIZE,
    VENDOR_RAMDISK_TABLE_ENTRY_V4_SIZE,
    RamdiskFiles     \* the names "vendor_ramdisk<NN>", in the order of NN

\* How many bytes lie in front of each of some files, one behind the other.
Before(files) ==
    LET before[k \in 1 .. Len(files) + 1] == IF k = 1 THEN 0 ELSE before[k - 1] + files[k - 1].size
    IN  before

Total(files) == Before(files)[Len(files) + 1]

-----------------------------------------------------------------------------
(* UnpackVendorBootImage *)

\* Cells: header_version, page_size, kernel, ramdisk, ramdisk size, cmdline, tags,
\* name, header_size, dtb size, dtb address, and of header 4 the table.
VENDOR_BOOT_MAGIC == <<"VNDRBOOT">>

ReadHeader(h) ==
    [boot_magic |-> VENDOR_BOOT_MAGIC, ramdisk_compression |-> FORMAT_OTHER,
     header_version |-> h[1], page_size |-> h[2], kernel_load_address |-> h[3],
     ramdisk_load_address |-> h[4], vendor_ramdisk_size |-> h[5], cmdline |-> h[6],
     tags_load_address |-> h[7], product_name |-> h[8], header_size |-> h[9],
     dtb_size |-> h[10], dtb_load_address |-> ReadU64(h, 11),
     table_size      |-> IF h[1] > 3 THEN ReadU32(h, 13) ELSE 0,
     entry_num       |-> IF h[1] > 3 THEN ReadU32(h, 14) ELSE 0,
     entry_size      |-> IF h[1] > 3 THEN ReadU32(h, 15) ELSE 0,
     bootconfig_size |-> IF h[1] > 3 THEN ReadU32(h, 16) ELSE 0]

HeaderPages(info)  == GetNumberOfPages(info.header_size, info.page_size)
RamdiskPages(info) == GetNumberOfPages(info.vendor_ramdisk_size, info.page_size)
At(info, n)        == Word(info.page_size * Word(n))

TablePage(info) == HeaderPages(info) + RamdiskPages(info)
                   + GetNumberOfPages(info.dtb_size, info.page_size)

\* The entries of the table, as far as there is a table where it is looked for.
Table(image, info) ==
    IF info.header_version > 3 /\ image.table.at = At(info, TablePage(info))
       /\ info.entry_size = image.table.entry_size
    THEN SubSeq(image.table.entries, 1, info.entry_num)
    ELSE <<>>

RamdiskBase(info) == At(info, HeaderPages(info))

\* The format of every ramdisk of the table, or of the one ramdisk.
Detected(image, info, table) ==
    [k \in DOMAIN table |->
        [table[k] EXCEPT !.ramdisk_compression =
            FormatAt(image, Word(RamdiskBase(info) + table[k].offset))]]

\* The files that an image has in it, by the names of the project.
FileNames(info, table) ==
    (IF info.header_version > 3 THEN {RamdiskFiles[k] : k \in DOMAIN table} \cup {"bootconfig"}
                                ELSE {"vendor_ramdisk"})
    \cup (IF info.dtb_size > 0 THEN {"dtb"} ELSE {})

\* The ramdisk of a name.
Index(table, n) == CHOOSE k \in DOMAIN table : RamdiskFiles[k] = n

\* The sections by their names.
ImageEntries(info, table) ==
    LET entry(offset, size) == [offset |-> offset, size |-> size]
        ramdisk(r) == entry(Word(RamdiskBase(info) + r.offset), r.size)
        afterTable == TablePage(info) + GetNumberOfPages(info.table_size, info.page_size)
    IN  [n \in FileNames(info, table) |->
            CASE n = "bootconfig"     -> entry(At(info, afterTable), info.bootconfig_size)
              [] n = "vendor_ramdisk" -> entry(RamdiskBase(info), info.vendor_ramdisk_size)
              [] n = "dtb"            -> entry(At(info, HeaderPages(info) + RamdiskPages(info)), info.dtb_size)
              [] OTHER                -> ramdisk(table[Index(table, n)])]

\* Where the format of a ramdisk is read.
RamdiskOffsets(info, table) ==
    IF info.header_version > 3 THEN { Word(RamdiskBase(info) + table[k].offset) : k \in DOMAIN table }
                               ELSE { RamdiskBase(info) }

\* An empty ramdisk is refused where the file ends; in a boot image it is not looked
\* at.  A page size of 0 has no defined quotient; no image has one.
Unpackable(image) ==
    LET info    == ReadHeader(image.header)
        entries == ImageEntries(info, Table(image, info))
    IN  /\ info.entry_num = Len(Table(image, info))
        /\ \A offset \in RamdiskOffsets(info, Table(image, info)) : HasBytes(image, offset)
        /\ \A n \in DOMAIN entries : Readable(image, entries[n].offset, entries[n].size)

Unpacked(image) ==
    LET head    == ReadHeader(image.header)
        info    == IF head.header_version > 3 THEN head
                   ELSE [head EXCEPT !.ramdisk_compression = FormatAt(image, RamdiskBase(head))]
        table   == Detected(image, info, Table(image, info))
        entries == ImageEntries(info, table)
        Compression(n) ==
            CASE n = "vendor_ramdisk"      -> info.ramdisk_compression
              [] n \in {"bootconfig", "dtb"} -> FORMAT_OTHER
              [] OTHER                     -> table[Index(table, n)].ramdisk_compression
    IN  [info  |-> info,
         table |-> table,
         files |-> [n \in DOMAIN entries |->
                      UnpackRamdisk(ExtractImage(image, entries[n].offset, entries[n].size),
                                    Compression(n))]]

-----------------------------------------------------------------------------
(* mkbootimg_wrapper and VendorBootBuilder *)

DTB_OFFSET == 4

\* A file that is not in the project counts as empty.
File(files, n) == IF n \in DOMAIN files THEN files[n] ELSE Absent

Args(info, table, files) ==
    [header_version |-> info.header_version, page_size |-> info.page_size,
     kernel_offset  |-> info.kernel_load_address,
     ramdisk_offset |-> info.ramdisk_load_address,
     tags_offset    |-> info.tags_load_address,
     dtb            |-> IF info.dtb_size > 0 THEN File(files, "dtb") ELSE Absent,
     dtb_offset     |-> IF info.dtb_size > 0 THEN Low(info.dtb_load_address) ELSE DTB_OFFSET,
     bootconfig     |-> IF info.bootconfig_size > 0 THEN File(files, "bootconfig") ELSE Absent,
     board          |-> info.product_name,
     vendor_cmdline |-> info.cmdline,
     ramdisks       |-> IF info.header_version > 3
                        THEN [k \in DOMAIN table |->
                                [file |-> BuildRamdisk(File(files, RamdiskFiles[k]),
                                                       table[k].ramdisk_compression),
                                 type |-> table[k].type, name |-> table[k].name]]
                        ELSE << [file |-> BuildRamdisk(File(files, "vendor_ramdisk"),
                                                       info.ramdisk_compression),
                                 type |-> 0, name |-> <<>>] >>]

RamdiskContents(a) == [k \in DOMAIN a.ramdisks |-> a.ramdisks[k].file]

Header(a) ==
    << a.header_version, a.page_size, a.kernel_offset, a.ramdisk_offset,
       Word(Total(RamdiskContents(a))),
       Field(a.vendor_cmdline, VENDOR_BOOT_ARGS_SIZE), a.tags_offset,
       Field(a.board, VENDOR_BOOT_NAME_SIZE),
       IF a.header_version > 3 THEN VENDOR_BOOT_IMAGE_HEADER_V4_SIZE
                               ELSE VENDOR_BOOT_IMAGE_HEADER_V3_SIZE,
       a.dtb.size, Low(a.dtb_offset), High(a.dtb_offset) >>
    \o (IF a.header_version > 3
        THEN << Word(Len(a.ramdisks) * VENDOR_RAMDISK_TABLE_ENTRY_V4_SIZE), Len(a.ramdisks),
                VENDOR_RAMDISK_TABLE_ENTRY_V4_SIZE, a.bootconfig.size >>
        ELSE <<>>)

HeaderEnd(a) == Padded(IF a.header_version > 3 THEN VENDOR_BOOT_IMAGE_HEADER_V4_SIZE
                                               ELSE VENDOR_BOOT_IMAGE_HEADER_V3_SIZE, a.page_size)

\* One behind the other, and one padding at the end.
WriteRamdisks(out, a) ==
    LET files == RamdiskContents(a)
    IN  PadFile([parts |-> out.parts \cup
                             UNION {Chunk(out.end + Before(files)[k], files[k]) : k \in DOMAIN files},
                 end   |-> out.end + Total(files)], a.page_size)

TableOffset(a, k) == Before(RamdiskContents(a))[k]

\* WriteTableEntries: the board_id of every ramdisk is written as 0.
TableEntries(a) ==
    [k \in DOMAIN a.ramdisks |->
        [size |-> a.ramdisks[k].file.size, offset |-> Word(TableOffset(a, k)),
         type |-> a.ramdisks[k].type, board_id |-> 0, ramdisk_compression |-> FORMAT_OTHER,
         name |-> Field(a.ramdisks[k].name, VENDOR_RAMDISK_NAME_SIZE - 1)]]

TableFile(a) ==
    [size |-> Len(a.ramdisks) * VENDOR_RAMDISK_TABLE_ENTRY_V4_SIZE, is |-> Content("table", 0, FORMAT_OTHER)]

NoTable == [at |-> 0, entry_size |-> 0, entries |-> <<>>]

\* VendorBootBuilder.Build
Build(a) ==
    LET page     == a.page_size
        ramdisks == WriteRamdisks([parts |-> {}, end |-> HeaderEnd(a)], a)
        dtb      == WriteSection(ramdisks, a.dtb, page)
        all      == IF a.header_version > 3
                    THEN WriteSection(WriteSection(dtb, TableFile(a), page), a.bootconfig, page)
                    ELSE dtb
    IN  [header |-> Header(a), parts |-> all.parts, end |-> all.end,
         table  |-> IF a.header_version > 3
                    THEN [at |-> dtb.end, entry_size |-> VENDOR_RAMDISK_TABLE_ENTRY_V4_SIZE,
                          entries |-> TableEntries(a)]
                    ELSE NoTable]
=============================================================================
