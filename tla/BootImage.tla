----------------------------- MODULE BootImage -----------------------------
(***************************************************************************)
(* Boot images, headers 0 to 4: what UnpackBootImage reads of a file, what *)
(* WriteBootImage writes of a project, and the arguments that              *)
(* mkbootimg_wrapper makes of a configuration.                             *)
(***************************************************************************)
EXTENDS ImageFile

CONSTANTS
    BOOT_ARGS_SIZE, BOOT_EXTRA_ARGS_SIZE, BOOT_NAME_SIZE,
    BOOT_IMAGE_HEADER_V3_PAGESIZE,
    MaxVersion      \* the limit above which header_version is a dt_size

Space == <<0>>      \* the blank put between the two command lines

\* The version and patch level as the project's configuration has them, two
\* strings; the header has them in one word, whose fields are numbers here.
FormatOsVersion(os)    == IF os.version = <<0, 0, 0>> THEN <<>> ELSE os.version
FormatOsPatchLevel(os) == IF os.patch = <<0, 0>> THEN <<>>
                          ELSE <<os.patch[1] + 2000, os.patch[2]>>

ParseOSVersion(s) ==
    IF s # <<>> /\ \A k \in DOMAIN s : s[k] < 128 THEN s ELSE <<0, 0, 0>>

ParseOSPatchLevel(s) ==
    IF s # <<>> /\ s[1] - 2000 \in 0 .. 127 /\ s[2] \in 1 .. 12
    THEN <<s[1] - 2000, s[2]>> ELSE <<0, 0>>

NoOs == [version |-> <<0, 0, 0>>, patch |-> <<0, 0>>]

-----------------------------------------------------------------------------
(* UnpackBootImage *)

\* The defaults of BootImageInfo, for what a header version does not have.
BOOT_MAGIC == <<"ANDROID!">>

NoInfo == [boot_magic |-> BOOT_MAGIC, header_version |-> 0, page_size |-> 0,
           kernel_size |-> 0, ramdisk_size |-> 0, ramdisk_compression |-> FORMAT_OTHER,
           os_version |-> <<>>, os_patch_level |-> <<>>, cmdline |-> <<>>,
           kernel_load_address |-> 0, ramdisk_load_address |-> 0, second_size |-> 0,
           second_load_address |-> 0, tags_load_address |-> 0, product_name |-> <<>>,
           extra_cmdline |-> <<>>, recovery_dtbo_size |-> 0, recovery_dtbo_offset |-> 0,
           boot_header_size |-> 0, dtb_size |-> 0, dtb_load_address |-> 0,
           boot_signature_size |-> 0]

\* Cells of a header: the magic is left out, cell 9 is header_version.
ReadLegacy(h) ==
    [NoInfo EXCEPT
        !.header_version = h[9],      !.page_size = h[8],
        !.kernel_size = h[1],         !.kernel_load_address = h[2],
        !.ramdisk_size = h[3],        !.ramdisk_load_address = h[4],
        !.second_size = h[5],         !.second_load_address = h[6],
        !.tags_load_address = h[7],
        !.os_version = FormatOsVersion(h[10]), !.os_patch_level = FormatOsPatchLevel(h[10]),
        !.product_name = h[11],       !.cmdline = h[12],      !.extra_cmdline = h[14]]

ReadDtbo(h, info) ==
    [info EXCEPT !.recovery_dtbo_size = ReadU32(h, 15),
                 !.recovery_dtbo_offset = ReadU64(h, 16), !.boot_header_size = ReadU32(h, 18)]

ReadDtb(h, info) ==
    [info EXCEPT !.dtb_size = ReadU32(h, 19), !.dtb_load_address = ReadU64(h, 20)]

ReadV3Plus(h) ==
    [NoInfo EXCEPT
        !.header_version = h[9],      !.page_size = BOOT_IMAGE_HEADER_V3_PAGESIZE,
        !.kernel_size = h[1],         !.ramdisk_size = h[2],
        !.os_version = FormatOsVersion(h[3]), !.os_patch_level = FormatOsPatchLevel(h[3]),
        !.cmdline = h[10],
        !.boot_signature_size = IF h[9] >= 4 THEN ReadU32(h, 11) ELSE 0]

ReadHeader(h) ==
    CASE h[9] >= 3 -> ReadV3Plus(h)
      [] h[9] = 2  -> ReadDtb(h, ReadDtbo(h, ReadLegacy(h)))
      [] h[9] = 1  -> ReadDtbo(h, ReadLegacy(h))
      [] h[9] = 0  -> ReadLegacy(h)

Supported(h) == h[9] <= MaxVersion

\* Fault: the dtb is looked for right behind the second stage loader.
PagesBeforeDtbNoDtbo(info) == GetNumberOfPages(info.second_size, info.page_size)

\* Between the ramdisk and the dtb.
PagesBeforeDtb(info) == GetNumberOfPages(info.second_size, info.page_size)
                        + GetNumberOfPages(info.recovery_dtbo_size, info.page_size)

\* Where the ramdisk begins, from which its format is read.
RamdiskOffset(info) ==
    Word(info.page_size * Word(1 + GetNumberOfPages(info.kernel_size, info.page_size)))

\* The sections by their names; the offset of recovery_dtbo is in the header.
ImageEntries(info) ==
    LET page    == info.page_size
        kernel  == GetNumberOfPages(info.kernel_size, page)
        ramdisk == GetNumberOfPages(info.ramdisk_size, page)
        At(n)   == Word(page * Word(n))
        entry(offset, size) == [offset |-> offset, size |-> size]
    IN  [kernel         |-> entry(At(1), info.kernel_size),
         ramdisk        |-> entry(RamdiskOffset(info), info.ramdisk_size),
         second         |-> entry(At(1 + kernel + ramdisk), info.second_size),
         recovery_dtbo  |-> entry(info.recovery_dtbo_offset, info.recovery_dtbo_size),
         dtb            |-> entry(At(1 + kernel + ramdisk + PagesBeforeDtb(info)), info.dtb_size),
         boot_signature |-> entry(At(1 + kernel + ramdisk), info.boot_signature_size)]

Names == {"kernel", "ramdisk", "second", "recovery_dtbo", "dtb", "boot_signature"}

\* The files of the project: each entry in a file of its name, none of size 0.
Extracted(image, entries) ==
    [n \in Names |-> ExtractImage(image, entries[n].offset, entries[n].size)]

\* A ramdisk of some size that is in the file has bytes to tell its format by.
Unpackable(image) ==
    /\ Supported(image.header)
    /\ LET entries == ImageEntries(ReadHeader(image.header))
       IN  \A n \in Names : Readable(image, entries[n].offset, entries[n].size)

Unpacked(image) ==
    LET head  == ReadHeader(image.header)
        info  == [head EXCEPT !.ramdisk_compression =
                     IF head.ramdisk_size > 0 THEN FormatAt(image, RamdiskOffset(head))
                                              ELSE FORMAT_OTHER]
        files == Extracted(image, ImageEntries(info))
    IN  [info  |-> info,
         files |-> [files EXCEPT !["ramdisk"] = UnpackRamdisk(@, info.ramdisk_compression)]]

-----------------------------------------------------------------------------
(* mkbootimg_wrapper and WriteBootImage *)

\* Defaults of BootImageArgs (scaled), for the kernel and the dtb that are not there.
KERNEL_OFFSET == 1
DTB_OFFSET    == 4

\* The header sizes of versions 1 and 2, and of the later ones.
BOOT_IMAGE_HEADER_SIZE    == <<1648, 1660>>
BOOT_IMAGE_HEADER_V3_SIZE == 1580
BOOT_IMAGE_HEADER_V4_SIZE == 1584

\* base is 0; a path is empty when the configuration has no such section.
Args(info, files) ==
    [kernel  |-> IF info.kernel_size > 0 THEN files["kernel"] ELSE Absent,
     ramdisk |-> IF info.ramdisk_size > 0
                 THEN BuildRamdisk(files["ramdisk"], info.ramdisk_compression) ELSE Absent,
     second  |-> IF info.second_size > 0 THEN files["second"] ELSE Absent,
     dtb     |-> IF info.dtb_size > 0 THEN files["dtb"] ELSE Absent,
     recovery_dtbo  |-> IF info.recovery_dtbo_size > 0 THEN files["recovery_dtbo"] ELSE Absent,
     kernel_offset  |-> IF info.kernel_size > 0 THEN info.kernel_load_address ELSE KERNEL_OFFSET,
     ramdisk_offset |-> IF info.ramdisk_size > 0 THEN info.ramdisk_load_address ELSE 0,
     second_offset  |-> IF info.second_size > 0 THEN info.second_load_address ELSE 0,
     dtb_offset     |-> IF info.dtb_size > 0 THEN Low(info.dtb_load_address) ELSE DTB_OFFSET,
     tags_offset    |-> info.tags_load_address,
     os             |-> [version |-> ParseOSVersion(info.os_version),
                         patch   |-> ParseOSPatchLevel(info.os_patch_level)],
     header_version |-> info.header_version,
     page_size      |-> info.page_size,
     board          |-> info.product_name,
     cmdline        |-> IF info.extra_cmdline = <<>> THEN info.cmdline
                        ELSE info.cmdline \o Space \o info.extra_cmdline]

HeaderV3Plus(a) ==
    << a.kernel.size, a.ramdisk.size, a.os,
       IF a.header_version > 3 THEN BOOT_IMAGE_HEADER_V4_SIZE ELSE BOOT_IMAGE_HEADER_V3_SIZE,
       0, 0, 0, 0, a.header_version,
       Field(a.cmdline, BOOT_ARGS_SIZE + BOOT_EXTRA_ARGS_SIZE) >>
    \o (IF a.header_version >= 4 THEN <<0>> ELSE <<>>)

\* Fault: the first field of the command line is filled to its end.
FirstArgsFull(cmdline) == Field(cmdline, BOOT_ARGS_SIZE)

\* The first field ends with a NUL; the rest begins where the field ends.
FirstArgs(cmdline) == Field(cmdline, BOOT_ARGS_SIZE - 1)

ExtraArgs(cmdline) == IF Len(cmdline) > BOOT_ARGS_SIZE
                      THEN SubSeq(cmdline, BOOT_ARGS_SIZE + 1, Len(cmdline)) ELSE <<>>

DtboOffset(a) ==
    IF a.recovery_dtbo.size = 0 THEN 0
    ELSE Word(a.page_size * Word(1 + GetNumberOfPages(a.kernel.size, a.page_size)
                                   + GetNumberOfPages(a.ramdisk.size, a.page_size)
                                   + GetNumberOfPages(a.second.size, a.page_size)))

\* The identifier: SHA-1 over these contents in this order.
Digest(a) == <<a.kernel, a.ramdisk, a.second>>
             \o (IF a.header_version > 0 THEN <<a.recovery_dtbo>> ELSE <<>>)
             \o (IF a.header_version > 1 THEN <<a.dtb>> ELSE <<>>)

\* Its address is written as one word of the two it has in the header.
DtbCells(a) == <<a.dtb.size, a.dtb_offset>>

LegacyHeader(a) ==
    << a.kernel.size, a.kernel_offset, a.ramdisk.size, a.ramdisk_offset,
       a.second.size, a.second_offset, a.tags_offset, a.page_size, a.header_version,
       a.os, Field(a.board, BOOT_NAME_SIZE - 1), FirstArgs(a.cmdline), Digest(a),
       ExtraArgs(a.cmdline) >>
    \o (IF a.header_version > 0
        THEN <<a.recovery_dtbo.size, Low(DtboOffset(a)), High(DtboOffset(a)),
               BOOT_IMAGE_HEADER_SIZE[a.header_version]>> ELSE <<>>)
    \o (IF a.header_version > 1 THEN DtbCells(a) ELSE <<>>)

\* Header 2 needs a dtb.  Copying an extra command line longer than its field
\* is undefined.
Writable(a) == a.header_version = 2 => a.dtb.size > 0
Defined(a)  == a.header_version < 3 => Len(ExtraArgs(a.cmdline)) <= BOOT_EXTRA_ARGS_SIZE

\* The body begins on the second page; a header fits into the first one.
Body(a) ==
    LET header == [parts |-> {},
                   end |-> IF a.header_version >= 3 THEN BOOT_IMAGE_HEADER_V3_PAGESIZE ELSE a.page_size]
        then(out, file, on) == IF on THEN WriteSection(out, file, a.page_size) ELSE out
        kernel  == then(header, a.kernel, TRUE)
        ramdisk == then(kernel, a.ramdisk, TRUE)
        second  == then(ramdisk, a.second, TRUE)
        dtbo    == then(second, a.recovery_dtbo, a.header_version \in 1 .. 2)
    IN  then(dtbo, a.dtb, a.header_version = 2)

WriteBootImage(a) ==
    [header |-> IF a.header_version >= 3 THEN HeaderV3Plus(a) ELSE LegacyHeader(a),
     parts  |-> Body(a).parts, end |-> Body(a).end]

=============================================================================
