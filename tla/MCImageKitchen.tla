--------------------------- MODULE MCImageKitchen ---------------------------
EXTENDS ImageKitchen

F(name, size, format) == IF size = 0 THEN B!Absent
                         ELSE [size |-> size, is |-> B!Content(name, 0, format)]
P(name, size) == F(name, size, B!FORMAT_OTHER)

\* Strings by their length; the characters tell places apart.
S(n) == [k \in 1 .. n |-> k]

OsValues == { [version |-> <<0, 0, 0>>, patch |-> <<0, 0>>],
              [version |-> <<14, 0, 1>>, patch |-> <<24, 12>>],
              [version |-> <<127, 127, 127>>, patch |-> <<127, 13>>] }

\* Each header version with every set of sections that are there, sizes of one
\* and of two pages; and the texts, with one set of sections.
Sections(version, kernel, ramdisk, format, rest) ==
    [n \in B!Names |->
        CASE n = "kernel"  -> P(n, kernel)
          [] n = "ramdisk" -> F(n, ramdisk, format)
          [] n = "second" -> P(n, IF version < 3 THEN rest[1] ELSE 0)
          [] n = "recovery_dtbo" -> P(n, IF version \in {1, 2} THEN rest[2] ELSE 0)
          [] n = "dtb" -> P(n, IF version = 2 THEN 5 ELSE 0)
          [] n = "boot_signature" -> P(n, IF version = 4 THEN rest[1] ELSE 0)]

Shapes ==
    { [version |-> v, page |-> page, os |-> os, address |-> 3, dtb_address |-> dtb,
       name |-> S(1), cmdline |-> S(2), extra_cmdline |-> <<>>,
       files |-> Sections(v, kernel, ramdisk, format, rest)] :
      v \in 0 .. 4, page \in {4, 8}, os \in OsValues, dtb \in {3, U32 + 3},
      kernel \in {0, 4, 5}, ramdisk \in {0, 3}, format \in {B!FORMAT_GZIP, B!FORMAT_OTHER},
      rest \in {<<0, 0>>, <<2, 0>>, <<0, 6>>, <<5, 1>>} }

\* Of every two of them that only differ in what their version has not, one.
Sensible(d) ==
    /\ d.version # 2 => d.dtb_address = 3
    /\ d.version > 2 => d.page = 4
    /\ d.version \in {0, 3} => d.files["recovery_dtbo"].size = 0
    /\ d.os.version # <<14, 0, 1>> => d.page = 4 /\ d.files["kernel"].size = 5

Texts ==
    { [version |-> v, page |-> 4, os |-> [version |-> <<0, 0, 0>>, patch |-> <<20, 1>>],
       address |-> 0, dtb_address |-> 0, name |-> S(n), cmdline |-> S(c), extra_cmdline |-> e,
       files |-> Sections(v, 1, 1, B!FORMAT_NONE, <<0, 0>>)] :
      v \in {0, 2}, n \in 0 .. BOOT_NAME_SIZE, c \in 0 .. BOOT_ARGS_SIZE, e \in {<<>>, <<9>>, <<9, 8>>} }
    \cup
    { [version |-> 4, page |-> 4, os |-> [version |-> <<0, 0, 0>>, patch |-> <<20, 0>>],
       address |-> 0, dtb_address |-> 0, name |-> <<>>, cmdline |-> S(c), extra_cmdline |-> <<>>,
       files |-> Sections(4, 1, 1, B!FORMAT_NONE, <<0, 0>>)] :
      c \in 0 .. BOOT_ARGS_SIZE + BOOT_EXTRA_ARGS_SIZE }

MCBootOriginals == {d \in Shapes : Sensible(d)} \cup Texts

R(k, size, format) == [file |-> F(RamdiskFiles[k], size, format), type |-> k % 4,
                       name |-> S(k), board_id |-> k]

RamdiskTables == { <<>>, <<R(1, 3, B!FORMAT_LZ4)>>,
                   <<R(1, 5, B!FORMAT_LZMA), R(2, 2, B!FORMAT_OTHER)>>,
                   <<R(1, 1, B!FORMAT_OTHER), R(2, 4, B!FORMAT_GZIP), R(3, 3, B!FORMAT_NONE)>> }

MCVendorOriginals ==
    { [version |-> 4, page |-> page, address |-> 2, name |-> S(n), cmdline |-> S(c),
       dtb |-> P("dtb", dtb), dtb_address |-> a, bootconfig |-> P("bootconfig", bc),
       ramdisks |-> rds] :
      page \in {4, 8}, n \in {1, VENDOR_BOOT_NAME_SIZE}, c \in {0, VENDOR_BOOT_ARGS_SIZE},
      dtb \in {0, 4, 7}, a \in {1, U32 + 1}, bc \in {0, 5}, rds \in RamdiskTables }
    \cup
    { [version |-> 3, page |-> page, address |-> 2, name |-> S(1), cmdline |-> S(1),
       dtb |-> P("dtb", dtb), dtb_address |-> 1, bootconfig |-> P("bootconfig", 0),
       ramdisks |-> <<[R(1, 1, 0) EXCEPT !.file = F("vendor_ramdisk", size, B!FORMAT_GZIP)]>>] :
      page \in {4, 8}, dtb \in {0, 4, 7}, size \in {0, 5} }

MCContents == {"kernel", "ramdisk", "second", "recovery_dtbo", "dtb", "boot_signature", "bootconfig", "vendor_ramdisk",
               "vendor_ramdisk00", "vendor_ramdisk01", "vendor_ramdisk02"}

\* By revision (1 is EDITED, 2 REPACKED) and format: more, fewer or as many pages
\* as before.
MCPackedSize ==
    [is \in [name: MCContents \cup {"nothing"}, rev: {1, 2}, format: 0 .. 3] |->
        IF is.rev = 1 THEN 6 ELSE <<3, 3, 5, 1>>[is.format + 1]]

MCRamdiskFiles == <<"vendor_ramdisk00", "vendor_ramdisk01", "vendor_ramdisk02">>
=============================================================================
