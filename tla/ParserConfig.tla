---------------------------- MODULE ParserConfig ----------------------------
(***************************************************************************)
(* .parserconfig: the records of BootConfig and VendorBootConfig, and the  *)
(* SHA-1 that AppendSHA1 appends and ValidateSHA1 compares.                *)
(*                                                                         *)
(* The content of the file is a sequence of items, each of a width (or a   *)
(* string, with its length before it).  A reader who asks for another      *)
(* width is out of step from there on, and finds no value in its place.    *)
(***************************************************************************)
EXTENDS Integers, Sequences

CONSTANTS StringSize   \* the number of values of string_size

\* BootConfig, in the order of the file ...
BootFields ==
    << <<"str", "boot_magic">>, <<"u32", "header_version">>, <<"u32", "kernel_size">>,
       <<"u32", "ramdisk_size">>, <<"u8", "ramdisk_compression">>, <<"u32", "page_size">>,
       <<"str", "os_version">>, <<"str", "os_patch_level">>, <<"str", "cmdline">>,
       <<"u32", "kernel_load_address">>, <<"u32", "ramdisk_load_address">>,
       <<"u32", "second_size">>, <<"u32", "second_load_address">>,
       <<"u32", "tags_load_address">>, <<"str", "product_name">>, <<"str", "extra_cmdline">>,
       <<"u32", "recovery_dtbo_size">>, <<"u64", "recovery_dtbo_offset">>,
       <<"u32", "boot_header_size">>, <<"u32", "dtb_size">>, <<"u64", "dtb_load_address">>,
       <<"u32", "boot_signature_size">> >>

\* Fault: the addresses are read before the sizes.
BootFieldsReadSwapped == [BootFields EXCEPT ![12] = BootFields[14], ![14] = BootFields[12]]

\* ... and in the order Read asks for.
BootFieldsRead ==
    << <<"str", "boot_magic">>, <<"u32", "header_version">>, <<"u32", "kernel_size">>,
       <<"u32", "ramdisk_size">>, <<"u8", "ramdisk_compression">>, <<"u32", "page_size">>,
       <<"str", "os_version">>, <<"str", "os_patch_level">>, <<"str", "cmdline">>,
       <<"u32", "kernel_load_address">>, <<"u32", "ramdisk_load_address">>,
       <<"u32", "second_size">>, <<"u32", "second_load_address">>,
       <<"u32", "tags_load_address">>, <<"str", "product_name">>, <<"str", "extra_cmdline">>,
       <<"u32", "recovery_dtbo_size">>, <<"u64", "recovery_dtbo_offset">>,
       <<"u32", "boot_header_size">>, <<"u32", "dtb_size">>, <<"u64", "dtb_load_address">>,
       <<"u32", "boot_signature_size">> >>

\* VendorBootConfig, before the table ...
VendorFields ==
    << <<"str", "boot_magic">>, <<"u32", "header_version">>, <<"u32", "page_size">>,
       <<"u32", "kernel_load_address">>, <<"u32", "ramdisk_load_address">>,
       <<"u32", "vendor_ramdisk_size">>, <<"str", "cmdline">>, <<"u32", "tags_load_address">>,
       <<"str", "product_name">>, <<"u32", "header_size">>, <<"u32", "dtb_size">>,
       <<"u64", "dtb_load_address">>, <<"u8", "ramdisk_compression">>, <<"u32", "table_size">>,
       <<"u32", "entry_num">>, <<"u32", "entry_size">>, <<"u32", "bootconfig_size">> >>

\* ... as Read asks for it ...
VendorFieldsRead ==
    << <<"str", "boot_magic">>, <<"u32", "header_version">>, <<"u32", "page_size">>,
       <<"u32", "kernel_load_address">>, <<"u32", "ramdisk_load_address">>,
       <<"u32", "vendor_ramdisk_size">>, <<"str", "cmdline">>, <<"u32", "tags_load_address">>,
       <<"str", "product_name">>, <<"u32", "header_size">>, <<"u32", "dtb_size">>,
       <<"u64", "dtb_load_address">>, <<"u8", "ramdisk_compression">>, <<"u32", "table_size">>,
       <<"u32", "entry_num">>, <<"u32", "entry_size">>, <<"u32", "bootconfig_size">> >>

\* ... and one entry of the table, behind its name, which its index gives.
EntryFields ==
    << <<"u32", "size">>, <<"u32", "offset">>, <<"u32", "type">>, <<"str", "name">>,
       <<"u128", "board_id">>, <<"u8", "ramdisk_compression">> >>

EntryFieldsRead ==
    << <<"u32", "size">>, <<"u32", "offset">>, <<"u32", "type">>, <<"str", "name">>,
       <<"u128", "board_id">>, <<"u8", "ramdisk_compression">> >>

-----------------------------------------------------------------------------
(* Writing: WriteString writes as many characters as its length says.      *)

WriteString(s) == SubSeq(s, 1, Len(s) % StringSize)

Written(fields, record) ==
    [k \in DOMAIN fields |->
        LET v == record[fields[k][2]]
        IN  [kind |-> fields[k][1], value |-> IF fields[k][1] = "str" THEN WriteString(v) ELSE v]]

BootWrite(info) == Written(BootFields, info)

\* The record, and the entries of the table one behind the other.
VendorWrite(info, table) ==
    LET entry   == Len(EntryFields)
        entries == [k \in 1 .. entry * Len(table) |->
                       Written(EntryFields, table[(k - 1) \div entry + 1])[((k - 1) % entry) + 1]]
    IN  Written(VendorFields, info) \o entries

-----------------------------------------------------------------------------
(* Reading: the record keeps a value from before where none is found.      *)

InStep(items, fields, k) ==
    \A j \in 1 .. k : j \in DOMAIN items /\ items[j].kind = fields[j][1]

ReadRecord(items, fields, before) ==
    [name \in DOMAIN before |->
        LET hit == {k \in DOMAIN fields : fields[k][2] = name /\ InStep(items, fields, k)}
        IN  IF hit = {} THEN before[name] ELSE items[CHOOSE k \in hit : TRUE].value]

BootRead(items, before) == ReadRecord(items, BootFieldsRead, before)

VendorRead(items, before) == ReadRecord(items, VendorFieldsRead, before)

\* As many entries as entry_num says.
VendorReadTable(items, n, before) ==
    [i \in 1 .. n |->
        LET first == Len(VendorFieldsRead) + (i - 1) * Len(EntryFieldsRead)
        IN  ReadRecord(SubSeq(items, first + 1, Len(items)), EntryFieldsRead, before)]

-----------------------------------------------------------------------------
(* A digest stands for what was hashed.                                    *)

AppendSHA1(content) == [content |-> content, digest |-> content]

ValidateSHA1(file) == file.digest = file.content
=============================================================================
