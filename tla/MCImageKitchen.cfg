\* Image formats: every header version, extract, edit, build, twice.
CONSTANTS
    U32 = 256
    StringSize = 64
    BOOT_ARGS_SIZE = 4
    BOOT_EXTRA_ARGS_SIZE = 3
    BOOT_NAME_SIZE = 2
    BOOT_IMAGE_HEADER_V3_PAGESIZE = 4
    MaxVersion = 4
    VENDOR_BOOT_IMAGE_HEADER_V3_SIZE = 5
    VENDOR_BOOT_IMAGE_HEADER_V4_SIZE = 7
    VENDOR_BOOT_ARGS_SIZE = 3
    VENDOR_BOOT_NAME_SIZE = 2
    VENDOR_RAMDISK_NAME_SIZE = 3
    VENDOR_RAMDISK_TABLE_ENTRY_V4_SIZE = 3
    RamdiskFiles <- MCRamdiskFiles
    BootOriginals <- MCBootOriginals
    VendorOriginals <- MCVendorOriginals
    NewSizes = {4}
    Contents <- MCContents
    PackedSize <- MCPackedSize
    MaxSize = 8
    MaxBuilds = 2
SPECIFICATION Spec
INVARIANTS SectionsKept HeaderKept BuildsAreStable CanBeExtracted
CHECK_DEADLOCK FALSE
