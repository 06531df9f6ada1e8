\* One directory, both images: crashes, failures, edits, deletions and builds.
SPECIFICATION Spec
CONSTANTS
    Base = {b}
    MaxCopy = 0
    MaxRev = 1
    boot = boot
    vendor = vendor
    kernel = kernel
    ramdisk = ramdisk
    extra = extra
    Image = {boot, vendor}
    NoImage = NoImage
    Part = {kernel, ramdisk, extra}
    Vendor = {vendor}
    SectionsOf <- MCSectionsOf
    RamdisksOf <- MCRamdisksOf
    Repacked <- MCRepacked
    Format <- MCFormat
INVARIANTS TypeOK NothingLost RoundTrip BuildIsFresh BootImageComplete NoDebris
PROPERTIES CallsEnd
