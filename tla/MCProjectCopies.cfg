\* One image extracted again and again: <b> and <b>_1, no edits.
SPECIFICATION Spec
CONSTANTS
    Base = {b}
    MaxCopy = 1
    MaxRev = 0
    boot = boot
    vendor = vendor
    kernel = kernel
    ramdisk = ramdisk
    extra = extra
    Image = {boot}
    NoImage = NoImage
    Part = {ramdisk}
    Vendor = {}
    SectionsOf <- MCSectionsOf
    RamdisksOf <- MCRamdisksOf
    Repacked <- MCRepacked
    Format <- MCFormat
PROPERTIES ExtractionSparesProjects
