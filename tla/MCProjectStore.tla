--------------------------- MODULE MCProjectStore ---------------------------
(***************************************************************************)
(* Two images: a boot image with a compressed ramdisk and a signature that *)
(* a build leaves out, and a vendor_boot image with one ramdisk that is a  *)
(* plain cpio archive and one of unknown compression.  The section names   *)
(* are shared between them to keep the instance small: "extra" is the boot *)
(* signature and the second vendor ramdisk, "kernel" also stands for the   *)
(* dtb of the vendor image.                                                *)
(***************************************************************************)
EXTENDS ProjectStore

CONSTANTS boot, vendor, kernel, ramdisk, extra

InPart(s) == SelectSeq(s, LAMBDA p : p \in Part)

MCSectionsOf == [i \in Image |-> InPart(IF i = boot THEN <<kernel, ramdisk, extra>>
                                                    ELSE <<ramdisk, extra, kernel>>)]
MCRamdisksOf == [i \in Image |-> InPart(IF i = boot THEN <<ramdisk>>
                                                    ELSE <<ramdisk, extra>>)]
MCRepacked   == [i \in Image |-> IF i = boot THEN Part \ {extra} ELSE Part]
MCFormat     == [i \in Image |-> [p \in Part |->
                    IF p # ramdisk THEN "other" ELSE IF i = boot THEN "lz4" ELSE "none"]]
=============================================================================
