------------------------ MODULE ImageKitchen_proofs ------------------------
(***************************************************************************)
(* Proofs about ImageKitchen: what a build puts into an image is extracted *)
(* again, what it writes of a header is what the image came with, and a    *)
(* second build changes nothing.                                           *)
(***************************************************************************)
EXTENDS ImageKitchen, TLAPS, WellFoundedInduction

-----------------------------------------------------------------------------
(* Offsets and pages.                                                      *)

\* The bounds on sizes, and what fits into a word.
LEMMA SizeBounds ==
    /\ U32 \in Nat /\ MaxSize \in Nat /\ StringSize \in Nat /\ MaxBuilds \in Nat
    /\ MaxVersion \in Nat
    /\ 11 * MaxSize <= U32 /\ MaxSize >= 1
    /\ BOOT_IMAGE_HEADER_V3_PAGESIZE \in 1 .. MaxSize
<1>1. /\ U32 \in Nat /\ MaxSize \in Nat /\ StringSize \in Nat /\ MaxBuilds \in Nat
      /\ MaxVersion \in Nat /\ BOOT_IMAGE_HEADER_V3_PAGESIZE \in 1 .. MaxSize
  BY KitchenAssumption
<1>2. 11 * MaxSize <= U32
  BY KitchenAssumption
<1> QED  BY <1>1, <1>2

\* A quotient and its remainder.
LEMMA DivMod ==
    ASSUME NEW n \in Nat, NEW p \in Nat \ {0}
    PROVE  n = p * (n \div p) + (n % p) /\ n \div p \in Nat /\ n % p \in 0 .. p - 1
  OBVIOUS
\* There is one quotient and one remainder.
LEMMA Unique ==
    ASSUME NEW p \in Nat \ {0}, NEW q \in Nat, NEW r \in 0 .. p - 1, NEW n \in Nat, n = p * q + r
    PROVE  n \div p = q /\ n % p = r
  OBVIOUS

\* The pages that a section has: none when it is empty, and else room for all of
\* it and less than a page more.
LEMMA PagesBounds ==
    ASSUME NEW size \in Nat, NEW page \in Nat \ {0}
    PROVE  /\ Pages(size, page) \in Nat
           /\ size <= page * Pages(size, page) /\ page * Pages(size, page) <= size + page - 1
           /\ size = 0 <=> Pages(size, page) = 0
<1> DEFINE n == size + page - 1
<1>1. n \in Nat
  OBVIOUS
<1>2. n = page * (n \div page) + (n % page) /\ n \div page \in Nat /\ n % page \in 0 .. page - 1
  BY <1>1, DivMod
<1>3. Pages(size, page) = n \div page /\ page * (n \div page) \in Nat
  BY <1>2 DEF Pages
<1>4. size = 0 => n \div page = 0
  BY <1>1, Unique
<1> HIDE DEF n
<1>5. size <= page * (n \div page) /\ page * (n \div page) <= size + page - 1
  BY <1>2, <1>3 DEF n
<1>6. n \div page = 0 => size = 0
  BY <1>5, <1>2
<1> QED  BY <1>2, <1>3, <1>4, <1>5, <1>6

\* In 32 bits the quotient is the same, as long as no sum has a bit more.
LEMMA WordOf ==
    ASSUME NEW n \in Nat, n < U32, U32 \in Nat
    PROVE  B!Word(n) = n
<1>1. U32 \in Nat \ {0}
  OBVIOUS
<1>2. n % U32 = n
  BY <1>1, Unique
<1> QED  BY <1>2 DEF B!Word

\* The pages a section takes, where the sum does not wrap.  (get_number_of_pages)
LEMMA NumberOfPages ==
    ASSUME NEW size \in Nat, NEW page \in Nat \ {0}, U32 \in Nat, size + page - 1 < U32
    PROVE  B!GetNumberOfPages(size, page) = Pages(size, page)
<1>1. size + page - 1 \in Nat
  OBVIOUS
<1> QED  BY <1>1, WordOf DEF B!GetNumberOfPages, Pages

\* What follows a section that begins on a page begins on a page again.
LEMMA PaddedIs ==
    ASSUME NEW m \in Nat, NEW size \in Nat, NEW page \in Nat \ {0}
    PROVE  B!Padded(page * m + size, page) = page * (m + Pages(size, page))
<1> DEFINE q == size \div page
           r == size % page
           pos == page * m + size
           rest == (page - (pos % page)) % page
<1>1. size = page * q + r /\ q \in Nat /\ r \in 0 .. page - 1
  BY DivMod
<1> HIDE DEF q, r
<1>2. pos \in Nat /\ m + q \in Nat /\ pos = page * (m + q) + r
  BY <1>1
<1>3. pos % page = r
  BY <1>1, <1>2, Unique
<1>4. B!Padded(pos, page) = pos + rest
  BY DEF B!Padded
<1>5. CASE r = 0
  <2>1. rest = 0
    BY <1>3, <1>5
  <2>2. Pages(size, page) = q
    BY <1>1, <1>5, Unique DEF Pages
  <2> QED  BY <2>1, <2>2, <1>2, <1>4, <1>5
<1>6. CASE r # 0
  <2>1. rest = page - r
    BY <1>1, <1>3, <1>6, Unique
  <2>2. Pages(size, page) = q + 1
    <3>1. size + page - 1 = page * (q + 1) + (r - 1) /\ r - 1 \in 0 .. page - 1 /\ q + 1 \in Nat
      BY <1>1, <1>6
    <3> QED  BY <3>1, <1>1, Unique DEF Pages
  <2>3. pos + rest = page * (m + q) + page
    BY <1>1, <1>2, <2>1
  <2>4. page * (m + q) + page = page * (m + (q + 1))
    BY <1>1
  <2> QED  BY <2>2, <2>3, <2>4, <1>4
<1> QED  BY <1>1, <1>5, <1>6

-----------------------------------------------------------------------------
(* The configuration.  (ParserConfig)                                      *)

\* What a file has to begin with for a record to be read from it: the fields in
\* their order, each once, with strings that are written in full.
BeginsWith(items, fields, record, before) ==
    /\ Len(fields) \in Nat /\ DOMAIN fields = 1 .. Len(fields)
    /\ \A j, k \in 1 .. Len(fields) : fields[j][2] = fields[k][2] => j = k
    /\ \A n \in DOMAIN before : \E k \in 1 .. Len(fields) : fields[k][2] = n
    /\ \A k \in 1 .. Len(fields) :
          fields[k][1] = "str" => C!WriteString(record[fields[k][2]]) = record[fields[k][2]]
    /\ record = [n \in DOMAIN before |-> record[n]]
    /\ \A k \in 1 .. Len(fields) : k \in DOMAIN items /\ items[k] = C!Written(fields, record)[k]

\* A record is read back as it was written, whatever follows it in the file.
LEMMA ReadBack ==
    ASSUME NEW items, NEW fields, NEW record, NEW before, BeginsWith(items, fields, record, before)
    PROVE  C!ReadRecord(items, fields, before) = record
<1> USE DEF BeginsWith
<1>1. ASSUME NEW k \in 1 .. Len(fields)
      PROVE  items[k].kind = fields[k][1] /\ items[k].value = record[fields[k][2]]
  <2>1. C!Written(fields, record)[k] =
           [kind |-> fields[k][1],
            value |-> IF fields[k][1] = "str" THEN C!WriteString(record[fields[k][2]])
                                              ELSE record[fields[k][2]]]
    BY DEF C!Written
  <2> QED  BY <2>1
<1>2. \A k \in 1 .. Len(fields) : C!InStep(items, fields, k)
  <2>1. \A k \in 1 .. Len(fields) : \A j \in 1 .. k : j \in 1 .. Len(fields)
    OBVIOUS
  <2> QED  BY <1>1, <2>1 DEF C!InStep
<1> DEFINE Hit(n) == {k \in DOMAIN fields : fields[k][2] = n /\ C!InStep(items, fields, k)}
           Value(n) == IF Hit(n) = {} THEN before[n] ELSE items[CHOOSE k \in Hit(n) : TRUE].value
<1>3. ASSUME NEW n \in DOMAIN before PROVE Value(n) = record[n]
  <2>1. PICK k \in 1 .. Len(fields) : fields[k][2] = n
    OBVIOUS
  <2>2. k \in Hit(n) /\ \A j \in Hit(n) : j = k
    BY <1>2, <2>1
  <2> HIDE DEF Hit
  <2>3. (CHOOSE j \in Hit(n) : TRUE) = k
    BY <2>2
  <2> QED  BY <1>1, <2>1, <2>2, <2>3
<1>4. C!ReadRecord(items, fields, before) = [n \in DOMAIN before |-> Value(n)]
  BY DEF C!ReadRecord
<1> HIDE DEF Value
<1> QED  BY <1>3, <1>4

\* A string that its length describes is written in full.
LEMMA WriteStringIs ==
    ASSUME NEW S, NEW s \in Seq(S), Len(s) < StringSize, StringSize \in Nat
    PROVE  C!WriteString(s) = s
<1>1. Len(s) % StringSize = Len(s)
  OBVIOUS
<1> QED  BY <1>1 DEF C!WriteString

\* The fields the configuration of a boot project may hold.
BootFieldNames ==
    {"boot_magic", "header_version", "kernel_size", "ramdisk_size", "ramdisk_compression", "page_size",
     "os_version", "os_patch_level", "cmdline", "kernel_load_address", "ramdisk_load_address",
     "second_size", "second_load_address", "tags_load_address", "product_name", "extra_cmdline",
     "recovery_dtbo_size", "recovery_dtbo_offset", "boot_header_size", "dtb_size",
     "dtb_load_address", "boot_signature_size"}

\* The record of BootConfig is read in the order in which it is written, each
\* field once.
LEMMA BootFieldsAre ==
    /\ DOMAIN B!NoInfo = BootFieldNames
    /\ C!BootFieldsRead = C!BootFields
    /\ DOMAIN C!BootFields = 1 .. 22
    /\ \A j, k \in 1 .. 22 : C!BootFields[j][2] = C!BootFields[k][2] => j = k
    /\ \A k \in 1 .. 22 : C!BootFields[k][1] = "str" => C!BootFields[k][2] \in
            {"boot_magic", "os_version", "os_patch_level", "cmdline", "product_name", "extra_cmdline"}
    /\ \A n \in BootFieldNames : \E k \in 1 .. 22 : C!BootFields[k][2] = n
<1>1. DOMAIN B!NoInfo = BootFieldNames
  BY DEF B!NoInfo, BootFieldNames
<1>2. C!BootFieldsRead = C!BootFields
  BY DEF C!BootFields, C!BootFieldsRead
<1>3. DOMAIN C!BootFields = 1 .. 22
  BY DEF C!BootFields
<1>4. \A j, k \in 1 .. 22 : C!BootFields[j][2] = C!BootFields[k][2] => j = k
  BY DEF C!BootFields
<1>5. \A k \in 1 .. 22 : C!BootFields[k][1] = "str" => C!BootFields[k][2] \in
            {"boot_magic", "os_version", "os_patch_level", "cmdline", "product_name", "extra_cmdline"}
  BY DEF C!BootFields
<1>6. \A n \in BootFieldNames : \E k \in 1 .. 22 : C!BootFields[k][2] = n
  BY DEF C!BootFields, BootFieldNames
<1> QED  BY <1>1, <1>2, <1>3, <1>4, <1>5, <1>6

-----------------------------------------------------------------------------
(* The sections of a boot image.                                           *)

\* What the content of a file may be called.
Labels == Contents \cup {"nothing"}

\* Its revisions.
Revs == 0 .. 2

\* What lies in an image: nothing of a section that is not there.
HeldFiles == {f \in [size: 0 .. MaxSize, is: [name: Labels, rev: Revs, format: Formats]] :
                 f.size = 0 => f = B!Absent}

\* The sections of a boot image.
BootFiles == [B!Names -> HeldFiles]

\* The pages of a section, and the bytes they have.
LEMMA SectionPages ==
    ASSUME NEW f \in BootFiles, NEW n \in B!Names, NEW p \in 1 .. MaxSize
    PROVE  /\ f[n].size \in 0 .. MaxSize
           /\ Pages(f[n].size, p) \in Nat
           /\ p * Pages(f[n].size, p) \in f[n].size .. 2 * MaxSize - 1
           /\ f[n].size = 0 <=> Pages(f[n].size, p) = 0
           /\ B!GetNumberOfPages(f[n].size, p) = Pages(f[n].size, p)
<1>1. f[n].size \in 0 .. MaxSize /\ f[n].size \in Nat /\ p \in Nat \ {0} /\ MaxSize \in Nat
  BY SizeBounds DEF BootFiles, HeldFiles
<1>2. f[n].size + p - 1 < U32 /\ U32 \in Nat
  BY <1>1, SizeBounds
<1>3. /\ Pages(f[n].size, p) \in Nat
      /\ f[n].size <= p * Pages(f[n].size, p) /\ p * Pages(f[n].size, p) <= f[n].size + p - 1
      /\ f[n].size = 0 <=> Pages(f[n].size, p) = 0
  BY <1>1, PagesBounds
<1>4. p * Pages(f[n].size, p) \in Nat
  BY <1>1, <1>3
<1>5. B!GetNumberOfPages(f[n].size, p) = Pages(f[n].size, p)
  BY <1>1, <1>2, NumberOfPages
<1> QED  BY <1>1, <1>3, <1>4, <1>5

\* Where the sections begin: in a word, each behind those before it.
LEMMA FirstPages ==
    ASSUME NEW f \in BootFiles, NEW p \in 1 .. MaxSize
    PROVE  LET place   == FirstPage(f, p)
               P(n) == Pages(f[n].size, p)
           IN  /\ place["kernel"] = 1
               /\ place["ramdisk"] = 1 + P("kernel")
               /\ place["second"] = 1 + P("kernel") + P("ramdisk")
               /\ place["boot_signature"] = 1 + P("kernel") + P("ramdisk")
               /\ place["recovery_dtbo"] = 1 + P("kernel") + P("ramdisk") + P("second")
               /\ place["dtb"] = 1 + P("kernel") + P("ramdisk") + P("second") + P("recovery_dtbo")
               /\ \A n \in B!Names : place[n] \in Nat \ {0} /\ p * place[n] \in 0 .. U32 - 1
<1> DEFINE place == FirstPage(f, p)
           K == Pages(f["kernel"].size, p)
           R == Pages(f["ramdisk"].size, p)
           S == Pages(f["second"].size, p)
           D == Pages(f["recovery_dtbo"].size, p)
<1>1. {"kernel", "ramdisk", "second", "recovery_dtbo"} \subseteq B!Names
  BY DEF B!Names
<1>2. /\ K \in Nat /\ R \in Nat /\ S \in Nat /\ D \in Nat
      /\ p * K \in 0 .. 2 * MaxSize - 1 /\ p * R \in 0 .. 2 * MaxSize - 1
      /\ p * S \in 0 .. 2 * MaxSize - 1 /\ p * D \in 0 .. 2 * MaxSize - 1
  BY <1>1, SectionPages DEF BootFiles, HeldFiles
<1>3. /\ place["kernel"] = 1 /\ place["ramdisk"] = 1 + K /\ place["second"] = 1 + K + R
      /\ place["boot_signature"] = 1 + K + R /\ place["recovery_dtbo"] = 1 + K + R + S
      /\ place["dtb"] = 1 + K + R + S + D
  BY <1>2 DEF FirstPage
<1> HIDE DEF place, K, R, S, D
<1>4. /\ p * (1 + K) = p + p * K /\ p * (1 + K + R) = p + p * K + p * R
      /\ p * (1 + K + R + S) = p + p * K + p * R + p * S
      /\ p * (1 + K + R + S + D) = p + p * K + p * R + p * S + p * D
  BY <1>2
<1>5. p + p * K + p * R + p * S + p * D < U32 /\ U32 \in Nat /\ p \in Nat
  BY <1>2, SizeBounds
<1>6. ASSUME NEW n \in B!Names PROVE place[n] \in Nat \ {0} /\ p * place[n] \in 0 .. U32 - 1
  BY <1>2, <1>3, <1>4, <1>5 DEF B!Names
<1> QED  BY <1>3, <1>6 DEF place, K, R, S, D

\* Two sections that are there begin at two places.
LEMMA PlacesDiffer ==
    ASSUME NEW f \in BootFiles, NEW p \in 1 .. MaxSize,
           f["boot_signature"].size > 0 =>
               \A n \in {"second", "recovery_dtbo", "dtb"} : f[n].size = 0,
           NEW n \in B!Names, NEW m \in B!Names, f[n].size > 0, f[m].size > 0,
           p * FirstPage(f, p)[n] = p * FirstPage(f, p)[m]
    PROVE  n = m
<1> DEFINE place == FirstPage(f, p)
           P(x) == Pages(f[x].size, p)
<1>1. place[n] \in Nat /\ place[m] \in Nat /\ p \in Nat \ {0}
  BY FirstPages
<1>2. place[n] = place[m]
  <2> HIDE DEF place
  <2> QED  BY <1>1 DEF place
<1>3. \A x \in B!Names : P(x) \in Nat /\ (f[x].size > 0 => P(x) > 0)
  BY SectionPages DEF BootFiles, HeldFiles
<1>4. /\ place["kernel"] = 1
      /\ place["ramdisk"] = 1 + P("kernel")
      /\ place["second"] = 1 + P("kernel") + P("ramdisk")
      /\ place["boot_signature"] = 1 + P("kernel") + P("ramdisk")
      /\ place["recovery_dtbo"] = 1 + P("kernel") + P("ramdisk") + P("second")
      /\ place["dtb"] = 1 + P("kernel") + P("ramdisk") + P("second") + P("recovery_dtbo")
  BY FirstPages
<1>5. B!Names = {"kernel", "ramdisk", "second", "recovery_dtbo", "dtb", "boot_signature"}
  BY DEF B!Names
<1> HIDE DEF place, P
<1>6. /\ f["kernel"].size > 0 => P("kernel") > 0
      /\ f["ramdisk"].size > 0 => P("ramdisk") > 0
      /\ f["second"].size > 0 => P("second") > 0
      /\ f["recovery_dtbo"].size > 0 => P("recovery_dtbo") > 0
      /\ P("kernel") \in Nat /\ P("ramdisk") \in Nat /\ P("second") \in Nat /\ P("recovery_dtbo") \in Nat
  BY <1>3, <1>5
<1> QED  BY <1>2, <1>4, <1>5, <1>6

\* In 32 bits the offset of a page is the product, when it fits.
LEMMA WordAt ==
    ASSUME NEW p \in 1 .. MaxSize, NEW n \in Nat, p * n \in 0 .. U32 - 1
    PROVE  B!Word(p * B!Word(n)) = p * n
<1>1. U32 \in Nat /\ p \in Nat \ {0} /\ p * n \in Nat /\ p * n < U32
  BY SizeBounds
<1>2. n <= p * n
  BY <1>1
<1>3. n < U32
  BY <1>1, <1>2
<1>4. B!Word(n) = n
  BY <1>1, <1>3, WordOf
<1> QED  BY <1>1, <1>4, WordOf
-----------------------------------------------------------------------------
(* What is extracted from a boot image.  (UnpackBootImage)                 *)

\* What ReadHeader finds: the fields that the header version has.
BootReading(h) ==
    LET later == h[9] >= 3
        dtbo  == h[9] \in {1, 2}
        os    == IF later THEN h[3] ELSE h[10]
    IN  [boot_magic           |-> B!BOOT_MAGIC,
         header_version       |-> h[9],
         page_size            |-> IF later THEN BOOT_IMAGE_HEADER_V3_PAGESIZE ELSE h[8],
         kernel_size          |-> h[1],
         ramdisk_size         |-> IF later THEN h[2] ELSE h[3],
         ramdisk_compression  |-> B!FORMAT_OTHER,
         os_version           |-> B!FormatOsVersion(os),
         os_patch_level       |-> B!FormatOsPatchLevel(os),
         cmdline              |-> IF later THEN h[10] ELSE h[12],
         kernel_load_address  |-> IF later THEN 0 ELSE h[2],
         ramdisk_load_address |-> IF later THEN 0 ELSE h[4],
         second_size          |-> IF later THEN 0 ELSE h[5],
         second_load_address  |-> IF later THEN 0 ELSE h[6],
         tags_load_address    |-> IF later THEN 0 ELSE h[7],
         product_name         |-> IF later THEN <<>> ELSE h[11],
         extra_cmdline        |-> IF later THEN <<>> ELSE h[14],
         recovery_dtbo_size   |-> IF dtbo THEN B!ReadU32(h, 15) ELSE 0,
         recovery_dtbo_offset |-> IF dtbo THEN B!ReadU64(h, 16) ELSE 0,
         boot_header_size     |-> IF dtbo THEN B!ReadU32(h, 18) ELSE 0,
         dtb_size             |-> IF h[9] = 2 THEN B!ReadU32(h, 19) ELSE 0,
         dtb_load_address     |-> IF h[9] = 2 THEN B!ReadU64(h, 20) ELSE 0,
         boot_signature_size  |-> IF h[9] >= 4 THEN B!ReadU32(h, 11) ELSE 0]

\* The fields of two records agree, but for the compression of the ramdisk.
SameInfo(i, j) ==
    /\ i.boot_magic = j.boot_magic /\ i.header_version = j.header_version
    /\ i.page_size = j.page_size /\ i.kernel_size = j.kernel_size
    /\ i.ramdisk_size = j.ramdisk_size
    /\ i.os_version = j.os_version /\ i.os_patch_level = j.os_patch_level
    /\ i.cmdline = j.cmdline /\ i.kernel_load_address = j.kernel_load_address
    /\ i.ramdisk_load_address = j.ramdisk_load_address /\ i.second_size = j.second_size
    /\ i.second_load_address = j.second_load_address
    /\ i.tags_load_address = j.tags_load_address /\ i.product_name = j.product_name
    /\ i.extra_cmdline = j.extra_cmdline /\ i.recovery_dtbo_size = j.recovery_dtbo_size
    /\ i.recovery_dtbo_offset = j.recovery_dtbo_offset
    /\ i.boot_header_size = j.boot_header_size /\ i.dtb_size = j.dtb_size
    /\ i.dtb_load_address = j.dtb_load_address
    /\ i.boot_signature_size = j.boot_signature_size

\* A reading with the fields of NoInfo and no other.
IsInfo(i) == i = [n \in DOMAIN B!NoInfo |-> i[n]]

\* Each version of the header is read into the same fields.  (ReadHeader)
LEMMA ReadHeaderReads ==
    ASSUME NEW h, h[9] \in Nat
    PROVE  IsInfo(B!ReadHeader(h)) /\ SameInfo(B!ReadHeader(h), BootReading(h))
<1>1. CASE h[9] >= 3
  <2>1. SameInfo(B!ReadV3Plus(h), BootReading(h))
    BY <1>1 DEF BootReading, B!NoInfo, B!ReadV3Plus, SameInfo
  <2>2. IsInfo(B!ReadV3Plus(h))
    BY DEF B!ReadV3Plus, IsInfo
  <2> QED  BY <1>1, <2>1, <2>2 DEF B!ReadHeader
<1>2. CASE h[9] = 0
  <2>1. SameInfo(B!ReadLegacy(h), BootReading(h))
    BY <1>2 DEF BootReading, B!NoInfo, B!ReadLegacy, SameInfo
  <2>2. IsInfo(B!ReadLegacy(h))
    BY DEF B!ReadLegacy, IsInfo
  <2> QED  BY <1>2, <2>1, <2>2 DEF B!ReadHeader
<1>3. CASE h[9] = 1
  <2>1. SameInfo(B!ReadDtbo(h, B!ReadLegacy(h)), BootReading(h))
    BY <1>3 DEF BootReading, B!NoInfo, B!ReadLegacy, B!ReadDtbo, SameInfo
  <2>2. IsInfo(B!ReadDtbo(h, B!ReadLegacy(h)))
    BY DEF B!ReadLegacy, B!ReadDtbo, IsInfo
  <2> QED  BY <1>3, <2>1, <2>2 DEF B!ReadHeader
<1>4. CASE h[9] = 2
  <2>1. SameInfo(B!ReadDtb(h, B!ReadDtbo(h, B!ReadLegacy(h))), BootReading(h))
    BY <1>4 DEF BootReading, B!NoInfo, B!ReadLegacy, B!ReadDtbo, B!ReadDtb, SameInfo
  <2>2. IsInfo(B!ReadDtb(h, B!ReadDtbo(h, B!ReadLegacy(h))))
    BY DEF B!ReadLegacy, B!ReadDtbo, B!ReadDtb, IsInfo
  <2> QED  BY <1>4, <2>1, <2>2 DEF B!ReadHeader
<1> QED  BY <1>1, <1>2, <1>3, <1>4

\* Short enough for the length before a string.
Storable(s) == s \in Seq(Nat) /\ Len(s) < StringSize

\* The record describes these sections, and can be stored.
Describes(i, f) ==
    /\ i.page_size \in 1 .. MaxSize
    /\ i.kernel_size = f["kernel"].size /\ i.ramdisk_size = f["ramdisk"].size
    /\ i.second_size = f["second"].size /\ i.recovery_dtbo_size = f["recovery_dtbo"].size
    /\ i.dtb_size = f["dtb"].size /\ i.boot_signature_size = f["boot_signature"].size
    /\ f["recovery_dtbo"].size > 0 =>
           i.recovery_dtbo_offset = i.page_size * FirstPage(f, i.page_size)["recovery_dtbo"]
    /\ f["dtb"].size > 0 => i.dtb_load_address \in Nat

\* The texts of a header are sequences that fit into their fields.
Texts(i) == \A s \in {i.os_version, i.os_patch_level, i.cmdline, i.product_name, i.extra_cmdline} :
                Storable(s)

\* The image has these sections in it, each on its page.
Holds(img, page, f) ==
    /\ img.parts = UNION {B!Chunk(page * FirstPage(f, page)[n], f[n]) : n \in B!Names}
    /\ \A n \in B!Names : f[n].size > 0 => page * FirstPage(f, page)[n] + f[n].size <= img.end
    /\ f["boot_signature"].size > 0 => \A n \in {"second", "recovery_dtbo", "dtb"} : f[n].size = 0

\* A boot image whose header describes the sections f that lie in it.
BootSound(img, f) ==
    LET i == BootReading(img.header)
    IN  /\ f \in BootFiles
        /\ img.header[9] \in 0 .. MaxVersion
        /\ Describes(i, f) /\ Texts(i)
        /\ Holds(img, i.page_size, f)

\* The offset and the size of each section that is there are those of its chunk.
LEMMA EntriesAre ==
    ASSUME NEW f \in BootFiles, NEW i, Describes(i, f)
    PROVE  \A n \in B!Names :
               /\ B!ImageEntries(i)[n].size = f[n].size
               /\ f[n].size > 0 =>
                    B!ImageEntries(i)[n].offset = i.page_size * FirstPage(f, i.page_size)[n]
<1> DEFINE p == i.page_size
           place == FirstPage(f, p)
           P(n) == Pages(f[n].size, p)
<1>1. p \in 1 .. MaxSize
  BY DEF Describes
<1>2. B!Names = {"kernel", "ramdisk", "second", "recovery_dtbo", "dtb", "boot_signature"}
  BY DEF B!Names
<1>3. \A n \in B!Names : P(n) \in Nat /\ B!GetNumberOfPages(f[n].size, p) = P(n)
  BY <1>1, SectionPages
<1>4. /\ B!GetNumberOfPages(i.kernel_size, p) = P("kernel")
      /\ B!GetNumberOfPages(i.ramdisk_size, p) = P("ramdisk")
      /\ B!GetNumberOfPages(i.second_size, p) = P("second")
      /\ B!GetNumberOfPages(i.recovery_dtbo_size, p) = P("recovery_dtbo")
  BY <1>2, <1>3 DEF Describes
<1>5. /\ place["kernel"] = 1
      /\ place["ramdisk"] = 1 + P("kernel")
      /\ place["second"] = 1 + P("kernel") + P("ramdisk")
      /\ place["boot_signature"] = 1 + P("kernel") + P("ramdisk")
      /\ place["recovery_dtbo"] = 1 + P("kernel") + P("ramdisk") + P("second")
      /\ place["dtb"] = 1 + P("kernel") + P("ramdisk") + P("second") + P("recovery_dtbo")
      /\ \A n \in B!Names : place[n] \in Nat \ {0} /\ p * place[n] \in 0 .. U32 - 1
  BY <1>1, FirstPages
<1>6. \A n \in B!Names : B!Word(p * B!Word(place[n])) = p * place[n]
  BY <1>1, <1>5, WordAt
<1>7. B!RamdiskOffset(i) = p * place["ramdisk"]
  <2>1. B!RamdiskOffset(i) = B!Word(p * B!Word(1 + P("kernel")))
    BY <1>4 DEF B!RamdiskOffset
  <2> QED  BY <1>2, <1>5, <1>6, <2>1
<1>8. B!PagesBeforeDtb(i) = P("second") + P("recovery_dtbo")
  BY <1>4 DEF B!PagesBeforeDtb
<1> DEFINE K == P("kernel")
           R == P("ramdisk")
           entry(offset, size) == [offset |-> offset, size |-> size]
<1>9. B!ImageEntries(i) =
          [kernel         |-> entry(B!Word(p * B!Word(1)), i.kernel_size),
           ramdisk        |-> entry(B!RamdiskOffset(i), i.ramdisk_size),
           second         |-> entry(B!Word(p * B!Word(1 + K + R)), i.second_size),
           recovery_dtbo  |-> entry(i.recovery_dtbo_offset, i.recovery_dtbo_size),
           dtb            |-> entry(B!Word(p * B!Word(1 + K + R + B!PagesBeforeDtb(i))), i.dtb_size),
           boot_signature |-> entry(B!Word(p * B!Word(1 + K + R)), i.boot_signature_size)]
  BY <1>4 DEF B!ImageEntries
<1>10. 1 + K + R + B!PagesBeforeDtb(i) = place["dtb"] /\ 1 = place["kernel"] /\ 1 + K + R = place["second"]
       /\ 1 + K + R = place["boot_signature"]
  BY <1>2, <1>3, <1>5, <1>8
<1> DEFINE e == B!ImageEntries(i)
<1>11. /\ e["kernel"] = entry(p * place["kernel"], i.kernel_size)
       /\ e["ramdisk"] = entry(p * place["ramdisk"], i.ramdisk_size)
       /\ e["second"] = entry(p * place["second"], i.second_size)
       /\ e["recovery_dtbo"] = entry(i.recovery_dtbo_offset, i.recovery_dtbo_size)
       /\ e["dtb"] = entry(p * place["dtb"], i.dtb_size)
       /\ e["boot_signature"] = entry(p * place["boot_signature"], i.boot_signature_size)
  <2> HIDE DEF place, p, P
  <2> QED  BY <1>2, <1>6, <1>7, <1>9, <1>10
<1> HIDE DEF place, e
<1> QED  BY <1>2, <1>11 DEF Describes, place, e
\* Of the chunks of an image, the one that begins where a section does is that
\* of the section.
LEMMA ChunkFound ==
    ASSUME NEW f \in BootFiles, NEW p \in 1 .. MaxSize, NEW img, Holds(img, p, f),
           NEW n \in B!Names, f[n].size > 0
    PROVE  /\ {part \in img.parts : part.at = p * FirstPage(f, p)[n]}
                  = {[at |-> p * FirstPage(f, p)[n], size |-> f[n].size, is |-> f[n].is]}
           /\ B!FormatAt(img, p * FirstPage(f, p)[n]) = f[n].is.format
           /\ B!ExtractImage(img, p * FirstPage(f, p)[n], f[n].size) = f[n]
<1> DEFINE Place(m) == p * FirstPage(f, p)[m]
           own == [at |-> Place(n), size |-> f[n].size, is |-> f[n].is]
           hit == {part \in img.parts : part.at = Place(n)}
           both == {part \in img.parts : part.at = Place(n) /\ part.size = f[n].size}
<1>1. \A m \in B!Names : f[m].size \in Nat /\ f[m] = [size |-> f[m].size, is |-> f[m].is]
  BY SizeBounds DEF BootFiles, HeldFiles
<1>2. own \in img.parts
  <2>1. B!Chunk(Place(n), f[n]) = {own}
    BY <1>1 DEF B!Chunk
  <2> HIDE DEF own
  <2> QED  BY <2>1 DEF Holds
<1>3. ASSUME NEW part \in img.parts, part.at = Place(n) PROVE part = own
  <2>1. PICK m \in B!Names : part \in B!Chunk(Place(m), f[m])
    BY DEF Holds
  <2>2. f[m].size > 0 /\ part = [at |-> Place(m), size |-> f[m].size, is |-> f[m].is]
    <3>1. f[m].size # 0
      BY <2>1 DEF B!Chunk
    <3>2. B!Chunk(Place(m), f[m]) = {[at |-> Place(m), size |-> f[m].size, is |-> f[m].is]}
      BY <3>1 DEF B!Chunk
    <3>3. f[m].size \in Nat
      BY <1>1
    <3>4. f[m].size > 0
      BY <3>1, <3>3
    <3> QED  BY <2>1, <3>2, <3>4
  <2>3. Place(m) = Place(n)
    BY <1>3, <2>2
  <2>4. m = n
    BY <2>2, <2>3, PlacesDiffer DEF Holds
  <2> QED  BY <2>2, <2>4
<1>4. own.at = Place(n) /\ own.size = f[n].size /\ own.is = f[n].is
  OBVIOUS
<1> HIDE DEF own
<1>5. hit = {own} /\ both = {own}
  BY <1>2, <1>3, <1>4
<1>6. (CHOOSE part \in hit : TRUE) = own /\ (CHOOSE part \in both : TRUE) = own
  BY <1>5
<1> HIDE DEF hit, both
<1>7. B!FormatAt(img, Place(n)) = f[n].is.format
  BY <1>4, <1>5, <1>6 DEF B!FormatAt, hit
<1>8. B!ExtractImage(img, Place(n), f[n].size) = [size |-> f[n].size, is |-> own.is]
  <2>1. f[n].size # 0
    BY <1>1
  <2>2. both # {}
    BY <1>5
  <2> QED  BY <1>6, <2>1, <2>2 DEF B!ExtractImage, both
<1> QED  BY <1>1, <1>4, <1>5, <1>7, <1>8 DEF hit, own

\* The files of the project: a ramdisk of a known format is a directory.
FilesOf(f) == [f EXCEPT !["ramdisk"] = B!UnpackRamdisk(@, f["ramdisk"].is.format)]

\* A sound image can be extracted, and its sections come out of it.
LEMMA BootExtracts ==
    ASSUME NEW img, NEW f, BootSound(img, f)
    PROVE  /\ B!Unpackable(img)
           /\ SameInfo(B!Unpacked(img).info, BootReading(img.header))
           /\ IsInfo(B!Unpacked(img).info)
           /\ B!Unpacked(img).info.ramdisk_compression = f["ramdisk"].is.format
           /\ B!Unpacked(img).files = FilesOf(f)
<1> DEFINE head == B!ReadHeader(img.header)
           read == BootReading(img.header)
           p == read.page_size
           format == f["ramdisk"].is.format
           info == [head EXCEPT !.ramdisk_compression =
                       IF head.ramdisk_size > 0 THEN B!FormatAt(img, B!RamdiskOffset(head))
                                                ELSE B!FORMAT_OTHER]
<1>1. /\ f \in BootFiles /\ img.header[9] \in 0 .. MaxVersion
      /\ Describes(read, f) /\ Holds(img, p, f)
  BY DEF BootSound
<1>2. p \in 1 .. MaxSize /\ img.header[9] \in Nat
  BY <1>1, SizeBounds DEF Describes
<1>3. IsInfo(head) /\ SameInfo(head, read)
  BY <1>2, ReadHeaderReads
<1> HIDE DEF head, read
<1>4. Describes(head, f) /\ head.page_size = p
  BY <1>1, <1>3 DEF Describes, SameInfo
<1> DEFINE e == B!ImageEntries(head)
<1>5. \A n \in B!Names : e[n].size = f[n].size
                         /\ (f[n].size > 0 => e[n].offset = p * FirstPage(f, p)[n])
  BY <1>1, <1>4, EntriesAre
<1>6. "ramdisk" \in B!Names /\ \A n \in B!Names : f[n].size \in Nat /\ (f[n].size = 0 => f[n] = B!Absent)
  BY SizeBounds, <1>1 DEF B!Names, BootFiles, HeldFiles
<1>7. B!Unpackable(img)
  <2>1. B!Supported(img.header)
    BY <1>1, SizeBounds DEF B!Supported
  <2>2. \A n \in B!Names : B!Readable(img, e[n].offset, e[n].size)
    <3> HIDE DEF e
    <3> QED  BY <1>1, <1>5 DEF B!Readable, Holds
  <2> QED  BY <2>1, <2>2 DEF B!Unpackable, head
<1>8. IF head.ramdisk_size > 0 THEN B!FormatAt(img, B!RamdiskOffset(head)) = format
                               ELSE B!FORMAT_OTHER = format
  <2>1. head.ramdisk_size = f["ramdisk"].size
    BY <1>4 DEF Describes
  <2>2. CASE f["ramdisk"].size > 0
    <3>1. B!RamdiskOffset(head) = p * FirstPage(f, p)["ramdisk"]
      <4>1. B!RamdiskOffset(head) = e["ramdisk"].offset
        BY DEF B!ImageEntries
      <4> HIDE DEF e
      <4> QED  BY <1>5, <1>6, <2>2, <4>1
    <3>2. B!FormatAt(img, p * FirstPage(f, p)["ramdisk"]) = format
      BY <1>1, <1>2, <1>6, <2>2, ChunkFound
    <3> QED  BY <2>1, <2>2, <3>1, <3>2
  <2>3. CASE ~ (f["ramdisk"].size > 0)
    <3>1. f["ramdisk"] = B!Absent
      BY <1>6, <2>3
    <3>2. format = B!FORMAT_OTHER
      BY <3>1 DEF B!Absent, B!Content
    <3> QED  BY <2>1, <2>3, <3>2
  <2> QED  BY <2>2, <2>3
<1>9. IsInfo(info) /\ SameInfo(info, head) /\ info.ramdisk_compression = format
  <2> DEFINE c == IF head.ramdisk_size > 0 THEN B!FormatAt(img, B!RamdiskOffset(head))
                                           ELSE B!FORMAT_OTHER
  <2>1. c = format
    BY <1>8
  <2> HIDE DEF c
  <2>2. head = [n \in BootFieldNames |-> head[n]]
    BY <1>3, BootFieldsAre DEF IsInfo
  <2>3. SameInfo([head EXCEPT !.ramdisk_compression = c], head)
    BY <2>2 DEF SameInfo, BootFieldNames
  <2>4. IsInfo([head EXCEPT !.ramdisk_compression = c])
    BY <1>3 DEF IsInfo
  <2>5. [head EXCEPT !.ramdisk_compression = c].ramdisk_compression = c
    BY <2>2 DEF BootFieldNames
  <2> QED  BY <2>1, <2>3, <2>4, <2>5 DEF c
<1>10. SameInfo(info, read)
  <2> HIDE DEF info
  <2> QED  BY <1>3, <1>9 DEF SameInfo
<1>11. Describes(info, f) /\ info.page_size = p
  <2> HIDE DEF info
  <2> QED  BY <1>4, <1>9 DEF Describes, SameInfo
<1> DEFINE files == B!Extracted(img, B!ImageEntries(info))
<1>12. files = f
  <2> DEFINE g == B!ImageEntries(info)
  <2>1. \A n \in B!Names : g[n].size = f[n].size
                           /\ (f[n].size > 0 => g[n].offset = p * FirstPage(f, p)[n])
    <3> HIDE DEF info
    <3> QED  BY <1>1, <1>11, EntriesAre
  <2> HIDE DEF g
  <2>2. ASSUME NEW n \in B!Names PROVE B!ExtractImage(img, g[n].offset, g[n].size) = f[n]
    <3>1. CASE f[n].size > 0
      BY <1>1, <1>2, <2>1, <3>1, ChunkFound
    <3>2. CASE ~ (f[n].size > 0)
      <4>1. g[n].size = 0 /\ f[n] = B!Absent
        BY <1>6, <2>1, <3>2
      <4> QED  BY <4>1 DEF B!ExtractImage
    <3> QED  BY <3>1, <3>2
  <2>3. f = [n \in B!Names |-> f[n]]
    BY <1>1 DEF BootFiles
  <2> QED  BY <2>2, <2>3 DEF B!Extracted, g
<1>13. B!Unpacked(img) =
          [info |-> info,
           files |-> [files EXCEPT !["ramdisk"] = B!UnpackRamdisk(@, info.ramdisk_compression)]]
  BY DEF B!Unpacked, head
<1> HIDE DEF info, files
<1> QED  BY <1>7, <1>9, <1>10, <1>12, <1>13 DEF FilesOf, read
-----------------------------------------------------------------------------
(* What is written into a boot image.  (WriteBootImage)                    *)

\* Arguments that mkbootimg_wrapper can make, when it succeeds.
GoodArgs(a) ==
    /\ a.header_version \in 0 .. MaxVersion
    /\ a.page_size \in 1 .. MaxSize
    /\ a.header_version >= 3 => a.page_size = BOOT_IMAGE_HEADER_V3_PAGESIZE
    /\ \A x \in {a.kernel, a.ramdisk, a.second, a.recovery_dtbo, a.dtb} : x \in HeldFiles
    /\ a.header_version >= 3 => a.second = B!Absent
    /\ a.header_version \notin {1, 2} => a.recovery_dtbo = B!Absent
    /\ a.header_version # 2 => a.dtb = B!Absent
    /\ Storable(a.board) /\ a.cmdline \in Seq(Nat)
    /\ Storable(B!FormatOsVersion(a.os)) /\ Storable(B!FormatOsPatchLevel(a.os))
    /\ a.dtb_offset \in 0 .. U32 - 1
    /\ B!Defined(a)

\* What was packed here: it has the size that its content is packed to.
PackedHere(r) == r.is.format # B!FORMAT_OTHER => r.is.rev \in 1 .. 2 /\ r.size = PackedSize[r.is]

\* What a build writes for a section that is not there, an operating system that is
\* read as it was written, and a ramdisk that was packed here.
Canonical(a) ==
    /\ a.kernel.size = 0 => a.kernel_offset = B!KERNEL_OFFSET
    /\ a.ramdisk.size = 0 => a.ramdisk_offset = 0
    /\ a.second.size = 0 => a.second_offset = 0
    /\ a.os = [version |-> B!ParseOSVersion(B!FormatOsVersion(a.os)),
               patch   |-> B!ParseOSPatchLevel(B!FormatOsPatchLevel(a.os))]
    /\ PackedHere(a.ramdisk)

\* A missing section is one of the files an image may hold.
LEMMA AbsentHeld == B!Absent \in HeldFiles
<1>1. B!Absent = [size |-> 0, is |-> [name |-> "nothing", rev |-> 0, format |-> B!FORMAT_OTHER]]
  BY DEF B!Absent, B!Content
<1>2. B!FORMAT_OTHER \in Formats /\ 0 \in 0 .. MaxSize
  BY SizeBounds DEF Formats
<1>3. [name |-> "nothing", rev |-> 0, format |-> B!FORMAT_OTHER] \in [name: Labels, rev: Revs, format: Formats]
  BY <1>2 DEF Labels, Revs
<1>4. B!Absent \in [size: 0 .. MaxSize, is: [name: Labels, rev: Revs, format: Formats]]
  BY <1>1, <1>2, <1>3
<1> QED  BY <1>4 DEF HeldFiles

\* The sections of the image that is written.
FilesIn(a) ==
    [kernel |-> a.kernel, ramdisk |-> a.ramdisk, second |-> a.second,
     recovery_dtbo |-> a.recovery_dtbo, dtb |-> a.dtb, boot_signature |-> B!Absent]

\* Which section each argument of the writer becomes.
LEMMA FilesInAre ==
    ASSUME NEW a, GoodArgs(a)
    PROVE  /\ FilesIn(a) \in BootFiles
           /\ FilesIn(a)["kernel"] = a.kernel /\ FilesIn(a)["ramdisk"] = a.ramdisk
           /\ FilesIn(a)["second"] = a.second /\ FilesIn(a)["recovery_dtbo"] = a.recovery_dtbo
           /\ FilesIn(a)["dtb"] = a.dtb /\ FilesIn(a)["boot_signature"] = B!Absent
<1>1. B!Absent \in HeldFiles
  BY AbsentHeld
<1>2. B!Names = {"kernel", "ramdisk", "second", "recovery_dtbo", "dtb", "boot_signature"}
  BY DEF B!Names
<1> DEFINE g == FilesIn(a)
<1>3. /\ g["kernel"] = a.kernel /\ g["ramdisk"] = a.ramdisk
      /\ g["second"] = a.second /\ g["recovery_dtbo"] = a.recovery_dtbo
      /\ g["dtb"] = a.dtb /\ g["boot_signature"] = B!Absent
  BY <1>2 DEF FilesIn
<1>4. g = [n \in B!Names |-> g[n]]
  BY <1>2 DEF FilesIn
<1>5. \A n \in B!Names : g[n] \in HeldFiles
  <2> HIDE DEF g
  <2> QED  BY <1>1, <1>2, <1>3 DEF GoodArgs
<1> HIDE DEF g
<1>6. g \in BootFiles
  BY <1>4, <1>5 DEF BootFiles
<1> QED  BY <1>3, <1>6 DEF g

\* A section that is written on a page, and where the next one begins.
LEMMA SectionWritten ==
    ASSUME NEW p \in 1 .. MaxSize, NEW m \in Nat, NEW file \in HeldFiles, NEW out, out.end = p * m
    PROVE  /\ B!WriteSection(out, file, p).parts = out.parts \cup B!Chunk(p * m, file)
           /\ B!WriteSection(out, file, p).end = p * (m + Pages(file.size, p))
<1>1. file.size \in Nat /\ p \in Nat \ {0}
  BY SizeBounds DEF HeldFiles
<1>2. B!Write(out, file) = [parts |-> out.parts \cup B!Chunk(p * m, file), end |-> p * m + file.size]
  BY DEF B!Write
<1>3. B!Padded(p * m + file.size, p) = p * (m + Pages(file.size, p))
  BY <1>1, PaddedIs
<1> DEFINE w == B!Write(out, file)
<1>4. w.parts = out.parts \cup B!Chunk(p * m, file) /\ w.end = p * m + file.size
      /\ w = [parts |-> w.parts, end |-> w.end]
  BY <1>2
<1> HIDE DEF w
<1>5. B!PadFile(w, p).parts = w.parts /\ B!PadFile(w, p).end = B!Padded(w.end, p)
  BY <1>4 DEF B!PadFile
<1> QED  BY <1>3, <1>4, <1>5 DEF B!WriteSection, w

\* The body of what is written holds the sections, as they are looked for.
LEMMA BodyHolds ==
    ASSUME NEW a, GoodArgs(a)
    PROVE  Holds(B!WriteBootImage(a), a.page_size, FilesIn(a))
<1> DEFINE p == a.page_size
           f == FilesIn(a)
           place == FirstPage(f, p)
           P(n) == Pages(f[n].size, p)
           v == a.header_version
           header == [parts |-> {}, end |-> IF v >= 3 THEN BOOT_IMAGE_HEADER_V3_PAGESIZE ELSE p]
           kernel == B!WriteSection(header, a.kernel, p)
           ramdisk == B!WriteSection(kernel, a.ramdisk, p)
           second == B!WriteSection(ramdisk, a.second, p)
           dtbo == IF v \in 1 .. 2 THEN B!WriteSection(second, a.recovery_dtbo, p) ELSE second
           dtb == IF v = 2 THEN B!WriteSection(dtbo, a.dtb, p) ELSE dtbo
<1>1. p \in 1 .. MaxSize /\ v \in Nat /\ p \in Nat \ {0}
  BY SizeBounds DEF GoodArgs
<1>2. /\ f \in BootFiles /\ f["kernel"] = a.kernel /\ f["ramdisk"] = a.ramdisk
      /\ f["second"] = a.second /\ f["recovery_dtbo"] = a.recovery_dtbo /\ f["dtb"] = a.dtb
      /\ f["boot_signature"] = B!Absent
  BY FilesInAre
<1>3. B!Names = {"kernel", "ramdisk", "second", "recovery_dtbo", "dtb", "boot_signature"}
  BY DEF B!Names
<1>4. /\ a.kernel \in HeldFiles /\ a.ramdisk \in HeldFiles /\ a.second \in HeldFiles
      /\ a.recovery_dtbo \in HeldFiles /\ a.dtb \in HeldFiles
  BY DEF GoodArgs
<1>5. B!Body(a) = dtb
  BY DEF B!Body
<1> HIDE DEF f
<1>6. \A n \in B!Names : P(n) \in Nat /\ f[n].size \in Nat /\ f[n].size <= p * P(n)
  BY <1>1, <1>2, SectionPages, SizeBounds
<1>7. B!Absent.size = 0 /\ Pages(0, p) = 0 /\ \A x : B!Chunk(x, B!Absent) = {}
  BY <1>1, PagesBounds DEF B!Absent, B!Chunk
<1>8. header.parts = {} /\ header.end = p * 1
  BY <1>1 DEF GoodArgs
<1> HIDE DEF header, P
<1>9. kernel.parts = B!Chunk(p * 1, a.kernel) /\ kernel.end = p * (1 + P("kernel"))
  <2>1. /\ kernel.parts = header.parts \cup B!Chunk(p * 1, a.kernel)
        /\ kernel.end = p * (1 + Pages(a.kernel.size, p))
    <3>1. PICK one \in Nat : one = 1
      OBVIOUS
    <3>2. header.end = p * one
      BY <1>8, <3>1
    <3>3. /\ kernel.parts = header.parts \cup B!Chunk(p * one, a.kernel)
          /\ kernel.end = p * (one + Pages(a.kernel.size, p))
      BY <1>1, <1>4, <3>2, SectionWritten
    <3> QED  BY <3>1, <3>3
  <2> QED  BY <1>2, <1>8, <2>1 DEF P
<1> HIDE DEF kernel
<1>10. /\ ramdisk.parts = kernel.parts \cup B!Chunk(p * (1 + P("kernel")), a.ramdisk)
       /\ ramdisk.end = p * (1 + P("kernel") + P("ramdisk"))
  <2>1. 1 + P("kernel") \in Nat
    BY <1>3, <1>6
  <2> QED  BY <1>1, <1>2, <1>4, <1>9, <2>1, SectionWritten DEF P
<1> HIDE DEF ramdisk
<1>11. /\ second.parts = ramdisk.parts \cup B!Chunk(p * (1 + P("kernel") + P("ramdisk")), a.second)
       /\ second.end = p * (1 + P("kernel") + P("ramdisk") + P("second"))
  <2>1. 1 + P("kernel") + P("ramdisk") \in Nat
    BY <1>3, <1>6
  <2> QED  BY <1>1, <1>2, <1>4, <1>10, <2>1, SectionWritten DEF P
<1> HIDE DEF second
<1> DEFINE m == 1 + P("kernel") + P("ramdisk") + P("second")
<1>12. m \in Nat /\ P("recovery_dtbo") \in Nat /\ P("dtb") \in Nat
  BY <1>3, <1>6
<1> HIDE DEF m
<1>13. second.end = p * m
  BY <1>11 DEF m
<1>14. /\ dtbo.parts = second.parts \cup B!Chunk(p * m, a.recovery_dtbo)
       /\ dtbo.end = p * (m + P("recovery_dtbo"))
  <2>1. CASE v \in 1 .. 2
    BY <1>1, <1>2, <1>4, <1>12, <1>13, <2>1, SectionWritten DEF P
  <2>2. CASE v \notin 1 .. 2
    <3>1. a.recovery_dtbo = B!Absent /\ dtbo = second
      BY <1>1, <2>2 DEF GoodArgs
    <3>2. P("recovery_dtbo") = 0 /\ B!Chunk(p * m, a.recovery_dtbo) = {}
      BY <1>2, <1>7, <3>1 DEF P
    <3> QED  BY <1>12, <1>13, <3>1, <3>2
  <2> QED  BY <2>1, <2>2
<1> HIDE DEF dtbo
<1>15. /\ dtb.parts = dtbo.parts \cup B!Chunk(p * (m + P("recovery_dtbo")), a.dtb)
       /\ dtb.end = p * (m + P("recovery_dtbo") + P("dtb"))
  <2>1. CASE v = 2
    <3>1. m + P("recovery_dtbo") \in Nat
      BY <1>12
    <3> QED  BY <1>1, <1>2, <1>4, <1>14, <2>1, <3>1, SectionWritten DEF P
  <2>2. CASE v # 2
    <3>1. a.dtb = B!Absent /\ dtb = dtbo
      BY <2>2 DEF GoodArgs
    <3>2. P("dtb") = 0 /\ \A x : B!Chunk(x, a.dtb) = {}
      BY <1>2, <1>7, <3>1 DEF P
    <3> QED  BY <1>12, <1>14, <3>1, <3>2
  <2> QED  BY <2>1, <2>2
<1> HIDE DEF dtb
<1>16. /\ place["kernel"] = 1
       /\ place["ramdisk"] = 1 + P("kernel")
       /\ place["second"] = 1 + P("kernel") + P("ramdisk")
       /\ place["recovery_dtbo"] = m
       /\ place["dtb"] = m + P("recovery_dtbo")
  BY <1>1, <1>2, FirstPages DEF P, m
<1> HIDE DEF place
<1>17. dtb.parts = UNION {B!Chunk(p * place[n], f[n]) : n \in B!Names}
  <2> DEFINE Chunks(n) == B!Chunk(p * place[n], f[n])
  <2>1. dtb.parts = Chunks("kernel") \cup Chunks("ramdisk") \cup Chunks("second")
                    \cup Chunks("recovery_dtbo") \cup Chunks("dtb")
    BY <1>2, <1>9, <1>10, <1>11, <1>14, <1>15, <1>16
  <2>2. Chunks("boot_signature") = {}
    BY <1>2, <1>7
  <2> HIDE DEF Chunks
  <2>3. UNION {Chunks(n) : n \in B!Names} =
           Chunks("kernel") \cup Chunks("ramdisk") \cup Chunks("second")
           \cup Chunks("recovery_dtbo") \cup Chunks("dtb")
             \cup Chunks("boot_signature")
    BY <1>3
  <2>4. dtb.parts = UNION {Chunks(n) : n \in B!Names}
    BY <2>1, <2>2, <2>3
  <2> QED  BY <2>4 DEF Chunks
<1>18. ASSUME NEW n \in B!Names, f[n].size > 0 PROVE p * place[n] + f[n].size <= dtb.end
  <2>1. n # "boot_signature"
    BY <1>2, <1>7, <1>18
  <2>2. place[n] \in Nat /\ place[n] + P(n) <= m + P("recovery_dtbo") + P("dtb")
    <3>1. /\ P("kernel") \in Nat /\ P("ramdisk") \in Nat /\ P("second") \in Nat
          /\ P("recovery_dtbo") \in Nat /\ P("dtb") \in Nat
      BY <1>3, <1>6
    <3> QED  BY <1>3, <1>16, <2>1, <3>1 DEF m
  <2>3. p * (place[n] + P(n)) <= p * (m + P("recovery_dtbo") + P("dtb"))
    BY <1>1, <1>6, <1>12, <2>2
  <2>4. p * (place[n] + P(n)) = p * place[n] + p * P(n)
    BY <1>1, <1>6, <2>2
  <2>5. f[n].size \in Nat /\ f[n].size <= p * P(n) /\ p * P(n) \in Nat /\ p * place[n] \in Nat
    BY <1>1, <1>6, <2>2
  <2>6. dtb.end = p * (m + P("recovery_dtbo") + P("dtb"))
    BY <1>15
  <2>7. p * place[n] + f[n].size <= p * (place[n] + P(n))
    BY <2>4, <2>5
  <2>8. p * (m + P("recovery_dtbo") + P("dtb")) \in Nat /\ p * (place[n] + P(n)) \in Nat
    BY <1>1, <1>6, <1>12, <2>2
  <2> QED  BY <2>3, <2>5, <2>6, <2>7, <2>8
<1>19. B!WriteBootImage(a).parts = dtb.parts /\ B!WriteBootImage(a).end = dtb.end
  BY <1>5 DEF B!WriteBootImage
<1>20. ~ (f["boot_signature"].size > 0)
  BY <1>2, <1>7
<1> QED  BY <1>17, <1>18, <1>19, <1>20 DEF Holds, f, place
\* The cells of two sequences, one behind the other.
LEMMA CellsOfBoth ==
    ASSUME NEW s, NEW t, NEW m \in Nat, NEW n \in Nat, Len(s) = m, Len(t) = n
    PROVE  /\ DOMAIN (s \o t) = 1 .. m + n /\ Len(s \o t) = m + n
           /\ \A k \in 1 .. m : (s \o t)[k] = s[k]
           /\ \A k \in 1 .. n : (s \o t)[m + k] = t[k]
  OBVIOUS

\* The two parts of a header one after the other.
LEMMA ConcatIs ==
    ASSUME NEW s, NEW t, Len(s) \in Nat, Len(t) \in Nat
    PROVE  /\ Len(s \o t) = Len(s) + Len(t)
           /\ \A k \in 1 .. Len(s) : (s \o t)[k] = s[k]
           /\ \A k \in 1 .. Len(t) : (s \o t)[Len(s) + k] = t[k]
  BY CellsOfBoth

\* The fields of a header before version 3, by position.
LEMMA LegacyCells ==
    ASSUME NEW a, a.header_version \in 0 .. 2
    PROVE  LET h == B!LegacyHeader(a)
           IN  /\ h[1] = a.kernel.size /\ h[2] = a.kernel_offset /\ h[3] = a.ramdisk.size
               /\ h[4] = a.ramdisk_offset /\ h[5] = a.second.size /\ h[6] = a.second_offset
               /\ h[7] = a.tags_offset /\ h[8] = a.page_size /\ h[9] = a.header_version
               /\ h[10] = a.os /\ h[11] = B!Field(a.board, BOOT_NAME_SIZE - 1)
               /\ h[12] = B!FirstArgs(a.cmdline) /\ h[13] = B!Digest(a)
               /\ h[14] = B!ExtraArgs(a.cmdline)
               /\ a.header_version = 0 => DOMAIN h = 1 .. 14
               /\ a.header_version = 1 => DOMAIN h = 1 .. 18
               /\ a.header_version = 2 => DOMAIN h = 1 .. 20
               /\ a.header_version > 0 =>
                    /\ h[15] = a.recovery_dtbo.size /\ h[16] = B!Low(B!DtboOffset(a))
                    /\ h[17] = B!High(B!DtboOffset(a))
                    /\ h[18] = B!BOOT_IMAGE_HEADER_SIZE[a.header_version]
               /\ a.header_version = 2 => h[19] = a.dtb.size /\ h[20] = a.dtb_offset
<1> DEFINE first ==
              << a.kernel.size, a.kernel_offset, a.ramdisk.size, a.ramdisk_offset,
                 a.second.size, a.second_offset, a.tags_offset, a.page_size, a.header_version,
                 a.os, B!Field(a.board, BOOT_NAME_SIZE - 1), B!FirstArgs(a.cmdline), B!Digest(a),
                 B!ExtraArgs(a.cmdline) >>
           dtbo == IF a.header_version > 0
                   THEN <<a.recovery_dtbo.size, B!Low(B!DtboOffset(a)), B!High(B!DtboOffset(a)),
                          B!BOOT_IMAGE_HEADER_SIZE[a.header_version]>> ELSE <<>>
           dtb == IF a.header_version > 1 THEN <<a.dtb.size, a.dtb_offset>> ELSE <<>>
           h == B!LegacyHeader(a)
<1>1. h = (first \o dtbo) \o dtb
  BY DEF B!LegacyHeader, B!DtbCells
<1>2. /\ Len(first) = 14
      /\ first[1] = a.kernel.size /\ first[2] = a.kernel_offset /\ first[3] = a.ramdisk.size
      /\ first[4] = a.ramdisk_offset /\ first[5] = a.second.size /\ first[6] = a.second_offset
      /\ first[7] = a.tags_offset /\ first[8] = a.page_size /\ first[9] = a.header_version
      /\ first[10] = a.os /\ first[11] = B!Field(a.board, BOOT_NAME_SIZE - 1)
      /\ first[12] = B!FirstArgs(a.cmdline) /\ first[13] = B!Digest(a)
      /\ first[14] = B!ExtraArgs(a.cmdline)
  OBVIOUS
<1>3. /\ Len(dtbo) = IF a.header_version > 0 THEN 4 ELSE 0
      /\ a.header_version > 0 =>
            /\ dtbo[1] = a.recovery_dtbo.size /\ dtbo[2] = B!Low(B!DtboOffset(a))
            /\ dtbo[3] = B!High(B!DtboOffset(a))
            /\ dtbo[4] = B!BOOT_IMAGE_HEADER_SIZE[a.header_version]
  OBVIOUS
<1>4. /\ Len(dtb) = IF a.header_version > 1 THEN 2 ELSE 0
      /\ a.header_version > 1 => dtb[1] = a.dtb.size /\ dtb[2] = a.dtb_offset
  OBVIOUS
<1> HIDE DEF h, first, dtbo, dtb
<1> DEFINE both == first \o dtbo
<1>5. /\ Len(both) = 14 + Len(dtbo)
      /\ \A k \in 1 .. 14 : both[k] = first[k]
      /\ \A k \in 1 .. Len(dtbo) : both[14 + k] = dtbo[k]
  <2>1. Len(first) \in Nat /\ Len(dtbo) \in Nat
    BY <1>2, <1>3
  <2>2. /\ Len(both) = Len(first) + Len(dtbo)
        /\ \A k \in 1 .. Len(first) : both[k] = first[k]
        /\ \A k \in 1 .. Len(dtbo) : both[Len(first) + k] = dtbo[k]
    BY <2>1, CellsOfBoth
  <2> QED  BY <1>2, <2>2
<1> HIDE DEF both
<1>6. /\ DOMAIN h = 1 .. Len(both) + Len(dtb)
      /\ \A k \in 1 .. Len(both) : h[k] = both[k]
      /\ \A k \in 1 .. Len(dtb) : h[Len(both) + k] = dtb[k]
  <2>1. h = both \o dtb
    BY <1>1 DEF both
  <2>2. Len(both) \in Nat /\ Len(dtb) \in Nat
    BY <1>3, <1>4, <1>5
  <2> QED  BY <2>1, <2>2, CellsOfBoth
<1>7. \A k \in 1 .. 14 : h[k] = first[k]
  BY <1>3, <1>5, <1>6
<1>8. a.header_version > 0 => h[15] = dtbo[1] /\ h[16] = dtbo[2] /\ h[17] = dtbo[3] /\ h[18] = dtbo[4]
  BY <1>3, <1>5, <1>6
<1>9. a.header_version = 2 => h[19] = dtb[1] /\ h[20] = dtb[2]
  <2> SUFFICES ASSUME a.header_version = 2 PROVE h[19] = dtb[1] /\ h[20] = dtb[2]
    OBVIOUS
  <2>1. Len(both) = 18 /\ Len(dtb) = 2
    BY <1>3, <1>4, <1>5
  <2>2. h[Len(both) + 1] = dtb[1] /\ h[Len(both) + 2] = dtb[2]
    BY <1>6, <2>1
  <2>3. Len(both) + 1 = 19 /\ Len(both) + 2 = 20
    BY <2>1
  <2> QED  BY <2>2, <2>3
<1>10. /\ a.header_version = 0 => DOMAIN h = 1 .. 14
       /\ a.header_version = 1 => DOMAIN h = 1 .. 18
       /\ a.header_version = 2 => DOMAIN h = 1 .. 20
  <2>1. DOMAIN h = 1 .. (14 + Len(dtbo)) + Len(dtb)
    BY <1>5, <1>6
  <2>2. CASE a.header_version = 0
    <3>1. (14 + Len(dtbo)) + Len(dtb) = 14
      BY <1>3, <1>4, <2>2
    <3> QED  BY <2>1, <2>2, <3>1
  <2>3. CASE a.header_version = 1
    <3>1. (14 + Len(dtbo)) + Len(dtb) = 18
      BY <1>3, <1>4, <2>3
    <3> QED  BY <2>1, <2>3, <3>1
  <2>4. CASE a.header_version = 2
    <3>1. (14 + Len(dtbo)) + Len(dtb) = 20
      BY <1>3, <1>4, <2>4
    <3> QED  BY <2>1, <2>4, <3>1
  <2> QED  BY <2>2, <2>3, <2>4
<1>11. \A k \in {1, 2, 3, 4, 5, 6, 7, 8, 9, 10, 11, 12, 13, 14} : h[k] = first[k]
  BY <1>7
<1>12. /\ h[1] = a.kernel.size /\ h[2] = a.kernel_offset /\ h[3] = a.ramdisk.size
       /\ h[4] = a.ramdisk_offset /\ h[5] = a.second.size /\ h[6] = a.second_offset
       /\ h[7] = a.tags_offset /\ h[8] = a.page_size /\ h[9] = a.header_version
       /\ h[10] = a.os /\ h[11] = B!Field(a.board, BOOT_NAME_SIZE - 1)
       /\ h[12] = B!FirstArgs(a.cmdline) /\ h[13] = B!Digest(a)
       /\ h[14] = B!ExtraArgs(a.cmdline)
  BY <1>2, <1>11
<1>13. a.header_version > 0 =>
            /\ h[15] = a.recovery_dtbo.size /\ h[16] = B!Low(B!DtboOffset(a))
            /\ h[17] = B!High(B!DtboOffset(a))
            /\ h[18] = B!BOOT_IMAGE_HEADER_SIZE[a.header_version]
  BY <1>3, <1>8
<1>14. a.header_version = 2 => h[19] = a.dtb.size /\ h[20] = a.dtb_offset
  BY <1>4, <1>9
<1> QED  BY <1>10, <1>12, <1>13, <1>14 DEF h

\* The fields of a header from version 3 on, by position.
LEMMA LaterCells ==
    ASSUME NEW a, a.header_version \in Nat, a.header_version >= 3
    PROVE  LET h == B!HeaderV3Plus(a)
           IN  /\ h[1] = a.kernel.size /\ h[2] = a.ramdisk.size /\ h[3] = a.os
               /\ h[4] = IF a.header_version > 3 THEN B!BOOT_IMAGE_HEADER_V4_SIZE
                                                 ELSE B!BOOT_IMAGE_HEADER_V3_SIZE
               /\ h[5] = 0 /\ h[6] = 0 /\ h[7] = 0 /\ h[8] = 0 /\ h[9] = a.header_version
               /\ h[10] = B!Field(a.cmdline, BOOT_ARGS_SIZE + BOOT_EXTRA_ARGS_SIZE)
               /\ a.header_version = 3 => DOMAIN h = 1 .. 10
               /\ a.header_version >= 4 => DOMAIN h = 1 .. 11 /\ h[11] = 0
<1> DEFINE first ==
              << a.kernel.size, a.ramdisk.size, a.os,
                 IF a.header_version > 3 THEN B!BOOT_IMAGE_HEADER_V4_SIZE
                                         ELSE B!BOOT_IMAGE_HEADER_V3_SIZE,
                 0, 0, 0, 0, a.header_version,
                 B!Field(a.cmdline, BOOT_ARGS_SIZE + BOOT_EXTRA_ARGS_SIZE) >>
           signature == IF a.header_version >= 4 THEN <<0>> ELSE <<>>
           h == B!HeaderV3Plus(a)
<1>1. h = first \o signature
  BY DEF B!HeaderV3Plus
<1>2. /\ Len(first) = 10
      /\ first[1] = a.kernel.size /\ first[2] = a.ramdisk.size /\ first[3] = a.os
      /\ first[4] = IF a.header_version > 3 THEN B!BOOT_IMAGE_HEADER_V4_SIZE
                                            ELSE B!BOOT_IMAGE_HEADER_V3_SIZE
      /\ first[5] = 0 /\ first[6] = 0 /\ first[7] = 0 /\ first[8] = 0
      /\ first[9] = a.header_version
      /\ first[10] = B!Field(a.cmdline, BOOT_ARGS_SIZE + BOOT_EXTRA_ARGS_SIZE)
  OBVIOUS
<1>3. /\ Len(signature) = IF a.header_version >= 4 THEN 1 ELSE 0
      /\ a.header_version >= 4 => signature[1] = 0
  OBVIOUS
<1> HIDE DEF h, first, signature
<1>4. /\ DOMAIN h = 1 .. 10 + Len(signature)
      /\ \A k \in 1 .. 10 : h[k] = first[k]
      /\ \A k \in 1 .. Len(signature) : h[10 + k] = signature[k]
  <2>1. Len(first) \in Nat /\ Len(signature) \in Nat
    BY <1>2, <1>3
  <2>2. /\ DOMAIN h = 1 .. Len(first) + Len(signature)
        /\ \A k \in 1 .. Len(first) : h[k] = first[k]
        /\ \A k \in 1 .. Len(signature) : h[Len(first) + k] = signature[k]
    BY <1>1, <2>1, CellsOfBoth
  <2> QED  BY <1>2, <2>2
<1>5. \A k \in {1, 2, 3, 4, 5, 6, 7, 8, 9, 10} : h[k] = first[k]
  BY <1>4
<1>6. a.header_version >= 4 => h[11] = 0
  BY <1>3, <1>4
<1>7. /\ a.header_version = 3 => DOMAIN h = 1 .. 10
      /\ a.header_version >= 4 => DOMAIN h = 1 .. 11
  BY <1>3, <1>4
<1>8. /\ h[1] = a.kernel.size /\ h[2] = a.ramdisk.size /\ h[3] = a.os
      /\ h[4] = IF a.header_version > 3 THEN B!BOOT_IMAGE_HEADER_V4_SIZE
                                        ELSE B!BOOT_IMAGE_HEADER_V3_SIZE
      /\ h[5] = 0 /\ h[6] = 0 /\ h[7] = 0 /\ h[8] = 0 /\ h[9] = a.header_version
      /\ h[10] = B!Field(a.cmdline, BOOT_ARGS_SIZE + BOOT_EXTRA_ARGS_SIZE)
  BY <1>2, <1>5
<1> QED  BY <1>6, <1>7, <1>8 DEF h
\* The limits of the strings: what fits into a field can be stored.
LEMMA TextBounds ==
    /\ BOOT_ARGS_SIZE \in Nat \ {0} /\ BOOT_EXTRA_ARGS_SIZE \in Nat \ {0}
    /\ BOOT_NAME_SIZE \in Nat \ {0}
    /\ 3 < StringSize /\ BOOT_NAME_SIZE < StringSize
    /\ BOOT_ARGS_SIZE + BOOT_EXTRA_ARGS_SIZE < StringSize
  BY KitchenAssumption

\* What a field of a fixed width keeps of a text.
LEMMA FieldIs ==
    ASSUME NEW s \in Seq(Nat), NEW limit \in Nat
    PROVE  /\ B!Field(s, limit) \in Seq(Nat)
           /\ Len(B!Field(s, limit)) <= limit /\ Len(B!Field(s, limit)) <= Len(s)
           /\ Len(s) <= limit => B!Field(s, limit) = s
           /\ Len(s) > limit => Len(B!Field(s, limit)) = limit
  BY DEF B!Field

\* What is left of a command line for the second field.
LEMMA ExtraArgsAre ==
    ASSUME NEW s \in Seq(Nat)
    PROVE  /\ B!ExtraArgs(s) \in Seq(Nat)
           /\ Len(B!ExtraArgs(s)) = IF Len(s) > BOOT_ARGS_SIZE THEN Len(s) - BOOT_ARGS_SIZE ELSE 0
  BY TextBounds DEF B!ExtraArgs

\* The offset of recovery_dtbo in the header is where the writer puts it.
LEMMA DtboOffsetIs ==
    ASSUME NEW a, GoodArgs(a), a.recovery_dtbo.size > 0
    PROVE  LET offset == a.page_size * FirstPage(FilesIn(a), a.page_size)["recovery_dtbo"]
           IN  B!DtboOffset(a) = offset /\ offset \in 0 .. U32 - 1
<1> DEFINE p == a.page_size
           f == FilesIn(a)
           place == FirstPage(f, p)
           P(n) == Pages(f[n].size, p)
<1>1. /\ f \in BootFiles /\ f["kernel"] = a.kernel /\ f["ramdisk"] = a.ramdisk
      /\ f["second"] = a.second
  BY FilesInAre
<1> HIDE DEF f
<1>2. p \in 1 .. MaxSize
  BY DEF GoodArgs
<1>3. {"kernel", "ramdisk", "second", "recovery_dtbo"} \subseteq B!Names
  BY DEF B!Names
<1>4. /\ B!GetNumberOfPages(a.kernel.size, p) = P("kernel")
      /\ B!GetNumberOfPages(a.ramdisk.size, p) = P("ramdisk")
      /\ B!GetNumberOfPages(a.second.size, p) = P("second")
  BY <1>1, <1>2, <1>3, SectionPages
<1>5. /\ place["recovery_dtbo"] = 1 + P("kernel") + P("ramdisk") + P("second")
      /\ place["recovery_dtbo"] \in Nat /\ p * place["recovery_dtbo"] \in 0 .. U32 - 1
  BY <1>1, <1>2, <1>3, FirstPages
<1>6. a.recovery_dtbo.size # 0
  OBVIOUS
<1>7. B!DtboOffset(a) = B!Word(p * B!Word(1 + P("kernel") + P("ramdisk") + P("second")))
  BY <1>4, <1>6 DEF B!DtboOffset
<1> HIDE DEF place, P
<1> QED  BY <1>2, <1>5, <1>7, WordAt DEF place, f

\* What the arguments become in the header, as it is read again.
ReadsBack(i, a) ==
    /\ i.boot_magic = B!BOOT_MAGIC
    /\ i.header_version = a.header_version /\ i.page_size = a.page_size
    /\ i.os_version = B!FormatOsVersion(a.os) /\ i.os_patch_level = B!FormatOsPatchLevel(a.os)
    /\ a.header_version < 3 =>
          /\ i.kernel_load_address = a.kernel_offset /\ i.ramdisk_load_address = a.ramdisk_offset
          /\ i.second_load_address = a.second_offset /\ i.tags_load_address = a.tags_offset
          /\ i.product_name = B!Field(a.board, BOOT_NAME_SIZE - 1)
          /\ i.cmdline = B!FirstArgs(a.cmdline) /\ i.extra_cmdline = B!ExtraArgs(a.cmdline)
    /\ a.header_version = 2 => i.dtb_load_address = a.dtb_offset
    /\ a.header_version >= 3 =>
          /\ i.cmdline = B!Field(a.cmdline, BOOT_ARGS_SIZE + BOOT_EXTRA_ARGS_SIZE)
          /\ i.extra_cmdline = <<>> /\ i.product_name = <<>>

\* The header that is written, read again: it describes the sections written.
LEMMA WrittenReads ==
    ASSUME NEW a, GoodArgs(a)
    PROVE  LET i == BootReading(B!WriteBootImage(a).header)
           IN  ReadsBack(i, a) /\ Describes(i, FilesIn(a)) /\ Texts(i)
<1> DEFINE h == B!WriteBootImage(a).header
           i == BootReading(h)
           v == a.header_version
           f == FilesIn(a)
<1>1. v \in Nat /\ a.page_size \in 1 .. MaxSize
  BY SizeBounds DEF GoodArgs
<1>2. h = IF v >= 3 THEN B!HeaderV3Plus(a) ELSE B!LegacyHeader(a)
  BY DEF B!WriteBootImage
<1>3. /\ f \in BootFiles /\ f["kernel"] = a.kernel /\ f["ramdisk"] = a.ramdisk
      /\ f["second"] = a.second /\ f["recovery_dtbo"] = a.recovery_dtbo /\ f["dtb"] = a.dtb
      /\ f["boot_signature"] = B!Absent
  BY FilesInAre
<1>4. B!Absent.size = 0
  BY DEF B!Absent
<1> HIDE DEF f
<1>5. Storable(<<>>)
  BY TextBounds, SizeBounds DEF Storable
<1>6. CASE v >= 3
  <2>1. /\ h[1] = a.kernel.size /\ h[2] = a.ramdisk.size /\ h[3] = a.os /\ h[9] = v
        /\ h[10] = B!Field(a.cmdline, BOOT_ARGS_SIZE + BOOT_EXTRA_ARGS_SIZE)
        /\ v = 3 => DOMAIN h = 1 .. 10
        /\ v >= 4 => DOMAIN h = 1 .. 11 /\ h[11] = 0
    BY <1>1, <1>2, <1>6, LaterCells
  <2>2. v >= 4 => B!ReadU32(h, 11) = 0
    BY <2>1 DEF B!ReadU32, B!ReadCell
  <2>3. a.page_size = BOOT_IMAGE_HEADER_V3_PAGESIZE /\ a.second.size = 0 /\ a.recovery_dtbo.size = 0
        /\ a.dtb.size = 0
    BY <1>1, <1>4, <1>6 DEF GoodArgs
  <2> HIDE DEF h
  <2>4. /\ i.boot_magic = B!BOOT_MAGIC /\ i.header_version = v /\ i.page_size = a.page_size
        /\ i.kernel_size = a.kernel.size /\ i.ramdisk_size = a.ramdisk.size
        /\ i.second_size = 0 /\ i.recovery_dtbo_size = 0 /\ i.dtb_size = 0 /\ i.boot_signature_size = 0
        /\ i.os_version = B!FormatOsVersion(a.os) /\ i.os_patch_level = B!FormatOsPatchLevel(a.os)
        /\ i.cmdline = B!Field(a.cmdline, BOOT_ARGS_SIZE + BOOT_EXTRA_ARGS_SIZE)
        /\ i.extra_cmdline = <<>> /\ i.product_name = <<>>
    BY <1>1, <1>6, <2>1, <2>2, <2>3 DEF BootReading
  <2> HIDE DEF i
  <2>5. ReadsBack(i, a)
    BY <1>1, <1>6, <2>4 DEF ReadsBack
  <2>6. Describes(i, f)
    BY <1>1, <1>3, <1>4, <2>3, <2>4 DEF Describes
  <2>7. Storable(i.cmdline)
    <3>1. a.cmdline \in Seq(Nat)
      BY DEF GoodArgs
    <3>2. BOOT_ARGS_SIZE + BOOT_EXTRA_ARGS_SIZE \in Nat
      BY TextBounds
    <3> QED  BY <2>4, <3>1, <3>2, FieldIs, TextBounds, SizeBounds DEF Storable
  <2>8. Texts(i)
    <3>1. Storable(i.os_version) /\ Storable(i.os_patch_level)
      BY <2>4 DEF GoodArgs
    <3> QED  BY <1>5, <2>4, <2>7, <3>1 DEF Texts
  <2> QED  BY <2>5, <2>6, <2>8 DEF i, h, f
<1>7. CASE v < 3
  <2>1. v \in 0 .. 2
    BY <1>1, <1>7
  <2>2. h = B!LegacyHeader(a)
    BY <1>1, <1>2, <1>7
  <2> HIDE DEF h
  <2>3. /\ h[1] = a.kernel.size /\ h[2] = a.kernel_offset /\ h[3] = a.ramdisk.size
        /\ h[4] = a.ramdisk_offset /\ h[5] = a.second.size /\ h[6] = a.second_offset
        /\ h[7] = a.tags_offset /\ h[8] = a.page_size /\ h[9] = v
        /\ h[10] = a.os /\ h[11] = B!Field(a.board, BOOT_NAME_SIZE - 1)
        /\ h[12] = B!FirstArgs(a.cmdline) /\ h[14] = B!ExtraArgs(a.cmdline)
    BY <2>1, <2>2, LegacyCells
  <2>4. v > 0 => /\ h[15] = a.recovery_dtbo.size /\ h[16] = B!Low(B!DtboOffset(a))
                 /\ h[17] = B!High(B!DtboOffset(a)) /\ {15, 16, 17} \subseteq DOMAIN h
    BY <2>1, <2>2, LegacyCells
  <2>5. v = 2 => h[19] = a.dtb.size /\ h[20] = a.dtb_offset /\ 19 \in DOMAIN h /\ 20 \in DOMAIN h
                 /\ 21 \notin DOMAIN h
    BY <2>1, <2>2, LegacyCells
  <2> DEFINE offset == a.page_size * FirstPage(f, a.page_size)["recovery_dtbo"]
  <2>6. a.recovery_dtbo.size > 0 => B!DtboOffset(a) = offset /\ offset \in 0 .. U32 - 1
    BY DtboOffsetIs DEF f
  <2> HIDE DEF offset
  <2>7. v > 0 => /\ B!ReadU32(h, 15) = a.recovery_dtbo.size
                 /\ a.recovery_dtbo.size > 0 => B!ReadU64(h, 16) = offset
    <3>1. v > 0 => B!ReadU32(h, 15) = a.recovery_dtbo.size
      BY <2>4 DEF B!ReadU32, B!ReadCell
    <3> SUFFICES ASSUME v > 0, a.recovery_dtbo.size > 0 PROVE B!ReadU64(h, 16) = offset
      BY <3>1
    <3>2. B!ReadU64(h, 16) = B!Low(offset) + U32 * B!High(offset)
      BY <2>4, <2>6 DEF B!ReadU64, B!ReadU32, B!ReadCell
    <3>3. offset \in Nat /\ U32 \in Nat \ {0}
      BY <2>6, SizeBounds
    <3>4. offset = U32 * (offset \div U32) + (offset % U32)
      BY <3>3, DivMod
    <3> QED  BY <3>2, <3>3, <3>4, DivMod DEF B!Low, B!High
  <2>8. v = 2 => B!ReadU32(h, 19) = a.dtb.size /\ B!ReadU64(h, 20) = a.dtb_offset
    <3> SUFFICES ASSUME v = 2 PROVE B!ReadU32(h, 19) = a.dtb.size /\ B!ReadU64(h, 20) = a.dtb_offset
      OBVIOUS
    <3>1. B!ReadU32(h, 19) = a.dtb.size /\ B!ReadU32(h, 20) = a.dtb_offset /\ B!ReadU32(h, 21) = 0
      BY <2>5 DEF B!ReadU32, B!ReadCell
    <3>2. U32 * 0 = 0 /\ a.dtb_offset \in Nat
      BY SizeBounds DEF GoodArgs
    <3> QED  BY <3>1, <3>2 DEF B!ReadU64
  <2>9. (v \notin {1, 2} => a.recovery_dtbo.size = 0) /\ (v # 2 => a.dtb.size = 0)
    BY <1>4 DEF GoodArgs
  <2>10. /\ i.boot_magic = B!BOOT_MAGIC /\ i.header_version = v /\ i.page_size = a.page_size
         /\ i.kernel_size = a.kernel.size /\ i.ramdisk_size = a.ramdisk.size
         /\ i.second_size = a.second.size /\ i.boot_signature_size = 0
         /\ i.os_version = B!FormatOsVersion(a.os) /\ i.os_patch_level = B!FormatOsPatchLevel(a.os)
         /\ i.kernel_load_address = a.kernel_offset /\ i.ramdisk_load_address = a.ramdisk_offset
         /\ i.second_load_address = a.second_offset /\ i.tags_load_address = a.tags_offset
         /\ i.product_name = B!Field(a.board, BOOT_NAME_SIZE - 1)
         /\ i.cmdline = B!FirstArgs(a.cmdline) /\ i.extra_cmdline = B!ExtraArgs(a.cmdline)
    BY <2>1, <2>3 DEF BootReading
  <2>11. /\ i.recovery_dtbo_size = a.recovery_dtbo.size /\ i.dtb_size = a.dtb.size
         /\ a.recovery_dtbo.size > 0 => i.recovery_dtbo_offset = offset
         /\ v = 2 => i.dtb_load_address = a.dtb_offset
    BY <2>1, <2>3, <2>7, <2>8, <2>9 DEF BootReading
  <2> HIDE DEF i
  <2>12. ReadsBack(i, a)
    BY <2>1, <2>10, <2>11 DEF ReadsBack
  <2>13. Describes(i, f)
    <3>1. f["dtb"].size > 0 => i.dtb_load_address \in Nat
      BY <1>3, <2>9, <2>11 DEF GoodArgs
    <3> QED  BY <1>1, <1>3, <1>4, <2>10, <2>11, <3>1 DEF Describes, offset
  <2>14. Storable(i.cmdline) /\ Storable(i.extra_cmdline) /\ Storable(i.product_name)
    <3>1. a.cmdline \in Seq(Nat) /\ Storable(a.board) /\ Len(B!ExtraArgs(a.cmdline)) <= BOOT_EXTRA_ARGS_SIZE
      BY <2>1 DEF GoodArgs, B!Defined
    <3>2. BOOT_ARGS_SIZE - 1 \in Nat /\ BOOT_NAME_SIZE - 1 \in Nat /\ BOOT_ARGS_SIZE - 1 < StringSize
          /\ BOOT_EXTRA_ARGS_SIZE < StringSize /\ BOOT_NAME_SIZE - 1 < StringSize /\ StringSize \in Nat
      BY TextBounds, SizeBounds
    <3>3. Storable(i.cmdline)
      <4>1. B!FirstArgs(a.cmdline) \in Seq(Nat) /\ Len(B!FirstArgs(a.cmdline)) <= BOOT_ARGS_SIZE - 1
        BY <3>1, <3>2, FieldIs DEF B!FirstArgs
      <4> QED  BY <2>10, <3>2, <4>1 DEF Storable
    <3>4. Storable(i.extra_cmdline)
      <4>1. B!ExtraArgs(a.cmdline) \in Seq(Nat)
        BY <3>1, ExtraArgsAre
      <4> QED  BY <2>10, <3>1, <3>2, <4>1, TextBounds DEF Storable
    <3>5. Storable(i.product_name)
      <4> DEFINE b == B!Field(a.board, BOOT_NAME_SIZE - 1)
      <4>1. b \in Seq(Nat) /\ Len(b) <= BOOT_NAME_SIZE - 1
        BY <3>1, <3>2, FieldIs DEF Storable
      <4> HIDE DEF b
      <4> QED  BY <2>10, <3>2, <4>1 DEF Storable, b
    <3> QED  BY <3>3, <3>4, <3>5
  <2>15. Texts(i)
    <3>1. Storable(i.os_version) /\ Storable(i.os_patch_level)
      BY <2>10 DEF GoodArgs
    <3> QED  BY <1>5, <2>10, <2>14, <3>1 DEF Texts
  <2> QED  BY <2>12, <2>13, <2>15 DEF i, h, f
<1> QED  BY <1>1, <1>6, <1>7

\* What is written can be extracted, section by section.
LEMMA WrittenIsSound ==
    ASSUME NEW a, GoodArgs(a)
    PROVE  BootSound(B!WriteBootImage(a), FilesIn(a))
<1> DEFINE w == B!WriteBootImage(a)
           i == BootReading(w.header)
<1>1. ReadsBack(i, a) /\ Describes(i, FilesIn(a)) /\ Texts(i)
  BY WrittenReads
<1>2. i.page_size = a.page_size /\ i.header_version = a.header_version
  BY <1>1 DEF ReadsBack
<1>3. w.header[9] = i.header_version
  BY DEF BootReading
<1>4. Holds(w, a.page_size, FilesIn(a)) /\ FilesIn(a) \in BootFiles
  BY BodyHolds, FilesInAre
<1> HIDE DEF w, i
<1>5. BootSound(w, FilesIn(a))
  BY <1>1, <1>2, <1>3, <1>4 DEF BootSound, i, GoodArgs
<1> QED  BY <1>5 DEF w
-----------------------------------------------------------------------------
(* What a build makes of a project.  (mkbootimg_wrapper)                   *)

\* The configuration gives the record back that was written.
LEMMA BootConfigKept ==
    ASSUME NEW i, IsInfo(i), Texts(i), i.boot_magic = B!BOOT_MAGIC
    PROVE  /\ C!BootRead(C!BootWrite(i), B!NoInfo) = i
           /\ C!BootWrite(i)[1].value = B!BOOT_MAGIC
<1> DEFINE fields == C!BootFields
           items == C!BootWrite(i)
<1>1. C!WriteString(B!BOOT_MAGIC) = B!BOOT_MAGIC
  <2>1. <<"ANDROID!">> \in Seq({"ANDROID!"}) /\ Len(<<"ANDROID!">>) = 1
    OBVIOUS
  <2>2. 1 < StringSize /\ StringSize \in Nat
    BY TextBounds, SizeBounds
  <2> QED  BY <2>1, <2>2, WriteStringIs DEF B!BOOT_MAGIC
<1>2. \A n \in {"boot_magic", "os_version", "os_patch_level", "cmdline", "product_name", "extra_cmdline"} :
          C!WriteString(i[n]) = i[n]
  BY <1>1, WriteStringIs, SizeBounds DEF Texts, Storable
<1>3. /\ DOMAIN fields = 1 .. 22 /\ 22 \in Nat
      /\ \A j, k \in 1 .. 22 : fields[j][2] = fields[k][2] => j = k
      /\ \A n \in DOMAIN B!NoInfo : \E k \in 1 .. 22 : fields[k][2] = n
      /\ \A k \in 1 .. 22 : fields[k][1] = "str" => C!WriteString(i[fields[k][2]]) = i[fields[k][2]]
  BY <1>2, BootFieldsAre
<1>4. fields[1] = <<"str", "boot_magic">>
  BY DEF C!BootFields
<1> HIDE DEF fields
<1>5. DOMAIN items = DOMAIN fields /\ \A k \in 1 .. 22 : items[k] = C!Written(fields, i)[k]
  BY DEF C!BootWrite, C!Written, fields
<1>6. C!ReadRecord(items, fields, B!NoInfo) = i
  <2> HIDE DEF items
  <2>1. \A k \in 1 .. 22 : k \in DOMAIN items /\ items[k] = C!Written(fields, i)[k]
    BY <1>3, <1>5
  <2>2. i = [n \in DOMAIN B!NoInfo |-> i[n]]
    BY DEF IsInfo
  <2>3. Len(fields) = 22 /\ Len(fields) \in Nat
    BY DEF fields, C!BootFields
  <2>4. /\ DOMAIN fields = 1 .. Len(fields)
        /\ \A j, k \in 1 .. Len(fields) : fields[j][2] = fields[k][2] => j = k
        /\ \A n \in DOMAIN B!NoInfo : \E k \in 1 .. Len(fields) : fields[k][2] = n
        /\ \A k \in 1 .. Len(fields) : fields[k][1] = "str" => C!WriteString(i[fields[k][2]]) = i[fields[k][2]]
        /\ \A k \in 1 .. Len(fields) : k \in DOMAIN items /\ items[k] = C!Written(fields, i)[k]
    BY <1>3, <2>1, <2>3
  <2>5. BeginsWith(items, fields, i, B!NoInfo)
    BY <2>2, <2>3, <2>4 DEF BeginsWith
  <2> QED  BY <2>5, ReadBack
<1>7. C!BootRead(items, B!NoInfo) = i
  BY <1>6, BootFieldsAre DEF C!BootRead, fields
<1>8. items[1].value = B!BOOT_MAGIC
  <2>1. items[1] = [kind |-> "str", value |-> C!WriteString(i["boot_magic"])]
    BY <1>3, <1>4 DEF C!BootWrite, C!Written, fields
  <2> QED  BY <1>1, <2>1
<1> QED  BY <1>7, <1>8

\* A project whose files the user may have edited, each that is there.
Edits(files, u) ==
    /\ files = [n \in DOMAIN u |-> files[n]]
    /\ \A n \in DOMAIN u :
          /\ u[n].size = 0 => files[n] = u[n]
          /\ u[n].size # 0 =>
                /\ files[n] \in [size: 1 .. MaxSize, is: [name: Labels, rev: Revs, format: {u[n].is.format}]]
                /\ files[n].is.rev \in {u[n].is.rev, B!EDITED}

\* A ramdisk that was packed here.
LEMMA RepackedIs ==
    ASSUME NEW file, file.is.name \in Labels, file.is.rev \in Revs,
           NEW format \in Formats \ {B!FORMAT_OTHER}
    PROVE  LET r == B!Repacked(file, format)
           IN  /\ r = [size |-> r.size,
                       is |-> [name |-> file.is.name, rev |-> r.is.rev, format |-> format]]
               /\ r.size \in 1 .. MaxSize
               /\ r.is.name = file.is.name /\ r.is.format = format
               /\ r.is.rev = IF file.is.rev = 0 THEN 2 ELSE file.is.rev
               /\ r.is.rev \in 1 .. 2
<1> DEFINE is == [name |-> file.is.name, rev |-> IF file.is.rev = 0 THEN 2 ELSE file.is.rev, format |-> format]
<1>1. B!Repacked(file, format) = [size |-> PackedSize[is], is |-> is]
  BY DEF B!Repacked, B!Content, B!REPACKED
<1>2. is.rev \in 1 .. 2 /\ is.name = file.is.name /\ is.format = format
  BY DEF Revs
<1>3. is \in [name: Labels, rev: {1, 2}, format: Formats \ {B!FORMAT_OTHER}]
  BY DEF Revs
<1>4. PackedSize \in [[name: Labels, rev: {1, 2}, format: Formats \ {B!FORMAT_OTHER}] -> 1 .. MaxSize]
  BY KitchenAssumption DEF Labels, B!EDITED, B!REPACKED
<1> HIDE DEF is
<1>5. PackedSize[is] \in 1 .. MaxSize
  BY <1>3, <1>4
<1> QED  BY <1>1, <1>2, <1>5 DEF is

\* A directory.
LEMMA UnpackIs ==
    ASSUME NEW r, r = [size |-> r.size, is |-> [name |-> r.is.name, rev |-> r.is.rev,
                                                format |-> r.is.format]],
           r.is.rev \in Revs, NEW c
    PROVE  /\ c = B!FORMAT_OTHER => B!UnpackRamdisk(r, c) = r
           /\ c # B!FORMAT_OTHER =>
                B!UnpackRamdisk(r, c) =
                    [size |-> r.size, is |-> [name |-> r.is.name, rev |-> IF r.is.rev = 2 THEN 0 ELSE r.is.rev,
                                              format |-> B!DIRECTORY]]
           /\ B!UnpackRamdisk(r, c).size = r.size
           /\ B!UnpackRamdisk(r, c).is.name = r.is.name
           /\ B!UnpackRamdisk(r, c).is.rev \in Revs
           /\ B!UnpackRamdisk(r, c).is.rev = IF c # B!FORMAT_OTHER /\ r.is.rev = 2 THEN 0 ELSE r.is.rev
           /\ B!UnpackRamdisk(r, c).is.format = IF c = B!FORMAT_OTHER THEN r.is.format ELSE B!DIRECTORY
<1>1. c = B!FORMAT_OTHER => B!UnpackRamdisk(r, c) = r
  BY DEF B!UnpackRamdisk
<1>2. c # B!FORMAT_OTHER =>
         B!UnpackRamdisk(r, c) =
             [size |-> r.size, is |-> [name |-> r.is.name, rev |-> IF r.is.rev = 2 THEN 0 ELSE r.is.rev,
                                       format |-> B!DIRECTORY]]
  BY DEF B!UnpackRamdisk, B!Content, B!REPACKED
<1> QED  BY <1>1, <1>2 DEF Revs

\* A file of a project as a build puts it into the image.
Built(file, format) ==
    IF file.is.format = B!DIRECTORY THEN B!Repacked(file, format)
    ELSE [size |-> file.size, is |-> [name |-> file.is.name, rev |-> file.is.rev, format |-> format]]

\* What is built may lie in an image.
LEMMA BuiltHeld ==
    ASSUME NEW file, file.size \in 1 .. MaxSize, file.is.name \in Labels, file.is.rev \in Revs,
           NEW format \in Formats, file.is.format = B!DIRECTORY => format # B!FORMAT_OTHER
    PROVE  LET b == Built(file, format)
           IN  /\ b \in HeldFiles /\ b.size \in 1 .. MaxSize
               /\ b.is.name = file.is.name /\ b.is.format = format
               /\ file.is.format # B!DIRECTORY => b.size = file.size /\ b.is.rev = file.is.rev
               /\ file.is.format = B!DIRECTORY =>
                     /\ b = B!Repacked(file, format)
                     /\ b.is.rev = IF file.is.rev = 0 THEN 2 ELSE file.is.rev
<1> DEFINE b == Built(file, format)
<1>1. CASE file.is.format = B!DIRECTORY
  <2>1. b = B!Repacked(file, format) /\ format \in Formats \ {B!FORMAT_OTHER}
    BY <1>1 DEF Built
  <2>2. /\ b = [size |-> b.size, is |-> [name |-> file.is.name, rev |-> b.is.rev, format |-> format]]
        /\ b.size \in 1 .. MaxSize /\ b.is.name = file.is.name /\ b.is.format = format
        /\ b.is.rev = IF file.is.rev = 0 THEN 2 ELSE file.is.rev
        /\ b.is.rev \in 1 .. 2
    BY <2>1, RepackedIs
  <2> HIDE DEF b
  <2>3. b.size \in 0 .. MaxSize /\ b.size # 0 /\ b.is.rev \in Revs
    BY <2>2, SizeBounds DEF Revs
  <2>4. b \in HeldFiles
    BY <2>2, <2>3 DEF HeldFiles
  <2> QED  BY <1>1, <2>1, <2>2, <2>4 DEF b
<1>2. CASE file.is.format # B!DIRECTORY
  <2>1. b = [size |-> file.size, is |-> [name |-> file.is.name, rev |-> file.is.rev, format |-> format]]
    BY <1>2 DEF Built
  <2> HIDE DEF b
  <2>2. b \in [size: 0 .. MaxSize, is: [name: Labels, rev: Revs, format: Formats]] /\ b.size # 0
    BY <2>1, SizeBounds
  <2>3. b \in HeldFiles
    BY <2>2 DEF HeldFiles
  <2> QED  BY <1>2, <2>1, <2>3 DEF b
<1> QED  BY <1>1, <1>2

\* The ramdisk goes back into the format it had, edited or not.
LEMMA RamdiskBack ==
    ASSUME NEW r, r.is.format \in Formats, r.is.rev \in Revs,
           NEW file \in [size: 0 .. MaxSize,
                         is: [name: Labels, rev: Revs, format: {B!UnpackRamdisk(r, r.is.format).is.format}]],
           r = [size |-> r.size, is |-> [name |-> r.is.name, rev |-> r.is.rev, format |-> r.is.format]]
    PROVE  /\ B!BuildRamdisk(file, r.is.format) = Built(file, r.is.format)
           /\ file.is.format = B!DIRECTORY <=> r.is.format # B!FORMAT_OTHER
<1> DEFINE c == r.is.format
<1>1. c \in {0, 1, 2, 3, 255}
  BY DEF Formats, B!FORMAT_NONE, B!FORMAT_LZ4, B!FORMAT_GZIP, B!FORMAT_LZMA, B!FORMAT_OTHER
<1>2. /\ file = [size |-> file.size,
                 is |-> [name |-> file.is.name, rev |-> file.is.rev, format |-> file.is.format]]
      /\ file.is.format = IF c = B!FORMAT_OTHER THEN c ELSE B!DIRECTORY
  BY UnpackIs
<1>3. CASE c = 255
  <2>1. file.is.format = 255
    BY <1>2, <1>3 DEF B!FORMAT_OTHER
  <2>2. B!BuildRamdisk(file, c) = file /\ file.is.format # B!DIRECTORY
    BY <2>1 DEF B!BuildRamdisk, B!DIRECTORY
  <2>3. Built(file, c) = [size |-> file.size, is |-> [name |-> file.is.name, rev |-> file.is.rev, format |-> c]]
    BY <2>2 DEF Built
  <2> QED  BY <1>2, <1>3, <2>1, <2>2, <2>3 DEF B!FORMAT_OTHER
<1>4. CASE c # 255
  <2>1. file.is.format = B!DIRECTORY
    BY <1>2, <1>4 DEF B!FORMAT_OTHER
  <2>2. (IF c \in {B!FORMAT_LZ4, B!FORMAT_GZIP, B!FORMAT_LZMA} THEN c ELSE B!FORMAT_NONE) = c
    BY <1>1, <1>4 DEF B!FORMAT_NONE, B!FORMAT_LZ4, B!FORMAT_GZIP, B!FORMAT_LZMA
  <2> HIDE DEF c
  <2>3. B!BuildRamdisk(file, c) = B!Repacked(file, c)
    BY <2>1, <2>2 DEF B!BuildRamdisk
  <2> QED  BY <1>4, <2>1, <2>3 DEF Built, c, B!FORMAT_OTHER
<1> QED  BY <1>3, <1>4

\* The files of a held section, field by field.
LEMMA HeldParts ==
    ASSUME NEW x \in HeldFiles
    PROVE  /\ x = [size |-> x.size, is |-> [name |-> x.is.name, rev |-> x.is.rev, format |-> x.is.format]]
           /\ x.size \in 0 .. MaxSize /\ x.size \in Nat
           /\ x.is.name \in Labels /\ x.is.rev \in Revs /\ x.is.format \in Formats
           /\ x.is.format # B!DIRECTORY
<1>1. /\ x = [size |-> x.size, is |-> [name |-> x.is.name, rev |-> x.is.rev, format |-> x.is.format]]
      /\ x.size \in 0 .. MaxSize
      /\ x.is.name \in Labels /\ x.is.rev \in Revs /\ x.is.format \in Formats
  BY DEF HeldFiles
<1>2. B!DIRECTORY \notin Formats
  BY DEF Formats, B!DIRECTORY, B!FORMAT_NONE, B!FORMAT_LZ4, B!FORMAT_GZIP, B!FORMAT_LZMA, B!FORMAT_OTHER
<1> QED  BY <1>1, <1>2, SizeBounds

\* What was packed here is packed to the same again.
LEMMA PackedAgain ==
    ASSUME NEW r \in HeldFiles, PackedHere(r)
    PROVE  Built(B!UnpackRamdisk(r, r.is.format), r.is.format) = r
<1> DEFINE u == B!UnpackRamdisk(r, r.is.format)
<1>1. /\ r = [size |-> r.size, is |-> [name |-> r.is.name, rev |-> r.is.rev, format |-> r.is.format]]
      /\ r.is.name \in Labels /\ r.is.rev \in Revs /\ r.is.format \in Formats /\ r.is.format # B!DIRECTORY
  BY HeldParts
<1>2. CASE r.is.format = B!FORMAT_OTHER
  <2>1. u = r
    BY <1>1, <1>2, UnpackIs
  <2> HIDE DEF u
  <2>2. Built(u, r.is.format) = r
    BY <1>1, <2>1 DEF Built
  <2> QED  BY <2>2 DEF u
<1>3. CASE r.is.format # B!FORMAT_OTHER
  <2>1. /\ u.is.name = r.is.name /\ u.is.format = B!DIRECTORY
        /\ u.is.rev = IF r.is.rev = 2 THEN 0 ELSE r.is.rev
    BY <1>1, <1>3, UnpackIs
  <2>2. r.is.rev \in 1 .. 2 /\ r.size = PackedSize[r.is]
    BY <1>3 DEF PackedHere
  <2> HIDE DEF u
  <2>3. (IF u.is.rev = 0 THEN 2 ELSE u.is.rev) = r.is.rev
    BY <2>1, <2>2
  <2>4. [name |-> u.is.name, rev |-> IF u.is.rev = 0 THEN 2 ELSE u.is.rev, format |-> r.is.format] = r.is
    BY <1>1, <2>1, <2>3
  <2>5. B!Repacked(u, r.is.format) = [size |-> PackedSize[r.is], is |-> r.is]
    BY <2>4 DEF B!Repacked, B!Content, B!REPACKED
  <2>6. Built(u, r.is.format) = r
    BY <1>1, <2>1, <2>2, <2>5 DEF Built
  <2> QED  BY <2>6 DEF u
<1> QED  BY <1>2, <1>3

\* What was built comes out as it was put in, a directory as a directory.
LEMMA BuiltComesBack ==
    ASSUME NEW file, file.size \in 1 .. MaxSize, file.is.name \in Labels, file.is.rev \in Revs,
           NEW format \in Formats,
           file.is.format = IF format = B!FORMAT_OTHER THEN format ELSE B!DIRECTORY,
           file.is.format = B!DIRECTORY => file.is.rev # 2
    PROVE  SameContents(B!UnpackRamdisk(Built(file, format), format), file)
<1> DEFINE b == Built(file, format)
           u == B!UnpackRamdisk(b, format)
<1>1. B!FORMAT_OTHER # B!DIRECTORY
  BY DEF B!FORMAT_OTHER, B!DIRECTORY
<1>2. /\ b \in HeldFiles /\ b.size \in 1 .. MaxSize
      /\ b.is.name = file.is.name /\ b.is.format = format
      /\ file.is.format # B!DIRECTORY => b.size = file.size /\ b.is.rev = file.is.rev
      /\ file.is.format = B!DIRECTORY => b.is.rev = IF file.is.rev = 0 THEN 2 ELSE file.is.rev
  BY <1>1, BuiltHeld
<1> HIDE DEF b
<1>3. /\ u.size = b.size /\ u.is.name = b.is.name
      /\ u.is.rev = IF format # B!FORMAT_OTHER /\ b.is.rev = 2 THEN 0 ELSE b.is.rev
      /\ u.is.format = IF format = B!FORMAT_OTHER THEN b.is.format ELSE B!DIRECTORY
  BY <1>2, HeldParts, UnpackIs
<1> HIDE DEF u
<1>4. u.size > 0 /\ file.size > 0 /\ u.is.name = file.is.name
  BY <1>2, <1>3, SizeBounds
<1>5. CASE format = B!FORMAT_OTHER
  BY <1>1, <1>2, <1>3, <1>4, <1>5 DEF SameContents, u, b
<1>6. CASE format # B!FORMAT_OTHER
  <2>1. u.is.rev = file.is.rev
    BY <1>2, <1>3, <1>6 DEF Revs
  <2> QED  BY <1>3, <1>4, <1>6, <2>1 DEF SameContents, u, b
<1> QED  BY <1>5, <1>6

\* The files of a project can be edited as those of the image are.
LEMMA FilesOfAre ==
    ASSUME NEW f \in BootFiles
    PROVE  /\ DOMAIN FilesOf(f) = B!Names
           /\ \A n \in B!Names : n # "ramdisk" => FilesOf(f)[n] = f[n]
           /\ FilesOf(f)["ramdisk"] = B!UnpackRamdisk(f["ramdisk"], f["ramdisk"].is.format)
           /\ \A n \in B!Names : FilesOf(f)[n].size = f[n].size
           /\ f["ramdisk"].size = 0 => FilesOf(f)["ramdisk"] = f["ramdisk"]
           /\ \A n \in B!Names : /\ FilesOf(f)[n].is.name \in Labels /\ FilesOf(f)[n].is.rev \in Revs
                                 /\ FilesOf(f)[n].is.format = B!DIRECTORY =>
                                      f[n].is.format # B!FORMAT_OTHER /\ FilesOf(f)[n].is.rev # 2
                                 /\ FilesOf(f)[n].is.format # B!DIRECTORY => FilesOf(f)[n] = f[n]
<1>1. f = [n \in B!Names |-> f[n]] /\ "ramdisk" \in B!Names /\ \A n \in B!Names : f[n] \in HeldFiles
  BY DEF BootFiles, B!Names
<1>2. /\ DOMAIN FilesOf(f) = B!Names
      /\ \A n \in B!Names : n # "ramdisk" => FilesOf(f)[n] = f[n]
      /\ FilesOf(f)["ramdisk"] = B!UnpackRamdisk(f["ramdisk"], f["ramdisk"].is.format)
  BY <1>1 DEF FilesOf
<1> DEFINE r == f["ramdisk"]
           u == B!UnpackRamdisk(r, r.is.format)
<1>3. /\ r.is.format = B!FORMAT_OTHER => u = r
      /\ u.size = r.size /\ u.is.name = r.is.name /\ u.is.rev \in Revs
      /\ u.is.rev = IF r.is.format # B!FORMAT_OTHER /\ r.is.rev = 2 THEN 0 ELSE r.is.rev
      /\ u.is.format = IF r.is.format = B!FORMAT_OTHER THEN r.is.format ELSE B!DIRECTORY
      /\ r.is.name \in Labels /\ r.is.format # B!DIRECTORY
  <2> HIDE DEF r
  <2>1. r \in HeldFiles
    BY <1>1 DEF r
  <2> QED  BY <2>1, HeldParts, UnpackIs
<1>4. r.size = 0 => r.is.format = B!FORMAT_OTHER
  <2>1. r.size = 0 => r = B!Absent
    BY <1>1 DEF HeldFiles
  <2> QED  BY <2>1 DEF B!Absent, B!Content
<1>5. FilesOf(f)["ramdisk"] = u
  BY <1>2
<1> HIDE DEF r, u
<1>6. ASSUME NEW n \in B!Names
      PROVE  /\ FilesOf(f)[n].size = f[n].size
             /\ FilesOf(f)[n].is.name \in Labels /\ FilesOf(f)[n].is.rev \in Revs
             /\ FilesOf(f)[n].is.format = B!DIRECTORY =>
                  f[n].is.format # B!FORMAT_OTHER /\ FilesOf(f)[n].is.rev # 2
             /\ FilesOf(f)[n].is.format # B!DIRECTORY => FilesOf(f)[n] = f[n]
  <2>1. CASE n # "ramdisk"
    BY <1>1, <1>2, <2>1, HeldParts
  <2>2. CASE n = "ramdisk"
    <3>1. FilesOf(f)[n] = u /\ f[n] = r
      BY <1>5, <2>2 DEF r
    <3> QED  BY <1>3, <3>1 DEF Revs
  <2> QED  BY <2>1, <2>2
<1> QED  BY <1>2, <1>3, <1>4, <1>5, <1>6 DEF r

\* What a build puts into the image: every file that is there, each in the format
\* it came in, and no signature.
LEMMA SectionsPut ==
    ASSUME NEW f \in BootFiles, NEW i, Describes(i, f), i.ramdisk_compression = f["ramdisk"].is.format,
           NEW files, Edits(files, FilesOf(f))
    PROVE  LET a == B!Args(i, files)
           IN  /\ \A n \in B!Names \ {"boot_signature"} :
                     /\ FilesIn(a)[n] \in HeldFiles
                     /\ f[n].size = 0 => FilesIn(a)[n] = B!Absent
                     /\ f[n].size # 0 => /\ FilesIn(a)[n] = Built(files[n], f[n].is.format)
                                         /\ FilesIn(a)[n].size > 0
                                         /\ FilesIn(a)[n].is.format = f[n].is.format
                                         /\ files[n].size \in 1 .. MaxSize
                                         /\ files[n].is.name \in Labels /\ files[n].is.rev \in Revs
                                         /\ files[n].is.format = FilesOf(f)[n].is.format
                                         /\ files[n].is.format = B!DIRECTORY => files[n].is.rev # 2
                                         /\ files[n].is.format # B!DIRECTORY => FilesIn(a)[n] = files[n]
               /\ FilesIn(a)["boot_signature"] = B!Absent
               /\ PackedHere(FilesIn(a)["ramdisk"])
<1> DEFINE a == B!Args(i, files)
           g == FilesIn(a)
           Put(n) == IF f[n].size > 0 THEN files[n] ELSE B!Absent
<1>1. B!Names = {"kernel", "ramdisk", "second", "recovery_dtbo", "dtb", "boot_signature"}
  BY DEF B!Names
<1>2. /\ g["kernel"] = Put("kernel") /\ g["second"] = Put("second") /\ g["dtb"] = Put("dtb")
      /\ g["recovery_dtbo"] = Put("recovery_dtbo") /\ g["boot_signature"] = B!Absent
      /\ g["ramdisk"] = IF f["ramdisk"].size > 0
                        THEN B!BuildRamdisk(files["ramdisk"], f["ramdisk"].is.format) ELSE B!Absent
  BY DEF B!Args, FilesIn, Describes
<1>3. \A n \in B!Names : /\ f[n].size \in 0 .. MaxSize /\ f[n].is.format \in Formats /\ f[n].is.rev \in Revs
                         /\ f[n].is.format # B!DIRECTORY
                         /\ f[n] = [size |-> f[n].size, is |-> [name |-> f[n].is.name, rev |-> f[n].is.rev,
                                                               format |-> f[n].is.format]]
  BY HeldParts DEF BootFiles
<1>4. ASSUME NEW n \in B!Names, f[n].size # 0
      PROVE  /\ files[n] \in [size: 1 .. MaxSize,
                              is: [name: Labels, rev: Revs, format: {FilesOf(f)[n].is.format}]]
             /\ files[n].is.rev \in {FilesOf(f)[n].is.rev, 1}
  BY <1>4, FilesOfAre DEF Edits, B!EDITED
<1>5. ASSUME NEW n \in B!Names, f[n].size # 0
      PROVE  /\ files[n].size \in 1 .. MaxSize /\ files[n].is.name \in Labels /\ files[n].is.rev \in Revs
             /\ files[n].is.format = FilesOf(f)[n].is.format
             /\ files[n].is.format = B!DIRECTORY => files[n].is.rev # 2 /\ f[n].is.format # B!FORMAT_OTHER
             /\ files[n].is.format # B!DIRECTORY => files[n].is.format = f[n].is.format
             /\ files[n] = [size |-> files[n].size, is |-> [name |-> files[n].is.name, rev |-> files[n].is.rev,
                                                            format |-> files[n].is.format]]
  <2> DEFINE x == files[n]
             c == FilesOf(f)[n].is.format
  <2>1. x \in [size: 1 .. MaxSize, is: [name: Labels, rev: Revs, format: {c}]]
        /\ x.is.rev \in {FilesOf(f)[n].is.rev, 1}
    BY <1>4, <1>5
  <2>2. /\ c = B!DIRECTORY => f[n].is.format # B!FORMAT_OTHER /\ FilesOf(f)[n].is.rev # 2
        /\ c # B!DIRECTORY => FilesOf(f)[n] = f[n]
    BY FilesOfAre
  <2>3. c # B!DIRECTORY => c = f[n].is.format
    BY <2>2
  <2> HIDE DEF x, c
  <2>4. /\ x.size \in 1 .. MaxSize /\ x.is.name \in Labels /\ x.is.rev \in Revs /\ x.is.format = c
        /\ x = [size |-> x.size, is |-> [name |-> x.is.name, rev |-> x.is.rev, format |-> x.is.format]]
    BY <2>1
  <2> QED  BY <2>1, <2>2, <2>3, <2>4 DEF x, c
<1> DEFINE Is(n) == Built(files[n], f[n].is.format)
<1>6. ASSUME NEW n \in B!Names, f[n].size # 0
      PROVE  /\ Is(n) \in HeldFiles /\ Is(n).size > 0 /\ Is(n).is.format = f[n].is.format
             /\ files[n].is.format # B!DIRECTORY => Is(n) = files[n]
             /\ files[n].is.format = B!DIRECTORY => PackedHere(Is(n))
  <2> DEFINE x == files[n]
             c == f[n].is.format
  <2>1. /\ x.size \in 1 .. MaxSize /\ x.is.name \in Labels /\ x.is.rev \in Revs
        /\ x.is.format = B!DIRECTORY => c # B!FORMAT_OTHER
        /\ x.is.format # B!DIRECTORY => x.is.format = c
        /\ x = [size |-> x.size, is |-> [name |-> x.is.name, rev |-> x.is.rev, format |-> x.is.format]]
    BY <1>5, <1>6
  <2>2. c \in Formats
    BY <1>3
  <2> HIDE DEF x, c
  <2>3. /\ Built(x, c) \in HeldFiles /\ Built(x, c).size \in 1 .. MaxSize /\ Built(x, c).is.format = c
        /\ x.is.format = B!DIRECTORY => Built(x, c) = B!Repacked(x, c)
    BY <2>1, <2>2, BuiltHeld
  <2>4. x.is.format # B!DIRECTORY => Built(x, c) = x
    BY <2>1 DEF Built
  <2>5. ASSUME x.is.format = B!DIRECTORY PROVE PackedHere(Built(x, c))
    <3>1. c \in Formats \ {B!FORMAT_OTHER}
      BY <2>1, <2>2, <2>5
    <3>2. B!Repacked(x, c).is.rev \in 1 .. 2
      BY <2>1, <3>1, RepackedIs
    <3>3. B!Repacked(x, c).size = PackedSize[B!Repacked(x, c).is]
      BY DEF B!Repacked
    <3> QED  BY <2>3, <2>5, <3>2, <3>3 DEF PackedHere
  <2>6. Built(x, c).size > 0
    BY <2>3, SizeBounds
  <2> QED  BY <2>3, <2>4, <2>5, <2>6 DEF x, c
<1>7. ASSUME NEW n \in B!Names \ {"boot_signature"}, f[n].size # 0
      PROVE  g[n] = Is(n)
  <2>1. f[n].size > 0
    <3>1. f[n].size \in 0 .. MaxSize
      BY <1>3
    <3> QED  BY <1>7, <3>1
  <2>2. CASE n = "ramdisk"
    <3> DEFINE r == f["ramdisk"]
    <3>1. r.is.format \in Formats /\ r.is.rev \in Revs
          /\ r = [size |-> r.size, is |-> [name |-> r.is.name, rev |-> r.is.rev, format |-> r.is.format]]
      BY <1>3, <2>2
    <3>2. files["ramdisk"] \in [size: 0 .. MaxSize,
                               is: [name: Labels, rev: Revs,
                                    format: {B!UnpackRamdisk(r, r.is.format).is.format}]]
      <4>1. files["ramdisk"] \in [size: 1 .. MaxSize,
                                 is: [name: Labels, rev: Revs, format: {FilesOf(f)["ramdisk"].is.format}]]
        BY <1>4, <1>7, <2>2
      <4>2. FilesOf(f)["ramdisk"] = B!UnpackRamdisk(r, r.is.format)
        BY FilesOfAre
      <4>3. 1 .. MaxSize \subseteq 0 .. MaxSize
        BY SizeBounds
      <4> QED  BY <4>1, <4>2, <4>3
    <3> HIDE DEF r
    <3>3. B!BuildRamdisk(files["ramdisk"], r.is.format) = Built(files["ramdisk"], r.is.format)
      BY <3>1, <3>2, RamdiskBack
    <3> QED  BY <1>2, <2>1, <2>2, <3>3 DEF r
  <2>3. CASE n # "ramdisk"
    <3>1. g[n] = files[n]
      BY <1>1, <1>2, <2>1, <2>3
    <3>2. FilesOf(f)[n] = f[n]
      BY <2>3, FilesOfAre
    <3>3. files[n].is.format # B!DIRECTORY
      BY <1>3, <1>5, <1>7, <3>2
    <3> QED  BY <1>6, <1>7, <3>1, <3>3
  <2> QED  BY <2>2, <2>3
<1>8. ASSUME NEW n \in B!Names \ {"boot_signature"}, f[n].size = 0
      PROVE  g[n] = B!Absent
  BY <1>1, <1>2, <1>8
<1> HIDE DEF g, Is
<1>9. ASSUME NEW n \in B!Names \ {"boot_signature"}
      PROVE  /\ g[n] \in HeldFiles
             /\ f[n].size = 0 => g[n] = B!Absent
             /\ f[n].size # 0 => /\ g[n] = Is(n)
                                 /\ g[n].size > 0 /\ g[n].is.format = f[n].is.format
                                 /\ files[n].size \in 1 .. MaxSize
                                 /\ files[n].is.name \in Labels /\ files[n].is.rev \in Revs
                                 /\ files[n].is.format = FilesOf(f)[n].is.format
                                 /\ files[n].is.format = B!DIRECTORY => files[n].is.rev # 2
                                 /\ files[n].is.format # B!DIRECTORY => g[n] = files[n]
  <2>1. CASE f[n].size = 0
    BY <1>8, <2>1, AbsentHeld
  <2>2. CASE f[n].size # 0
    BY <1>5, <1>6, <1>7, <2>2
  <2> QED  BY <2>1, <2>2
<1>10. PackedHere(g["ramdisk"])
  <2>1. "ramdisk" \in B!Names \ {"boot_signature"}
    BY <1>1
  <2>2. CASE f["ramdisk"].size = 0
    <3>1. g["ramdisk"] = B!Absent
      BY <1>9, <2>1, <2>2
    <3> QED  BY <3>1 DEF PackedHere, B!Absent, B!Content
  <2>3. CASE f["ramdisk"].size # 0
    <3>1. g["ramdisk"] = Is("ramdisk")
      BY <1>9, <2>1, <2>3
    <3>2. CASE files["ramdisk"].is.format = B!DIRECTORY
      BY <1>6, <2>1, <2>3, <3>1, <3>2
    <3>3. CASE files["ramdisk"].is.format # B!DIRECTORY
      <4>1. FilesOf(f)["ramdisk"].is.format # B!DIRECTORY
        BY <1>5, <2>1, <2>3, <3>3
      <4>2. FilesOf(f)["ramdisk"] = B!UnpackRamdisk(f["ramdisk"], f["ramdisk"].is.format)
        BY FilesOfAre
      <4>3. f["ramdisk"].is.format = B!FORMAT_OTHER
        <5> DEFINE r == f["ramdisk"]
        <5>1. r.is.rev \in Revs
              /\ r = [size |-> r.size, is |-> [name |-> r.is.name, rev |-> r.is.rev, format |-> r.is.format]]
          BY <1>3, <2>1
        <5> HIDE DEF r
        <5>2. r.is.format # B!FORMAT_OTHER => B!UnpackRamdisk(r, r.is.format).is.format = B!DIRECTORY
          BY <5>1, UnpackIs
        <5> QED  BY <4>1, <4>2, <5>2 DEF r
      <4>4. g["ramdisk"].is.format = B!FORMAT_OTHER
        BY <1>9, <2>1, <2>3, <4>3
      <4> QED  BY <4>4 DEF PackedHere
    <3> QED  BY <3>2, <3>3
  <2> QED  BY <2>2, <2>3
<1> QED  BY <1>2, <1>9, <1>10 DEF g, Is

\* The operating system is read as it was written.
LEMMA OsKept ==
    ASSUME NEW v, NEW s, Storable(v), Storable(s),
           NEW os, os = [version |-> B!ParseOSVersion(v), patch |-> B!ParseOSPatchLevel(s)]
    PROVE  /\ Storable(B!FormatOsVersion(os)) /\ Storable(B!FormatOsPatchLevel(os))
           /\ B!ParseOSVersion(B!FormatOsVersion(os)) = os.version
           /\ B!ParseOSPatchLevel(B!FormatOsPatchLevel(os)) = os.patch
<1>1. Storable(<<>>)
  BY TextBounds, SizeBounds DEF Storable
<1>2. /\ Storable(B!FormatOsVersion(os))
      /\ B!ParseOSVersion(B!FormatOsVersion(os)) = os.version
  <2>1. CASE v # <<>> /\ \A k \in DOMAIN v : v[k] < 128
    <3>1. os.version = v
      BY <2>1 DEF B!ParseOSVersion
    <3>2. CASE v = <<0, 0, 0>>
      <4>1. B!FormatOsVersion(os) = <<>>
        BY <3>1, <3>2 DEF B!FormatOsVersion
      <4> QED  BY <1>1, <3>1, <3>2, <4>1 DEF B!ParseOSVersion
    <3>3. CASE v # <<0, 0, 0>>
      <4>1. B!FormatOsVersion(os) = v
        BY <3>1, <3>3 DEF B!FormatOsVersion
      <4> QED  BY <2>1, <3>1, <4>1 DEF B!ParseOSVersion
    <3> QED  BY <3>2, <3>3
  <2>2. CASE ~ (v # <<>> /\ \A k \in DOMAIN v : v[k] < 128)
    <3>1. os.version = <<0, 0, 0>>
      BY <2>2 DEF B!ParseOSVersion
    <3>2. B!FormatOsVersion(os) = <<>>
      BY <3>1 DEF B!FormatOsVersion
    <3> QED  BY <1>1, <3>1, <3>2 DEF B!ParseOSVersion
  <2> QED  BY <2>1, <2>2
<1>3. /\ Storable(B!FormatOsPatchLevel(os))
      /\ B!ParseOSPatchLevel(B!FormatOsPatchLevel(os)) = os.patch
  <2>1. CASE s # <<>> /\ s[1] - 2000 \in 0 .. 127 /\ s[2] \in 1 .. 12
    <3> DEFINE y == s[1] - 2000
               m == s[2]
    <3>1. os.patch = <<y, m>> /\ y \in 0 .. 127 /\ m \in 1 .. 12
      BY <2>1 DEF B!ParseOSPatchLevel
    <3> HIDE DEF y, m
    <3>2. os.patch # <<0, 0>> /\ os.patch[1] = y /\ os.patch[2] = m
      BY <3>1
    <3>3. B!FormatOsPatchLevel(os) = <<y + 2000, m>>
      BY <3>2 DEF B!FormatOsPatchLevel
    <3>4. B!ParseOSPatchLevel(<<y + 2000, m>>) = <<y, m>>
      <4> DEFINE t == <<y + 2000, m>>
      <4>1. t # <<>> /\ t[1] = y + 2000 /\ t[2] = m
        OBVIOUS
      <4> HIDE DEF t
      <4>2. t[1] - 2000 \in 0 .. 127 /\ t[2] \in 1 .. 12
        <5>1. y \in 0 .. 127 /\ m \in 1 .. 12 /\ (y + 2000) - 2000 = y
          BY <3>1
        <5> QED  BY <4>1, <5>1
      <4>3. B!ParseOSPatchLevel(t) = <<t[1] - 2000, t[2]>>
        BY <4>1, <4>2 DEF B!ParseOSPatchLevel
      <4>4. (y + 2000) - 2000 = y
        BY <3>1
      <4>5. B!ParseOSPatchLevel(t) = <<y, m>>
        BY <4>1, <4>3, <4>4
      <4> QED  BY <4>5 DEF t
    <3>5. Storable(<<y + 2000, m>>)
      <4>1. <<y + 2000, m>> \in Seq(Nat) /\ Len(<<y + 2000, m>>) = 2
        BY <3>1
      <4> QED  BY <4>1, TextBounds, SizeBounds DEF Storable
    <3> QED  BY <3>1, <3>3, <3>4, <3>5
  <2>2. CASE ~ (s # <<>> /\ s[1] - 2000 \in 0 .. 127 /\ s[2] \in 1 .. 12)
    <3>1. os.patch = <<0, 0>>
      BY <2>2 DEF B!ParseOSPatchLevel
    <3>2. B!FormatOsPatchLevel(os) = <<>>
      BY <3>1 DEF B!FormatOsPatchLevel
    <3> QED  BY <1>1, <3>1, <3>2 DEF B!ParseOSPatchLevel
  <2> QED  BY <2>1, <2>2
<1> QED  BY <1>2, <1>3

\* The arguments that a build makes are good ones, and such as builds make.
LEMMA ArgsAreGood ==
    ASSUME NEW img, NEW f, BootSound(img, f),
           NEW files, Edits(files, FilesOf(f)),
           B!Defined(B!Args(B!Unpacked(img).info, files))
    PROVE  LET a == B!Args(B!Unpacked(img).info, files) IN GoodArgs(a) /\ Canonical(a)
<1> DEFINE i == B!Unpacked(img).info
           read == BootReading(img.header)
           a == B!Args(i, files)
           g == FilesIn(a)
           v == img.header[9]
<1>1. SameInfo(i, read) /\ i.ramdisk_compression = f["ramdisk"].is.format
  BY BootExtracts
<1>2. f \in BootFiles /\ v \in 0 .. MaxVersion /\ Describes(read, f) /\ Texts(read)
  BY DEF BootSound
<1>3. /\ read.header_version = v
      /\ v >= 3 => /\ read.page_size = BOOT_IMAGE_HEADER_V3_PAGESIZE
                   /\ read.second_size = 0
      /\ v \notin {1, 2} => read.recovery_dtbo_size = 0
      /\ v # 2 => read.dtb_size = 0
  BY DEF BootReading
<1> HIDE DEF i, read
<1>4. Describes(i, f) /\ Texts(i) /\ i.header_version = v
  BY <1>1, <1>2, <1>3 DEF SameInfo, Describes, Texts
<1>5. /\ v >= 3 => i.page_size = BOOT_IMAGE_HEADER_V3_PAGESIZE /\ f["second"].size = 0
      /\ v \notin {1, 2} => f["recovery_dtbo"].size = 0
      /\ v # 2 => f["dtb"].size = 0
  BY <1>1, <1>3, <1>4 DEF SameInfo, Describes
<1>6. /\ \A n \in B!Names \ {"boot_signature"} :
            /\ g[n] \in HeldFiles
            /\ f[n].size = 0 => g[n] = B!Absent
            /\ f[n].size # 0 => g[n].size > 0
      /\ PackedHere(g["ramdisk"])
  BY <1>1, <1>2, <1>4, SectionsPut
<1>7. B!Names \ {"boot_signature"} = {"kernel", "ramdisk", "second", "recovery_dtbo", "dtb"}
  BY DEF B!Names
<1>8. /\ g["kernel"] = a.kernel /\ g["ramdisk"] = a.ramdisk /\ g["second"] = a.second
      /\ g["recovery_dtbo"] = a.recovery_dtbo /\ g["dtb"] = a.dtb
  BY DEF FilesIn
<1>9. /\ a.header_version = v /\ a.page_size = i.page_size /\ a.board = i.product_name
      /\ a.cmdline = IF i.extra_cmdline = <<>> THEN i.cmdline
                     ELSE i.cmdline \o B!Space \o i.extra_cmdline
      /\ a.os = [version |-> B!ParseOSVersion(i.os_version),
                 patch |-> B!ParseOSPatchLevel(i.os_patch_level)]
      /\ a.dtb_offset = IF i.dtb_size > 0 THEN B!Low(i.dtb_load_address) ELSE B!DTB_OFFSET
      /\ a.kernel_offset = IF i.kernel_size > 0 THEN i.kernel_load_address ELSE B!KERNEL_OFFSET
      /\ a.ramdisk_offset = IF i.ramdisk_size > 0 THEN i.ramdisk_load_address ELSE 0
      /\ a.second_offset = IF i.second_size > 0 THEN i.second_load_address ELSE 0
  BY <1>4 DEF B!Args
<1>10. B!Defined(a)
  BY DEF i
<1> HIDE DEF a, g
<1>11. a.page_size \in 1 .. MaxSize
  BY <1>4, <1>9 DEF Describes
<1>12. \A x \in {a.kernel, a.ramdisk, a.second, a.recovery_dtbo, a.dtb} : x \in HeldFiles
  BY <1>6, <1>7, <1>8
<1>13. /\ v >= 3 => a.second = B!Absent
       /\ v \notin {1, 2} => a.recovery_dtbo = B!Absent
       /\ v # 2 => a.dtb = B!Absent
  BY <1>5, <1>6, <1>7, <1>8
<1>14. Storable(a.board) /\ a.cmdline \in Seq(Nat)
  <2>1. Storable(i.product_name) /\ i.cmdline \in Seq(Nat) /\ i.extra_cmdline \in Seq(Nat)
    BY <1>4 DEF Texts, Storable
  <2>2. B!Space \in Seq(Nat)
    BY DEF B!Space
  <2> QED  BY <1>9, <2>1, <2>2
<1>15. Storable(i.os_version) /\ Storable(i.os_patch_level)
  BY <1>4 DEF Texts
<1>16. /\ Storable(B!FormatOsVersion(a.os)) /\ Storable(B!FormatOsPatchLevel(a.os))
       /\ a.os = [version |-> B!ParseOSVersion(B!FormatOsVersion(a.os)),
                  patch   |-> B!ParseOSPatchLevel(B!FormatOsPatchLevel(a.os))]
  <2>1. a.os.version = B!ParseOSVersion(i.os_version) /\ a.os.patch = B!ParseOSPatchLevel(i.os_patch_level)
    BY <1>9
  <2>2. /\ Storable(B!FormatOsVersion(a.os)) /\ Storable(B!FormatOsPatchLevel(a.os))
        /\ B!ParseOSVersion(B!FormatOsVersion(a.os)) = a.os.version
        /\ B!ParseOSPatchLevel(B!FormatOsPatchLevel(a.os)) = a.os.patch
    BY <1>9, <1>15, OsKept
  <2> QED  BY <1>9, <2>1, <2>2
<1>17. a.dtb_offset \in 0 .. U32 - 1
  <2>1. CASE i.dtb_size > 0
    <3>1. i.dtb_load_address \in Nat /\ U32 \in Nat \ {0}
      BY <1>4, <2>1, SizeBounds DEF Describes
    <3> QED  BY <1>9, <2>1, <3>1, DivMod DEF B!Low
  <2>2. CASE ~ (i.dtb_size > 0)
    BY <1>9, <2>2, SizeBounds DEF B!DTB_OFFSET
  <2> QED  BY <2>1, <2>2
<1>18. GoodArgs(a)
  BY <1>2, <1>5, <1>9, <1>10, <1>11, <1>12, <1>13, <1>14, <1>16, <1>17 DEF GoodArgs
<1>19. ASSUME NEW n \in {"kernel", "ramdisk", "second"}, g[n].size = 0 PROVE f[n].size = 0
  <2>1. n \in B!Names \ {"boot_signature"}
    BY <1>7, <1>19
  <2> QED  BY <1>6, <1>19, <2>1
<1>20. Canonical(a)
  <2>1. a.kernel.size = 0 => i.kernel_size = 0
    BY <1>4, <1>8, <1>19 DEF Describes
  <2>2. a.ramdisk.size = 0 => i.ramdisk_size = 0
    BY <1>4, <1>8, <1>19 DEF Describes
  <2>3. a.second.size = 0 => i.second_size = 0
    BY <1>4, <1>8, <1>19 DEF Describes
  <2>4. PackedHere(a.ramdisk)
    BY <1>6, <1>8
  <2> QED  BY <1>9, <1>16, <2>1, <2>2, <2>3, <2>4 DEF Canonical
<1> QED  BY <1>18, <1>20 DEF a, i
-----------------------------------------------------------------------------
(* A second build changes nothing.                                         *)

\* Two sequences, put together and taken apart again.
LEMMA Pieces ==
    ASSUME NEW S, NEW s \in Seq(S), NEW t \in Seq(S)
    PROVE  /\ SubSeq(s \o t, 1, Len(s)) = s
           /\ SubSeq(s \o t, Len(s) + 1, Len(s) + Len(t)) = t
           /\ s \o t \in Seq(S) /\ Len(s \o t) = Len(s) + Len(t)
  OBVIOUS

\* Three texts one after the other.
LEMMA PiecesOfThree ==
    ASSUME NEW S, NEW s \in Seq(S), NEW t \in Seq(S), NEW u \in Seq(S)
    PROVE  (s \o t) \o u = s \o (t \o u)
  OBVIOUS

\* The two fields of the command line, put together and taken apart again.
LEMMA CommandLineKept ==
    ASSUME NEW s \in Seq(Nat)
    PROVE  LET f == B!FirstArgs(s)
               e == B!ExtraArgs(s)
               c == IF e = <<>> THEN f ELSE f \o B!Space \o e
           IN  B!FirstArgs(c) = f /\ B!ExtraArgs(c) = e
<1> DEFINE f == B!FirstArgs(s)
           e == B!ExtraArgs(s)
           m == BOOT_ARGS_SIZE - 1
<1>1. m \in Nat /\ BOOT_ARGS_SIZE = m + 1 /\ BOOT_ARGS_SIZE \in Nat
  BY TextBounds
<1>2. /\ f \in Seq(Nat) /\ Len(f) \in Nat /\ Len(f) <= m
      /\ Len(s) > m => Len(f) = m
  <2>1. f = B!Field(s, m)
    BY DEF B!FirstArgs
  <2> HIDE DEF f, m
  <2>2. /\ B!Field(s, m) \in Seq(Nat) /\ Len(B!Field(s, m)) <= m
        /\ Len(s) > m => Len(B!Field(s, m)) = m
    BY <1>1, FieldIs
  <2> QED  BY <2>1, <2>2
<1>3. /\ e \in Seq(Nat) /\ Len(e) \in Nat
      /\ Len(e) = IF Len(s) > BOOT_ARGS_SIZE THEN Len(s) - BOOT_ARGS_SIZE ELSE 0
  BY ExtraArgsAre
<1> HIDE DEF f, e, m
<1>4. CASE e = <<>>
  <2>1. B!FirstArgs(f) = f
    BY <1>1, <1>2, FieldIs DEF B!FirstArgs, m
  <2>2. B!ExtraArgs(f) = <<>>
    BY <1>1, <1>2 DEF B!ExtraArgs
  <2> QED  BY <1>4, <2>1, <2>2 DEF f, e
<1>5. CASE e # <<>>
  <2> DEFINE fs == f \o B!Space
             c  == fs \o e
  <2>1. Len(s) \in Nat /\ Len(e) > 0 /\ Len(f) = m
    <3>1. Len(e) # 0
      BY <1>3, <1>5
    <3> QED  BY <1>1, <1>2, <1>3, <3>1
  <2>2. B!Space \in Seq(Nat) /\ Len(B!Space) = 1 /\ f \in Seq(Nat) /\ e \in Seq(Nat)
    BY <1>2, <1>3 DEF B!Space
  <2>3. fs \in Seq(Nat) /\ B!Space \o e \in Seq(Nat)
    BY <2>2
  <2>4. c = f \o (B!Space \o e)
    BY <2>2, PiecesOfThree
  <2>5. SubSeq(c, 1, Len(f)) = f
    <3> HIDE DEF c
    <3> QED  BY <2>2, <2>3, <2>4, Pieces
  <2>6. SubSeq(c, Len(fs) + 1, Len(fs) + Len(e)) = e
    <3> HIDE DEF fs
    <3> QED  BY <2>2, <2>3, Pieces
  <2>7. Len(fs) = m + 1
    <3>1. Len(fs) = Len(f) + Len(B!Space)
      BY <2>2, Pieces
    <3> QED  BY <1>1, <2>1, <2>2, <3>1
  <2>8. Len(c) = Len(fs) + Len(e) /\ c \in Seq(Nat)
    <3> HIDE DEF fs
    <3> QED  BY <2>2, <2>3
  <2> HIDE DEF c, fs
  <2>9. Len(e) \in Nat /\ Len(c) = (m + 1) + Len(e)
    BY <1>3, <2>7, <2>8
  <2>10. B!FirstArgs(c) = f
    <3>1. ~ (Len(c) < m)
      BY <1>1, <2>9
    <3>2. B!Field(c, m) = SubSeq(c, 1, m)
      BY <3>1 DEF B!Field
    <3>3. B!FirstArgs(c) = B!Field(c, m)
      BY DEF B!FirstArgs, m
    <3> QED  BY <2>1, <2>5, <3>2, <3>3
  <2>11. B!ExtraArgs(c) = e
    <3>1. Len(c) > BOOT_ARGS_SIZE
      BY <1>1, <2>1, <2>9
    <3>2. B!ExtraArgs(c) = SubSeq(c, BOOT_ARGS_SIZE + 1, Len(c))
      BY <3>1 DEF B!ExtraArgs
    <3>3. Len(fs) + 1 = BOOT_ARGS_SIZE + 1 /\ Len(fs) + Len(e) = Len(c)
      BY <1>1, <2>7, <2>8
    <3> QED  BY <2>6, <3>2, <3>3
  <2> QED  BY <1>5, <2>10, <2>11 DEF c, fs, f, e
<1> QED  BY <1>4, <1>5

\* What a build makes of an image that nobody edited.
Rebuilt(img) == B!WriteBootImage(B!Args(B!Unpacked(img).info, B!Unpacked(img).files))

\* The files of an image can be taken as they are.
LEMMA FilesUnedited ==
    ASSUME NEW f \in BootFiles
    PROVE  Edits(FilesOf(f), FilesOf(f))
<1> DEFINE u == FilesOf(f)
<1>1. /\ DOMAIN u = B!Names
      /\ \A n \in B!Names : n # "ramdisk" => u[n] = f[n]
      /\ u["ramdisk"] = B!UnpackRamdisk(f["ramdisk"], f["ramdisk"].is.format)
      /\ \A n \in B!Names : u[n].size = f[n].size
  BY FilesOfAre
<1>2. u = [n \in B!Names |-> u[n]]
  BY DEF FilesOf, BootFiles
<1> HIDE DEF u
<1>3. ASSUME NEW n \in B!Names, u[n].size # 0
      PROVE  u[n] \in [size: 1 .. MaxSize, is: [name: Labels, rev: Revs, format: {u[n].is.format}]]
  <2> DEFINE x == f[n]
             c == x.is.format
             y == B!UnpackRamdisk(x, c)
  <2>1. x \in HeldFiles /\ x.size # 0
    BY <1>1, <1>3 DEF BootFiles
  <2> HIDE DEF x
  <2>2. /\ x = [size |-> x.size, is |-> [name |-> x.is.name, rev |-> x.is.rev, format |-> x.is.format]]
        /\ x.size \in 1 .. MaxSize /\ x.is.name \in Labels /\ x.is.rev \in Revs
    BY <2>1, HeldParts
  <2>3. /\ y.size = x.size /\ y.is.name = x.is.name /\ y.is.rev \in Revs
        /\ y = [size |-> y.size, is |-> [name |-> y.is.name, rev |-> y.is.rev, format |-> y.is.format]]
    <3>1. CASE c = B!FORMAT_OTHER
      BY <2>2, <3>1, UnpackIs
    <3>2. CASE c # B!FORMAT_OTHER
      <4> DEFINE z == [size |-> x.size, is |-> [name |-> x.is.name, rev |-> IF x.is.rev = 2 THEN 0 ELSE x.is.rev,
                                                format |-> B!DIRECTORY]]
      <4>1. y = z /\ y.is.rev \in Revs
        BY <2>2, <3>2, UnpackIs
      <4>2. /\ z.size = x.size /\ z.is.name = x.is.name
            /\ z = [size |-> z.size, is |-> [name |-> z.is.name, rev |-> z.is.rev, format |-> z.is.format]]
        OBVIOUS
      <4> HIDE DEF y, z
      <4> QED  BY <4>1, <4>2
    <3> QED  BY <3>1, <3>2
  <2>4. CASE n # "ramdisk"
    <3>1. u[n] = x
      BY <1>1, <2>4 DEF x
    <3> QED  BY <2>2, <3>1
  <2>5. CASE n = "ramdisk"
    <3>1. u[n] = y
      BY <1>1, <2>5 DEF x
    <3> HIDE DEF y
    <3> QED  BY <2>2, <2>3, <3>1
  <2> QED  BY <2>4, <2>5
<1> QED  BY <1>1, <1>2, <1>3 DEF Edits, u

\* Nobody edited them: the same sections are put into the next image, except for a
\* ramdisk that becomes a directory and was not packed here.
LEMMA SectionsUnchanged ==
    ASSUME NEW f \in BootFiles, NEW i, Describes(i, f), i.ramdisk_compression = f["ramdisk"].is.format
    PROVE  LET b == B!Args(i, FilesOf(f))
           IN  /\ b.kernel = f["kernel"] /\ b.second = f["second"]
               /\ b.recovery_dtbo = f["recovery_dtbo"] /\ b.dtb = f["dtb"]
               /\ b.ramdisk \in HeldFiles
               /\ PackedHere(f["ramdisk"]) => b.ramdisk = f["ramdisk"]
<1> DEFINE b == B!Args(i, FilesOf(f))
           g == FilesIn(b)
<1>1. /\ \A n \in B!Names \ {"boot_signature"} :
           /\ g[n] \in HeldFiles
           /\ f[n].size = 0 => g[n] = B!Absent
           /\ f[n].size # 0 => g[n] = Built(FilesOf(f)[n], f[n].is.format)
  BY SectionsPut, FilesUnedited
<1>2. ASSUME NEW n \in B!Names \ {"boot_signature"}, n = "ramdisk" => PackedHere(f["ramdisk"])
      PROVE  g[n] = f[n]
  <2> DEFINE x == f[n]
  <2>1. x \in HeldFiles
    BY DEF BootFiles
  <2>2. CASE x.size = 0
    <3>1. x = B!Absent
      BY <2>1, <2>2 DEF HeldFiles
    <3> HIDE DEF g
    <3> QED  BY <1>1, <2>2, <3>1
  <2>3. CASE x.size # 0
    <3>1. g[n] = Built(FilesOf(f)[n], x.is.format)
      BY <1>1, <2>3
    <3>2. CASE n # "ramdisk"
      <4>1. FilesOf(f)[n] = x
        BY <3>2, FilesOfAre
      <4> HIDE DEF x, g
      <4>2. Built(x, x.is.format) = x
        BY <2>1, HeldParts DEF Built
      <4> QED  BY <3>1, <4>1, <4>2 DEF x
    <3>3. CASE n = "ramdisk"
      <4>1. FilesOf(f)[n] = B!UnpackRamdisk(x, x.is.format) /\ PackedHere(x)
        BY <1>2, <3>3, FilesOfAre
      <4> HIDE DEF x, g
      <4>2. Built(B!UnpackRamdisk(x, x.is.format), x.is.format) = x
        BY <2>1, <4>1, PackedAgain
      <4> QED  BY <3>1, <4>1, <4>2 DEF x
    <3> QED  BY <3>2, <3>3
  <2> QED  BY <2>2, <2>3
<1>3. /\ g["kernel"] = b.kernel /\ g["ramdisk"] = b.ramdisk /\ g["second"] = b.second
      /\ g["recovery_dtbo"] = b.recovery_dtbo /\ g["dtb"] = b.dtb
  BY DEF FilesIn
<1>4. B!Names \ {"boot_signature"} = {"kernel", "ramdisk", "second", "recovery_dtbo", "dtb"}
  BY DEF B!Names
<1> HIDE DEF g, b
<1> QED  BY <1>1, <1>2, <1>3, <1>4 DEF b

\* What is written is what a build without edits makes of it: the image does not
\* change any more.
LEMMA WrittenIsStable ==
    ASSUME NEW a, GoodArgs(a), Canonical(a), B!Writable(a)
    PROVE  Rebuilt(B!WriteBootImage(a)) = B!WriteBootImage(a)
<1> DEFINE w == B!WriteBootImage(a)
           i == B!Unpacked(w).info
           f == FilesIn(a)
           b == B!Args(i, FilesOf(f))
           v == a.header_version
<1>1. BootSound(w, f) /\ v \in Nat
  BY WrittenIsSound, SizeBounds DEF GoodArgs
<1>2. B!Unpacked(w).files = FilesOf(f) /\ SameInfo(i, BootReading(w.header))
      /\ i.ramdisk_compression = f["ramdisk"].is.format
  BY <1>1, BootExtracts
<1>3. ReadsBack(BootReading(w.header), a) /\ Describes(BootReading(w.header), f)
  BY WrittenReads
<1>4. /\ f \in BootFiles /\ f["kernel"] = a.kernel /\ f["ramdisk"] = a.ramdisk
      /\ f["second"] = a.second /\ f["recovery_dtbo"] = a.recovery_dtbo /\ f["dtb"] = a.dtb
  BY FilesInAre
<1> HIDE DEF w, i, f
<1>5. ReadsBack(i, a) /\ Describes(i, f)
  BY <1>2, <1>3 DEF ReadsBack, Describes, SameInfo
<1>6. /\ b.kernel = a.kernel /\ b.ramdisk = a.ramdisk /\ b.second = a.second
      /\ b.recovery_dtbo = a.recovery_dtbo /\ b.dtb = a.dtb
  <2>1. PackedHere(f["ramdisk"])
    BY <1>4 DEF Canonical
  <2> QED  BY <1>2, <1>4, <1>5, <2>1, SectionsUnchanged
<1>7. /\ b.header_version = i.header_version /\ b.page_size = i.page_size
      /\ b.board = i.product_name /\ b.tags_offset = i.tags_load_address
      /\ b.cmdline = IF i.extra_cmdline = <<>> THEN i.cmdline
                     ELSE i.cmdline \o B!Space \o i.extra_cmdline
      /\ b.os = [version |-> B!ParseOSVersion(i.os_version),
                 patch |-> B!ParseOSPatchLevel(i.os_patch_level)]
      /\ b.dtb_offset = IF i.dtb_size > 0 THEN B!Low(i.dtb_load_address) ELSE B!DTB_OFFSET
      /\ b.kernel_offset = IF i.kernel_size > 0 THEN i.kernel_load_address ELSE B!KERNEL_OFFSET
      /\ b.ramdisk_offset = IF i.ramdisk_size > 0 THEN i.ramdisk_load_address ELSE 0
      /\ b.second_offset = IF i.second_size > 0 THEN i.second_load_address ELSE 0
  BY DEF B!Args
<1> HIDE DEF b
<1>8. b.header_version = v /\ b.page_size = a.page_size
  BY <1>5, <1>7 DEF ReadsBack, Describes
<1>9. b.os = a.os
  <2>1. b.os = [version |-> B!ParseOSVersion(B!FormatOsVersion(a.os)),
                patch   |-> B!ParseOSPatchLevel(B!FormatOsPatchLevel(a.os))]
    BY <1>5, <1>7 DEF ReadsBack
  <2> QED  BY <2>1 DEF Canonical
<1>10. a.cmdline \in Seq(Nat) /\ a.board \in Seq(Nat)
  BY DEF GoodArgs, Storable
<1>11. B!Body(b) = B!Body(a)
  BY <1>6, <1>8 DEF B!Body
<1>12. CASE v >= 3
  <2>1. B!Field(b.cmdline, BOOT_ARGS_SIZE + BOOT_EXTRA_ARGS_SIZE)
           = B!Field(a.cmdline, BOOT_ARGS_SIZE + BOOT_EXTRA_ARGS_SIZE)
    <3>1. b.cmdline = B!Field(a.cmdline, BOOT_ARGS_SIZE + BOOT_EXTRA_ARGS_SIZE)
      BY <1>5, <1>7, <1>12 DEF ReadsBack
    <3>2. BOOT_ARGS_SIZE + BOOT_EXTRA_ARGS_SIZE \in Nat
      BY TextBounds
    <3> QED  BY <1>10, <3>1, <3>2, FieldIs
  <2>2. B!HeaderV3Plus(b) = B!HeaderV3Plus(a)
    BY <1>6, <1>8, <1>9, <2>1 DEF B!HeaderV3Plus
  <2>3. B!WriteBootImage(b) = B!WriteBootImage(a)
    BY <1>8, <1>11, <1>12, <2>2 DEF B!WriteBootImage
  <2> QED  BY <1>2, <2>3 DEF Rebuilt, b, i, w
<1>13. CASE v < 3
  <2>1. B!Field(b.board, BOOT_NAME_SIZE - 1) = B!Field(a.board, BOOT_NAME_SIZE - 1)
    <3>1. b.board = B!Field(a.board, BOOT_NAME_SIZE - 1)
      BY <1>5, <1>7, <1>13 DEF ReadsBack
    <3> DEFINE l == BOOT_NAME_SIZE - 1
    <3>2. l \in Nat
      BY TextBounds
    <3> HIDE DEF l
    <3>3. B!Field(a.board, l) \in Seq(Nat) /\ Len(B!Field(a.board, l)) <= l
      BY <1>10, <3>2, FieldIs
    <3>4. B!Field(B!Field(a.board, l), l) = B!Field(a.board, l)
      BY <3>2, <3>3, FieldIs
    <3> QED  BY <3>1, <3>4 DEF l
  <2>2. B!FirstArgs(b.cmdline) = B!FirstArgs(a.cmdline) /\ B!ExtraArgs(b.cmdline) = B!ExtraArgs(a.cmdline)
    <3>1. i.cmdline = B!FirstArgs(a.cmdline) /\ i.extra_cmdline = B!ExtraArgs(a.cmdline)
      BY <1>5, <1>13 DEF ReadsBack
    <3> QED  BY <1>7, <1>10, <3>1, CommandLineKept
  <2>3. /\ b.kernel_offset = a.kernel_offset /\ b.ramdisk_offset = a.ramdisk_offset
        /\ b.second_offset = a.second_offset /\ b.tags_offset = a.tags_offset
    <3>1. /\ i.kernel_size = a.kernel.size /\ i.ramdisk_size = a.ramdisk.size
          /\ i.second_size = a.second.size
      BY <1>4, <1>5 DEF Describes
    <3>2. a.kernel.size \in Nat /\ a.ramdisk.size \in Nat /\ a.second.size \in Nat
      <4>1. a.kernel \in HeldFiles /\ a.ramdisk \in HeldFiles /\ a.second \in HeldFiles
        BY DEF GoodArgs
      <4>2. \A x \in HeldFiles : x.size \in Nat
        BY SizeBounds DEF HeldFiles
      <4> QED  BY <4>1, <4>2
    <3> QED  BY <1>5, <1>7, <1>13, <3>1, <3>2 DEF ReadsBack, Canonical
  <2>4. v = 2 => b.dtb_offset = a.dtb_offset
    <3> SUFFICES ASSUME v = 2 PROVE b.dtb_offset = a.dtb_offset
      OBVIOUS
    <3>1. i.dtb_size > 0 /\ i.dtb_load_address = a.dtb_offset
      BY <1>4, <1>5 DEF B!Writable, Describes, ReadsBack
    <3>2. B!Low(a.dtb_offset) = a.dtb_offset
      <4>1. a.dtb_offset \in Nat /\ a.dtb_offset < U32 /\ U32 \in Nat
        BY SizeBounds DEF GoodArgs
      <4> QED  BY <4>1, WordOf DEF B!Word, B!Low
    <3> QED  BY <1>7, <3>1, <3>2
  <2>5. B!Digest(b) = B!Digest(a)
    BY <1>6, <1>8 DEF B!Digest
  <2>6. B!DtboOffset(b) = B!DtboOffset(a)
    BY <1>6, <1>8 DEF B!DtboOffset
  <2>7. v > 1 => B!DtbCells(b) = B!DtbCells(a)
    BY <1>1, <1>6, <1>13, <2>4 DEF B!DtbCells
  <2>8. B!LegacyHeader(b) = B!LegacyHeader(a)
    BY <1>6, <1>8, <1>9, <2>1, <2>2, <2>3, <2>5, <2>6, <2>7 DEF B!LegacyHeader
  <2>9. B!WriteBootImage(b) = B!WriteBootImage(a)
    BY <1>1, <1>8, <1>11, <1>13, <2>8 DEF B!WriteBootImage
  <2> QED  BY <1>2, <2>9 DEF Rebuilt, b, i, w
<1> QED  BY <1>1, <1>12, <1>13
-----------------------------------------------------------------------------
(* The boot images from elsewhere.                                         *)

\* The cells of three sequences, one behind the other.
LEMMA CellsOfThree ==
    ASSUME NEW s, NEW t, NEW u, Len(s) \in Nat, Len(t) \in Nat, Len(u) \in Nat
    PROVE  /\ DOMAIN ((s \o t) \o u) = 1 .. (Len(s) + Len(t)) + Len(u)
           /\ \A k \in 1 .. Len(s) : ((s \o t) \o u)[k] = s[k]
           /\ \A k \in 1 .. Len(t) : ((s \o t) \o u)[Len(s) + k] = t[k]
           /\ \A k \in 1 .. Len(u) : ((s \o t) \o u)[(Len(s) + Len(t)) + k] = u[k]
<1> DEFINE b == s \o t
           h == b \o u
<1>1. /\ Len(b) = Len(s) + Len(t)
      /\ \A k \in 1 .. Len(s) : b[k] = s[k]
      /\ \A k \in 1 .. Len(t) : b[Len(s) + k] = t[k]
  BY ConcatIs
<1>2. Len(b) \in Nat
  BY <1>1
<1> HIDE DEF b
<1>3. /\ DOMAIN h = 1 .. Len(b) + Len(u)
      /\ \A k \in 1 .. Len(b) : h[k] = b[k]
      /\ \A k \in 1 .. Len(u) : h[Len(b) + k] = u[k]
  BY <1>2, CellsOfBoth
<1> HIDE DEF h
<1>4. \A k \in 1 .. Len(s) : h[k] = s[k]
  BY <1>1, <1>3
<1>5. \A k \in 1 .. Len(t) : h[Len(s) + k] = t[k]
  <2> SUFFICES ASSUME NEW k \in 1 .. Len(t) PROVE h[Len(s) + k] = t[k]
    OBVIOUS
  <2>1. Len(s) + k \in 1 .. Len(b)
    BY <1>1
  <2> QED  BY <1>1, <1>3, <2>1
<1> QED  BY <1>1, <1>3, <1>4, <1>5 DEF h, b

\* The six sections of an image from elsewhere can be held.
LEMMA OriginalFiles ==
    ASSUME NEW d, IsBootImage(d)
    PROVE  /\ d.files \in BootFiles
           /\ d.version \in 0 .. MaxVersion /\ d.version \in Nat
           /\ d.page \in 1 .. MaxSize
           /\ d.address \in Nat /\ d.dtb_address \in Nat
<1>1. d \in BootDescriptions
  BY DEF IsBootImage
<1>2. /\ d.files \in [B!Names -> Files] /\ d.version \in 0 .. MaxVersion /\ d.page \in 1 .. MaxSize
      /\ d.address \in 0 .. U32 - 1 /\ d.dtb_address \in 0 .. U32 * U32 - 1
  BY <1>1 DEF BootDescriptions
<1>3. ASSUME NEW f \in Files PROVE f \in HeldFiles
  <2>1. CASE f = B!Absent
    BY <2>1, AbsentHeld
  <2>2. CASE f \in [size: 1 .. MaxSize, is: [name: Contents, rev: {0}, format: Formats]]
    <3>1. f.is \in [name: Labels, rev: Revs, format: Formats]
      BY <2>2 DEF Labels, Revs
    <3>2. f = [size |-> f.size, is |-> f.is] /\ f.size \in 0 .. MaxSize /\ f.size # 0
      BY <2>2, SizeBounds
    <3> QED  BY <3>1, <3>2 DEF HeldFiles
  <2> QED  BY <2>1, <2>2 DEF Files
<1>4. d.files \in BootFiles
  BY <1>2, <1>3 DEF BootFiles
<1>5. d.version \in Nat /\ d.address \in Nat /\ d.dtb_address \in Nat
  BY <1>2, SizeBounds
<1> QED  BY <1>2, <1>4, <1>5

\* The strings of an image from elsewhere can be stored.
LEMMA OriginalTexts ==
    ASSUME NEW d, IsBootImage(d)
    PROVE  /\ d.name \in Seq(Nat) /\ Len(d.name) <= BOOT_NAME_SIZE /\ Storable(d.name)
           /\ d.cmdline \in Seq(Nat) /\ Storable(d.cmdline)
           /\ Len(d.cmdline) <= BOOT_ARGS_SIZE + BOOT_EXTRA_ARGS_SIZE
           /\ d.version < 3 => Len(d.cmdline) <= BOOT_ARGS_SIZE
           /\ d.extra_cmdline \in Seq(Nat) /\ Storable(d.extra_cmdline)
           /\ Len(d.extra_cmdline) <= BOOT_EXTRA_ARGS_SIZE
<1>1. d \in BootDescriptions /\ (d.version < 3 => Len(d.cmdline) <= BOOT_ARGS_SIZE)
  BY DEF IsBootImage
<1>2. /\ d.name \in Strings(BOOT_NAME_SIZE)
      /\ d.cmdline \in Strings(BOOT_ARGS_SIZE + BOOT_EXTRA_ARGS_SIZE)
      /\ d.extra_cmdline \in Strings(BOOT_EXTRA_ARGS_SIZE)
  BY <1>1 DEF BootDescriptions
<1>3. /\ d.name \in Seq(Nat) /\ Len(d.name) <= BOOT_NAME_SIZE
      /\ d.cmdline \in Seq(Nat) /\ Len(d.cmdline) <= BOOT_ARGS_SIZE + BOOT_EXTRA_ARGS_SIZE
      /\ d.extra_cmdline \in Seq(Nat) /\ Len(d.extra_cmdline) <= BOOT_EXTRA_ARGS_SIZE
  BY <1>2 DEF Strings
<1>4. Len(d.name) \in Nat /\ Len(d.cmdline) \in Nat /\ Len(d.extra_cmdline) \in Nat
  BY <1>3
<1>5. Len(d.name) < StringSize /\ Len(d.cmdline) < StringSize /\ Len(d.extra_cmdline) < StringSize
  <2> DEFINE x == Len(d.name)
             y == Len(d.cmdline)
             z == Len(d.extra_cmdline)
  <2>1. /\ x \in Nat /\ y \in Nat /\ z \in Nat /\ x <= BOOT_NAME_SIZE
        /\ y <= BOOT_ARGS_SIZE + BOOT_EXTRA_ARGS_SIZE /\ z <= BOOT_EXTRA_ARGS_SIZE
    BY <1>3, <1>4
  <2> HIDE DEF x, y, z
  <2>2. x < StringSize /\ y < StringSize /\ z < StringSize
    BY <2>1, TextBounds, SizeBounds
  <2> QED  BY <2>2 DEF x, y, z
<1> QED  BY <1>1, <1>3, <1>5 DEF Storable

\* So can the version of the system, and it is read as the header has it; the
\* patch level is if it is one of a month.
LEMMA OriginalOs ==
    ASSUME NEW d, IsBootImage(d)
    PROVE  /\ Storable(B!FormatOsVersion(d.os)) /\ Storable(B!FormatOsPatchLevel(d.os))
           /\ B!ParseOSVersion(B!FormatOsVersion(d.os)) = d.os.version
           /\ d.os = [version |-> d.os.version, patch |-> d.os.patch]
<1>1. d.os \in [version: (0 .. 127) \X (0 .. 127) \X (0 .. 127), patch: (0 .. 127) \X (0 .. 15)]
  BY DEF IsBootImage, BootDescriptions
<1>2. d.os.version \in (0 .. 127) \X (0 .. 127) \X (0 .. 127) /\ d.os.patch \in (0 .. 127) \X (0 .. 15)
      /\ d.os = [version |-> d.os.version, patch |-> d.os.patch]
  BY <1>1
<1>3. PICK x \in 0 .. 127, y \in 0 .. 127, z \in 0 .. 127 : d.os.version = <<x, y, z>>
  <2>1. \A v \in (0 .. 127) \X (0 .. 127) \X (0 .. 127) :
            v[1] \in 0 .. 127 /\ v[2] \in 0 .. 127 /\ v[3] \in 0 .. 127 /\ v = <<v[1], v[2], v[3]>>
    OBVIOUS
  <2> QED  BY <1>2, <2>1
<1>4. PICK p \in 0 .. 127, q \in 0 .. 15 : d.os.patch = <<p, q>>
  <2>1. \A v \in (0 .. 127) \X (0 .. 15) :
            v[1] \in 0 .. 127 /\ v[2] \in 0 .. 15 /\ v = <<v[1], v[2]>>
    OBVIOUS
  <2> QED  BY <1>2, <2>1
<1>5. Storable(<<>>)
  BY TextBounds, SizeBounds DEF Storable
<1>6. Storable(<<x, y, z>>)
  <2>1. <<x, y, z>> \in Seq(Nat) /\ Len(<<x, y, z>>) = 3
    BY <1>3
  <2> QED  BY <2>1, TextBounds, SizeBounds DEF Storable
<1>7. Storable(<<p + 2000, q>>)
  <2>1. p + 2000 \in Nat /\ q \in Nat
    BY <1>4
  <2>2. <<p + 2000, q>> \in Seq(Nat) /\ Len(<<p + 2000, q>>) = 2
    BY <2>1
  <2> QED  BY <2>2, TextBounds, SizeBounds DEF Storable
<1>8. B!FormatOsVersion(d.os) = <<>> \/ B!FormatOsVersion(d.os) = <<x, y, z>>
  BY <1>3 DEF B!FormatOsVersion
<1>9. B!FormatOsPatchLevel(d.os) = <<>> \/ B!FormatOsPatchLevel(d.os) = <<p + 2000, q>>
  <2>1. d.os.patch[1] = p /\ d.os.patch[2] = q
    BY <1>4
  <2> QED  BY <2>1 DEF B!FormatOsPatchLevel
<1>10. B!ParseOSVersion(B!FormatOsVersion(d.os)) = d.os.version
  <2>1. CASE d.os.version = <<0, 0, 0>>
    <3>1. B!FormatOsVersion(d.os) = <<>>
      BY <2>1 DEF B!FormatOsVersion
    <3> QED  BY <2>1, <3>1 DEF B!ParseOSVersion
  <2>2. CASE d.os.version # <<0, 0, 0>>
    <3>1. B!FormatOsVersion(d.os) = <<x, y, z>>
      BY <1>3, <2>2 DEF B!FormatOsVersion
    <3> DEFINE t == <<x, y, z>>
    <3>2. t # <<>> /\ \A k \in DOMAIN t : t[k] < 128
      <4>1. t # <<>> /\ DOMAIN t = {1, 2, 3} /\ t[1] = x /\ t[2] = y /\ t[3] = z
        OBVIOUS
      <4> QED  BY <1>3, <4>1
    <3> HIDE DEF t
    <3>3. B!ParseOSVersion(t) = t
      BY <3>2 DEF B!ParseOSVersion
    <3> QED  BY <1>3, <3>1, <3>3 DEF t
  <2> QED  BY <2>1, <2>2
<1> QED  BY <1>2, <1>5, <1>6, <1>7, <1>8, <1>9, <1>10
\* Where the header of an image from elsewhere says the recovery dtbo is, and
\* what its digest is made of.
OriginalDtbo(d) == IF d.files["recovery_dtbo"].size = 0 THEN 0
                   ELSE d.page * FirstPage(d.files, d.page)["recovery_dtbo"]

\* The digest in the header of an image from elsewhere.
OriginalDigest(d) ==
    <<d.files["kernel"], d.files["ramdisk"], d.files["second"]>>
    \o (IF d.version > 0 THEN <<d.files["recovery_dtbo"]>> ELSE <<>>)
    \o (IF d.version > 1 THEN <<d.files["dtb"]>> ELSE <<>>)

\* The cells of its header, up to version 2 ...
LEMMA OriginalLegacyCells ==
    ASSUME NEW d, d.version \in 0 .. 2
    PROVE  LET h == BootOriginal(d).header
               f == d.files
           IN  /\ h[1] = f["kernel"].size /\ h[2] = d.address /\ h[3] = f["ramdisk"].size
               /\ h[4] = d.address /\ h[5] = f["second"].size /\ h[6] = d.address
               /\ h[7] = d.address /\ h[8] = d.page /\ h[9] = d.version /\ h[10] = d.os
               /\ h[11] = d.name /\ h[12] = d.cmdline /\ h[13] = OriginalDigest(d)
               /\ h[14] = d.extra_cmdline
               /\ d.version = 0 => DOMAIN h = 1 .. 14
               /\ d.version = 1 => DOMAIN h = 1 .. 18
               /\ d.version = 2 => DOMAIN h = 1 .. 21
               /\ d.version > 0 => /\ h[15] = f["recovery_dtbo"].size /\ h[16] = OriginalDtbo(d)
                                   /\ h[17] = 0 /\ h[18] = IF d.version = 1 THEN 1648 ELSE 1660
               /\ d.version = 2 => /\ h[19] = f["dtb"].size /\ h[20] = d.dtb_address % U32
                                   /\ h[21] = d.dtb_address \div U32
<1> DEFINE f == d.files
           first ==
              << f["kernel"].size, d.address, f["ramdisk"].size, d.address, f["second"].size, d.address,
                 d.address, d.page, d.version, d.os, d.name, d.cmdline, OriginalDigest(d),
                 d.extra_cmdline >>
           dtbo == IF d.version > 0
                   THEN <<f["recovery_dtbo"].size, OriginalDtbo(d), 0,
                          IF d.version = 1 THEN 1648 ELSE 1660>> ELSE <<>>
           dtb == IF d.version > 1
                  THEN <<f["dtb"].size, d.dtb_address % U32, d.dtb_address \div U32>> ELSE <<>>
           h == BootOriginal(d).header
<1>1. h = (first \o dtbo) \o dtb
  BY DEF BootOriginal, OriginalDigest, OriginalDtbo
<1>2. /\ Len(first) = 14
      /\ first[1] = f["kernel"].size /\ first[2] = d.address /\ first[3] = f["ramdisk"].size
      /\ first[4] = d.address /\ first[5] = f["second"].size /\ first[6] = d.address
      /\ first[7] = d.address /\ first[8] = d.page /\ first[9] = d.version /\ first[10] = d.os
      /\ first[11] = d.name /\ first[12] = d.cmdline /\ first[13] = OriginalDigest(d)
      /\ first[14] = d.extra_cmdline
  OBVIOUS
<1>3. /\ Len(dtbo) = IF d.version > 0 THEN 4 ELSE 0
      /\ d.version > 0 => /\ dtbo[1] = f["recovery_dtbo"].size /\ dtbo[2] = OriginalDtbo(d)
                          /\ dtbo[3] = 0 /\ dtbo[4] = IF d.version = 1 THEN 1648 ELSE 1660
  OBVIOUS
<1>4. /\ Len(dtb) = IF d.version > 1 THEN 3 ELSE 0
      /\ d.version > 1 => /\ dtb[1] = f["dtb"].size /\ dtb[2] = d.dtb_address % U32
                          /\ dtb[3] = d.dtb_address \div U32
  OBVIOUS
<1> HIDE DEF h, first, dtbo, dtb
<1>5. Len(first) \in Nat /\ Len(dtbo) \in Nat /\ Len(dtb) \in Nat
  BY <1>2, <1>3, <1>4
<1>6. /\ DOMAIN h = 1 .. (Len(first) + Len(dtbo)) + Len(dtb)
      /\ \A k \in 1 .. Len(first) : h[k] = first[k]
      /\ \A k \in 1 .. Len(dtbo) : h[Len(first) + k] = dtbo[k]
      /\ \A k \in 1 .. Len(dtb) : h[(Len(first) + Len(dtbo)) + k] = dtb[k]
  BY <1>1, <1>5, CellsOfThree
<1>7. \A k \in {1, 2, 3, 4, 5, 6, 7, 8, 9, 10, 11, 12, 13, 14} : h[k] = first[k]
  BY <1>2, <1>6
<1>8. d.version > 0 => h[15] = dtbo[1] /\ h[16] = dtbo[2] /\ h[17] = dtbo[3] /\ h[18] = dtbo[4]
  <2> SUFFICES ASSUME d.version > 0
               PROVE  h[15] = dtbo[1] /\ h[16] = dtbo[2] /\ h[17] = dtbo[3] /\ h[18] = dtbo[4]
    OBVIOUS
  <2>1. Len(dtbo) = 4 /\ Len(first) = 14
    BY <1>2, <1>3
  <2>2. /\ h[Len(first) + 1] = dtbo[1] /\ h[Len(first) + 2] = dtbo[2]
        /\ h[Len(first) + 3] = dtbo[3] /\ h[Len(first) + 4] = dtbo[4]
    BY <1>6, <2>1
  <2> QED  BY <2>1, <2>2
<1>9. d.version = 2 => h[19] = dtb[1] /\ h[20] = dtb[2] /\ h[21] = dtb[3]
  <2> SUFFICES ASSUME d.version = 2 PROVE h[19] = dtb[1] /\ h[20] = dtb[2] /\ h[21] = dtb[3]
    OBVIOUS
  <2>1. Len(dtb) = 3 /\ Len(first) + Len(dtbo) = 18
    BY <1>2, <1>3, <1>4
  <2> DEFINE l == Len(first) + Len(dtbo)
  <2>2. h[l + 1] = dtb[1] /\ h[l + 2] = dtb[2] /\ h[l + 3] = dtb[3]
    BY <1>6, <2>1
  <2>3. l + 1 = 19 /\ l + 2 = 20 /\ l + 3 = 21
    BY <2>1
  <2> HIDE DEF l
  <2> QED  BY <2>2, <2>3
<1>10. /\ d.version = 0 => DOMAIN h = 1 .. 14
       /\ d.version = 1 => DOMAIN h = 1 .. 18
       /\ d.version = 2 => DOMAIN h = 1 .. 21
  <2> DEFINE l == (Len(first) + Len(dtbo)) + Len(dtb)
  <2>1. DOMAIN h = 1 .. l
    BY <1>6
  <2>2. CASE d.version = 0
    <3>1. l = 14
      BY <1>2, <1>3, <1>4, <2>2
    <3> HIDE DEF l
    <3> QED  BY <2>1, <2>2, <3>1
  <2>3. CASE d.version = 1
    <3>1. l = 18
      BY <1>2, <1>3, <1>4, <2>3
    <3> HIDE DEF l
    <3> QED  BY <2>1, <2>3, <3>1
  <2>4. CASE d.version = 2
    <3>1. l = 21
      BY <1>2, <1>3, <1>4, <2>4
    <3> HIDE DEF l
    <3> QED  BY <2>1, <2>4, <3>1
  <2> QED  BY <2>2, <2>3, <2>4
<1>11. /\ h[1] = f["kernel"].size /\ h[2] = d.address /\ h[3] = f["ramdisk"].size
       /\ h[4] = d.address /\ h[5] = f["second"].size /\ h[6] = d.address
       /\ h[7] = d.address /\ h[8] = d.page /\ h[9] = d.version /\ h[10] = d.os
       /\ h[11] = d.name /\ h[12] = d.cmdline /\ h[13] = OriginalDigest(d)
       /\ h[14] = d.extra_cmdline
  BY <1>2, <1>7
<1>12. d.version > 0 => /\ h[15] = f["recovery_dtbo"].size /\ h[16] = OriginalDtbo(d)
                        /\ h[17] = 0 /\ h[18] = IF d.version = 1 THEN 1648 ELSE 1660
  BY <1>3, <1>8
<1>13. d.version = 2 => /\ h[19] = f["dtb"].size /\ h[20] = d.dtb_address % U32
                        /\ h[21] = d.dtb_address \div U32
  BY <1>4, <1>9
<1> QED  BY <1>10, <1>11, <1>12, <1>13 DEF h

\* ... and from version 3.
LEMMA OriginalLaterCells ==
    ASSUME NEW d, d.version \in Nat, d.version >= 3
    PROVE  LET h == BootOriginal(d).header
               f == d.files
           IN  /\ h[1] = f["kernel"].size /\ h[2] = f["ramdisk"].size /\ h[3] = d.os
               /\ h[4] = IF d.version > 3 THEN 1584 ELSE 1580
               /\ h[5] = 0 /\ h[6] = 0 /\ h[7] = 0 /\ h[8] = 0 /\ h[9] = d.version
               /\ h[10] = d.cmdline
               /\ d.version = 3 => DOMAIN h = 1 .. 10
               /\ d.version >= 4 => DOMAIN h = 1 .. 11 /\ h[11] = f["boot_signature"].size
<1> DEFINE f == d.files
           first == << f["kernel"].size, f["ramdisk"].size, d.os,
                       IF d.version > 3 THEN 1584 ELSE 1580, 0, 0, 0, 0, d.version, d.cmdline >>
           signature == IF d.version > 3 THEN <<f["boot_signature"].size>> ELSE <<>>
           h == BootOriginal(d).header
<1>1. h = first \o signature
  BY DEF BootOriginal
<1>2. /\ Len(first) = 10
      /\ first[1] = f["kernel"].size /\ first[2] = f["ramdisk"].size /\ first[3] = d.os
      /\ first[4] = IF d.version > 3 THEN 1584 ELSE 1580
      /\ first[5] = 0 /\ first[6] = 0 /\ first[7] = 0 /\ first[8] = 0
      /\ first[9] = d.version /\ first[10] = d.cmdline
  OBVIOUS
<1>3. /\ Len(signature) = IF d.version >= 4 THEN 1 ELSE 0
      /\ d.version >= 4 => signature[1] = f["boot_signature"].size
  OBVIOUS
<1> HIDE DEF h, first, signature
<1>4. /\ DOMAIN h = 1 .. Len(first) + Len(signature)
      /\ \A k \in 1 .. Len(first) : h[k] = first[k]
      /\ \A k \in 1 .. Len(signature) : h[Len(first) + k] = signature[k]
  <2>1. Len(first) \in Nat /\ Len(signature) \in Nat
    BY <1>2, <1>3
  <2> QED  BY <1>1, <2>1, CellsOfBoth
<1>5. \A k \in {1, 2, 3, 4, 5, 6, 7, 8, 9, 10} : h[k] = first[k]
  BY <1>2, <1>4
<1>6. d.version >= 4 => h[11] = f["boot_signature"].size
  <2> SUFFICES ASSUME d.version >= 4 PROVE h[11] = f["boot_signature"].size
    OBVIOUS
  <2>1. h[Len(first) + 1] = signature[1] /\ Len(first) + 1 = 11
    BY <1>2, <1>3, <1>4
  <2> QED  BY <1>3, <2>1
<1>7. /\ d.version = 3 => DOMAIN h = 1 .. 10
      /\ d.version >= 4 => DOMAIN h = 1 .. 11
  BY <1>2, <1>3, <1>4
<1>8. /\ h[1] = f["kernel"].size /\ h[2] = f["ramdisk"].size /\ h[3] = d.os
      /\ h[4] = IF d.version > 3 THEN 1584 ELSE 1580
      /\ h[5] = 0 /\ h[6] = 0 /\ h[7] = 0 /\ h[8] = 0 /\ h[9] = d.version
      /\ h[10] = d.cmdline
  BY <1>2, <1>5
<1> QED  BY <1>6, <1>7, <1>8 DEF h
\* What is read of the header of an image from elsewhere.
LEMMA OriginalReads ==
    ASSUME NEW d, IsBootImage(d)
    PROVE  LET i == BootReading(BootOriginal(d).header)
           IN  /\ Describes(i, d.files) /\ Texts(i)
               /\ i.header_version = d.version
               /\ i.page_size = IF d.version >= 3 THEN BOOT_IMAGE_HEADER_V3_PAGESIZE ELSE d.page
               /\ i.os_version = B!FormatOsVersion(d.os) /\ i.os_patch_level = B!FormatOsPatchLevel(d.os)
               /\ i.cmdline = d.cmdline
               /\ d.version >= 3 => i.extra_cmdline = <<>>
               /\ d.version < 3 =>
                    /\ i.kernel_load_address = d.address /\ i.ramdisk_load_address = d.address
                    /\ i.second_load_address = d.address /\ i.tags_load_address = d.address
                    /\ i.product_name = d.name /\ i.extra_cmdline = d.extra_cmdline
               /\ d.version = 2 => i.dtb_load_address = d.dtb_address
<1> DEFINE h == BootOriginal(d).header
           i == BootReading(h)
           f == d.files
           v == d.version
<1>1. /\ f \in BootFiles /\ v \in Nat /\ d.page \in 1 .. MaxSize /\ d.address \in Nat
      /\ d.dtb_address \in Nat
  BY OriginalFiles
<1>2. /\ v > 2 => f["second"].size = 0
      /\ v \notin {1, 2} => f["recovery_dtbo"].size = 0
      /\ v # 2 => f["dtb"].size = 0
      /\ v < 4 => f["boot_signature"].size = 0
  <2>1. B!Absent.size = 0
    BY DEF B!Absent
  <2> QED  BY <2>1 DEF IsBootImage
<1>3. /\ Storable(d.name) /\ Storable(d.cmdline) /\ Storable(d.extra_cmdline)
      /\ Storable(B!FormatOsVersion(d.os)) /\ Storable(B!FormatOsPatchLevel(d.os)) /\ Storable(<<>>)
  <2>1. Storable(<<>>)
    BY TextBounds, SizeBounds DEF Storable
  <2> QED  BY <2>1, OriginalTexts, OriginalOs
<1>4. BOOT_IMAGE_HEADER_V3_PAGESIZE \in 1 .. MaxSize
  BY SizeBounds
<1> HIDE DEF f
<1>5. CASE v >= 3
  <2>1. /\ h[1] = f["kernel"].size /\ h[2] = f["ramdisk"].size /\ h[3] = d.os /\ h[9] = v
        /\ h[10] = d.cmdline
        /\ v = 3 => DOMAIN h = 1 .. 10
        /\ v >= 4 => DOMAIN h = 1 .. 11 /\ h[11] = f["boot_signature"].size
    BY <1>1, <1>5, OriginalLaterCells DEF f
  <2>2. v >= 4 => B!ReadU32(h, 11) = f["boot_signature"].size
    BY <2>1 DEF B!ReadU32, B!ReadCell
  <2> HIDE DEF h
  <2>3. /\ i.header_version = v /\ i.page_size = BOOT_IMAGE_HEADER_V3_PAGESIZE
        /\ i.kernel_size = f["kernel"].size /\ i.ramdisk_size = f["ramdisk"].size
        /\ i.second_size = 0 /\ i.recovery_dtbo_size = 0 /\ i.dtb_size = 0
        /\ i.boot_signature_size = f["boot_signature"].size
        /\ i.os_version = B!FormatOsVersion(d.os) /\ i.os_patch_level = B!FormatOsPatchLevel(d.os)
        /\ i.cmdline = d.cmdline /\ i.extra_cmdline = <<>> /\ i.product_name = <<>>
    BY <1>1, <1>2, <1>5, <2>1, <2>2 DEF BootReading
  <2> HIDE DEF i
  <2>4. Describes(i, f)
    BY <1>1, <1>2, <1>4, <1>5, <2>3 DEF Describes
  <2>5. Texts(i)
    BY <1>3, <2>3 DEF Texts
  <2> QED  BY <1>1, <1>5, <2>3, <2>4, <2>5 DEF i, h, f
<1>6. CASE v < 3
  <2>1. v \in 0 .. 2
    BY <1>1, <1>6
  <2>2. /\ h[1] = f["kernel"].size /\ h[2] = d.address /\ h[3] = f["ramdisk"].size
        /\ h[4] = d.address /\ h[5] = f["second"].size /\ h[6] = d.address
        /\ h[7] = d.address /\ h[8] = d.page /\ h[9] = v /\ h[10] = d.os
        /\ h[11] = d.name /\ h[12] = d.cmdline /\ h[14] = d.extra_cmdline
    BY <2>1, OriginalLegacyCells DEF f
  <2>3. v > 0 => /\ h[15] = f["recovery_dtbo"].size /\ h[16] = OriginalDtbo(d) /\ h[17] = 0
                 /\ {15, 16, 17} \subseteq DOMAIN h
    BY <2>1, OriginalLegacyCells DEF f
  <2>4. v = 2 => /\ h[19] = f["dtb"].size /\ h[20] = d.dtb_address % U32
                 /\ h[21] = d.dtb_address \div U32 /\ {19, 20, 21} \subseteq DOMAIN h
    BY <2>1, OriginalLegacyCells DEF f
  <2> HIDE DEF h
  <2> DEFINE offset == d.page * FirstPage(f, d.page)["recovery_dtbo"]
  <2>5. v > 0 => /\ B!ReadU32(h, 15) = f["recovery_dtbo"].size
                 /\ f["recovery_dtbo"].size > 0 => B!ReadU64(h, 16) = offset
    <3>1. v > 0 => B!ReadU32(h, 15) = f["recovery_dtbo"].size
      BY <2>3 DEF B!ReadU32, B!ReadCell
    <3> SUFFICES ASSUME v > 0, f["recovery_dtbo"].size > 0 PROVE B!ReadU64(h, 16) = offset
      BY <3>1
    <3>2. OriginalDtbo(d) = offset
      BY DEF OriginalDtbo, f
    <3>3. "recovery_dtbo" \in B!Names
      BY DEF B!Names
    <3>4. offset \in 0 .. U32 - 1
      BY <1>1, <3>3, FirstPages
    <3> HIDE DEF offset
    <3>5. B!ReadU32(h, 16) = offset /\ B!ReadU32(h, 17) = 0
      BY <2>3, <3>2 DEF B!ReadU32, B!ReadCell
    <3>6. U32 * 0 = 0 /\ offset \in Nat
      BY <3>4, SizeBounds
    <3> QED  BY <3>5, <3>6 DEF B!ReadU64
  <2>6. v = 2 => B!ReadU32(h, 19) = f["dtb"].size /\ B!ReadU64(h, 20) = d.dtb_address
    <3> SUFFICES ASSUME v = 2
                 PROVE  B!ReadU32(h, 19) = f["dtb"].size /\ B!ReadU64(h, 20) = d.dtb_address
      OBVIOUS
    <3>1. /\ B!ReadU32(h, 19) = f["dtb"].size /\ B!ReadU32(h, 20) = d.dtb_address % U32
          /\ B!ReadU32(h, 21) = d.dtb_address \div U32
      BY <2>4 DEF B!ReadU32, B!ReadCell
    <3>2. U32 \in Nat \ {0}
      BY SizeBounds
    <3>3. d.dtb_address = U32 * (d.dtb_address \div U32) + (d.dtb_address % U32)
          /\ d.dtb_address \div U32 \in Nat /\ d.dtb_address % U32 \in Nat
      <4>1. \A n \in Nat : n % U32 \in 0 .. U32 - 1 => n % U32 \in Nat
        BY <3>2
      <4>2. /\ d.dtb_address = U32 * (d.dtb_address \div U32) + (d.dtb_address % U32)
            /\ d.dtb_address \div U32 \in Nat /\ d.dtb_address % U32 \in 0 .. U32 - 1
        BY <1>1, <3>2, DivMod
      <4> QED  BY <1>1, <4>1, <4>2
    <3>4. B!ReadU64(h, 20) = (d.dtb_address % U32) + U32 * (d.dtb_address \div U32)
      BY <3>1 DEF B!ReadU64
    <3> DEFINE q == d.dtb_address \div U32
               r == d.dtb_address % U32
    <3> HIDE DEF q, r
    <3>5. r + U32 * q = U32 * q + r
      BY <3>2, <3>3 DEF q, r
    <3> QED  BY <3>1, <3>3, <3>4, <3>5 DEF q, r
  <2>7. /\ i.header_version = v /\ i.page_size = d.page
        /\ i.kernel_size = f["kernel"].size /\ i.ramdisk_size = f["ramdisk"].size
        /\ i.second_size = f["second"].size /\ i.boot_signature_size = 0
        /\ i.os_version = B!FormatOsVersion(d.os) /\ i.os_patch_level = B!FormatOsPatchLevel(d.os)
        /\ i.kernel_load_address = d.address /\ i.ramdisk_load_address = d.address
        /\ i.second_load_address = d.address /\ i.tags_load_address = d.address
        /\ i.product_name = d.name /\ i.cmdline = d.cmdline /\ i.extra_cmdline = d.extra_cmdline
    BY <2>1, <2>2 DEF BootReading
  <2>8. /\ i.recovery_dtbo_size = f["recovery_dtbo"].size /\ i.dtb_size = f["dtb"].size
        /\ f["recovery_dtbo"].size > 0 => i.recovery_dtbo_offset = offset
        /\ v = 2 => i.dtb_load_address = d.dtb_address
    BY <1>2, <2>1, <2>2, <2>5, <2>6 DEF BootReading
  <2> HIDE DEF i
  <2>9. Describes(i, f)
    <3>1. f["dtb"].size > 0 => i.dtb_load_address \in Nat
      BY <1>1, <1>2, <2>8
    <3>2. f["boot_signature"].size = 0
      BY <1>2, <2>1
    <3> QED  BY <1>1, <2>7, <2>8, <3>1, <3>2 DEF Describes, offset
  <2>10. Texts(i)
    BY <1>3, <2>7 DEF Texts
  <2> QED  BY <2>1, <2>7, <2>8, <2>9, <2>10 DEF i, h, f
<1> QED  BY <1>1, <1>5, <1>6

\* Its body holds the six sections.
LEMMA OriginalHolds ==
    ASSUME NEW d, IsBootImage(d),
           NEW p, p = IF d.version >= 3 THEN BOOT_IMAGE_HEADER_V3_PAGESIZE ELSE d.page
    PROVE  Holds(BootOriginal(d), p, d.files)
<1> DEFINE f == d.files
           place == FirstPage(f, p)
           P(n) == Pages(f[n].size, p)
           o == BootOriginal(d)
           end == place["dtb"] + P("dtb") + P("boot_signature")
<1>1. f \in BootFiles /\ d.version \in Nat /\ p \in 1 .. MaxSize /\ p \in Nat
  BY OriginalFiles, SizeBounds
<1>2. o.parts = UNION {B!Chunk(p * place[n], f[n]) : n \in B!Names} /\ o.end = p * end
  BY DEF BootOriginal
<1>3. B!Names = {"kernel", "ramdisk", "second", "recovery_dtbo", "dtb", "boot_signature"}
  BY DEF B!Names
<1> HIDE DEF o, f
<1>4. \A n \in B!Names : P(n) \in Nat /\ f[n].size \in Nat /\ f[n].size <= p * P(n)
  <2>1. \A n \in B!Names : f[n].size \in 0 .. MaxSize /\ P(n) \in Nat /\ p * P(n) \in f[n].size .. 2 * MaxSize - 1
    BY <1>1, SectionPages
  <2> QED  BY <2>1, SizeBounds
<1>5. /\ place["kernel"] = 1
      /\ place["ramdisk"] = 1 + P("kernel")
      /\ place["second"] = 1 + P("kernel") + P("ramdisk")
      /\ place["boot_signature"] = 1 + P("kernel") + P("ramdisk")
      /\ place["recovery_dtbo"] = 1 + P("kernel") + P("ramdisk") + P("second")
      /\ place["dtb"] = 1 + P("kernel") + P("ramdisk") + P("second") + P("recovery_dtbo")
  BY <1>1, FirstPages
<1>6. /\ P("kernel") \in Nat /\ P("ramdisk") \in Nat /\ P("second") \in Nat
      /\ P("recovery_dtbo") \in Nat /\ P("dtb") \in Nat /\ P("boot_signature") \in Nat
  BY <1>3, <1>4
<1> HIDE DEF place, P
<1>7. ASSUME NEW n \in B!Names PROVE p * place[n] + f[n].size <= p * end
  <2>1. place[n] \in Nat /\ end \in Nat /\ place[n] + P(n) <= end /\ P(n) \in Nat
    BY <1>3, <1>5, <1>6
  <2> HIDE DEF end
  <2>2. p * (place[n] + P(n)) <= p * end
    BY <1>1, <2>1
  <2>3. p * (place[n] + P(n)) = p * place[n] + p * P(n)
    BY <1>1, <2>1
  <2>4. /\ f[n].size \in Nat /\ f[n].size <= p * P(n) /\ p * P(n) \in Nat /\ p * place[n] \in Nat
        /\ p * end \in Nat
    BY <1>1, <1>4, <2>1
  <2> QED  BY <2>2, <2>3, <2>4
<1>8. f["boot_signature"].size > 0 => \A n \in {"second", "recovery_dtbo", "dtb"} : f[n].size = 0
  <2>1. B!Absent.size = 0
    BY DEF B!Absent
  <2> QED  BY <1>1, <2>1 DEF IsBootImage, f
<1> QED  BY <1>2, <1>7, <1>8 DEF Holds, place, o, f

\* An image from elsewhere can be extracted, section by section.
LEMMA OriginalIsSound ==
    ASSUME NEW d, IsBootImage(d)
    PROVE  BootSound(BootOriginal(d), d.files)
<1> DEFINE o == BootOriginal(d)
           i == BootReading(o.header)
<1>1. /\ Describes(i, d.files) /\ Texts(i) /\ i.header_version = d.version
      /\ i.page_size = IF d.version >= 3 THEN BOOT_IMAGE_HEADER_V3_PAGESIZE ELSE d.page
  BY OriginalReads
<1>2. o.header[9] = i.header_version
  BY DEF BootReading
<1>3. Holds(o, i.page_size, d.files)
  BY <1>1, OriginalHolds
<1> HIDE DEF o, i
<1>4. BootSound(o, d.files)
  BY <1>1, <1>2, <1>3, OriginalFiles DEF BootSound, i
<1> QED  BY <1>4 DEF o
\* Whether its ramdisk becomes a directory.
HasDirectory(d) == d.files["ramdisk"].is.format # B!FORMAT_OTHER

\* The arguments that a build of such an image makes when nobody edits it.
LEMMA OriginalArgs ==
    ASSUME NEW d, IsBootImage(d)
    PROVE  LET u == B!Unpacked(BootOriginal(d))
               a == B!Args(u.info, u.files)
               f == d.files
           IN  /\ a.kernel = f["kernel"] /\ a.second = f["second"]
               /\ a.recovery_dtbo = f["recovery_dtbo"] /\ a.dtb = f["dtb"]
               /\ a.ramdisk \in HeldFiles /\ (HasDirectory(d) \/ a.ramdisk = f["ramdisk"])
               /\ a.header_version = d.version
               /\ a.page_size = IF d.version >= 3 THEN BOOT_IMAGE_HEADER_V3_PAGESIZE ELSE d.page
               /\ a.os = [version |-> d.os.version,
                          patch |-> B!ParseOSPatchLevel(B!FormatOsPatchLevel(d.os))]
               /\ d.version >= 3 => a.cmdline = d.cmdline
               /\ d.version < 3 =>
                    /\ f["kernel"].size > 0 => a.kernel_offset = d.address
                    /\ f["ramdisk"].size > 0 => a.ramdisk_offset = d.address
                    /\ f["second"].size > 0 => a.second_offset = d.address
                    /\ a.tags_offset = d.address /\ a.board = d.name
                    /\ a.cmdline = IF d.extra_cmdline = <<>> THEN d.cmdline
                                   ELSE d.cmdline \o B!Space \o d.extra_cmdline
               /\ d.version = 2 /\ f["dtb"].size > 0 => a.dtb_offset = d.dtb_address % U32
<1> DEFINE o == BootOriginal(d)
           i == B!Unpacked(o).info
           j == BootReading(o.header)
           f == d.files
           a == B!Args(i, FilesOf(f))
<1>1. BootSound(o, f)
  BY OriginalIsSound
<1>2. /\ SameInfo(i, j) /\ i.ramdisk_compression = f["ramdisk"].is.format
      /\ B!Unpacked(o).files = FilesOf(f) /\ f \in BootFiles
  BY <1>1, BootExtracts DEF BootSound
<1>3. /\ Describes(j, f)
      /\ j.header_version = d.version
      /\ j.page_size = IF d.version >= 3 THEN BOOT_IMAGE_HEADER_V3_PAGESIZE ELSE d.page
      /\ j.os_version = B!FormatOsVersion(d.os) /\ j.os_patch_level = B!FormatOsPatchLevel(d.os)
      /\ j.cmdline = d.cmdline
      /\ d.version >= 3 => j.extra_cmdline = <<>>
      /\ d.version < 3 =>
           /\ j.kernel_load_address = d.address /\ j.ramdisk_load_address = d.address
           /\ j.second_load_address = d.address /\ j.tags_load_address = d.address
           /\ j.product_name = d.name /\ j.extra_cmdline = d.extra_cmdline
      /\ d.version = 2 => j.dtb_load_address = d.dtb_address
  BY OriginalReads
<1> HIDE DEF o, i, j, f
<1>4. /\ Describes(i, f)
      /\ i.header_version = d.version
      /\ i.page_size = IF d.version >= 3 THEN BOOT_IMAGE_HEADER_V3_PAGESIZE ELSE d.page
      /\ i.os_version = B!FormatOsVersion(d.os) /\ i.os_patch_level = B!FormatOsPatchLevel(d.os)
      /\ i.cmdline = d.cmdline
      /\ d.version >= 3 => i.extra_cmdline = <<>>
      /\ d.version < 3 =>
           /\ i.kernel_load_address = d.address /\ i.ramdisk_load_address = d.address
           /\ i.second_load_address = d.address /\ i.tags_load_address = d.address
           /\ i.product_name = d.name /\ i.extra_cmdline = d.extra_cmdline
      /\ d.version = 2 => i.dtb_load_address = d.dtb_address
  BY <1>2, <1>3 DEF SameInfo, Describes
<1>5. /\ a.kernel = f["kernel"] /\ a.second = f["second"]
      /\ a.recovery_dtbo = f["recovery_dtbo"] /\ a.dtb = f["dtb"]
      /\ a.ramdisk \in HeldFiles /\ (HasDirectory(d) \/ a.ramdisk = f["ramdisk"])
  <2>1. HasDirectory(d) \/ PackedHere(f["ramdisk"])
    BY DEF HasDirectory, PackedHere, f
  <2> QED  BY <1>2, <1>4, <2>1, SectionsUnchanged
<1>6. /\ a.header_version = i.header_version /\ a.page_size = i.page_size
      /\ a.board = i.product_name /\ a.tags_offset = i.tags_load_address
      /\ a.cmdline = IF i.extra_cmdline = <<>> THEN i.cmdline
                     ELSE i.cmdline \o B!Space \o i.extra_cmdline
      /\ a.os = [version |-> B!ParseOSVersion(i.os_version),
                 patch |-> B!ParseOSPatchLevel(i.os_patch_level)]
      /\ a.dtb_offset = IF i.dtb_size > 0 THEN B!Low(i.dtb_load_address) ELSE B!DTB_OFFSET
      /\ a.kernel_offset = IF i.kernel_size > 0 THEN i.kernel_load_address ELSE B!KERNEL_OFFSET
      /\ a.ramdisk_offset = IF i.ramdisk_size > 0 THEN i.ramdisk_load_address ELSE 0
      /\ a.second_offset = IF i.second_size > 0 THEN i.second_load_address ELSE 0
  BY DEF B!Args
<1> HIDE DEF a
<1>7. /\ i.kernel_size = f["kernel"].size /\ i.ramdisk_size = f["ramdisk"].size
      /\ i.second_size = f["second"].size /\ i.dtb_size = f["dtb"].size
  BY <1>4 DEF Describes
<1>8. a.os = [version |-> d.os.version, patch |-> B!ParseOSPatchLevel(B!FormatOsPatchLevel(d.os))]
  BY <1>4, <1>6, OriginalOs
<1>9. d.version < 3 => /\ f["kernel"].size > 0 => a.kernel_offset = d.address
                       /\ f["ramdisk"].size > 0 => a.ramdisk_offset = d.address
                       /\ f["second"].size > 0 => a.second_offset = d.address
                       /\ a.tags_offset = d.address /\ a.board = d.name
                       /\ a.cmdline = IF d.extra_cmdline = <<>> THEN d.cmdline
                                      ELSE d.cmdline \o B!Space \o d.extra_cmdline
  BY <1>4, <1>6, <1>7
<1>10. d.version = 2 /\ f["dtb"].size > 0 => a.dtb_offset = d.dtb_address % U32
  BY <1>4, <1>6, <1>7 DEF B!Low
<1>11. d.version >= 3 => a.cmdline = d.cmdline
  BY <1>4, <1>6
<1>12. a.header_version = d.version
       /\ a.page_size = IF d.version >= 3 THEN BOOT_IMAGE_HEADER_V3_PAGESIZE ELSE d.page
  BY <1>4, <1>6
<1>13. B!Args(B!Unpacked(o).info, B!Unpacked(o).files) = a
  BY <1>2 DEF a, i
<1> QED  BY <1>5, <1>8, <1>9, <1>10, <1>11, <1>12, <1>13 DEF f, o

\* A build of such an image writes its header again, from version 3 ...
LEMMA LaterHeaderKept ==
    ASSUME NEW d, IsBootImage(d), d.version >= 3
    PROVE  LET h   == BootOriginal(d).header
               new == Rebuilt(BootOriginal(d)).header
           IN  /\ h[9] >= 3
               /\ \A k \in DOMAIN h \ Unkept(h, HasDirectory(d)) : B!ReadCell(new, k, 0) = h[k]
<1> DEFINE o == BootOriginal(d)
           h == o.header
           a == B!Args(B!Unpacked(o).info, B!Unpacked(o).files)
           new == Rebuilt(o).header
           f == d.files
           dir == HasDirectory(d)
<1>1. d.version \in Nat
  BY OriginalFiles
<1>2. /\ a.kernel = f["kernel"] /\ (dir \/ a.ramdisk = f["ramdisk"]) /\ a.header_version = d.version
      /\ a.os = [version |-> d.os.version, patch |-> B!ParseOSPatchLevel(B!FormatOsPatchLevel(d.os))]
      /\ a.cmdline = d.cmdline
  BY <1>1, OriginalArgs
<1>3. /\ h[1] = f["kernel"].size /\ h[2] = f["ramdisk"].size /\ h[3] = d.os
      /\ h[4] = IF d.version > 3 THEN 1584 ELSE 1580
      /\ h[5] = 0 /\ h[6] = 0 /\ h[7] = 0 /\ h[8] = 0 /\ h[9] = d.version
      /\ h[10] = d.cmdline
      /\ d.version = 3 => DOMAIN h = 1 .. 10
      /\ d.version >= 4 => DOMAIN h = 1 .. 11
  BY <1>1, OriginalLaterCells
<1>4. new = B!HeaderV3Plus(a)
  BY <1>2 DEF Rebuilt, B!WriteBootImage
<1> HIDE DEF h, a, new, f, dir
<1>5. /\ new[1] = a.kernel.size /\ new[2] = a.ramdisk.size /\ new[3] = a.os
      /\ new[4] = IF a.header_version > 3 THEN 1584 ELSE 1580
      /\ new[5] = 0 /\ new[6] = 0 /\ new[7] = 0 /\ new[8] = 0 /\ new[9] = a.header_version
      /\ new[10] = B!Field(a.cmdline, BOOT_ARGS_SIZE + BOOT_EXTRA_ARGS_SIZE)
      /\ a.header_version = 3 => DOMAIN new = 1 .. 10
      /\ a.header_version >= 4 => DOMAIN new = 1 .. 11
  BY <1>1, <1>2, <1>4, LaterCells DEF B!BOOT_IMAGE_HEADER_V4_SIZE, B!BOOT_IMAGE_HEADER_V3_SIZE
<1>6. B!Field(d.cmdline, BOOT_ARGS_SIZE + BOOT_EXTRA_ARGS_SIZE) = d.cmdline
  <2>1. BOOT_ARGS_SIZE + BOOT_EXTRA_ARGS_SIZE \in Nat
    BY TextBounds
  <2> QED  BY <2>1, FieldIs, OriginalTexts
<1>7. B!ParseOSPatchLevel(B!FormatOsPatchLevel(d.os)) = d.os.patch => a.os = d.os
  BY <1>2, OriginalOs
<1>8. DOMAIN h \ Unkept(h, dir) \subseteq {1, 2, 3, 4, 5, 6, 7, 8, 9, 10}
  <2>1. h[9] >= 3
    BY <1>3
  <2>2. 11 \in Unkept(h, dir)
    BY <2>1 DEF Unkept
  <2>3. \A k \in DOMAIN h : k \in {1, 2, 3, 4, 5, 6, 7, 8, 9, 10, 11}
    BY <1>1, <1>3
  <2> QED  BY <2>2, <2>3
<1>9. 3 \notin Unkept(h, dir) => new[3] = h[3]
  <2>1. h[9] >= 3
    BY <1>3
  <2>2. B!ParseOSPatchLevel(B!FormatOsPatchLevel(h[3])) # h[3].patch => 3 \in Unkept(h, dir)
    BY <2>1 DEF Unkept
  <2> QED  BY <1>3, <1>5, <1>7, <2>2
<1>10. \A k \in {1, 4, 5, 6, 7, 8, 9, 10} : new[k] = h[k]
  BY <1>2, <1>3, <1>5, <1>6
<1>13. 2 \notin Unkept(h, dir) => new[2] = h[2]
  <2>1. h[9] >= 3
    BY <1>3
  <2>2. dir => 2 \in Unkept(h, dir)
    BY <2>1 DEF Unkept
  <2> QED  BY <1>2, <1>3, <1>5, <2>2
<1>11. \A k \in {1, 2, 3, 4, 5, 6, 7, 8, 9, 10} : k \in DOMAIN new
  BY <1>1, <1>2, <1>5
<1>12. ASSUME NEW k \in DOMAIN h \ Unkept(h, dir) PROVE B!ReadCell(new, k, 0) = h[k]
  BY <1>8, <1>9, <1>10, <1>11, <1>13 DEF B!ReadCell
<1> QED  BY <1>3, <1>12 DEF h, new, dir
\* The two fields of a command line are filled again as they were, when the first
\* was full but for the NUL or nothing followed it.
LEMMA FieldsOfCommandLine ==
    ASSUME NEW s \in Seq(Nat), NEW t \in Seq(Nat),
           \/ Len(s) = BOOT_ARGS_SIZE - 1
           \/ Len(s) < BOOT_ARGS_SIZE - 1 /\ t = <<>>
    PROVE  LET c == IF t = <<>> THEN s ELSE s \o B!Space \o t
           IN  B!FirstArgs(c) = s /\ B!ExtraArgs(c) = t
<1> DEFINE m == BOOT_ARGS_SIZE - 1
<1>1. m \in Nat /\ BOOT_ARGS_SIZE = m + 1 /\ BOOT_ARGS_SIZE \in Nat
  BY TextBounds
<1>2. Len(s) \in Nat /\ Len(t) \in Nat /\ Len(s) <= m /\ (t # <<>> => Len(s) = m)
  BY TextBounds
<1> HIDE DEF m
<1>3. CASE t = <<>>
  <2>1. B!FirstArgs(s) = s
    BY <1>1, <1>2, FieldIs DEF B!FirstArgs, m
  <2>2. B!ExtraArgs(s) = <<>>
    <3>1. ~ (Len(s) > BOOT_ARGS_SIZE)
      BY <1>1, <1>2
    <3> QED  BY <3>1 DEF B!ExtraArgs
  <2> QED  BY <1>3, <2>1, <2>2
<1>4. CASE t # <<>>
  <2> DEFINE fs == s \o B!Space
             c  == fs \o t
  <2>1. B!Space \in Seq(Nat) /\ Len(B!Space) = 1 /\ Len(s) = m
    BY <1>2, <1>4 DEF B!Space
  <2>2. fs \in Seq(Nat) /\ B!Space \o t \in Seq(Nat)
    BY <2>1
  <2>3. c = s \o (B!Space \o t)
    BY <2>1, PiecesOfThree
  <2>4. SubSeq(c, 1, Len(s)) = s
    <3> HIDE DEF c
    <3> QED  BY <2>2, <2>3, Pieces
  <2>5. Len(fs) = Len(s) + Len(B!Space)
    BY <2>1, Pieces
  <2>6. SubSeq(c, Len(fs) + 1, Len(fs) + Len(t)) = t /\ Len(c) = Len(fs) + Len(t) /\ c \in Seq(Nat)
    <3> HIDE DEF fs
    <3> QED  BY <2>2, Pieces
  <2> HIDE DEF c, fs
  <2>7. Len(fs) = m + 1 /\ Len(c) = (m + 1) + Len(t)
    BY <1>1, <2>1, <2>5, <2>6
  <2>8. Len(t) > 0
    BY <1>4, <1>2
  <2>9. B!FirstArgs(c) = s
    <3>1. ~ (Len(c) < m)
      BY <1>1, <1>2, <2>7
    <3>2. B!Field(c, m) = SubSeq(c, 1, m)
      BY <3>1 DEF B!Field
    <3>3. B!FirstArgs(c) = B!Field(c, m)
      BY DEF B!FirstArgs, m
    <3> QED  BY <2>1, <2>4, <3>2, <3>3
  <2>10. B!ExtraArgs(c) = t
    <3>1. Len(c) > BOOT_ARGS_SIZE
      BY <1>1, <1>2, <2>7, <2>8
    <3>2. B!ExtraArgs(c) = SubSeq(c, BOOT_ARGS_SIZE + 1, Len(c))
      BY <3>1 DEF B!ExtraArgs
    <3>3. Len(fs) + 1 = BOOT_ARGS_SIZE + 1 /\ Len(fs) + Len(t) = Len(c)
      BY <1>1, <2>6, <2>7
    <3> QED  BY <2>6, <3>2, <3>3
  <2> QED  BY <1>4, <2>9, <2>10 DEF c, fs
<1> QED  BY <1>3, <1>4

\* What Unkept says of a header up to version 2.
LEMMA UnkeptIs ==
    ASSUME NEW h, h[9] \in 0 .. 2, NEW dir \in BOOLEAN
    PROVE  /\ h[1] = 0 => 2 \in Unkept(h, dir)
           /\ h[3] = 0 => 4 \in Unkept(h, dir)
           /\ h[5] = 0 => 6 \in Unkept(h, dir)
           /\ 21 \in Unkept(h, dir)
           /\ B!ParseOSPatchLevel(B!FormatOsPatchLevel(h[10])) # h[10].patch => 10 \in Unkept(h, dir)
           /\ Len(h[11]) = BOOT_NAME_SIZE => 11 \in Unkept(h, dir)
           /\ (\/ Len(h[12]) = BOOT_ARGS_SIZE - 1
               \/ Len(h[12]) < BOOT_ARGS_SIZE - 1 /\ h[14] = <<>>)
              \/ {12, 14} \subseteq Unkept(h, dir)
           /\ dir => {3, 13, 16} \subseteq Unkept(h, dir)
<1> DEFINE month == B!ParseOSPatchLevel(B!FormatOsPatchLevel(h[10])) = h[10].patch
           split == \/ Len(h[12]) = BOOT_ARGS_SIZE - 1
                    \/ Len(h[12]) < BOOT_ARGS_SIZE - 1 /\ h[14] = <<>>
           gone == {k \in {2, 4, 6} : h[k - 1] = 0}
<1>1. Unkept(h, dir) = gone \cup {21} \cup (IF month THEN {} ELSE {10})
                  \cup (IF Len(h[11]) = BOOT_NAME_SIZE THEN {11} ELSE {})
                  \cup (IF split THEN {} ELSE {12, 14})
                  \cup (IF dir THEN {3, 13, 16} ELSE {})
  BY DEF Unkept
<1>2. /\ h[1] = 0 => 2 \in gone
      /\ h[3] = 0 => 4 \in gone
      /\ h[5] = 0 => 6 \in gone
  BY 2 - 1 = 1, 4 - 1 = 3, 6 - 1 = 5
<1> HIDE DEF month, split, gone
<1>3. /\ ~ month => 10 \in Unkept(h, dir)
      /\ split \/ {12, 14} \subseteq Unkept(h, dir)
      /\ 21 \in Unkept(h, dir) /\ gone \subseteq Unkept(h, dir)
      /\ Len(h[11]) = BOOT_NAME_SIZE => 11 \in Unkept(h, dir)
      /\ dir => {3, 13, 16} \subseteq Unkept(h, dir)
  BY <1>1
<1> QED  BY <1>2, <1>3 DEF month, split

\* ... and up to version 2.
LEMMA LegacyHeaderKept ==
    ASSUME NEW d, IsBootImage(d), d.version < 3,
           LET u == B!Unpacked(BootOriginal(d)) IN B!Writable(B!Args(u.info, u.files))
    PROVE  LET h   == BootOriginal(d).header
               new == Rebuilt(BootOriginal(d)).header
           IN  /\ \A k \in DOMAIN h \ Unkept(h, HasDirectory(d)) : B!ReadCell(new, k, 0) = h[k]
               /\ Len(CommandLine(h)) < BOOT_ARGS_SIZE => CommandLine(new) = CommandLine(h)
<1> DEFINE o == BootOriginal(d)
           h == o.header
           a == B!Args(B!Unpacked(o).info, B!Unpacked(o).files)
           new == Rebuilt(o).header
           f == d.files
           v == d.version
           p == d.page
           dir == HasDirectory(d)
<1>1. f \in BootFiles /\ v \in 0 .. 2 /\ p \in 1 .. MaxSize /\ d.dtb_address \in Nat
  BY OriginalFiles
<1>2. /\ a.kernel = f["kernel"] /\ a.second = f["second"]
      /\ a.ramdisk \in HeldFiles /\ (dir \/ a.ramdisk = f["ramdisk"])
      /\ a.recovery_dtbo = f["recovery_dtbo"] /\ a.dtb = f["dtb"]
      /\ a.header_version = v /\ a.page_size = p
      /\ a.os = [version |-> d.os.version, patch |-> B!ParseOSPatchLevel(B!FormatOsPatchLevel(d.os))]
      /\ f["kernel"].size > 0 => a.kernel_offset = d.address
      /\ f["ramdisk"].size > 0 => a.ramdisk_offset = d.address
      /\ f["second"].size > 0 => a.second_offset = d.address
      /\ a.tags_offset = d.address /\ a.board = d.name
      /\ a.cmdline = IF d.extra_cmdline = <<>> THEN d.cmdline
                     ELSE d.cmdline \o B!Space \o d.extra_cmdline
      /\ v = 2 /\ f["dtb"].size > 0 => a.dtb_offset = d.dtb_address % U32
  BY <1>1, OriginalArgs
<1>3. /\ h[1] = f["kernel"].size /\ h[2] = d.address /\ h[3] = f["ramdisk"].size
      /\ h[4] = d.address /\ h[5] = f["second"].size /\ h[6] = d.address
      /\ h[7] = d.address /\ h[8] = p /\ h[9] = v /\ h[10] = d.os
      /\ h[11] = d.name /\ h[12] = d.cmdline /\ h[13] = OriginalDigest(d)
      /\ h[14] = d.extra_cmdline
      /\ v = 0 => DOMAIN h = 1 .. 14
      /\ v = 1 => DOMAIN h = 1 .. 18
      /\ v = 2 => DOMAIN h = 1 .. 21
  BY <1>1, OriginalLegacyCells
<1>4. /\ v > 0 => /\ h[15] = f["recovery_dtbo"].size /\ h[16] = OriginalDtbo(d) /\ h[17] = 0
                  /\ h[18] = IF v = 1 THEN 1648 ELSE 1660
      /\ v = 2 => h[19] = f["dtb"].size /\ h[20] = d.dtb_address % U32
  BY <1>1, OriginalLegacyCells
<1>5. new = B!LegacyHeader(a)
  BY <1>1, <1>2 DEF Rebuilt, B!WriteBootImage
<1>6. v = 2 => f["dtb"].size > 0
  BY <1>2 DEF B!Writable
<1>7. dir \/ B!Digest(a) = OriginalDigest(d)
  BY <1>2 DEF B!Digest, OriginalDigest
<1>8. d.os = [version |-> d.os.version, patch |-> d.os.patch]
  BY OriginalOs
<1>23. dir \in BOOLEAN
  BY DEF HasDirectory
<1> HIDE DEF h, a, new, f, v, p, dir
<1>9. /\ new[1] = a.kernel.size /\ new[2] = a.kernel_offset /\ new[3] = a.ramdisk.size
      /\ new[4] = a.ramdisk_offset /\ new[5] = a.second.size /\ new[6] = a.second_offset
      /\ new[7] = a.tags_offset /\ new[8] = a.page_size /\ new[9] = a.header_version
      /\ new[10] = a.os /\ new[11] = B!Field(a.board, BOOT_NAME_SIZE - 1)
      /\ new[12] = B!FirstArgs(a.cmdline) /\ new[13] = B!Digest(a)
      /\ new[14] = B!ExtraArgs(a.cmdline)
      /\ v = 0 => DOMAIN new = 1 .. 14
      /\ v = 1 => DOMAIN new = 1 .. 18
      /\ v = 2 => DOMAIN new = 1 .. 20
  BY <1>1, <1>2, <1>5, LegacyCells
<1>10. /\ v > 0 => /\ new[15] = a.recovery_dtbo.size /\ new[16] = B!Low(B!DtboOffset(a))
                   /\ new[17] = B!High(B!DtboOffset(a)) /\ new[18] = B!BOOT_IMAGE_HEADER_SIZE[v]
       /\ v = 2 => new[19] = a.dtb.size /\ new[20] = a.dtb_offset
  BY <1>1, <1>2, <1>5, LegacyCells
<1>11. v > 0 => new[18] = h[18]
  <2>1. B!BOOT_IMAGE_HEADER_SIZE[1] = 1648 /\ B!BOOT_IMAGE_HEADER_SIZE[2] = 1660
    BY DEF B!BOOT_IMAGE_HEADER_SIZE
  <2> QED  BY <1>1, <1>4, <1>10, <2>1
<1>12. v > 0 => (dir \/ new[16] = h[16]) /\ new[17] = h[17]
  <2> DEFINE g == [f EXCEPT !["ramdisk"] = a.ramdisk]
             place == FirstPage(g, p)
             P(m) == Pages(g[m].size, p)
             n == B!DtboOffset(a)
  <2>1. {"kernel", "ramdisk", "second", "recovery_dtbo"} \subseteq B!Names
    BY DEF B!Names
  <2>2. /\ g \in BootFiles /\ g["kernel"] = f["kernel"] /\ g["ramdisk"] = a.ramdisk
        /\ g["second"] = f["second"] /\ g["recovery_dtbo"] = f["recovery_dtbo"]
        /\ a.ramdisk = f["ramdisk"] => g = f
    BY <1>1, <1>2, <2>1 DEF BootFiles
  <2> HIDE DEF g
  <2>3. (dir \/ n = OriginalDtbo(d)) /\ n \in 0 .. U32 - 1
    <3>1. CASE f["recovery_dtbo"].size = 0
      <4>1. OriginalDtbo(d) = 0 /\ n = 0
        BY <1>2, <3>1 DEF OriginalDtbo, B!DtboOffset, f
      <4> QED  BY <4>1, SizeBounds
    <3>2. CASE f["recovery_dtbo"].size # 0
      <4>1. /\ B!GetNumberOfPages(a.kernel.size, p) = P("kernel")
            /\ B!GetNumberOfPages(a.ramdisk.size, p) = P("ramdisk")
            /\ B!GetNumberOfPages(a.second.size, p) = P("second")
        <5>1. \A m \in B!Names : B!GetNumberOfPages(g[m].size, p) = P(m)
          BY <1>1, <2>2, SectionPages
        <5>2. a.kernel = g["kernel"] /\ a.ramdisk = g["ramdisk"] /\ a.second = g["second"]
          BY <1>2, <2>2
        <5> QED  BY <2>1, <5>1, <5>2
      <4>2. /\ place["recovery_dtbo"] = 1 + P("kernel") + P("ramdisk") + P("second")
            /\ place["recovery_dtbo"] \in Nat /\ p * place["recovery_dtbo"] \in 0 .. U32 - 1
        BY <1>1, <2>1, <2>2, FirstPages
      <4>3. n = B!Word(p * B!Word(1 + P("kernel") + P("ramdisk") + P("second")))
        BY <1>2, <3>2, <4>1 DEF B!DtboOffset
      <4>4. g = f => OriginalDtbo(d) = p * place["recovery_dtbo"]
        BY <3>2 DEF OriginalDtbo, f, p
      <4> HIDE DEF place, P, n
      <4>5. n = p * place["recovery_dtbo"]
        BY <1>1, <4>2, <4>3, WordAt
      <4> QED  BY <1>2, <2>2, <4>2, <4>4, <4>5
    <3> QED  BY <3>1, <3>2
  <2> HIDE DEF n
  <2>4. n \in Nat /\ U32 \in Nat \ {0} /\ n \in 0 .. U32 - 1
    BY <2>3, SizeBounds
  <2>5. n \div U32 = 0 /\ n % U32 = n
    <3>1. PICK z \in Nat : z = 0
      OBVIOUS
    <3>2. n = U32 * z + n
      BY <2>4, <3>1
    <3>3. n \div U32 = z /\ n % U32 = n
      BY <2>4, <3>2, Unique
    <3> QED  BY <3>1, <3>3
  <2> QED  BY <1>4, <1>10, <2>3, <2>5 DEF B!Low, B!High, n
<1>13. v > 0 => new[15] = h[15]
  BY <1>2, <1>4, <1>10
<1>14. v = 2 => new[19] = h[19] /\ new[20] = h[20]
  BY <1>2, <1>4, <1>6, <1>10
<1>15. \A n \in B!Names : f[n].size \in Nat
  BY <1>1, SizeBounds DEF BootFiles, HeldFiles
<1>16. /\ 2 \notin Unkept(h, dir) => new[2] = h[2]
       /\ 4 \notin Unkept(h, dir) => new[4] = h[4]
       /\ 6 \notin Unkept(h, dir) => new[6] = h[6]
  <2>1. {"kernel", "ramdisk", "second"} \subseteq B!Names
    BY DEF B!Names
  <2>2. /\ f["kernel"].size = 0 => 2 \in Unkept(h, dir)
        /\ f["ramdisk"].size = 0 => 4 \in Unkept(h, dir)
        /\ f["second"].size = 0 => 6 \in Unkept(h, dir)
    BY <1>1, <1>3, <1>23, UnkeptIs
  <2>3. /\ f["kernel"].size # 0 => f["kernel"].size > 0
        /\ f["ramdisk"].size # 0 => f["ramdisk"].size > 0
        /\ f["second"].size # 0 => f["second"].size > 0
    BY <1>15, <2>1
  <2> QED  BY <1>2, <1>3, <1>9, <2>2, <2>3
<1>17. 10 \notin Unkept(h, dir) => new[10] = h[10]
  <2>1. B!ParseOSPatchLevel(B!FormatOsPatchLevel(d.os)) # d.os.patch => 10 \in Unkept(h, dir)
    BY <1>1, <1>3, <1>23, UnkeptIs
  <2> QED  BY <1>2, <1>3, <1>8, <1>9, <2>1
<1>18. 11 \notin Unkept(h, dir) => new[11] = h[11]
  <2>1. Len(d.name) = BOOT_NAME_SIZE => 11 \in Unkept(h, dir)
    BY <1>1, <1>3, <1>23, UnkeptIs
  <2>2. d.name \in Seq(Nat) /\ Len(d.name) <= BOOT_NAME_SIZE
    BY OriginalTexts
  <2>3. Len(d.name) # BOOT_NAME_SIZE => B!Field(d.name, BOOT_NAME_SIZE - 1) = d.name
    <3> SUFFICES ASSUME Len(d.name) # BOOT_NAME_SIZE PROVE B!Field(d.name, BOOT_NAME_SIZE - 1) = d.name
      OBVIOUS
    <3> DEFINE l == BOOT_NAME_SIZE - 1
    <3>1. l \in Nat /\ Len(d.name) <= l
      BY <2>2, TextBounds
    <3> HIDE DEF l
    <3>2. B!Field(d.name, l) = d.name
      BY <2>2, <3>1, FieldIs
    <3> QED  BY <3>2 DEF l
  <2> QED  BY <1>2, <1>3, <1>9, <2>1, <2>3
<1>19. d.cmdline \in Seq(Nat) /\ d.extra_cmdline \in Seq(Nat)
  BY OriginalTexts
<1>20. {12, 14} \subseteq Unkept(h, dir) \/ (new[12] = h[12] /\ new[14] = h[14])
  <2>1. \/ Len(d.cmdline) = BOOT_ARGS_SIZE - 1
        \/ Len(d.cmdline) < BOOT_ARGS_SIZE - 1 /\ d.extra_cmdline = <<>>
        \/ {12, 14} \subseteq Unkept(h, dir)
    BY <1>1, <1>3, <1>23, UnkeptIs
  <2>2. ({12, 14} \subseteq Unkept(h, dir)) \/
        (B!FirstArgs(a.cmdline) = d.cmdline /\ B!ExtraArgs(a.cmdline) = d.extra_cmdline)
    BY <1>2, <1>19, <2>1, FieldsOfCommandLine
  <2> QED  BY <1>3, <1>9, <2>2
<1>21. ASSUME NEW k \in DOMAIN h \ Unkept(h, dir) PROVE k \in DOMAIN new /\ new[k] = h[k]
  <2>1. k # 21
    BY <1>1, <1>3, <1>21, <1>23, UnkeptIs
  <2>2. \A x \in {1, 5, 7, 8, 9} : new[x] = h[x]
    BY <1>2, <1>3, <1>9
  <2>7. dir => {3, 13, 16} \subseteq Unkept(h, dir)
    BY <1>1, <1>3, <1>23, UnkeptIs
  <2>8. ~ dir => new[3] = h[3] /\ new[13] = h[13]
    BY <1>2, <1>3, <1>7, <1>9
  <2>3. CASE k \in {1, 2, 3, 4, 5, 6, 7, 8, 9, 10, 11, 12, 13, 14}
    <3>1. new[k] = h[k]
      BY <1>16, <1>17, <1>18, <1>20, <1>21, <1>23, <2>2, <2>3, <2>7, <2>8
    <3>2. k \in 1 .. 14 /\ k \in 1 .. 18 /\ k \in 1 .. 20
      BY <2>3
    <3> QED  BY <1>1, <1>9, <3>1, <3>2
  <2>4. CASE k \in {15, 16, 17, 18} /\ v > 0
    <3>1. k \in 1 .. 18 /\ k \in 1 .. 20
      BY <2>4
    <3> QED  BY <1>1, <1>9, <1>11, <1>12, <1>13, <1>21, <1>23, <2>4, <2>7, <3>1
  <2>5. CASE k \in {19, 20} /\ v = 2
    <3>1. k \in 1 .. 20
      BY <2>5
    <3> QED  BY <1>9, <1>14, <2>5, <3>1
  <2>6. k \in {1, 2, 3, 4, 5, 6, 7, 8, 9, 10, 11, 12, 13, 14}
        \/ (k \in {15, 16, 17, 18} /\ v > 0) \/ (k \in {19, 20} /\ v = 2)
    <3>1. k \in DOMAIN h
      BY <1>21
    <3>2. CASE v = 0
      <4>1. k \in 1 .. 14
        BY <1>3, <3>1, <3>2
      <4> QED  BY <4>1
    <3>3. CASE v = 1
      <4>1. k \in 1 .. 18
        BY <1>3, <3>1, <3>3
      <4> QED  BY <3>3, <4>1
    <3>4. CASE v = 2
      <4>1. k \in 1 .. 21
        BY <1>3, <3>1, <3>4
      <4> QED  BY <2>1, <3>4, <4>1
    <3> QED  BY <1>1, <3>2, <3>3, <3>4
  <2> QED  BY <2>3, <2>4, <2>5, <2>6
<1>22. Len(CommandLine(h)) < BOOT_ARGS_SIZE => CommandLine(new) = CommandLine(h)
  <2> SUFFICES ASSUME Len(CommandLine(h)) < BOOT_ARGS_SIZE PROVE CommandLine(new) = CommandLine(h)
    OBVIOUS
  <2> DEFINE c == a.cmdline
             m == BOOT_ARGS_SIZE - 1
  <2>1. c \in Seq(Nat) /\ CommandLine(h) = c
    <3>1. B!Space \in Seq(Nat)
      BY DEF B!Space
    <3>2. c \in Seq(Nat)
      BY <1>2, <1>19, <3>1
    <3>3. d.cmdline \o <<>> = d.cmdline
      BY <1>19
    <3>4. d.cmdline \o (B!Space \o d.extra_cmdline) = d.cmdline \o B!Space \o d.extra_cmdline
      <4> DEFINE s == d.cmdline
                 t == d.extra_cmdline
      <4>1. s \in Seq(Nat) /\ t \in Seq(Nat)
        BY <1>19
      <4> HIDE DEF s, t
      <4>2. (s \o B!Space) \o t = s \o (B!Space \o t)
        BY <3>1, <4>1, PiecesOfThree
      <4> QED  BY <4>2 DEF s, t
    <3> QED  BY <1>2, <1>3, <3>2, <3>3, <3>4 DEF CommandLine
  <2> HIDE DEF c, m
  <2>2. m \in Nat /\ Len(c) \in Nat /\ Len(c) <= m /\ ~ (Len(c) > BOOT_ARGS_SIZE)
    <3>1. Len(c) < BOOT_ARGS_SIZE /\ Len(c) \in Nat /\ BOOT_ARGS_SIZE \in Nat \ {0}
      BY <2>1, TextBounds
    <3> QED  BY <3>1 DEF m
  <2>3. B!FirstArgs(c) = c
    <3>1. B!Field(c, m) = c
      BY <2>1, <2>2, FieldIs
    <3> QED  BY <3>1 DEF B!FirstArgs, m
  <2>4. B!ExtraArgs(c) = <<>>
    BY <2>2 DEF B!ExtraArgs
  <2>5. CommandLine(new) = c \o <<>>
    BY <1>9, <2>3, <2>4 DEF CommandLine, c
  <2>6. c \o <<>> = c
    BY <2>1
  <2> QED  BY <2>1, <2>5, <2>6
<1> QED  BY <1>21, <1>22 DEF h, new, dir, B!ReadCell
-----------------------------------------------------------------------------
(* What a build puts into an image is what comes out of it.                *)

\* What SectionsKept says of the files that come out of an image.
Kept(files, p, built) ==
    \A n \in DOMAIN p \cup DOMAIN files :
        /\ n \in DOMAIN p /\ n \in DOMAIN files
        /\ SameContents(files[n], p[n]) \/ (n = "boot_signature" /\ built /\ files[n].size = 0)

\* A build of an edited boot project writes a sound image, out of which every
\* file of the project comes again, and which another build does not change.
LEMMA BootBuilds ==
    ASSUME NEW img, NEW f, BootSound(img, f),
           NEW files, Edits(files, B!Unpacked(img).files),
           LET a == B!Args(B!Unpacked(img).info, files) IN B!Writable(a) /\ B!Defined(a)
    PROVE  LET w == B!WriteBootImage(B!Args(B!Unpacked(img).info, files))
           IN  /\ \E g : BootSound(w, g)
               /\ Kept(B!Unpacked(w).files, files, TRUE)
               /\ Rebuilt(w) = w
<1> DEFINE i == B!Unpacked(img).info
           a == B!Args(i, files)
           w == B!WriteBootImage(a)
           g == FilesIn(a)
           read == BootReading(img.header)
<1>1. /\ B!Unpacked(img).files = FilesOf(f) /\ SameInfo(i, read)
      /\ i.ramdisk_compression = f["ramdisk"].is.format
  BY BootExtracts
<1>2. Edits(files, FilesOf(f))
  BY <1>1
<1>3. f \in BootFiles /\ Describes(read, f)
  BY DEF BootSound
<1>4. GoodArgs(a) /\ Canonical(a)
  BY <1>2, ArgsAreGood
<1>5. BootSound(w, g)
  BY <1>4, WrittenIsSound
<1>6. Rebuilt(w) = w
  BY <1>4, WrittenIsStable
<1>7. B!Unpacked(w).files = FilesOf(g) /\ g \in BootFiles
  BY <1>5, BootExtracts DEF BootSound
<1>8. Describes(i, f)
  <2> HIDE DEF i, read
  <2> QED  BY <1>1, <1>3 DEF Describes, SameInfo
<1>9. /\ \A n \in B!Names \ {"boot_signature"} :
            /\ f[n].size = 0 => g[n] = B!Absent
            /\ f[n].size # 0 => /\ g[n] = Built(files[n], f[n].is.format)
                                /\ g[n].is.format = f[n].is.format
                                /\ files[n].size \in 1 .. MaxSize
                                /\ files[n].is.name \in Labels /\ files[n].is.rev \in Revs
                                /\ files[n].is.format = FilesOf(f)[n].is.format
                                /\ files[n].is.format = B!DIRECTORY => files[n].is.rev # 2
                                /\ files[n].is.format # B!DIRECTORY => g[n] = files[n]
      /\ g["boot_signature"] = B!Absent
  BY <1>1, <1>2, <1>3, <1>8, SectionsPut
<1>10. DOMAIN files = B!Names /\ \A n \in B!Names : FilesOf(f)[n].size = 0 => files[n] = FilesOf(f)[n]
  BY <1>2, <1>3, FilesOfAre DEF Edits
<1> DEFINE u == FilesOf(g)
<1> HIDE DEF a, g, w, i
<1>11. /\ DOMAIN u = B!Names
       /\ \A n \in B!Names : n # "ramdisk" => u[n] = g[n]
       /\ u["ramdisk"] = B!UnpackRamdisk(g["ramdisk"], g["ramdisk"].is.format)
       /\ \A n \in B!Names : u[n].size = g[n].size
  BY <1>7, FilesOfAre
<1>12. B!Absent.size = 0
  BY DEF B!Absent
<1>13. ASSUME NEW n \in B!Names
       PROVE  SameContents(u[n], files[n]) \/ (n = "boot_signature" /\ u[n].size = 0)
  <2>1. CASE n = "boot_signature"
    BY <1>9, <1>11, <1>12, <2>1
  <2>2. CASE n # "boot_signature" /\ f[n].size = 0
    <3>1. u[n].size = 0 /\ files[n].size = 0
      BY <1>3, <1>9, <1>10, <1>11, <1>12, <2>2, FilesOfAre
    <3> QED  BY <3>1 DEF SameContents
  <2>3. CASE n # "boot_signature" /\ f[n].size # 0
    <3>1. /\ g[n] = Built(files[n], f[n].is.format) /\ g[n].is.format = f[n].is.format
          /\ files[n].size \in 1 .. MaxSize /\ files[n].is.name \in Labels /\ files[n].is.rev \in Revs
          /\ files[n].is.format = FilesOf(f)[n].is.format
          /\ files[n].is.format = B!DIRECTORY => files[n].is.rev # 2
          /\ files[n].is.format # B!DIRECTORY => g[n] = files[n]
      BY <1>9, <2>3
    <3>2. f[n].is.format \in Formats /\ f[n].is.format # B!DIRECTORY
      BY <1>3, HeldParts DEF BootFiles
    <3>3. CASE n # "ramdisk"
      <4>1. FilesOf(f)[n] = f[n] /\ u[n] = g[n]
        BY <1>3, <1>11, <3>3, FilesOfAre
      <4>2. u[n] = files[n]
        BY <3>1, <3>2, <4>1
      <4> QED  BY <3>1, <4>2, SizeBounds DEF SameContents
    <3>4. CASE n = "ramdisk"
      <4> DEFINE x == files[n]
                 c == f[n].is.format
      <4>1. u[n] = B!UnpackRamdisk(Built(x, c), c)
        BY <1>11, <3>1, <3>4
      <4>2. FilesOf(f)[n] = B!UnpackRamdisk(f[n], c)
        BY <1>3, <3>4, FilesOfAre
      <4>3. FilesOf(f)[n].is.format = IF c = B!FORMAT_OTHER THEN c ELSE B!DIRECTORY
        <5>1. f[n] \in HeldFiles
          BY <1>3 DEF BootFiles
        <5> QED  BY <4>2, <5>1, HeldParts, UnpackIs
      <4>4. /\ x.size \in 1 .. MaxSize /\ x.is.name \in Labels /\ x.is.rev \in Revs /\ c \in Formats
            /\ x.is.format = IF c = B!FORMAT_OTHER THEN c ELSE B!DIRECTORY
            /\ x.is.format = B!DIRECTORY => x.is.rev # 2
        BY <3>1, <3>2, <4>3
      <4> HIDE DEF x, c
      <4>5. SameContents(B!UnpackRamdisk(Built(x, c), c), x)
        BY <4>4, BuiltComesBack
      <4> QED  BY <4>1, <4>5 DEF x
    <3> QED  BY <3>3, <3>4
  <2> QED  BY <2>1, <2>2, <2>3
<1>14. Kept(u, files, TRUE)
  <2> HIDE DEF u
  <2> QED  BY <1>10, <1>11, <1>13 DEF Kept
<1> QED  BY <1>5, <1>6, <1>7, <1>14 DEF w, a, i

\* What an image from elsewhere came with comes out of it.
LEMMA OriginalKept ==
    ASSUME NEW d, IsBootImage(d)
    PROVE  Kept(B!Unpacked(BootOriginal(d)).files, d.files, FALSE)
<1> DEFINE f == d.files
           u == FilesOf(f)
<1>1. B!Unpacked(BootOriginal(d)).files = u
  BY OriginalIsSound, BootExtracts
<1>2. f \in BootFiles /\ \A n \in B!Names : f[n].is.rev = 0
  <2>1. f \in [B!Names -> Files]
    BY DEF IsBootImage, BootDescriptions
  <2>2. \A x \in Files : x.is.rev = 0
    BY DEF Files, B!Absent, B!Content
  <2> QED  BY <2>1, <2>2, OriginalFiles
<1> HIDE DEF f
<1>3. /\ DOMAIN u = B!Names
      /\ \A n \in B!Names : n # "ramdisk" => u[n] = f[n]
      /\ u["ramdisk"] = B!UnpackRamdisk(f["ramdisk"], f["ramdisk"].is.format)
  BY <1>2, FilesOfAre
<1> HIDE DEF u
<1>4. ASSUME NEW n \in B!Names PROVE SameContents(u[n], f[n])
  <2>1. CASE n # "ramdisk"
    <3>1. u[n] = f[n] /\ f[n].size \in Nat
      BY <1>2, <1>3, <2>1, HeldParts DEF BootFiles
    <3> QED  BY <3>1 DEF SameContents
  <2>2. CASE n = "ramdisk"
    <3> DEFINE x == f["ramdisk"]
    <3>1. x \in HeldFiles /\ u[n] = B!UnpackRamdisk(x, x.is.format) /\ x.is.rev = 0
      BY <1>2, <1>3, <2>2 DEF BootFiles
    <3> HIDE DEF x
    <3>2. /\ u[n].size = x.size /\ u[n].is.name = x.is.name /\ u[n].is.rev = x.is.rev
          /\ u[n].is.format = x.is.format \/ u[n].is.format = B!DIRECTORY
          /\ x.size \in Nat
      BY <3>1, HeldParts, UnpackIs
    <3> QED  BY <2>2, <3>2 DEF SameContents, x
  <2> QED  BY <2>1, <2>2
<1>5. DOMAIN f = B!Names
  BY <1>2 DEF BootFiles
<1>6. Kept(u, f, FALSE)
  BY <1>3, <1>4, <1>5 DEF Kept
<1> QED  BY <1>1, <1>6 DEF f
-----------------------------------------------------------------------------
(* The ramdisks of a vendor_boot image.  (VendorBootBuilder)               *)

\* A function on 1 .. n is a sequence.
LEMMA SequenceIs ==
    ASSUME NEW S, NEW n \in Nat, NEW f \in [1 .. n -> S]
    PROVE  f \in Seq(S) /\ Len(f) = n /\ DOMAIN f = 1 .. n
  OBVIOUS

\* A set of numbers that is not empty has a least one.
LEMMA Least ==
    ASSUME NEW T \in SUBSET Nat, T # {}
    PROVE  \E x \in T : \A y \in T : x <= y
<1>1. PICK x \in T : \A y \in T : ~ (<<y, x>> \in OpToRel(<, Nat))
  BY NatLessThanWellFounded, WFMin
<1>2. \A y \in T : ~ (y < x)
  BY <1>1 DEF OpToRel
<1> QED  BY <1>2

\* A set that has 0, and n + 1 with n, has all numbers.
LEMMA Induct ==
    ASSUME NEW T, 0 \in T, \A n \in Nat : n \in T => n + 1 \in T
    PROVE  Nat \subseteq T
<1> SUFFICES ASSUME Nat \ T # {} PROVE FALSE
  OBVIOUS
<1>1. PICK x \in Nat \ T : \A y \in Nat \ T : x <= y
  BY Least
<1>2. x # 0 /\ x - 1 \in Nat
  BY <1>1
<1>3. x - 1 \in T
  BY <1>1, <1>2
<1> QED  BY <1>1, <1>2, <1>3

\* The definition of Before has a function that it describes.
LEMMA BeforeExists ==
    ASSUME NEW files, Len(files) \in Nat
    PROVE  \E b : b = [k \in 1 .. Len(files) + 1 |-> IF k = 1 THEN 0 ELSE b[k - 1] + files[k - 1].size]
<1> DEFINE Upto(b, n) == b = [k \in 1 .. n + 1 |-> IF k = 1 THEN 0 ELSE b[k - 1] + files[k - 1].size]
           T == { n \in Nat : \E b : Upto(b, n) }
<1>1. 0 \in T
  <2>1. Upto([k \in 1 .. 0 + 1 |-> 0], 0)
    OBVIOUS
  <2> HIDE DEF Upto
  <2> QED  BY <2>1
<1>2. ASSUME NEW n \in Nat, n \in T PROVE n + 1 \in T
  <2>1. PICK b : Upto(b, n)
    BY <1>2
  <2>4. \A k \in 1 .. n + 1 : b[k] = IF k = 1 THEN 0 ELSE b[k - 1] + files[k - 1].size
    <3> DEFINE F(k) == IF k = 1 THEN 0 ELSE b[k - 1] + files[k - 1].size
    <3>1. b = [k \in 1 .. n + 1 |-> F(k)]
      BY <2>1
    <3> HIDE DEF F
    <3>2. \A k \in 1 .. n + 1 : b[k] = F(k)
      BY <3>1
    <3> QED  BY <3>2 DEF F
  <2> DEFINE next == [k \in 1 .. (n + 1) + 1 |-> IF k <= n + 1 THEN b[k] ELSE b[n + 1] + files[n + 1].size]
  <2>2. \A k \in 1 .. (n + 1) + 1 : next[k] = IF k = 1 THEN 0 ELSE next[k - 1] + files[k - 1].size
    <3> SUFFICES ASSUME NEW k \in 1 .. (n + 1) + 1
                 PROVE  next[k] = IF k = 1 THEN 0 ELSE next[k - 1] + files[k - 1].size
      OBVIOUS
    <3>1. CASE k = 1
      BY <2>1, <3>1
    <3>2. CASE k # 1 /\ k <= n + 1
      <4>1. next[k] = b[k] /\ next[k - 1] = b[k - 1]
        BY <3>2
      <4>2. b[k] = b[k - 1] + files[k - 1].size
        <5>1. k \in 1 .. n + 1
          BY <3>2
        <5> QED  BY <2>4, <3>2, <5>1
      <4> QED  BY <3>2, <4>1, <4>2
    <3>3. CASE k = (n + 1) + 1
      <4>1. next[k] = b[n + 1] + files[n + 1].size /\ next[n + 1] = b[n + 1] /\ k - 1 = n + 1 /\ k # 1
        BY <3>3
      <4> QED  BY <3>3, <4>1
    <3> QED  BY <3>1, <3>2, <3>3
  <2>3. Upto(next, n + 1)
    <3>1. next = [k \in 1 .. (n + 1) + 1 |-> next[k]]
      OBVIOUS
    <3> HIDE DEF next
    <3> QED  BY <2>2, <3>1
  <2> HIDE DEF Upto, next
  <2> QED  BY <2>3
<1>3. Nat \subseteq T
  <2> HIDE DEF T
  <2> QED  BY <1>1, <1>2, Induct
<1> QED  BY <1>3

\* How many bytes lie in front of each file.
LEMMA BeforeStep ==
    ASSUME NEW files, Len(files) \in Nat
    PROVE  /\ V!Before(files)[1] = 0
           /\ \A k \in 1 .. Len(files) : V!Before(files)[k + 1] = V!Before(files)[k] + files[k].size
           /\ V!Before(files) = [k \in 1 .. Len(files) + 1 |-> V!Before(files)[k]]
<1> DEFINE b == V!Before(files)
<1>1. b = [k \in 1 .. Len(files) + 1 |-> IF k = 1 THEN 0 ELSE b[k - 1] + files[k - 1].size]
  BY BeforeExists DEF V!Before
<1> HIDE DEF b
<1>2. 1 \in 1 .. Len(files) + 1
  OBVIOUS
<1>3. b[1] = 0
  BY <1>1, <1>2
<1>4. ASSUME NEW k \in 1 .. Len(files) PROVE b[k + 1] = b[k] + files[k].size
  <2>1. k + 1 \in 1 .. Len(files) + 1 /\ k + 1 # 1 /\ (k + 1) - 1 = k
    OBVIOUS
  <2> QED  BY <1>1, <2>1
<1>5. b = [k \in 1 .. Len(files) + 1 |-> b[k]]
  BY <1>1
<1> QED  BY <1>3, <1>4, <1>5 DEF b


\* The files lie one behind the other, within the size of all of them.
LEMMA BeforeBounds ==
    ASSUME NEW files, Len(files) \in Nat, \A k \in 1 .. Len(files) : files[k].size \in 0 .. MaxSize
    PROVE  /\ \A k \in 1 .. Len(files) + 1 : V!Before(files)[k] \in 0 .. (k - 1) * MaxSize
           /\ \A k \in 1 .. Len(files) + 1 : \A j \in 1 .. k - 1 :
                  V!Before(files)[j] + files[j].size <= V!Before(files)[k]
<1> DEFINE b == V!Before(files)
           P(k) == /\ b[k] \in 0 .. (k - 1) * MaxSize
                   /\ \A j \in 1 .. k - 1 : b[j] \in Nat /\ b[j] + files[j].size <= b[k]
           T == { n \in Nat : n <= Len(files) => P(n + 1) }
<1>1. Len(files) \in Nat /\ MaxSize \in Nat /\ \A k \in 1 .. Len(files) : files[k].size \in 0 .. MaxSize
  BY SizeBounds
<1>2. b[1] = 0 /\ \A k \in 1 .. Len(files) : b[k + 1] = b[k] + files[k].size
  BY <1>1, BeforeStep
<1> HIDE DEF b
<1>3. 0 \in T
  BY <1>1, <1>2
<1>4. ASSUME NEW n \in Nat, n \in T PROVE n + 1 \in T
  <2> SUFFICES ASSUME n + 1 <= Len(files) PROVE P((n + 1) + 1)
    OBVIOUS
  <2>1. P(n + 1) /\ n + 1 \in 1 .. Len(files)
    BY <1>1, <1>4
  <2> DEFINE s == files[n + 1].size
             c == b[n + 1]
  <2>2. s \in 0 .. MaxSize /\ c \in 0 .. n * MaxSize /\ b[(n + 1) + 1] = c + s
        /\ \A j \in 1 .. n : b[j] \in Nat /\ b[j] + files[j].size <= c
    BY <1>1, <1>2, <2>1
  <2>3. (n + 1) * MaxSize = n * MaxSize + MaxSize /\ n * MaxSize \in Nat
    BY <1>1
  <2> HIDE DEF s, c
  <2>4. c + s \in 0 .. (n + 1) * MaxSize
    BY <1>1, <2>2, <2>3
  <2>5. ASSUME NEW j \in 1 .. n + 1 PROVE b[j] \in Nat /\ b[j] + files[j].size <= c + s
    <3>1. CASE j = n + 1
      BY <1>1, <2>2, <3>1 DEF c, s
    <3>2. CASE j # n + 1
      <4>1. j \in 1 .. n /\ j \in 1 .. Len(files)
        BY <1>1, <2>1, <3>2
      <4>2. files[j].size \in Nat /\ b[j] \in Nat /\ b[j] + files[j].size <= c
        BY <1>1, <2>2, <4>1
      <4>3. c \in Nat /\ s \in Nat
        BY <1>1, <2>2, <2>3
      <4> QED  BY <4>2, <4>3
    <3> QED  BY <3>1, <3>2
  <2>6. ((n + 1) + 1) - 1 = n + 1
    OBVIOUS
  <2> QED  BY <2>2, <2>4, <2>5, <2>6
<1>5. Nat \subseteq T
  <2> HIDE DEF T
  <2> QED  BY <1>3, <1>4, Induct
<1>6. ASSUME NEW k \in 1 .. Len(files) + 1 PROVE P(k)
  <2>1. k - 1 \in Nat /\ k - 1 <= Len(files) /\ (k - 1) + 1 = k
    BY <1>1
  <2>2. k - 1 \in T
    BY <1>5, <2>1
  <2> HIDE DEF P
  <2>3. P((k - 1) + 1)
    BY <2>1, <2>2
  <2> QED  BY <2>1, <2>3
<1> QED  BY <1>6 DEF b

\* It depends on the sizes only, of those in front.
LEMMA BeforeUpTo ==
    ASSUME NEW f, NEW g, Len(f) \in Nat, Len(g) = Len(f),
           NEW m \in 0 .. Len(f), \A k \in 1 .. m : f[k].size = g[k].size
    PROVE  V!Before(f)[m + 1] = V!Before(g)[m + 1]
<1> DEFINE b == V!Before(f)
           c == V!Before(g)
           T == { n \in Nat : n <= m => b[n + 1] = c[n + 1] }
<1>1. /\ b[1] = 0 /\ \A k \in 1 .. Len(f) : b[k + 1] = b[k] + f[k].size
      /\ c[1] = 0 /\ \A k \in 1 .. Len(f) : c[k + 1] = c[k] + g[k].size
  BY BeforeStep
<1> HIDE DEF b, c
<1>3. 0 \in T
  BY <1>1
<1>4. ASSUME NEW n \in Nat, n \in T PROVE n + 1 \in T
  <2> SUFFICES ASSUME n + 1 <= m PROVE b[(n + 1) + 1] = c[(n + 1) + 1]
    OBVIOUS
  <2>1. n + 1 \in 1 .. m /\ n + 1 \in 1 .. Len(f) /\ b[n + 1] = c[n + 1]
    BY <1>4
  <2> QED  BY <1>1, <2>1
<1>5. Nat \subseteq T
  <2> HIDE DEF T
  <2> QED  BY <1>3, <1>4, Induct
<1>6. m \in T
  BY <1>5
<1> QED  BY <1>6 DEF b, c

\* The whole depends on all sizes.
LEMMA BeforeSame ==
    ASSUME NEW f, NEW g, Len(f) \in Nat, Len(g) = Len(f), \A k \in 1 .. Len(f) : f[k].size = g[k].size
    PROVE  V!Before(f) = V!Before(g) /\ V!Total(f) = V!Total(g)
<1> DEFINE b == V!Before(f)
           c == V!Before(g)
<1>1. b = [k \in 1 .. Len(f) + 1 |-> b[k]] /\ c = [k \in 1 .. Len(f) + 1 |-> c[k]]
  BY BeforeStep
<1>2. V!Total(f) = b[Len(f) + 1] /\ V!Total(g) = c[Len(f) + 1]
  BY DEF V!Total
<1>3. ASSUME NEW m \in 0 .. Len(f) PROVE b[m + 1] = c[m + 1]
  BY BeforeUpTo
<1> HIDE DEF b, c
<1>6. ASSUME NEW k \in 1 .. Len(f) + 1 PROVE b[k] = c[k]
  <2>1. k - 1 \in 0 .. Len(f) /\ (k - 1) + 1 = k
    OBVIOUS
  <2> QED  BY <1>3, <2>1
<1>7. b = c
  BY <1>1, <1>6
<1> QED  BY <1>2, <1>7 DEF b, c
-----------------------------------------------------------------------------
(* A vendor_boot image by what is in it.  Those from elsewhere and those   *)
(* written here are both of this form; VendorBootImage reads it.           *)

\* The two kinds of images share their arithmetic.
LEMMA SameOperators ==
    /\ V!FORMAT_NONE = B!FORMAT_NONE /\ V!FORMAT_LZ4 = B!FORMAT_LZ4 /\ V!FORMAT_GZIP = B!FORMAT_GZIP
    /\ V!FORMAT_LZMA = B!FORMAT_LZMA /\ V!FORMAT_OTHER = B!FORMAT_OTHER /\ V!Absent = B!Absent
    /\ V!DIRECTORY = B!DIRECTORY
    /\ \A n : V!Word(n) = B!Word(n) /\ V!Low(n) = B!Low(n) /\ V!High(n) = B!High(n)
    /\ \A s, p : V!GetNumberOfPages(s, p) = B!GetNumberOfPages(s, p) /\ V!Padded(s, p) = B!Padded(s, p)
    /\ \A o, f : V!Chunk(o, f) = B!Chunk(o, f)
    /\ \A f, c : V!UnpackRamdisk(f, c) = B!UnpackRamdisk(f, c) /\ V!BuildRamdisk(f, c) = B!BuildRamdisk(f, c)
    /\ \A s, n : V!Field(s, n) = B!Field(s, n)
    /\ \A o, f, p : V!WriteSection(o, f, p) = B!WriteSection(o, f, p)
    /\ \A n, r, f : V!Content(n, r, f) = B!Content(n, r, f)
    /\ V!EDITED = B!EDITED /\ V!REPACKED = B!REPACKED
    /\ \A f, c : V!Repacked(f, c) = B!Repacked(f, c)
<1>1. /\ V!FORMAT_NONE = B!FORMAT_NONE /\ V!FORMAT_LZ4 = B!FORMAT_LZ4 /\ V!FORMAT_GZIP = B!FORMAT_GZIP
      /\ V!FORMAT_LZMA = B!FORMAT_LZMA /\ V!FORMAT_OTHER = B!FORMAT_OTHER
      /\ V!DIRECTORY = B!DIRECTORY
  BY DEF V!FORMAT_NONE, B!FORMAT_NONE, V!FORMAT_LZ4, B!FORMAT_LZ4, V!FORMAT_GZIP, B!FORMAT_GZIP,
         V!FORMAT_LZMA, B!FORMAT_LZMA, V!FORMAT_OTHER, B!FORMAT_OTHER, V!DIRECTORY, B!DIRECTORY
<1>2. \A n, r, f : V!Content(n, r, f) = B!Content(n, r, f)
  BY DEF V!Content, B!Content
<1>3. V!Absent = B!Absent
  BY <1>1, <1>2 DEF V!Absent, B!Absent
<1>4. \A n : V!Word(n) = B!Word(n) /\ V!Low(n) = B!Low(n) /\ V!High(n) = B!High(n)
  BY DEF V!Word, B!Word, V!Low, B!Low, V!High, B!High
<1>5. \A s, p : V!GetNumberOfPages(s, p) = B!GetNumberOfPages(s, p) /\ V!Padded(s, p) = B!Padded(s, p)
  BY <1>4 DEF V!GetNumberOfPages, B!GetNumberOfPages, V!Padded, B!Padded
<1>6. \A o, f : V!Chunk(o, f) = B!Chunk(o, f)
  BY DEF V!Chunk, B!Chunk
<1>10. V!EDITED = B!EDITED /\ V!REPACKED = B!REPACKED
  BY DEF V!EDITED, B!EDITED, V!REPACKED, B!REPACKED
<1>11. \A f, c : V!Repacked(f, c) = B!Repacked(f, c)
  BY <1>2, <1>10 DEF V!Repacked, B!Repacked
<1>7. \A f, c : V!UnpackRamdisk(f, c) = B!UnpackRamdisk(f, c) /\ V!BuildRamdisk(f, c) = B!BuildRamdisk(f, c)
  BY <1>1, <1>2, <1>10, <1>11 DEF V!UnpackRamdisk, B!UnpackRamdisk, V!BuildRamdisk, B!BuildRamdisk
<1>8. \A s, n : V!Field(s, n) = B!Field(s, n)
  BY DEF V!Field, B!Field
<1>9. \A o, f, p : V!WriteSection(o, f, p) = B!WriteSection(o, f, p)
  BY <1>5, <1>6 DEF V!WriteSection, B!WriteSection, V!PadFile, B!PadFile, V!Write, B!Write
<1> QED  BY <1>1, <1>2, <1>3, <1>4, <1>5, <1>6, <1>7, <1>8, <1>9, <1>10, <1>11

\* The size of one entry in the table of ramdisks.
EntrySize == VENDOR_RAMDISK_TABLE_ENTRY_V4_SIZE

\* The size of the header, by its version.
HeaderSize(x) == IF x.version > 3 THEN VENDOR_BOOT_IMAGE_HEADER_V4_SIZE
                                  ELSE VENDOR_BOOT_IMAGE_HEADER_V3_SIZE

\* Its ramdisks, and its table as a file.
RamdisksOf(x) == [k \in 1 .. Len(x.ramdisks) |-> x.ramdisks[k].file]

\* The table of ramdisks as a section of the image.
TableOf(x) == [size |-> Len(x.ramdisks) * EntrySize, is |-> B!Content("table", 0, B!FORMAT_OTHER)]

\* The first pages of its sections.
RamdiskAt(x) == Pages(HeaderSize(x), x.page)
DtbAt(x)     == RamdiskAt(x) + Pages(V!Total(RamdisksOf(x)), x.page)
TableAt(x)   == DtbAt(x) + Pages(x.dtb.size, x.page)
ConfigAt(x)  == TableAt(x) + Pages(TableOf(x).size, x.page)
EndAt(x)     == ConfigAt(x) + Pages(x.bootconfig.size, x.page)

\* Where a ramdisk is.
Place(x, k) == x.page * RamdiskAt(x) + V!Before(RamdisksOf(x))[k]

\* Where the ramdisks lie.
RamdiskParts(x) == UNION {B!Chunk(Place(x, k), x.ramdisks[k].file) : k \in 1 .. Len(x.ramdisks)}

\* Where everything lies.
Parts(x) ==
    RamdiskParts(x)
    \cup B!Chunk(x.page * DtbAt(x), x.dtb)
    \cup (IF x.version > 3 THEN B!Chunk(x.page * TableAt(x), TableOf(x))
                                \cup B!Chunk(x.page * ConfigAt(x), x.bootconfig) ELSE {})

\* The image that holds x.
ImageOf(x) ==
    [header |-> << x.version, x.page, x.kernel, x.ramdisk, V!Total(RamdisksOf(x)), x.cmdline, x.tags,
                   x.name, HeaderSize(x), x.dtb.size, x.low, x.high >>
                \o (IF x.version > 3
                    THEN <<TableOf(x).size, Len(x.ramdisks), EntrySize, x.bootconfig.size>> ELSE <<>>),
     parts  |-> Parts(x),
     end    |-> x.page * (IF x.version > 3 THEN EndAt(x) ELSE TableAt(x)),
     table  |-> IF x.version > 3
                THEN [at |-> x.page * TableAt(x), entry_size |-> EntrySize,
                      entries |-> [k \in 1 .. Len(x.ramdisks) |->
                          [size |-> x.ramdisks[k].file.size, offset |-> V!Before(RamdisksOf(x))[k],
                           type |-> x.ramdisks[k].type, board_id |-> x.ramdisks[k].board_id,
                           ramdisk_compression |-> B!FORMAT_OTHER, name |-> x.ramdisks[k].name]]]
                ELSE V!NoTable]

\* A ramdisk with its entry in the table.
IsRamdisk(r) ==
    /\ r.file \in HeldFiles /\ Storable(r.name)
    /\ r = [file |-> r.file, type |-> r.type, name |-> r.name, board_id |-> r.board_id]

\* What such an image may hold.
IsVendor(x) ==
    /\ x.version \in Nat /\ x.page \in 1 .. MaxSize
    /\ Len(x.ramdisks) \in Nat /\ x.ramdisks = [k \in 1 .. Len(x.ramdisks) |-> x.ramdisks[k]]
    /\ \A k \in 1 .. Len(x.ramdisks) : IsRamdisk(x.ramdisks[k])
    /\ Len(x.ramdisks) <= Len(RamdiskFiles) /\ (8 + 2 * Len(x.ramdisks)) * MaxSize <= U32
    /\ x.dtb \in HeldFiles /\ x.bootconfig \in HeldFiles
    /\ x.cmdline \in Seq(Nat) /\ Len(x.cmdline) <= VENDOR_BOOT_ARGS_SIZE
    /\ x.name \in Seq(Nat) /\ Len(x.name) <= VENDOR_BOOT_NAME_SIZE
    /\ x.low \in 0 .. U32 - 1 /\ x.high \in Nat
    /\ x.version <= 3 => Len(x.ramdisks) = 1 /\ x.bootconfig = B!Absent
    /\ x.version > 3 => \A k \in 1 .. Len(x.ramdisks) : x.ramdisks[k].file.size > 0
    /\ x.dtb.is.format = B!FORMAT_OTHER

\* Nothing is behind its header, which has no table.
Bare(x) == x.version <= 3 /\ V!Total(RamdisksOf(x)) = 0 /\ x.dtb.size = 0

\* The files of a vendor_boot image, and the ramdisks in front of each.
LEMMA VendorFilesBounds ==
    ASSUME NEW x, IsVendor(x)
    PROVE  LET L == Len(x.ramdisks)
               before == V!Before(RamdisksOf(x))
           IN  /\ Len(RamdisksOf(x)) = L /\ DOMAIN RamdisksOf(x) = 1 .. L
               /\ \A k \in 1 .. L : /\ x.ramdisks[k].file \in HeldFiles
                                    /\ x.ramdisks[k].file.size \in 0 .. MaxSize
                                    /\ RamdisksOf(x)[k] = x.ramdisks[k].file
               /\ x.dtb.size \in 0 .. MaxSize /\ x.bootconfig.size \in 0 .. MaxSize
               /\ L * MaxSize \in Nat
               /\ V!Total(RamdisksOf(x)) \in 0 .. L * MaxSize
               /\ \A k \in 1 .. L : /\ before[k] \in 0 .. L * MaxSize
                                    /\ before[k] + x.ramdisks[k].file.size <= V!Total(RamdisksOf(x))
               /\ \A j, k \in 1 .. L : j < k => before[j] + x.ramdisks[j].file.size <= before[k]
               /\ before = [k \in 1 .. L + 1 |-> before[k]] /\ before[1] = 0
<1> DEFINE L == Len(x.ramdisks)
           f == RamdisksOf(x)
           b == V!Before(f)
<1>1. L \in Nat /\ MaxSize \in Nat
  BY SizeBounds DEF IsVendor
<1>2. \A h \in HeldFiles : h.size \in 0 .. MaxSize
  BY DEF HeldFiles
<1>3. \A k \in 1 .. L : x.ramdisks[k].file \in HeldFiles
  BY DEF IsVendor, IsRamdisk
<1>4. x.dtb.size \in 0 .. MaxSize /\ x.bootconfig.size \in 0 .. MaxSize
  BY <1>2 DEF IsVendor
<1>5. DOMAIN f = 1 .. L /\ \A k \in 1 .. L : f[k] = x.ramdisks[k].file
  BY DEF RamdisksOf
<1>6. Len(f) = L
  <2>1. f \in [1 .. L -> HeldFiles]
    BY <1>3 DEF RamdisksOf
  <2> HIDE DEF f, L
  <2> QED  BY <1>1, <2>1, SequenceIs
<1> HIDE DEF f, L
<1>7. \A k \in 1 .. L : f[k].size \in 0 .. MaxSize
  BY <1>2, <1>3, <1>5
<1>8. /\ \A k \in 1 .. L + 1 : b[k] \in 0 .. (k - 1) * MaxSize
      /\ \A k \in 1 .. L + 1 : \A j \in 1 .. k - 1 : b[j] + f[j].size <= b[k]
  BY <1>1, <1>6, <1>7, BeforeBounds
<1>9. b = [k \in 1 .. L + 1 |-> b[k]] /\ b[1] = 0
  BY <1>1, <1>6, BeforeStep
<1>10. V!Total(f) = b[L + 1]
  BY <1>6 DEF V!Total
<1> HIDE DEF b
<1>11. L * MaxSize \in Nat /\ \A k \in 1 .. L + 1 : (k - 1) * MaxSize <= L * MaxSize /\ (k - 1) * MaxSize \in Nat
  <2>1. L * MaxSize \in Nat
    BY <1>1
  <2>2. ASSUME NEW k \in 1 .. L + 1 PROVE (k - 1) * MaxSize <= L * MaxSize /\ (k - 1) * MaxSize \in Nat
    <3>1. k - 1 \in Nat /\ L - (k - 1) \in Nat
      BY <1>1
    <3>2. L * MaxSize = (k - 1) * MaxSize + (L - (k - 1)) * MaxSize
      BY <1>1, <3>1
    <3>3. (L - (k - 1)) * MaxSize \in Nat /\ (k - 1) * MaxSize \in Nat
      BY <1>1, <3>1
    <3> QED  BY <2>1, <3>2, <3>3
  <2> QED  BY <2>1, <2>2
<1>12. \A k \in 1 .. L + 1 : b[k] \in 0 .. L * MaxSize
  <2> SUFFICES ASSUME NEW k \in 1 .. L + 1 PROVE b[k] \in 0 .. L * MaxSize
    OBVIOUS
  <2> DEFINE m == (k - 1) * MaxSize
             n == L * MaxSize
  <2>1. b[k] \in 0 .. m /\ m \in Nat /\ n \in Nat /\ m <= n
    BY <1>8, <1>11
  <2> HIDE DEF m, n
  <2>2. b[k] \in 0 .. n
    BY <2>1
  <2> QED  BY <2>2 DEF n
<1>13. V!Total(f) \in 0 .. L * MaxSize
  BY <1>1, <1>10, <1>12
<1>14. \A k \in 1 .. L : b[k] + f[k].size <= V!Total(f)
  BY <1>1, <1>8, <1>10
<1>15. \A j, k \in 1 .. L : j < k => b[j] + f[j].size <= b[k]
  BY <1>1, <1>8
<1>16. \A k \in 1 .. L : b[k] \in 0 .. L * MaxSize
  BY <1>1, <1>12
<1>17. \A k \in 1 .. L : f[k] = x.ramdisks[k].file /\ x.ramdisks[k].file \in HeldFiles /\ f[k].size \in 0 .. MaxSize
  BY <1>3, <1>5, <1>7
<1> QED  BY <1>4, <1>5, <1>6, <1>9, <1>11, <1>13, <1>14, <1>15, <1>16, <1>17 DEF b, f, L

\* Without a table there is one ramdisk.
LEMMA TotalOfOne ==
    ASSUME NEW x, IsVendor(x), x.version <= 3
    PROVE  V!Total(RamdisksOf(x)) = x.ramdisks[1].file.size /\ 1 \in 1 .. Len(x.ramdisks)
<1> DEFINE f == RamdisksOf(x)
<1>1. Len(x.ramdisks) = 1
  BY DEF IsVendor
<1>2. Len(f) = 1 /\ f[1] = x.ramdisks[1].file /\ x.ramdisks[1].file.size \in 0 .. MaxSize
  BY <1>1, VendorFilesBounds
<1>3. Len(f) \in Nat /\ 1 \in 1 .. Len(f)
  BY <1>2
<1> HIDE DEF f
<1>4. V!Before(f)[1 + 1] = V!Before(f)[1] + f[1].size /\ V!Before(f)[1] = 0
  BY <1>3, BeforeStep
<1>5. x.ramdisks[1].file.size \in Int
  BY <1>2, SizeBounds
<1>6. V!Total(f) = V!Before(f)[1 + 1]
  BY <1>2 DEF V!Total
<1> QED  BY <1>1, <1>2, <1>4, <1>5, <1>6 DEF f

\* The pages that lie in front of each section; everything fits into a word.
LEMMA VendorPages ==
    ASSUME NEW x, IsVendor(x)
    PROVE  LET p == x.page
               L == Len(x.ramdisks)
           IN  /\ {RamdiskAt(x), DtbAt(x), TableAt(x), ConfigAt(x), EndAt(x)} \subseteq Nat
               /\ p * RamdiskAt(x) + V!Total(RamdisksOf(x)) <= p * DtbAt(x)
               /\ p * DtbAt(x) + x.dtb.size <= p * TableAt(x)
               /\ p * TableAt(x) + TableOf(x).size <= p * ConfigAt(x)
               /\ p * ConfigAt(x) + x.bootconfig.size <= p * EndAt(x)
               /\ p * RamdiskAt(x) + L * MaxSize < U32
               /\ {p * RamdiskAt(x), p * DtbAt(x), p * TableAt(x), p * ConfigAt(x)} \subseteq 0 .. U32 - 1
               /\ p * EndAt(x) \in Nat
               /\ TableOf(x).size \in 0 .. U32 - 1 /\ V!Total(RamdisksOf(x)) \in 0 .. U32 - 1
               /\ EntrySize \in Nat \ {0} /\ TableOf(x).size = L * EntrySize
               /\ HeaderSize(x) \in 1 .. MaxSize
               /\ \A s \in {HeaderSize(x), V!Total(RamdisksOf(x)), x.dtb.size, TableOf(x).size} :
                      V!GetNumberOfPages(s, p) = Pages(s, p) /\ Pages(s, p) \in Nat
               /\ Pages(x.bootconfig.size, p) \in Nat
<1> DEFINE p == x.page
           L == Len(x.ramdisks)
           M == L * MaxSize
           total == V!Total(RamdisksOf(x))
           table == TableOf(x).size
           header == HeaderSize(x)
           N(s) == Pages(s, p)
           Q(s) == p * Pages(s, p)
<1>1. /\ p \in 1 .. MaxSize /\ p \in Nat \ {0} /\ L \in Nat /\ U32 \in Nat /\ MaxSize \in Nat \ {0}
      /\ (8 + 2 * L) * MaxSize <= U32
  BY SizeBounds DEF IsVendor
<1>2. /\ total \in 0 .. M /\ M \in Nat /\ x.dtb.size \in 0 .. MaxSize /\ x.bootconfig.size \in 0 .. MaxSize
  BY VendorFilesBounds
<1>3. header \in 1 .. MaxSize /\ EntrySize \in 1 .. MaxSize
  BY KitchenAssumption DEF HeaderSize, EntrySize
<1>4. table \in 0 .. M /\ table = L * EntrySize
  <2>1. table = L * EntrySize
    BY DEF TableOf
  <2>2. L * EntrySize \in Nat
    BY <1>1, <1>3
  <2>3. L * MaxSize = L * EntrySize + L * (MaxSize - EntrySize) /\ L * (MaxSize - EntrySize) \in Nat
    <3> DEFINE e == EntrySize
               d == MaxSize - e
    <3>1. d \in Nat /\ e \in Nat /\ MaxSize = e + d /\ L \in Nat
      BY <1>1, <1>3
    <3> HIDE DEF e, d, L
    <3>2. L * (e + d) = L * e + L * d /\ L * d \in Nat
      BY <3>1
    <3> QED  BY <3>1, <3>2 DEF e, d
  <2> QED  BY <1>2, <2>1, <2>2, <2>3
<1>5. 8 * MaxSize + 2 * M <= U32
  <2> HIDE DEF L
  <2>1. (8 + 2 * L) * MaxSize = 8 * MaxSize + 2 * (L * MaxSize)
    BY <1>1
  <2> QED  BY <1>1, <2>1
<1> HIDE DEF M, total, table, header, L, p
<1>6. \A s \in Nat : N(s) \in Nat /\ s <= Q(s) /\ Q(s) <= s + p - 1 /\ Q(s) \in Nat
  <2> SUFFICES ASSUME NEW s \in Nat PROVE N(s) \in Nat /\ s <= Q(s) /\ Q(s) <= s + p - 1 /\ Q(s) \in Nat
    OBVIOUS
  <2>1. N(s) \in Nat /\ s <= Q(s) /\ Q(s) <= s + p - 1
    BY <1>1, PagesBounds
  <2>2. Q(s) \in Nat
    BY <1>1, <2>1
  <2> QED  BY <2>1, <2>2
<1>7. /\ header \in Nat /\ total \in Nat /\ table \in Nat /\ x.dtb.size \in Nat /\ x.bootconfig.size \in Nat
  BY <1>2, <1>3, <1>4
<1>8. ASSUME NEW s \in {header, total, x.dtb.size, table}
      PROVE  V!GetNumberOfPages(s, p) = N(s)
  <2>1. s \in Nat /\ s + p - 1 < U32
    BY <1>1, <1>2, <1>3, <1>4, <1>5
  <2> QED  BY <1>1, <2>1, NumberOfPages, SameOperators
<1> DEFINE a1 == N(header)
           a2 == a1 + N(total)
           a3 == a2 + N(x.dtb.size)
           a4 == a3 + N(table)
           a5 == a4 + N(x.bootconfig.size)
<1>9. RamdiskAt(x) = a1 /\ DtbAt(x) = a2 /\ TableAt(x) = a3 /\ ConfigAt(x) = a4 /\ EndAt(x) = a5
  BY DEF RamdiskAt, DtbAt, TableAt, ConfigAt, EndAt, header, total, table, p
<1>10. /\ N(header) \in Nat /\ N(total) \in Nat /\ N(x.dtb.size) \in Nat /\ N(table) \in Nat
       /\ N(x.bootconfig.size) \in Nat
  BY <1>6, <1>7
<1> HIDE DEF N
<1>11. /\ p * a1 = p * N(header) /\ p * a2 = p * a1 + p * N(total) /\ p * a3 = p * a2 + p * N(x.dtb.size)
       /\ p * a4 = p * a3 + p * N(table) /\ p * a5 = p * a4 + p * N(x.bootconfig.size)
       /\ a1 \in Nat /\ a2 \in Nat /\ a3 \in Nat /\ a4 \in Nat /\ a5 \in Nat
  BY <1>1, <1>10
<1> HIDE DEF a1, a2, a3, a4, a5
<1> DEFINE q1 == p * N(header)
           q2 == p * N(total)
           q3 == p * N(x.dtb.size)
           q4 == p * N(table)
           q5 == p * N(x.bootconfig.size)
<1>12. /\ q1 \in header .. header + p - 1 /\ q2 \in total .. total + p - 1
       /\ q3 \in x.dtb.size .. x.dtb.size + p - 1 /\ q4 \in table .. table + p - 1
       /\ q5 \in x.bootconfig.size .. x.bootconfig.size + p - 1
  BY <1>6, <1>7 DEF N
<1> HIDE DEF q1, q2, q3, q4, q5
<1>13. /\ p * a1 = q1 /\ p * a2 = q1 + q2 /\ p * a3 = q1 + q2 + q3
       /\ p * a4 = q1 + q2 + q3 + q4 /\ p * a5 = q1 + q2 + q3 + q4 + q5
  <2>1. {q1, q2, q3, q4, q5} \subseteq Int
    BY <1>12
  <2> QED  BY <1>11, <2>1 DEF q1, q2, q3, q4, q5
<1> DEFINE r1 == p * a1
           r2 == p * a2
           r3 == p * a3
           r4 == p * a4
           r5 == p * a5
<1>14. r1 = q1 /\ r2 = q1 + q2 /\ r3 = q1 + q2 + q3 /\ r4 = q1 + q2 + q3 + q4 /\ r5 = q1 + q2 + q3 + q4 + q5
  BY <1>13
<1> HIDE DEF r1, r2, r3, r4, r5
<1>15. /\ r1 + total <= r2 /\ r2 + x.dtb.size <= r3 /\ r3 + table <= r4 /\ r4 + x.bootconfig.size <= r5
       /\ r1 + M < U32 /\ {r1, r2, r3, r4} \subseteq 0 .. U32 - 1 /\ r5 \in Nat
       /\ table \in 0 .. U32 - 1 /\ total \in 0 .. U32 - 1
  BY <1>1, <1>2, <1>3, <1>4, <1>5, <1>7, <1>12, <1>14
<1>16. \A s \in {header, total, x.dtb.size, table} : V!GetNumberOfPages(s, p) = N(s) /\ N(s) \in Nat
  BY <1>8, <1>10
<1> QED  BY <1>3, <1>4, <1>9, <1>10, <1>11, <1>15, <1>16 DEF r1, r2, r3, r4, r5, p, L, M, total, table, header, N
\* What a section is, when it is there.
Section(place, file) == [at |-> place, size |-> file.size, is |-> file.is]

\* A section is found where it alone begins.
LEMMA SectionFound ==
    ASSUME NEW img, NEW place, NEW file \in HeldFiles,
           file.size > 0 => /\ Section(place, file) \in img.parts
                            /\ \A part \in img.parts : part.at = place => part = Section(place, file)
    PROVE  /\ V!ExtractImage(img, place, file.size) = file
           /\ file.size > 0 => V!FormatAt(img, place) = file.is.format
<1>1. CASE file.size = 0
  <2>1. file = B!Absent
    BY <1>1 DEF HeldFiles
  <2>2. V!ExtractImage(img, place, file.size) = V!Absent
    BY <1>1 DEF V!ExtractImage
  <2> QED  BY <1>1, <2>1, <2>2, SameOperators
<1>2. CASE file.size # 0
  <2>0. file.size > 0 /\ file = [size |-> file.size, is |-> file.is]
    BY <1>2, SizeBounds DEF HeldFiles
  <2> DEFINE s == Section(place, file)
             hit == {part \in img.parts : part.at = place /\ part.size = file.size}
             all == {part \in img.parts : part.at = place}
  <2>1. s.at = place /\ s.size = file.size /\ s.is = file.is
    BY DEF Section
  <2> HIDE DEF s
  <2>2. hit = {s} /\ all = {s}
    BY <2>0, <2>1 DEF s
  <2> HIDE DEF hit, all
  <2>3. hit # {} /\ all # {} /\ (CHOOSE part \in hit : TRUE) = s /\ (CHOOSE part \in all : TRUE) = s
    BY <2>2
  <2>4. V!ExtractImage(img, place, file.size) = [size |-> file.size, is |-> file.is]
    BY <1>2, <2>1, <2>3 DEF V!ExtractImage, hit
  <2>5. V!FormatAt(img, place) = file.is.format
    BY <2>1, <2>3 DEF V!FormatAt, all
  <2> QED  BY <2>0, <2>4, <2>5
<1> QED  BY <1>1, <1>2

\* The sections of an image, one by one.
LEMMA PartsAre ==
    ASSUME NEW x, IsVendor(x), NEW part
    PROVE  part \in Parts(x) <=>
              \/ \E k \in 1 .. Len(x.ramdisks) :
                    x.ramdisks[k].file.size # 0 /\ part = Section(Place(x, k), x.ramdisks[k].file)
              \/ x.dtb.size # 0 /\ part = Section(x.page * DtbAt(x), x.dtb)
              \/ x.version > 3 /\ \/ TableOf(x).size # 0 /\ part = Section(x.page * TableAt(x), TableOf(x))
                                  \/ x.bootconfig.size # 0 /\ part = Section(x.page * ConfigAt(x), x.bootconfig)
<1>1. \A place, file : part \in B!Chunk(place, file) <=> file.size # 0 /\ part = Section(place, file)
  BY DEF B!Chunk, Section
<1> DEFINE R == RamdiskParts(x)
           D == B!Chunk(x.page * DtbAt(x), x.dtb)
           T == B!Chunk(x.page * TableAt(x), TableOf(x))
           F == B!Chunk(x.page * ConfigAt(x), x.bootconfig)
<1>2. part \in R <=> \E k \in 1 .. Len(x.ramdisks) :
                        x.ramdisks[k].file.size # 0 /\ part = Section(Place(x, k), x.ramdisks[k].file)
  <2>1. part \in R <=> \E k \in 1 .. Len(x.ramdisks) : part \in B!Chunk(Place(x, k), x.ramdisks[k].file)
    BY DEF RamdiskParts
  <2> HIDE DEF R
  <2> QED  BY <1>1, <2>1
<1>3. /\ part \in D <=> x.dtb.size # 0 /\ part = Section(x.page * DtbAt(x), x.dtb)
      /\ part \in T <=> TableOf(x).size # 0 /\ part = Section(x.page * TableAt(x), TableOf(x))
      /\ part \in F <=> x.bootconfig.size # 0 /\ part = Section(x.page * ConfigAt(x), x.bootconfig)
  BY <1>1
<1>4. Parts(x) = R \cup D \cup (IF x.version > 3 THEN T \cup F ELSE {})
  BY DEF Parts
<1> HIDE DEF R, D, T, F
<1>5. part \in Parts(x) <=> part \in R \/ part \in D \/ (x.version > 3 /\ (part \in T \/ part \in F))
  BY <1>4
<1> QED  BY <1>2, <1>3, <1>5

\* No two sections that are there begin at the same place, and all end in the file.
LEMMA PartsApart ==
    ASSUME NEW x, IsVendor(x)
    PROVE  LET L == Len(x.ramdisks)
               p == x.page
               end == ImageOf(x).end
           IN  /\ \A k \in 1 .. L : x.ramdisks[k].file.size # 0 =>
                     /\ Place(x, k) + x.ramdisks[k].file.size <= p * DtbAt(x)
                     /\ \A part \in Parts(x) : part.at = Place(x, k) =>
                            part = Section(Place(x, k), x.ramdisks[k].file)
               /\ x.dtb.size # 0 =>
                     \A part \in Parts(x) : part.at = p * DtbAt(x) => part = Section(p * DtbAt(x), x.dtb)
               /\ x.version > 3 /\ x.bootconfig.size # 0 =>
                     \A part \in Parts(x) : part.at = p * ConfigAt(x) =>
                            part = Section(p * ConfigAt(x), x.bootconfig)
               /\ p * DtbAt(x) <= end /\ p * DtbAt(x) + x.dtb.size <= end
               /\ x.version > 3 => p * ConfigAt(x) + x.bootconfig.size <= end
<1> DEFINE L == Len(x.ramdisks)
           p == x.page
           s(k) == x.ramdisks[k].file.size
           r1 == p * RamdiskAt(x)
           r2 == p * DtbAt(x)
           r3 == p * TableAt(x)
           r4 == p * ConfigAt(x)
           r5 == p * EndAt(x)
           total == V!Total(RamdisksOf(x))
           b(k) == V!Before(RamdisksOf(x))[k]
           t == TableOf(x).size
<1>1. /\ total \in Nat /\ L * MaxSize \in Nat
      /\ \A k \in 1 .. L : s(k) \in 0 .. MaxSize /\ b(k) \in 0 .. L * MaxSize /\ b(k) + s(k) <= total
      /\ \A j, k \in 1 .. L : j < k => b(j) + s(j) <= b(k)
      /\ x.dtb.size \in 0 .. MaxSize /\ x.bootconfig.size \in 0 .. MaxSize
  BY VendorFilesBounds
<1>2. /\ {r1, r2, r3, r4} \subseteq 0 .. U32 - 1 /\ r5 \in Nat
      /\ r1 + total <= r2 /\ r2 + x.dtb.size <= r3 /\ r3 + t <= r4 /\ r4 + x.bootconfig.size <= r5
      /\ t \in 0 .. U32 - 1
  BY VendorPages
<1>3. L \in Nat /\ U32 \in Nat /\ MaxSize \in Nat
  BY SizeBounds DEF IsVendor
<1>4. \A k \in 1 .. L : Place(x, k) = r1 + b(k)
  BY DEF Place
<1>5. ImageOf(x).end = IF x.version > 3 THEN r5 ELSE r3
  BY DEF ImageOf
<1> HIDE DEF r1, r2, r3, r4, r5, total, b, t
<1>6. /\ r2 \in Nat /\ r3 \in Nat /\ r4 \in Nat /\ r1 \in Nat /\ t \in Nat
      /\ x.dtb.size \in Nat /\ x.bootconfig.size \in Nat
      /\ \A k \in 1 .. L : s(k) \in Nat /\ b(k) \in Nat
      /\ r2 <= r3 /\ r3 <= r4 /\ r2 <= r4
  <2> DEFINE m == L * MaxSize
             ds == x.dtb.size
             cs == x.bootconfig.size
  <2>1. m \in Nat /\ \A k \in 1 .. L : s(k) \in 0 .. MaxSize /\ b(k) \in 0 .. m
    BY <1>1
  <2>2. /\ {r1, r2, r3, r4} \subseteq 0 .. U32 - 1 /\ r2 + ds <= r3 /\ r3 + t <= r4 /\ t \in 0 .. U32 - 1
        /\ ds \in 0 .. MaxSize /\ cs \in 0 .. MaxSize
    BY <1>1, <1>2
  <2> HIDE DEF m, s, ds, cs, L
  <2>3. r1 \in Nat /\ r2 \in Nat /\ r3 \in Nat /\ r4 \in Nat /\ t \in Nat /\ ds \in Nat /\ cs \in Nat
    BY <1>3, <2>2
  <2>4. \A k \in 1 .. L : s(k) \in Nat /\ b(k) \in Nat
    BY <1>3, <2>1
  <2>5. r2 <= r3 /\ r3 <= r4 /\ r2 <= r4
    BY <2>2, <2>3
  <2> QED  BY <2>3, <2>4, <2>5 DEF ds, cs
<1> DEFINE A(part) == \E k \in 1 .. L : s(k) # 0 /\ part = Section(Place(x, k), x.ramdisks[k].file)
           D(part) == x.dtb.size # 0 /\ part = Section(r2, x.dtb)
           T(part) == t # 0 /\ part = Section(r3, TableOf(x))
           C1(part) == x.bootconfig.size # 0 /\ part = Section(r4, x.bootconfig)
<1>7. \A part \in Parts(x) : A(part) \/ D(part) \/ T(part) \/ C1(part)
  BY PartsAre DEF r2, r3, r4, t
<1>8. \A place, file : Section(place, file).at = place
  BY DEF Section
<1>9. \A part : A(part) => part.at < r2
  <2> SUFFICES ASSUME NEW part, NEW k \in 1 .. L, s(k) # 0, part = Section(Place(x, k), x.ramdisks[k].file)
               PROVE  part.at < r2
    OBVIOUS
  <2>1. part.at = r1 + b(k)
    BY <1>4, <1>8
  <2> HIDE DEF s
  <2> QED  BY <1>1, <1>2, <1>6, <2>1
<1>10. \A part : /\ D(part) => part.at = r2
                 /\ T(part) => part.at = r3 /\ r3 < r4
                 /\ C1(part) => part.at = r4
  BY <1>2, <1>6, <1>8
<1>11. ASSUME NEW k \in 1 .. L, s(k) # 0
       PROVE  /\ Place(x, k) + s(k) <= r2
              /\ \A part \in Parts(x) : part.at = Place(x, k) => part = Section(Place(x, k), x.ramdisks[k].file)
  <2>1. Place(x, k) + s(k) <= r2 /\ Place(x, k) < r2
    <3> HIDE DEF s
    <3> QED  BY <1>1, <1>2, <1>4, <1>6, <1>11
  <2>2. ASSUME NEW part \in Parts(x), part.at = Place(x, k) PROVE A(part)
    <3> HIDE DEF A, D, T, C1
    <3>1. Place(x, k) \in Int
      <4> HIDE DEF s
      <4> QED  BY <1>4, <1>6
    <3>2. part.at < r2 /\ part.at \in Int
      BY <2>1, <2>2, <3>1
    <3>3. A(part) \/ D(part) \/ T(part) \/ C1(part)
      BY <1>7, <2>2
    <3> HIDE DEF A, D, T, C1
    <3> QED  BY <1>6, <1>10, <3>2, <3>3
  <2>3. ASSUME NEW j \in 1 .. L, s(j) # 0, Place(x, j) = Place(x, k) PROVE j = k
    <3>1. b(j) = b(k)
      <4>1. r1 + b(j) = r1 + b(k)
        BY <1>4, <2>3
      <4> QED  BY <1>6, <4>1
    <3> HIDE DEF s
    <3>2. ~ (j < k) /\ ~ (k < j)
      BY <1>1, <1>6, <1>11, <2>3, <3>1
    <3> QED  BY <1>3, <3>2
  <2>4. ASSUME NEW part \in Parts(x), part.at = Place(x, k)
        PROVE part = Section(Place(x, k), x.ramdisks[k].file)
    <3>1. PICK j \in 1 .. L : s(j) # 0 /\ part = Section(Place(x, j), x.ramdisks[j].file)
      BY <2>2, <2>4
    <3>2. j = k
      BY <1>8, <2>3, <2>4, <3>1
    <3> QED  BY <3>1, <3>2
  <2> QED  BY <2>1, <2>4
<1>12. ASSUME x.dtb.size # 0 PROVE \A part \in Parts(x) : part.at = r2 => part = Section(r2, x.dtb)
  <2>1. r2 < r3
    BY <1>2, <1>6, <1>12
  <2> SUFFICES ASSUME NEW part \in Parts(x), part.at = r2 PROVE D(part)
    OBVIOUS
  <2>2. r2 < r4
    BY <1>2, <1>6, <2>1
  <2> HIDE DEF A, D, T, C1
  <2> QED  BY <1>6, <1>7, <1>9, <1>10, <2>1, <2>2
<1>13. ASSUME x.bootconfig.size # 0
       PROVE \A part \in Parts(x) : part.at = r4 => part = Section(r4, x.bootconfig)
  <2> SUFFICES ASSUME NEW part \in Parts(x), part.at = r4 PROVE C1(part)
    OBVIOUS
  <2>1. r2 <= r4 /\ (x.dtb.size # 0 => r2 < r4)
    BY <1>2, <1>6
  <2>2. D(part) => x.dtb.size # 0
    OBVIOUS
  <2> HIDE DEF A, D, T, C1
  <2> QED  BY <1>6, <1>7, <1>9, <1>10, <2>1, <2>2
<1>14. r2 <= ImageOf(x).end /\ r2 + x.dtb.size <= ImageOf(x).end
       /\ (x.version > 3 => r4 + x.bootconfig.size <= ImageOf(x).end)
  BY <1>2, <1>5, <1>6
<1> QED  BY <1>11, <1>12, <1>13, <1>14 DEF r2, r4
\* So every section is read whole, and its format is its own.
LEMMA VendorSections ==
    ASSUME NEW x, IsVendor(x)
    PROVE  LET img == ImageOf(x)
               Read(place, file) == V!Readable(img, place, file.size) /\ V!ExtractImage(img, place, file.size) = file
           IN  /\ \A k \in 1 .. Len(x.ramdisks) :
                     /\ Read(Place(x, k), x.ramdisks[k].file)
                     /\ x.ramdisks[k].file.size > 0 =>
                            V!FormatAt(img, Place(x, k)) = x.ramdisks[k].file.is.format
               /\ Read(x.page * DtbAt(x), x.dtb)
               /\ x.version > 3 => Read(x.page * ConfigAt(x), x.bootconfig)
<1> DEFINE img == ImageOf(x)
           f(k) == x.ramdisks[k].file
           p == x.page
           end == img.end
           L == Len(x.ramdisks)
<1>1. img.parts = Parts(x)
  BY DEF ImageOf
<1>2. /\ \A k \in 1 .. L : f(k).size # 0 =>
            /\ Place(x, k) + f(k).size <= p * DtbAt(x)
            /\ \A part \in Parts(x) : part.at = Place(x, k) => part = Section(Place(x, k), f(k))
      /\ x.dtb.size # 0 =>
            \A part \in Parts(x) : part.at = p * DtbAt(x) => part = Section(p * DtbAt(x), x.dtb)
      /\ x.version > 3 /\ x.bootconfig.size # 0 =>
            \A part \in Parts(x) : part.at = p * ConfigAt(x) => part = Section(p * ConfigAt(x), x.bootconfig)
      /\ p * DtbAt(x) <= end /\ p * DtbAt(x) + x.dtb.size <= end
      /\ x.version > 3 => p * ConfigAt(x) + x.bootconfig.size <= end
  BY PartsApart
<1>3. /\ \A k \in 1 .. L : f(k) \in HeldFiles /\ f(k).size \in Nat
      /\ x.dtb \in HeldFiles /\ x.bootconfig \in HeldFiles
  <2>1. \A h \in HeldFiles : h.size \in Nat
    BY SizeBounds DEF HeldFiles
  <2> QED  BY <2>1 DEF IsVendor, IsRamdisk
<1>4. end \in Int /\ p * DtbAt(x) \in Int /\ \A k \in 1 .. L : Place(x, k) \in Int
  <2>1. p * EndAt(x) \in Nat /\ p * TableAt(x) \in 0 .. U32 - 1 /\ p * DtbAt(x) \in 0 .. U32 - 1
        /\ p * RamdiskAt(x) \in 0 .. U32 - 1
    BY VendorPages
  <2>2. end = IF x.version > 3 THEN p * EndAt(x) ELSE p * TableAt(x)
    BY DEF ImageOf
  <2> DEFINE r5 == p * EndAt(x)
             r3 == p * TableAt(x)
             m == L * MaxSize
  <2>3. m \in Nat /\ \A k \in 1 .. L : V!Before(RamdisksOf(x))[k] \in 0 .. m
    BY VendorFilesBounds
  <2>4. \A k \in 1 .. L : V!Before(RamdisksOf(x))[k] \in Nat
    <3> HIDE DEF m
    <3> QED  BY <2>3
  <2>5. \A k \in 1 .. L : Place(x, k) \in Int
    BY <2>1, <2>4, SizeBounds DEF Place
  <2> HIDE DEF r5, r3
  <2>6. end \in Int
    BY <2>1, <2>2, SizeBounds DEF r5, r3
  <2> QED  BY <2>1, <2>5, <2>6, SizeBounds
<1> HIDE DEF img
<1>5. \A k \in 1 .. L : f(k).size # 0 => Section(Place(x, k), f(k)) \in Parts(x)
  BY PartsAre
<1>6. x.dtb.size # 0 => Section(p * DtbAt(x), x.dtb) \in Parts(x)
  BY PartsAre
<1>7. x.version > 3 /\ x.bootconfig.size # 0 => Section(p * ConfigAt(x), x.bootconfig) \in Parts(x)
  BY PartsAre
<1>8. ASSUME NEW k \in 1 .. L
      PROVE  /\ V!Readable(img, Place(x, k), f(k).size) /\ V!ExtractImage(img, Place(x, k), f(k).size) = f(k)
             /\ f(k).size > 0 => V!FormatAt(img, Place(x, k)) = f(k).is.format
  <2> DEFINE file == f(k)
             place == Place(x, k)
  <2>1. file \in HeldFiles /\ file.size \in Nat
    BY <1>3
  <2>2. file.size > 0 => /\ Section(place, file) \in img.parts
                         /\ \A part \in img.parts : part.at = place => part = Section(place, file)
    BY <1>1, <1>2, <1>5
  <2>3. file.size > 0 => place + file.size <= end
    <3> SUFFICES ASSUME file.size > 0 PROVE place + file.size <= end
      OBVIOUS
    <3>1. place + file.size <= p * DtbAt(x) /\ p * DtbAt(x) <= end
      BY <1>2
    <3>2. place \in Int /\ end \in Int /\ p * DtbAt(x) \in Int
      BY <1>4
    <3> DEFINE q == p * DtbAt(x)
    <3> HIDE DEF file, place, q, end
    <3> QED  BY <2>1, <3>1, <3>2 DEF q
  <2> HIDE DEF file, place
  <2>4. V!Readable(img, place, file.size)
    BY <2>3 DEF V!Readable
  <2>5. V!ExtractImage(img, place, file.size) = file /\ (file.size > 0 => V!FormatAt(img, place) = file.is.format)
    BY <2>1, <2>2, SectionFound
  <2> QED  BY <2>4, <2>5 DEF file, place
<1>9. V!Readable(img, p * DtbAt(x), x.dtb.size) /\ V!ExtractImage(img, p * DtbAt(x), x.dtb.size) = x.dtb
  <2>1. V!Readable(img, p * DtbAt(x), x.dtb.size)
    BY <1>2 DEF V!Readable
  <2>2. x.dtb.size > 0 => x.dtb.size # 0
    OBVIOUS
  <2> QED  BY <1>1, <1>2, <1>3, <1>6, <2>1, <2>2, SectionFound
<1>10. ASSUME x.version > 3
       PROVE  /\ V!Readable(img, p * ConfigAt(x), x.bootconfig.size)
              /\ V!ExtractImage(img, p * ConfigAt(x), x.bootconfig.size) = x.bootconfig
  <2>1. V!Readable(img, p * ConfigAt(x), x.bootconfig.size)
    BY <1>2, <1>10 DEF V!Readable
  <2>2. x.bootconfig.size > 0 => x.bootconfig.size # 0
    OBVIOUS
  <2> QED  BY <1>1, <1>2, <1>3, <1>7, <1>10, <2>1, <2>2, SectionFound
<1> QED  BY <1>8, <1>9, <1>10 DEF img

\* What ReadHeader finds, with a compression of the only ramdisk.
VendorReading(x, c) ==
    LET four == x.version > 3
    IN  [boot_magic |-> V!VENDOR_BOOT_MAGIC, ramdisk_compression |-> c,
         header_version |-> x.version, page_size |-> x.page, kernel_load_address |-> x.kernel,
         ramdisk_load_address |-> x.ramdisk, vendor_ramdisk_size |-> V!Total(RamdisksOf(x)),
         cmdline |-> x.cmdline, tags_load_address |-> x.tags, product_name |-> x.name,
         header_size |-> HeaderSize(x), dtb_size |-> x.dtb.size,
         dtb_load_address |-> x.low + U32 * x.high,
         table_size |-> IF four THEN TableOf(x).size ELSE 0,
         entry_num  |-> IF four THEN Len(x.ramdisks) ELSE 0,
         entry_size |-> IF four THEN EntrySize ELSE 0,
         bootconfig_size |-> IF four THEN x.bootconfig.size ELSE 0]

\* What is read of the header of a vendor_boot image.
LEMMA VendorReads ==
    ASSUME NEW x, IsVendor(x)
    PROVE  V!ReadHeader(ImageOf(x).header) = VendorReading(x, B!FORMAT_OTHER)
<1> DEFINE h == ImageOf(x).header
           s == << x.version, x.page, x.kernel, x.ramdisk, V!Total(RamdisksOf(x)), x.cmdline, x.tags,
                   x.name, HeaderSize(x), x.dtb.size, x.low, x.high >>
           t == IF x.version > 3 THEN <<TableOf(x).size, Len(x.ramdisks), EntrySize, x.bootconfig.size>>
                ELSE <<>>
<1>1. h = s \o t
  BY DEF ImageOf
<1>2. /\ Len(s) = 12 /\ s[1] = x.version /\ s[2] = x.page /\ s[3] = x.kernel /\ s[4] = x.ramdisk
      /\ s[5] = V!Total(RamdisksOf(x)) /\ s[6] = x.cmdline /\ s[7] = x.tags
      /\ s[8] = x.name /\ s[9] = HeaderSize(x) /\ s[10] = x.dtb.size /\ s[11] = x.low /\ s[12] = x.high
  OBVIOUS
<1>3. x.version > 3 => /\ Len(t) = 4 /\ t[1] = TableOf(x).size /\ t[2] = Len(x.ramdisks)
                       /\ t[3] = EntrySize /\ t[4] = x.bootconfig.size
  OBVIOUS
<1>4. Len(t) \in Nat
  OBVIOUS
<1> HIDE DEF s, t, h
<1>12. Len(s) \in Nat /\ Len(s) = 12 /\ (x.version > 3 => Len(t) = 4)
  BY <1>2, <1>3
<1>13. /\ \A k \in 1 .. Len(s) : h[k] = s[k]
       /\ \A k \in 1 .. Len(t) : h[Len(s) + k] = t[k]
       /\ DOMAIN h = 1 .. Len(s) + Len(t)
  <2>1. Len(s) \in Nat /\ Len(t) \in Nat
    BY <1>4, <1>12
  <2> QED  BY <1>1, <2>1, CellsOfBoth
<1>5. \A k \in 1 .. 12 : h[k] = s[k]
  BY <1>12, <1>13
<1>6. x.version > 3 => \A k \in 1 .. 4 : h[12 + k] = t[k]
  BY <1>12, <1>13
<1>7. 1 .. 12 \subseteq DOMAIN h /\ (x.version > 3 => 1 .. 16 \subseteq DOMAIN h)
  <2> DEFINE n == Len(t)
  <2>1. n \in Nat /\ (x.version > 3 => n = 4) /\ DOMAIN h = 1 .. 12 + n
    BY <1>4, <1>12, <1>13
  <2> HIDE DEF n
  <2> QED  BY <2>1
<1>8. V!ReadU64(h, 11) = x.low + U32 * x.high
  <2>1. 11 \in DOMAIN h /\ 12 \in DOMAIN h /\ h[11] = x.low /\ h[12] = x.high
    BY <1>2, <1>5, <1>7
  <2> QED  BY <2>1 DEF V!ReadU64, V!ReadU32, V!ReadCell
<1>9. x.version > 3 => /\ V!ReadU32(h, 13) = TableOf(x).size /\ V!ReadU32(h, 14) = Len(x.ramdisks)
                       /\ V!ReadU32(h, 15) = EntrySize /\ V!ReadU32(h, 16) = x.bootconfig.size
  <2> SUFFICES ASSUME x.version > 3
               PROVE  /\ V!ReadU32(h, 13) = TableOf(x).size /\ V!ReadU32(h, 14) = Len(x.ramdisks)
                      /\ V!ReadU32(h, 15) = EntrySize /\ V!ReadU32(h, 16) = x.bootconfig.size
    OBVIOUS
  <2>1. h[12 + 1] = t[1] /\ h[12 + 2] = t[2] /\ h[12 + 3] = t[3] /\ h[12 + 4] = t[4]
    BY <1>6
  <2>2. 13 \in DOMAIN h /\ 14 \in DOMAIN h /\ 15 \in DOMAIN h /\ 16 \in DOMAIN h
    BY <1>7
  <2> QED  BY <1>3, <2>1, <2>2 DEF V!ReadU32, V!ReadCell
<1>10. /\ h[1] = x.version /\ h[2] = x.page /\ h[3] = x.kernel /\ h[4] = x.ramdisk
       /\ h[5] = V!Total(RamdisksOf(x)) /\ h[6] = x.cmdline /\ h[7] = x.tags
       /\ h[8] = x.name /\ h[9] = HeaderSize(x) /\ h[10] = x.dtb.size
  BY <1>2, <1>5
<1>11. V!FORMAT_OTHER = B!FORMAT_OTHER
  BY SameOperators
<1> QED  BY <1>8, <1>9, <1>10, <1>11 DEF V!ReadHeader, VendorReading, h

\* Where it looks for the sections.
LEMMA VendorPlaces ==
    ASSUME NEW x, IsVendor(x), NEW c
    PROVE  LET i == VendorReading(x, c)
               p == x.page
           IN  /\ V!HeaderPages(i) + V!RamdiskPages(i) = DtbAt(x)
               /\ V!TablePage(i) = TableAt(x)
               /\ x.version > 3 =>
                    V!TablePage(i) + V!GetNumberOfPages(i.table_size, i.page_size) = ConfigAt(x)
               /\ \A n \in {RamdiskAt(x), DtbAt(x), TableAt(x), ConfigAt(x)} : V!At(i, n) = p * n
               /\ V!RamdiskBase(i) = p * RamdiskAt(x)
               /\ \A k \in 1 .. Len(x.ramdisks) :
                     V!Word(V!RamdiskBase(i) + V!Before(RamdisksOf(x))[k]) = Place(x, k)
               /\ V!RamdiskBase(i) = Place(x, 1)
<1> DEFINE i == VendorReading(x, c)
           p == x.page
           L == Len(x.ramdisks)
           total == V!Total(RamdisksOf(x))
<1>1. /\ i.page_size = p /\ i.header_size = HeaderSize(x) /\ i.vendor_ramdisk_size = total
      /\ i.dtb_size = x.dtb.size /\ (x.version > 3 => i.table_size = TableOf(x).size)
  BY DEF VendorReading
<1>2. /\ \A s \in {HeaderSize(x), total, x.dtb.size, TableOf(x).size} : V!GetNumberOfPages(s, p) = Pages(s, p)
      /\ {RamdiskAt(x), DtbAt(x), TableAt(x), ConfigAt(x)} \subseteq Nat
      /\ {p * RamdiskAt(x), p * DtbAt(x), p * TableAt(x), p * ConfigAt(x)} \subseteq 0 .. U32 - 1
      /\ p * RamdiskAt(x) + L * MaxSize < U32
  BY VendorPages
<1> HIDE DEF i
<1>3. V!HeaderPages(i) = RamdiskAt(x) /\ V!RamdiskPages(i) = Pages(total, p)
  BY <1>1, <1>2 DEF V!HeaderPages, V!RamdiskPages, RamdiskAt
<1>4. V!HeaderPages(i) + V!RamdiskPages(i) = DtbAt(x)
  BY <1>3 DEF DtbAt
<1>5. V!TablePage(i) = TableAt(x)
  BY <1>1, <1>2, <1>4 DEF V!TablePage, TableAt
<1>6. x.version > 3 => V!TablePage(i) + V!GetNumberOfPages(i.table_size, i.page_size) = ConfigAt(x)
  BY <1>1, <1>2, <1>5 DEF ConfigAt
<1>7. \A n \in {RamdiskAt(x), DtbAt(x), TableAt(x), ConfigAt(x)} : V!At(i, n) = p * n
  <2> SUFFICES ASSUME NEW n \in {RamdiskAt(x), DtbAt(x), TableAt(x), ConfigAt(x)} PROVE V!At(i, n) = p * n
    OBVIOUS
  <2>1. n \in Nat /\ p * n \in 0 .. U32 - 1 /\ p \in 1 .. MaxSize
    BY <1>2 DEF IsVendor
  <2>2. B!Word(p * B!Word(n)) = p * n
    BY <2>1, WordAt
  <2> QED  BY <1>1, <2>2, SameOperators DEF V!At
<1>8. V!RamdiskBase(i) = p * RamdiskAt(x)
  BY <1>3, <1>7 DEF V!RamdiskBase
<1>9. ASSUME NEW k \in 1 .. L PROVE V!Word(V!RamdiskBase(i) + V!Before(RamdisksOf(x))[k]) = Place(x, k)
  <2> DEFINE r == p * RamdiskAt(x)
             m == L * MaxSize
             b == V!Before(RamdisksOf(x))[k]
  <2>1. b \in 0 .. m /\ m \in Nat
    BY VendorFilesBounds
  <2>2. r \in 0 .. U32 - 1 /\ r + m < U32 /\ U32 \in Nat
    BY <1>2, SizeBounds
  <2>3. Place(x, k) = r + b
    BY DEF Place
  <2> HIDE DEF r, m, b
  <2>4. r + b \in Nat /\ r + b < U32
    BY <2>1, <2>2
  <2>5. B!Word(r + b) = r + b
    BY <2>2, <2>4, WordOf
  <2> QED  BY <1>8, <2>3, <2>5, SameOperators DEF r, b
<1>10. V!RamdiskBase(i) = Place(x, 1)
  <2>1. V!Before(RamdisksOf(x))[1] = 0 /\ p * RamdiskAt(x) \in 0 .. U32 - 1
    BY <1>2, VendorFilesBounds
  <2> QED  BY <1>8, <2>1, SizeBounds DEF Place
<1> QED  BY <1>4, <1>5, <1>6, <1>7, <1>8, <1>9, <1>10 DEF i
\* A sequence that is cut at its end is the same.
LEMMA WholeIs ==
    ASSUME NEW n \in Nat, NEW f, f = [k \in 1 .. n |-> f[k]]
    PROVE  SubSeq(f, 1, n) = f /\ Len(f) = n /\ DOMAIN f = 1 .. n
<1> DEFINE S == {f[k] : k \in 1 .. n}
<1>1. f \in [1 .. n -> S]
  OBVIOUS
<1> HIDE DEF S
<1>2. f \in Seq(S) /\ Len(f) = n /\ DOMAIN f = 1 .. n
  BY <1>1, SequenceIs
<1>3. SubSeq(f, 1, n) = f
  BY <1>2
<1> QED  BY <1>2, <1>3

\* An entry of the table, and the format that is found of each ramdisk.
EntryOf(x, k, c) ==
    [size |-> x.ramdisks[k].file.size, offset |-> V!Before(RamdisksOf(x))[k],
     type |-> x.ramdisks[k].type, name |-> x.ramdisks[k].name, board_id |-> x.ramdisks[k].board_id,
     ramdisk_compression |-> c]

\* The format extraction finds at the place of a ramdisk.
FoundFormat(x, k) == V!FormatAt(ImageOf(x), Place(x, k))

\* What extraction reports of the header.
VendorInfoOf(x) == VendorReading(x, IF x.version > 3 THEN B!FORMAT_OTHER ELSE FoundFormat(x, 1))

\* What extraction reports of the ramdisks.
VendorTableOf(x) ==
    IF x.version > 3 THEN [k \in 1 .. Len(x.ramdisks) |-> EntryOf(x, k, FoundFormat(x, k))] ELSE <<>>

\* The names of the files of the project.
NameOf(x, k) == IF x.version > 3 THEN RamdiskFiles[k] ELSE "vendor_ramdisk"

\* The format that is found is that of the ramdisk.  An empty one lies where the dtb
\* begins, which is no ramdisk.
LEMMA FormatFound ==
    ASSUME NEW x, IsVendor(x), NEW k \in 1 .. Len(x.ramdisks)
    PROVE  FoundFormat(x, k) = x.ramdisks[k].file.is.format
<1> DEFINE r == x.ramdisks[k].file
<1>1. r \in HeldFiles /\ r.size \in Nat
  BY HeldParts DEF IsVendor, IsRamdisk
<1>2. CASE r.size > 0
  BY <1>2, VendorSections DEF FoundFormat
<1>3. CASE r.size = 0
  <2>1. ~ (x.version > 3) /\ Len(x.ramdisks) = 1
    BY <1>3 DEF IsVendor
  <2>2. \A j \in 1 .. Len(x.ramdisks) : x.ramdisks[j].file = r
    <3> DEFINE n == Len(x.ramdisks)
    <3>1. n = 1 /\ k \in 1 .. n
      BY <2>1
    <3> HIDE DEF n
    <3>2. \A j \in 1 .. n : j = k
      BY <3>1
    <3> QED  BY <3>2 DEF n
  <2>3. \A part \in Parts(x) : part = Section(x.page * DtbAt(x), x.dtb)
    BY <1>3, <2>1, <2>2, PartsAre
  <2>4. \A part \in Parts(x) : part.is.format = B!FORMAT_OTHER
    BY <2>3 DEF Section, IsVendor
  <2> DEFINE hit == {part \in ImageOf(x).parts : part.at = Place(x, k)}
  <2>5. ImageOf(x).parts = Parts(x)
    BY DEF ImageOf
  <2>6. \A part \in hit : part.is.format = B!FORMAT_OTHER
    BY <2>4, <2>5
  <2>7. hit # {} => (CHOOSE part \in hit : TRUE) \in hit
    <3> HIDE DEF hit
    <3> QED  OBVIOUS
  <2>8. V!FormatAt(ImageOf(x), Place(x, k)) = V!FORMAT_OTHER
    <3>1. V!FormatAt(ImageOf(x), Place(x, k)) =
              IF hit = {} THEN V!FORMAT_OTHER ELSE (CHOOSE part \in hit : TRUE).is.format
      BY DEF V!FormatAt
    <3> HIDE DEF hit
    <3> QED  BY <2>6, <2>7, <3>1, SameOperators
  <2>9. r = B!Absent
    BY <1>1, <1>3 DEF HeldFiles
  <2> QED  BY <2>8, <2>9, SameOperators DEF FoundFormat, B!Absent, B!Content
<1> QED  BY <1>1, <1>2, <1>3

\* The files extraction writes.
VendorNames(x) ==
    {NameOf(x, k) : k \in 1 .. Len(x.ramdisks)}
    \cup (IF x.version > 3 THEN {"bootconfig"} ELSE {}) \cup (IF x.dtb.size > 0 THEN {"dtb"} ELSE {})

\* No two sections of a vendor_boot project share a file name.
LEMMA NamesDiffer ==
    ASSUME NEW x, IsVendor(x)
    PROVE  /\ \A j, k \in 1 .. Len(x.ramdisks) : NameOf(x, j) = NameOf(x, k) => j = k
           /\ \A k \in 1 .. Len(x.ramdisks) :
                 /\ NameOf(x, k) # "bootconfig" /\ NameOf(x, k) # "dtb"
                 /\ x.version > 3 => NameOf(x, k) # "vendor_ramdisk" /\ NameOf(x, k) = RamdiskFiles[k]
<1>1. /\ RamdiskFiles \in Seq(STRING \ {"vendor_ramdisk", "bootconfig", "dtb"})
      /\ \A j, k \in DOMAIN RamdiskFiles : RamdiskFiles[j] = RamdiskFiles[k] => j = k
  BY KitchenAssumption
<1>2. DOMAIN RamdiskFiles = 1 .. Len(RamdiskFiles) /\ Len(RamdiskFiles) \in Nat
  BY <1>1
<1>3. Len(x.ramdisks) \in Nat /\ Len(x.ramdisks) <= Len(RamdiskFiles)
  BY DEF IsVendor
<1>4. \A k \in 1 .. Len(x.ramdisks) : k \in DOMAIN RamdiskFiles
  BY <1>2, <1>3
<1>5. \A k \in DOMAIN RamdiskFiles : RamdiskFiles[k] \in STRING \ {"vendor_ramdisk", "bootconfig", "dtb"}
  BY <1>1
<1>6. x.version <= 3 => Len(x.ramdisks) = 1
  BY DEF IsVendor
<1>7. x.version \in Nat
  BY DEF IsVendor
<1>8. CASE x.version > 3
  BY <1>1, <1>4, <1>5, <1>8 DEF NameOf
<1>9. CASE x.version <= 3
  <2>1. \A j, k \in 1 .. Len(x.ramdisks) : j = k
    <3> DEFINE n == Len(x.ramdisks)
    <3>1. n = 1
      BY <1>6, <1>9
    <3> HIDE DEF n
    <3>2. \A j, k \in 1 .. n : j = k
      BY <3>1
    <3> QED  BY <3>2 DEF n
  <2>2. \A k \in 1 .. Len(x.ramdisks) : NameOf(x, k) = "vendor_ramdisk"
    BY <1>7, <1>9 DEF NameOf
  <2> QED  BY <1>7, <1>9, <2>1, <2>2
<1> QED  BY <1>7, <1>8, <1>9

\* What comes out of the image under these names.
AreFiles(x, files) ==
    /\ files = [n \in VendorNames(x) |-> files[n]]
    /\ \A k \in 1 .. Len(x.ramdisks) :
          files[NameOf(x, k)] = B!UnpackRamdisk(x.ramdisks[k].file, FoundFormat(x, k))
    /\ x.version > 3 => files["bootconfig"] = x.bootconfig
    /\ x.dtb.size > 0 => files["dtb"] = x.dtb

\* The table is found, with its entries.
LEMMA VendorTableIs ==
    ASSUME NEW x, IsVendor(x), NEW c
    PROVE  V!Table(ImageOf(x), VendorReading(x, c)) =
               IF x.version > 3 THEN [k \in 1 .. Len(x.ramdisks) |-> EntryOf(x, k, B!FORMAT_OTHER)]
               ELSE <<>>
<1> DEFINE i == VendorReading(x, c)
           L == Len(x.ramdisks)
           img == ImageOf(x)
           e == [k \in 1 .. L |-> EntryOf(x, k, B!FORMAT_OTHER)]
<1>1. i.header_version = x.version
  BY DEF VendorReading
<1>2. CASE x.version > 3
  <2>1. i.entry_size = EntrySize /\ i.entry_num = L
    BY <1>2 DEF VendorReading
  <2>2. img.table.at = x.page * TableAt(x) /\ img.table.entry_size = EntrySize
    BY <1>2 DEF ImageOf
  <2>3. img.table.entries = e
    BY <1>2 DEF ImageOf, EntryOf
  <2>4. V!At(i, V!TablePage(i)) = x.page * TableAt(x)
    BY VendorPlaces
  <2>5. L \in Nat /\ e = [k \in 1 .. L |-> e[k]]
    BY DEF IsVendor
  <2> HIDE DEF i, e, img, L
  <2>6. SubSeq(e, 1, L) = e
    BY <2>5, WholeIs
  <2>7. V!Table(img, i) = SubSeq(img.table.entries, 1, i.entry_num)
    BY <1>1, <1>2, <2>1, <2>2, <2>4 DEF V!Table
  <2> QED  BY <1>2, <2>1, <2>3, <2>6, <2>7 DEF e, img, i, L
<1>3. CASE ~ (x.version > 3)
  <2> HIDE DEF i
  <2>1. V!Table(img, i) = <<>>
    BY <1>1, <1>3 DEF V!Table
  <2> QED  BY <1>3, <2>1 DEF i
<1> QED  BY <1>2, <1>3

\* The offset and the size of every section are those of its chunk.
LEMMA VendorEntries ==
    ASSUME NEW x, IsVendor(x), NEW c, NEW t,
           x.version > 3 => /\ DOMAIN t = 1 .. Len(x.ramdisks)
                            /\ \A k \in 1 .. Len(x.ramdisks) :
                                  /\ t[k].offset = V!Before(RamdisksOf(x))[k]
                                  /\ t[k].size = x.ramdisks[k].file.size
    PROVE  LET e == V!ImageEntries(VendorReading(x, c), t)
           IN  /\ DOMAIN e = VendorNames(x)
               /\ \A k \in 1 .. Len(x.ramdisks) :
                     /\ e[NameOf(x, k)].offset = Place(x, k)
                     /\ e[NameOf(x, k)].size = x.ramdisks[k].file.size
               /\ x.version > 3 => /\ e["bootconfig"].offset = x.page * ConfigAt(x)
                                   /\ e["bootconfig"].size = x.bootconfig.size
               /\ x.dtb.size > 0 => /\ e["dtb"].offset = x.page * DtbAt(x)
                                    /\ e["dtb"].size = x.dtb.size
<1> DEFINE i == VendorReading(x, c)
           L == Len(x.ramdisks)
           four == x.version > 3
           e == V!ImageEntries(i, t)
           entry(o, s) == [offset |-> o, size |-> s]
           afterTable == V!TablePage(i) + V!GetNumberOfPages(i.table_size, i.page_size)
           Case(n) ==
             CASE n = "bootconfig"     -> entry(V!At(i, afterTable), i.bootconfig_size)
               [] n = "vendor_ramdisk" -> entry(V!RamdiskBase(i), i.vendor_ramdisk_size)
               [] n = "dtb"            -> entry(V!At(i, V!HeaderPages(i) + V!RamdiskPages(i)), i.dtb_size)
               [] OTHER                -> entry(V!Word(V!RamdiskBase(i) + t[V!Index(t, n)].offset),
                                                t[V!Index(t, n)].size)
<1>1. e = [n \in V!FileNames(i, t) |-> Case(n)]
  BY DEF V!ImageEntries
<1>2. /\ i.header_version = x.version /\ i.dtb_size = x.dtb.size
      /\ i.bootconfig_size = (IF four THEN x.bootconfig.size ELSE 0)
      /\ i.vendor_ramdisk_size = V!Total(RamdisksOf(x))
  BY DEF VendorReading
<1>3. L \in Nat /\ (~ four => L = 1)
  BY DEF IsVendor
<1>4. V!FileNames(i, t) = VendorNames(x)
  <2>1. CASE four
    <3> HIDE DEF i
    <3> QED  BY <1>2, <2>1 DEF V!FileNames, VendorNames, NameOf
  <2>2. CASE ~ four
    <3>1. {NameOf(x, k) : k \in 1 .. L} = {"vendor_ramdisk"}
      <4>1. 1 \in 1 .. L
        BY <1>3, <2>2
      <4>2. \A k \in 1 .. L : NameOf(x, k) = "vendor_ramdisk"
        BY <2>2 DEF NameOf
      <4> HIDE DEF L
      <4> QED  BY <4>1, <4>2
    <3> HIDE DEF i
    <3> QED  BY <1>2, <2>2, <3>1 DEF V!FileNames, VendorNames
  <2> QED  BY <2>1, <2>2
<1>5. /\ \A j, k \in 1 .. L : NameOf(x, j) = NameOf(x, k) => j = k
      /\ \A k \in 1 .. L : /\ NameOf(x, k) # "bootconfig" /\ NameOf(x, k) # "dtb"
                           /\ four => NameOf(x, k) # "vendor_ramdisk" /\ NameOf(x, k) = RamdiskFiles[k]
  BY NamesDiffer
<1>6. /\ four => afterTable = ConfigAt(x)
      /\ V!HeaderPages(i) + V!RamdiskPages(i) = DtbAt(x)
      /\ V!At(i, ConfigAt(x)) = x.page * ConfigAt(x) /\ V!At(i, DtbAt(x)) = x.page * DtbAt(x)
      /\ V!RamdiskBase(i) = Place(x, 1)
      /\ \A k \in 1 .. L : V!Word(V!RamdiskBase(i) + V!Before(RamdisksOf(x))[k]) = Place(x, k)
  BY VendorPlaces
<1> HIDE DEF i, e, afterTable
<1>7. \A o, s : entry(o, s).offset = o /\ entry(o, s).size = s
  OBVIOUS
<1> HIDE DEF entry
<1>8. ASSUME NEW k \in 1 .. L
      PROVE  e[NameOf(x, k)].offset = Place(x, k) /\ e[NameOf(x, k)].size = x.ramdisks[k].file.size
  <2> DEFINE n == NameOf(x, k)
  <2>1. n \in VendorNames(x)
    BY DEF VendorNames
  <2>2. e[n] = Case(n)
    BY <1>1, <1>4, <2>1
  <2>3. CASE four
    <3>1. V!Index(t, n) = k
      <4>1. k \in DOMAIN t /\ RamdiskFiles[k] = n
        BY <1>5, <2>3
      <4>2. \A j \in DOMAIN t : RamdiskFiles[j] = n => j = k
        BY <1>5, <2>3
      <4> HIDE DEF n
      <4> QED  BY <4>1, <4>2 DEF V!Index
    <3>2. n # "bootconfig" /\ n # "dtb" /\ n # "vendor_ramdisk"
      BY <1>5, <2>3
    <3>3. t[k].offset = V!Before(RamdisksOf(x))[k] /\ t[k].size = x.ramdisks[k].file.size
      BY <2>3
    <3> HIDE DEF n
    <3>4. e[n] = entry(V!Word(V!RamdiskBase(i) + t[k].offset), t[k].size)
      BY <2>2, <3>1, <3>2
    <3> QED  BY <1>6, <1>7, <3>3, <3>4 DEF n
  <2>4. CASE ~ four
    <3>1. n = "vendor_ramdisk" /\ k = 1
      <4>1. L = 1
        BY <1>3, <2>4
      <4> HIDE DEF L
      <4>2. k = 1
        BY <4>1
      <4> QED  BY <2>4, <4>2 DEF NameOf
    <3>2. e[n] = entry(V!RamdiskBase(i), i.vendor_ramdisk_size)
      BY <2>2, <3>1
    <3>3. V!Total(RamdisksOf(x)) = x.ramdisks[1].file.size
      <4>1. x.version <= 3
        BY <2>4 DEF IsVendor
      <4> QED  BY <4>1, TotalOfOne
    <3> HIDE DEF n
    <3> QED  BY <1>2, <1>6, <1>7, <3>1, <3>2, <3>3 DEF n
  <2> QED  BY <2>3, <2>4
<1>9. four => /\ e["bootconfig"].offset = x.page * ConfigAt(x)
              /\ e["bootconfig"].size = x.bootconfig.size
  <2> SUFFICES ASSUME four PROVE /\ e["bootconfig"].offset = x.page * ConfigAt(x)
                                 /\ e["bootconfig"].size = x.bootconfig.size
    OBVIOUS
  <2>1. "bootconfig" \in VendorNames(x)
    BY DEF VendorNames
  <2>2. e["bootconfig"] = Case("bootconfig")
    BY <1>1, <1>4, <2>1
  <2>3. e["bootconfig"] = entry(V!At(i, afterTable), i.bootconfig_size)
    BY <2>2
  <2> QED  BY <1>2, <1>6, <1>7, <2>3
<1>10. x.dtb.size > 0 => e["dtb"].offset = x.page * DtbAt(x) /\ e["dtb"].size = x.dtb.size
  <2> SUFFICES ASSUME x.dtb.size > 0 PROVE e["dtb"].offset = x.page * DtbAt(x) /\ e["dtb"].size = x.dtb.size
    OBVIOUS
  <2>1. "dtb" \in VendorNames(x)
    BY DEF VendorNames
  <2>2. e["dtb"] = Case("dtb")
    BY <1>1, <1>4, <2>1
  <2>3. e["dtb"] = entry(V!At(i, V!HeaderPages(i) + V!RamdiskPages(i)), i.dtb_size)
    BY <2>2
  <2> QED  BY <1>2, <1>6, <1>7, <2>3
<1>11. DOMAIN e = VendorNames(x)
  BY <1>1, <1>4
<1> QED  BY <1>8, <1>9, <1>10, <1>11 DEF e, i

\* There is something where a ramdisk begins, unless the file ends with its header.
LEMMA BytesThere ==
    ASSUME NEW x, IsVendor(x)
    PROVE  /\ \A k \in 1 .. Len(x.ramdisks) : V!HasBytes(ImageOf(x), Place(x, k)) <=> ~ Bare(x)
           /\ Bare(x) => 1 \in 1 .. Len(x.ramdisks)
<1> DEFINE p == x.page
           r1 == p * RamdiskAt(x)
           r2 == p * DtbAt(x)
           r3 == p * TableAt(x)
           total == V!Total(RamdisksOf(x))
           end == ImageOf(x).end
<1>1. /\ r1 + total <= r2 /\ r2 + x.dtb.size <= r3 /\ {r1, r2, r3} \subseteq 0 .. U32 - 1
      /\ total \in 0 .. U32 - 1 /\ RamdiskAt(x) \in Nat
  BY VendorPages
<1>2. /\ r2 <= end /\ r2 + x.dtb.size <= end /\ (x.version <= 3 => end = r3)
      /\ \A k \in 1 .. Len(x.ramdisks) : x.ramdisks[k].file.size # 0 =>
              Place(x, k) + x.ramdisks[k].file.size <= r2
  <2>1. x.version <= 3 => end = r3
    BY DEF ImageOf, IsVendor
  <2> QED  BY <2>1, PartsApart
<1>3. end \in Int
  <2>1. end = p * (IF x.version > 3 THEN EndAt(x) ELSE TableAt(x))
    BY DEF ImageOf
  <2>2. p * EndAt(x) \in Nat /\ r3 \in Int
    BY <1>1, VendorPages, SizeBounds
  <2> QED  BY <2>1, <2>2
<1>4. /\ U32 \in Nat /\ x.dtb.size \in Nat /\ p \in Nat \ {0} /\ x.version \in Nat
      /\ x.version <= 3 => Len(x.ramdisks) = 1
      /\ \A k \in 1 .. Len(x.ramdisks) : x.ramdisks[k].file.size \in Nat
  <2>1. \A h \in HeldFiles : h.size \in Nat
    BY HeldParts
  <2>2. \A k \in 1 .. Len(x.ramdisks) : x.ramdisks[k].file \in HeldFiles
    BY DEF IsVendor, IsRamdisk
  <2>3. p \in 1 .. MaxSize /\ x.dtb \in HeldFiles
    BY DEF IsVendor
  <2>4. x.version \in Nat /\ (x.version <= 3 => Len(x.ramdisks) = 1)
    BY DEF IsVendor
  <2>5. p \in Nat \ {0} /\ U32 \in Nat
    BY <2>3, SizeBounds
  <2>6. x.dtb.size \in Nat
    BY <2>1, <2>3
  <2>7. \A k \in 1 .. Len(x.ramdisks) : x.ramdisks[k].file.size \in Nat
    BY <2>1, <2>2
  <2> QED  BY <2>4, <2>5, <2>6, <2>7
<1>5. \A k \in 1 .. Len(x.ramdisks) : Place(x, k) \in Int
  <2> SUFFICES ASSUME NEW k \in 1 .. Len(x.ramdisks) PROVE Place(x, k) \in Int
    OBVIOUS
  <2>1. V!Before(RamdisksOf(x))[k] \in 0 .. Len(x.ramdisks) * MaxSize /\ Len(x.ramdisks) * MaxSize \in Nat
    BY VendorFilesBounds
  <2>2. V!Before(RamdisksOf(x))[k] \in Int /\ r1 \in Int
    <3> DEFINE m == Len(x.ramdisks) * MaxSize
               b == V!Before(RamdisksOf(x))[k]
    <3> HIDE DEF m, b
    <3>1. b \in Int
      BY <2>1 DEF b, m
    <3>2. r1 \in Int
      BY <1>1, <1>4
    <3> QED  BY <3>1, <3>2 DEF b
  <2> QED  BY <2>2 DEF Place
<1>6. Place(x, 1) = r1
  <2>1. V!Before(RamdisksOf(x))[1] = 0 /\ r1 \in Int
    BY <1>1, <1>4, VendorFilesBounds
  <2> QED  BY <2>1 DEF Place
<1>7. x.version <= 3 => \A k \in 1 .. Len(x.ramdisks) : k = 1
  <2> DEFINE n == Len(x.ramdisks)
  <2>1. x.version <= 3 => n = 1
    BY <1>4
  <2> HIDE DEF n
  <2>2. x.version <= 3 => \A k \in 1 .. n : k = 1
    BY <2>1
  <2> QED  BY <2>2 DEF n
<1>8. Bare(x) => end = r1
  <2> SUFFICES ASSUME Bare(x) PROVE end = r1
    OBVIOUS
  <2>1. Pages(0, p) = 0
    BY <1>4, PagesBounds
  <2>2. DtbAt(x) = RamdiskAt(x) + Pages(0, p) /\ TableAt(x) = DtbAt(x) + Pages(0, p)
    BY DEF Bare, DtbAt, TableAt
  <2>3. TableAt(x) = RamdiskAt(x)
    BY <1>1, <2>1, <2>2
  <2> QED  BY <1>2, <2>3 DEF Bare
<1> HIDE DEF r1, r2, r3, total, end
<1>9. ASSUME NEW k \in 1 .. Len(x.ramdisks), ~ Bare(x) PROVE Place(x, k) < end
  <2>1. CASE x.version > 3
    <3>1. x.ramdisks[k].file.size \in Nat /\ x.ramdisks[k].file.size > 0
      BY <1>4, <2>1 DEF IsVendor
    <3>2. Place(x, k) + x.ramdisks[k].file.size <= r2
      BY <1>2, <3>1
    <3> QED  BY <1>1, <1>2, <1>3, <1>4, <1>5, <3>1, <3>2
  <2>2. CASE x.version <= 3
    <3>1. Place(x, k) = r1
      BY <1>6, <1>7, <2>2
    <3>2. total # 0 \/ x.dtb.size # 0
      BY <1>9, <2>2 DEF Bare, total
    <3> QED  BY <1>1, <1>2, <1>3, <1>4, <3>1, <3>2
  <2> QED  BY <1>4, <2>1, <2>2
<1>10. ASSUME NEW k \in 1 .. Len(x.ramdisks), Bare(x) PROVE ~ (Place(x, k) < end)
  <2>1. Place(x, k) = r1 /\ end = r1
    BY <1>6, <1>7, <1>8, <1>10 DEF Bare
  <2> QED  BY <1>3, <2>1
<1>11. Bare(x) => 1 \in 1 .. Len(x.ramdisks)
  <2>1. Bare(x) => Len(x.ramdisks) = 1
    BY <1>4 DEF Bare
  <2> QED  BY <2>1
<1>12. \A k \in 1 .. Len(x.ramdisks) : V!HasBytes(ImageOf(x), Place(x, k)) <=> Place(x, k) < end
  BY DEF V!HasBytes, end
<1> QED  BY <1>9, <1>10, <1>11, <1>12

\* An image of this form can be extracted, and everything comes out of it, unless
\* nothing is in it.
LEMMA VendorExtracts ==
    ASSUME NEW x, IsVendor(x)
    PROVE  /\ V!Unpackable(ImageOf(x)) <=> ~ Bare(x)
           /\ V!Unpacked(ImageOf(x)).info = VendorInfoOf(x)
           /\ V!Unpacked(ImageOf(x)).table = VendorTableOf(x)
           /\ AreFiles(x, V!Unpacked(ImageOf(x)).files)
<1> DEFINE img == ImageOf(x)
           L == Len(x.ramdisks)
           four == x.version > 3
           head == VendorReading(x, B!FORMAT_OTHER)
           raw == V!Table(img, head)
           i == VendorInfoOf(x)
           table == VendorTableOf(x)
           Reads(place, file) == V!Readable(img, place, file.size) /\ V!ExtractImage(img, place, file.size) = file
<1>1. V!ReadHeader(img.header) = head
  BY VendorReads
<1>2. /\ head.header_version = x.version /\ head.dtb_size = x.dtb.size
      /\ head.bootconfig_size = (IF four THEN x.bootconfig.size ELSE 0)
      /\ head.entry_num = IF four THEN L ELSE 0
  BY DEF VendorReading
<1>3. /\ i.header_version = x.version /\ i.dtb_size = x.dtb.size
      /\ i.bootconfig_size = (IF four THEN x.bootconfig.size ELSE 0)
  BY DEF VendorInfoOf, VendorReading
<1>4. raw = IF four THEN [k \in 1 .. L |-> EntryOf(x, k, B!FORMAT_OTHER)] ELSE <<>>
  BY VendorTableIs
<1>5. V!Table(img, i) = raw
  BY VendorTableIs DEF VendorInfoOf
<1>6. \A k \in 1 .. L : EntryOf(x, k, B!FORMAT_OTHER).offset = V!Before(RamdisksOf(x))[k]
                        /\ EntryOf(x, k, B!FORMAT_OTHER).size = x.ramdisks[k].file.size
  BY DEF EntryOf
<1>7. \A j \in {head, i} : V!RamdiskBase(j) = Place(x, 1)
                          /\ \A k \in 1 .. L : V!Word(V!RamdiskBase(j) + V!Before(RamdisksOf(x))[k]) = Place(x, k)
  BY VendorPlaces DEF VendorInfoOf
<1>8. (IF head.header_version > 3 THEN head
       ELSE [head EXCEPT !.ramdisk_compression = V!FormatAt(img, V!RamdiskBase(head))]) = i
  BY <1>7 DEF VendorInfoOf, VendorReading, FoundFormat
<1>9. V!Detected(img, i, raw) = table
  <2>1. CASE four
    <3> DEFINE e == [k \in 1 .. L |-> EntryOf(x, k, B!FORMAT_OTHER)]
    <3>1. raw = e /\ DOMAIN e = 1 .. L /\ \A k \in 1 .. L : e[k] = EntryOf(x, k, B!FORMAT_OTHER)
      BY <1>4, <2>1
    <3>2. \A k \in 1 .. L : V!FormatAt(img, V!Word(V!RamdiskBase(i) + e[k].offset)) = FoundFormat(x, k)
      BY <1>6, <1>7, <3>1 DEF FoundFormat
    <3>3. \A k \in 1 .. L : \A c : [EntryOf(x, k, B!FORMAT_OTHER) EXCEPT !.ramdisk_compression = c] = EntryOf(x, k, c)
      BY DEF EntryOf
    <3> HIDE DEF raw, e, i, img
    <3>4. V!Detected(img, i, raw) = [k \in 1 .. L |-> EntryOf(x, k, FoundFormat(x, k))]
      BY <3>1, <3>2, <3>3 DEF V!Detected
    <3> QED  BY <2>1, <3>4 DEF VendorTableOf
  <2>2. CASE ~ four
    <3>1. raw = <<>> /\ table = <<>>
      BY <1>4, <2>2 DEF VendorTableOf
    <3> HIDE DEF raw, table, i, img
    <3> QED  BY <3>1 DEF V!Detected
  <2> QED  BY <2>1, <2>2
<1>10. /\ \A k \in 1 .. L : Reads(Place(x, k), x.ramdisks[k].file)
       /\ Reads(x.page * DtbAt(x), x.dtb)
       /\ four => Reads(x.page * ConfigAt(x), x.bootconfig)
  BY VendorSections
<1>11. four => /\ DOMAIN raw = 1 .. L /\ DOMAIN table = 1 .. L
               /\ \A k \in 1 .. L : /\ raw[k].offset = V!Before(RamdisksOf(x))[k]
                                    /\ raw[k].size = x.ramdisks[k].file.size
                                    /\ table[k].offset = V!Before(RamdisksOf(x))[k]
                                    /\ table[k].size = x.ramdisks[k].file.size
                                    /\ table[k].ramdisk_compression = FoundFormat(x, k)
  BY <1>4 DEF VendorTableOf, EntryOf
<1> DEFINE e == V!ImageEntries(i, table)
           e0 == V!ImageEntries(head, raw)
           Entries(s) == /\ DOMAIN s = VendorNames(x)
                         /\ \A k \in 1 .. L : /\ s[NameOf(x, k)].offset = Place(x, k)
                                              /\ s[NameOf(x, k)].size = x.ramdisks[k].file.size
                         /\ four => /\ s["bootconfig"].offset = x.page * ConfigAt(x)
                                    /\ s["bootconfig"].size = x.bootconfig.size
                         /\ x.dtb.size > 0 => /\ s["dtb"].offset = x.page * DtbAt(x)
                                              /\ s["dtb"].size = x.dtb.size
<1>12. Entries(e0)
  <2> HIDE DEF raw
  <2> QED  BY <1>11, VendorEntries
<1>13. Entries(e)
  <2> HIDE DEF raw, table
  <2> QED  BY <1>11, VendorEntries DEF VendorInfoOf
<1> HIDE DEF i, head, raw, table, e, e0, img
<1>14. V!Unpackable(img) <=> ~ Bare(x)
  <2>1. head.entry_num = Len(raw)
    <3>1. CASE four
      <4>1. L \in Nat /\ raw = [k \in 1 .. L |-> EntryOf(x, k, B!FORMAT_OTHER)]
        BY <1>4, <3>1 DEF IsVendor
      <4> QED  BY <1>2, <3>1, <4>1
    <3>2. CASE ~ four
      BY <1>2, <1>4, <3>2
    <3> QED  BY <3>1, <3>2
  <2>2. \A n \in VendorNames(x) : V!Readable(img, e0[n].offset, e0[n].size)
    <3>1. \A k \in 1 .. L : V!Readable(img, e0[NameOf(x, k)].offset, e0[NameOf(x, k)].size)
      BY <1>10, <1>12
    <3>2. four => V!Readable(img, e0["bootconfig"].offset, e0["bootconfig"].size)
      BY <1>10, <1>12
    <3>3. x.dtb.size > 0 => V!Readable(img, e0["dtb"].offset, e0["dtb"].size)
      BY <1>10, <1>12
    <3> QED  BY <3>1, <3>2, <3>3 DEF VendorNames
  <2>3. DOMAIN e0 = VendorNames(x)
    BY <1>12
  <2>4. V!RamdiskOffsets(head, raw) = {Place(x, k) : k \in 1 .. L}
    <3>1. CASE four
      <4>1. V!RamdiskOffsets(head, raw) = {V!Word(V!RamdiskBase(head) + raw[k].offset) : k \in DOMAIN raw}
        BY <1>2, <3>1 DEF V!RamdiskOffsets
      <4>2. DOMAIN raw = 1 .. L
            /\ \A k \in 1 .. L : V!Word(V!RamdiskBase(head) + raw[k].offset) = Place(x, k)
        BY <1>7, <1>11, <3>1
      <4> QED  BY <4>1, <4>2
    <3>2. CASE ~ four
      <4>1. V!RamdiskOffsets(head, raw) = {V!RamdiskBase(head)}
        BY <1>2, <3>2 DEF V!RamdiskOffsets
      <4>2. L = 1
        BY <3>2 DEF IsVendor
      <4>3. {Place(x, k) : k \in 1 .. L} = {Place(x, 1)}
        <5> HIDE DEF L
        <5> QED  BY <4>2
      <4> QED  BY <1>7, <4>1, <4>3
    <3> QED  BY <3>1, <3>2
  <2>5. (\A offset \in V!RamdiskOffsets(head, raw) : V!HasBytes(img, offset)) <=> ~ Bare(x)
    <3>1. /\ \A k \in 1 .. L : V!HasBytes(img, Place(x, k)) <=> ~ Bare(x)
          /\ Bare(x) => 1 \in 1 .. L
      BY BytesThere DEF img
    <3> QED  BY <2>4, <3>1
  <2> HIDE DEF Entries
  <2> QED  BY <1>1, <2>1, <2>2, <2>3, <2>5 DEF V!Unpackable, e0, raw
<1>15. V!Unpacked(img).info = i /\ V!Unpacked(img).table = table
  BY <1>1, <1>5, <1>8, <1>9 DEF V!Unpacked
<1> DEFINE Compression(n) ==
             CASE n = "vendor_ramdisk"      -> i.ramdisk_compression
               [] n \in {"bootconfig", "dtb"} -> V!FORMAT_OTHER
               [] OTHER                     -> table[V!Index(table, n)].ramdisk_compression
           u == V!Unpacked(img).files
<1>16. u = [n \in DOMAIN e |-> V!UnpackRamdisk(V!ExtractImage(img, e[n].offset, e[n].size), Compression(n))]
  <2> DEFINE H == V!ReadHeader(img.header)
             I == IF H.header_version > 3 THEN H
                  ELSE [H EXCEPT !.ramdisk_compression = V!FormatAt(img, V!RamdiskBase(H))]
             T == V!Detected(img, I, V!Table(img, I))
             E == V!ImageEntries(I, T)
             Found(n) ==
               CASE n = "vendor_ramdisk"      -> I.ramdisk_compression
                 [] n \in {"bootconfig", "dtb"} -> V!FORMAT_OTHER
                 [] OTHER                     -> T[V!Index(T, n)].ramdisk_compression
  <2>1. u = [n \in DOMAIN E |-> V!UnpackRamdisk(V!ExtractImage(img, E[n].offset, E[n].size), Found(n))]
    BY DEF V!Unpacked
  <2>2. I = i
    BY <1>1, <1>8
  <2> HIDE DEF I
  <2>3. T = table
    BY <1>5, <1>9, <2>2
  <2> HIDE DEF T
  <2>4. E = e
    BY <2>2, <2>3 DEF e
  <2> HIDE DEF E
  <2>5. \A n : Found(n) = Compression(n)
    BY <2>2, <2>3
  <2> HIDE DEF Found, Compression, u
  <2>6. u = [n \in DOMAIN e |-> V!UnpackRamdisk(V!ExtractImage(img, e[n].offset, e[n].size), Found(n))]
    BY <2>1, <2>4
  <2> QED  BY <2>5, <2>6
<1>17. \A k \in 1 .. L : Compression(NameOf(x, k)) = FoundFormat(x, k)
  <2> SUFFICES ASSUME NEW k \in 1 .. L PROVE Compression(NameOf(x, k)) = FoundFormat(x, k)
    OBVIOUS
  <2>1. /\ \A j \in 1 .. L : NameOf(x, j) = NameOf(x, k) => j = k
        /\ NameOf(x, k) # "bootconfig" /\ NameOf(x, k) # "dtb"
        /\ four => NameOf(x, k) # "vendor_ramdisk" /\ \A j \in 1 .. L : NameOf(x, j) = RamdiskFiles[j]
    BY NamesDiffer
  <2>2. CASE four
    <3>1. V!Index(table, NameOf(x, k)) = k
      <4> DEFINE n == NameOf(x, k)
      <4>1. k \in DOMAIN table /\ RamdiskFiles[k] = n /\ \A j \in DOMAIN table : RamdiskFiles[j] = n => j = k
        BY <1>11, <2>1, <2>2
      <4> HIDE DEF n
      <4> QED  BY <4>1 DEF V!Index, n
    <3> QED  BY <1>11, <2>1, <2>2, <3>1
  <2>3. CASE ~ four
    <3>1. NameOf(x, k) = "vendor_ramdisk" /\ L = 1
      BY <2>3 DEF NameOf, IsVendor
    <3>2. k = 1
      BY <3>1
    <3>3. i.ramdisk_compression = FoundFormat(x, 1)
      BY <2>3 DEF i, VendorInfoOf, VendorReading
    <3> QED  BY <3>1, <3>2, <3>3
  <2> QED  BY <2>2, <2>3
<1>18. \A file : V!UnpackRamdisk(file, V!FORMAT_OTHER) = file
  BY DEF V!UnpackRamdisk
<1>19. Compression("bootconfig") = V!FORMAT_OTHER /\ Compression("dtb") = V!FORMAT_OTHER
  OBVIOUS
<1> HIDE DEF Compression, u
<1>20. DOMAIN e = VendorNames(x) /\ u = [n \in VendorNames(x) |-> u[n]]
  BY <1>13, <1>16
<1>21. \A n \in VendorNames(x) :
          u[n] = V!UnpackRamdisk(V!ExtractImage(img, e[n].offset, e[n].size), Compression(n))
  BY <1>16, <1>20
<1>22. ASSUME NEW k \in 1 .. L
       PROVE  u[NameOf(x, k)] = B!UnpackRamdisk(x.ramdisks[k].file, FoundFormat(x, k))
  <2>1. NameOf(x, k) \in VendorNames(x)
    BY DEF VendorNames
  <2>2. V!ExtractImage(img, e[NameOf(x, k)].offset, e[NameOf(x, k)].size) = x.ramdisks[k].file
    BY <1>10, <1>13
  <2> HIDE DEF Entries
  <2> QED  BY <1>17, <1>21, <2>1, <2>2, SameOperators
<1>23. four => u["bootconfig"] = x.bootconfig
  <2>1. four => "bootconfig" \in VendorNames(x)
    BY DEF VendorNames
  <2>2. four => V!ExtractImage(img, e["bootconfig"].offset, e["bootconfig"].size) = x.bootconfig
    BY <1>10, <1>13
  <2> HIDE DEF Entries
  <2> QED  BY <1>18, <1>19, <1>21, <2>1, <2>2
<1>24. x.dtb.size > 0 => u["dtb"] = x.dtb
  <2>1. x.dtb.size > 0 => "dtb" \in VendorNames(x)
    BY DEF VendorNames
  <2>2. x.dtb.size > 0 => V!ExtractImage(img, e["dtb"].offset, e["dtb"].size) = x.dtb
    BY <1>10, <1>13
  <2> HIDE DEF Entries
  <2> QED  BY <1>18, <1>19, <1>21, <2>1, <2>2
<1>25. AreFiles(x, u)
  BY <1>20, <1>22, <1>23, <1>24 DEF AreFiles
<1> QED  BY <1>14, <1>15, <1>25 DEF img, i, table, u
-----------------------------------------------------------------------------
(* The configuration of a vendor_boot project.                             *)

\* The fields the configuration of a vendor_boot project holds.
VendorFieldNames ==
    {"boot_magic", "ramdisk_compression", "header_version", "page_size", "kernel_load_address",
     "ramdisk_load_address", "vendor_ramdisk_size", "cmdline", "tags_load_address", "product_name",
     "header_size", "dtb_size", "dtb_load_address", "table_size", "entry_num", "entry_size",
     "bootconfig_size"}

\* The fields it holds of one ramdisk.
EntryFieldNames == {"size", "offset", "type", "name", "board_id", "ramdisk_compression"}

\* What the records of VendorBootConfig have in them before they are read.
VendorBefore == V!ReadHeader([k \in 1 .. 16 |-> 0])

\* An entry before it is read.
EntryBefore == [size |-> 0, offset |-> 0, type |-> 0, name |-> <<>>, board_id |-> 0,
                ramdisk_compression |-> B!FORMAT_OTHER]

\* The records of VendorBootConfig are read in the order in which they are
\* written, each field once.
LEMMA VendorFieldsAre ==
    /\ DOMAIN VendorBefore = VendorFieldNames
    /\ C!VendorFieldsRead = C!VendorFields
    /\ DOMAIN C!VendorFields = 1 .. 17 /\ Len(C!VendorFields) = 17
    /\ \A j, k \in 1 .. 17 : C!VendorFields[j][2] = C!VendorFields[k][2] => j = k
    /\ \A k \in 1 .. 17 : C!VendorFields[k][1] = "str" => C!VendorFields[k][2] \in
            {"boot_magic", "cmdline", "product_name"}
    /\ \A n \in VendorFieldNames : \E k \in 1 .. 17 : C!VendorFields[k][2] = n
<1>1. DOMAIN VendorBefore = VendorFieldNames
  BY DEF VendorBefore, V!ReadHeader, VendorFieldNames
<1>2. C!VendorFieldsRead = C!VendorFields
  BY DEF C!VendorFields, C!VendorFieldsRead
<1>3. DOMAIN C!VendorFields = 1 .. 17 /\ Len(C!VendorFields) = 17
  BY DEF C!VendorFields
<1>4. \A j, k \in 1 .. 17 : C!VendorFields[j][2] = C!VendorFields[k][2] => j = k
  BY DEF C!VendorFields
<1>5. \A k \in 1 .. 17 : C!VendorFields[k][1] = "str" => C!VendorFields[k][2] \in
            {"boot_magic", "cmdline", "product_name"}
  BY DEF C!VendorFields
<1>6. \A n \in VendorFieldNames : \E k \in 1 .. 17 : C!VendorFields[k][2] = n
  BY DEF C!VendorFields, VendorFieldNames
<1> QED  BY <1>1, <1>2, <1>3, <1>4, <1>5, <1>6

\* The fields of one ramdisk in the configuration.
LEMMA EntryFieldsAre ==
    /\ DOMAIN EntryBefore = EntryFieldNames
    /\ C!EntryFieldsRead = C!EntryFields
    /\ DOMAIN C!EntryFields = 1 .. 6 /\ Len(C!EntryFields) = 6
    /\ \A j, k \in 1 .. 6 : C!EntryFields[j][2] = C!EntryFields[k][2] => j = k
    /\ \A k \in 1 .. 6 : C!EntryFields[k][1] = "str" => C!EntryFields[k][2] = "name"
    /\ \A n \in EntryFieldNames : \E k \in 1 .. 6 : C!EntryFields[k][2] = n
<1>1. DOMAIN EntryBefore = EntryFieldNames
  BY DEF EntryBefore, EntryFieldNames
<1>2. C!EntryFieldsRead = C!EntryFields
  BY DEF C!EntryFields, C!EntryFieldsRead
<1>3. DOMAIN C!EntryFields = 1 .. 6 /\ Len(C!EntryFields) = 6
  BY DEF C!EntryFields
<1>4. \A j, k \in 1 .. 6 : C!EntryFields[j][2] = C!EntryFields[k][2] => j = k
  BY DEF C!EntryFields
<1>5. \A k \in 1 .. 6 : C!EntryFields[k][1] = "str" => C!EntryFields[k][2] = "name"
  BY DEF C!EntryFields
<1>6. \A n \in EntryFieldNames : \E k \in 1 .. 6 : C!EntryFields[k][2] = n
  BY DEF C!EntryFields, EntryFieldNames
<1> QED  BY <1>1, <1>2, <1>3, <1>4, <1>5, <1>6

\* What is left of a sequence, from a place on.
LEMMA RestIs ==
    ASSUME NEW S, NEW c \in Seq(S), NEW m \in Nat, NEW k \in Nat \ {0}, m + k <= Len(c)
    PROVE  /\ k \in DOMAIN SubSeq(c, m + 1, Len(c))
           /\ SubSeq(c, m + 1, Len(c))[k] = c[m + k]
  OBVIOUS

\* What VendorBootConfig stores.
IsStored(i, t) ==
    /\ i = [n \in VendorFieldNames |-> i[n]]
    /\ i.boot_magic = V!VENDOR_BOOT_MAGIC /\ Storable(i.cmdline) /\ Storable(i.product_name)
    /\ Len(t) \in Nat /\ t = [k \in 1 .. Len(t) |-> t[k]]
    /\ i.entry_num = Len(t)
    /\ \A k \in 1 .. Len(t) : t[k] = [n \in EntryFieldNames |-> t[k][n]] /\ Storable(t[k].name)

\* The items of a configuration: those of the record, and behind them those of
\* the entries, six for each.
LEMMA VendorItems ==
    ASSUME NEW i, NEW t, IsStored(i, t)
    PROVE  LET c == C!VendorWrite(i, t)
           IN  /\ \E S : c \in Seq(S)
               /\ Len(c) = 17 + 6 * Len(t)
               /\ \A k \in 1 .. 17 : c[k] = C!Written(C!VendorFields, i)[k]
               /\ \A j \in 1 .. Len(t), k \in 1 .. 6 :
                     c[(17 + (j - 1) * 6) + k] = C!Written(C!EntryFields, t[j])[k]
<1> DEFINE n == Len(t)
           c == C!VendorWrite(i, t)
           r == C!Written(C!VendorFields, i)
           E(k) == C!Written(C!EntryFields, t[(k - 1) \div 6 + 1])[((k - 1) % 6) + 1]
           e == [k \in 1 .. 6 * n |-> E(k)]
           T == {r[k] : k \in 1 .. 17} \cup {e[k] : k \in 1 .. 6 * n}
<1>1. n \in Nat /\ 6 * n \in Nat
  BY DEF IsStored
<1>2. c = r \o e
  BY EntryFieldsAre DEF C!VendorWrite
<1>3. r = [k \in 1 .. 17 |-> r[k]]
  BY VendorFieldsAre DEF C!Written
<1>4. \A k \in 1 .. 6 * n : e[k] = E(k)
  OBVIOUS
<1>5. e = [k \in 1 .. 6 * n |-> e[k]]
  OBVIOUS
<1> HIDE DEF r, e, n, c, E
<1>6. r \in [1 .. 17 -> T]
  BY <1>3
<1>7. e \in [1 .. 6 * n -> T]
  BY <1>5
<1> HIDE DEF T
<1>8. r \in Seq(T) /\ Len(r) = 17
  BY <1>6, SequenceIs
<1>9. e \in Seq(T) /\ Len(e) = 6 * n
  BY <1>1, <1>7, SequenceIs
<1>10. c \in Seq(T) /\ Len(c) = 17 + 6 * n
  <2>1. r \in Seq(T) /\ e \in Seq(T)
    BY <1>8, <1>9
  <2>2. r \o e \in Seq(T) /\ Len(r \o e) = Len(r) + Len(e)
    BY <2>1, Pieces
  <2> QED  BY <1>2, <1>8, <1>9, <2>2
<1>11. /\ \A k \in 1 .. 17 : c[k] = r[k]
       /\ \A k \in 1 .. 6 * n : c[17 + k] = e[k]
  <2> DEFINE m == 6 * n
             l == 17
  <2>1. l \in Nat /\ m \in Nat /\ Len(r) = l /\ Len(e) = m
    BY <1>1, <1>8, <1>9
  <2> HIDE DEF m, l
  <2>2. (\A k \in 1 .. l : (r \o e)[k] = r[k]) /\ (\A k \in 1 .. m : (r \o e)[l + k] = e[k])
    BY <2>1, CellsOfBoth
  <2>3. (\A k \in 1 .. l : c[k] = r[k]) /\ (\A k \in 1 .. m : c[l + k] = e[k])
    BY <1>2, <2>2
  <2> QED  BY <2>3 DEF l, m
<1>12. ASSUME NEW j \in 1 .. n, NEW k \in 1 .. 6
       PROVE  c[(17 + (j - 1) * 6) + k] = C!Written(C!EntryFields, t[j])[k]
  <2> DEFINE m == (j - 1) * 6 + k
  <2>1. m \in 1 .. 6 * n /\ m - 1 = 6 * (j - 1) + (k - 1) /\ m - 1 \in Nat /\ j - 1 \in Nat
        /\ k - 1 \in 0 .. 6 - 1 /\ 6 \in Nat \ {0} /\ (17 + (j - 1) * 6) + k = 17 + m
    BY <1>1
  <2> HIDE DEF m
  <2>2. (m - 1) \div 6 = j - 1 /\ (m - 1) % 6 = k - 1
    BY <2>1, Unique
  <2>3. c[17 + m] = e[m] /\ e[m] = E(m)
    BY <1>4, <1>11, <2>1
  <2>4. (j - 1) + 1 = j /\ (k - 1) + 1 = k
    BY <1>1
  <2>5. E(m) = C!Written(C!EntryFields, t[j])[k]
    BY <2>2, <2>4 DEF E
  <2> QED  BY <2>1, <2>3, <2>5
<1> QED  BY <1>10, <1>11, <1>12 DEF c, n, r

\* What VendorBootConfig.Write writes is what Read reads.
LEMMA VendorConfigKept ==
    ASSUME NEW i, NEW t, IsStored(i, t)
    PROVE  LET c == C!VendorWrite(i, t)
           IN  /\ C!VendorRead(c, VendorBefore) = i
               /\ C!VendorReadTable(c, i.entry_num, EntryBefore) = t
               /\ c[1].value = V!VENDOR_BOOT_MAGIC
<1> DEFINE c == C!VendorWrite(i, t)
           fields == C!VendorFields
           entry == C!EntryFields
           n == Len(t)
<1>1. C!WriteString(V!VENDOR_BOOT_MAGIC) = V!VENDOR_BOOT_MAGIC
  <2>1. <<"VNDRBOOT">> \in Seq({"VNDRBOOT"}) /\ Len(<<"VNDRBOOT">>) = 1
    OBVIOUS
  <2>2. 1 < StringSize /\ StringSize \in Nat
    BY TextBounds, SizeBounds
  <2> QED  BY <2>1, <2>2, WriteStringIs DEF V!VENDOR_BOOT_MAGIC
<1>2. \A k \in {"boot_magic", "cmdline", "product_name"} : C!WriteString(i[k]) = i[k]
  BY <1>1, WriteStringIs, SizeBounds DEF IsStored, Storable
<1>3. \A k \in 1 .. n : C!WriteString(t[k].name) = t[k].name
  BY WriteStringIs, SizeBounds DEF IsStored, Storable
<1>4. PICK S : c \in Seq(S)
  BY VendorItems
<1>5. /\ Len(c) = 17 + 6 * n /\ n \in Nat
      /\ \A k \in 1 .. 17 : c[k] = C!Written(fields, i)[k]
      /\ \A j \in 1 .. n, k \in 1 .. 6 : c[(17 + (j - 1) * 6) + k] = C!Written(entry, t[j])[k]
  <2>1. n \in Nat
    BY DEF IsStored
  <2> HIDE DEF c, fields, entry, n
  <2> QED  BY <2>1, VendorItems DEF c, fields, entry, n
<1>6. fields[1] = <<"str", "boot_magic">>
  BY DEF C!VendorFields
<1>7. /\ DOMAIN fields = 1 .. Len(fields) /\ Len(fields) = 17 /\ Len(fields) \in Nat
      /\ \A j, k \in 1 .. 17 : fields[j][2] = fields[k][2] => j = k
      /\ \A m \in DOMAIN VendorBefore : \E k \in 1 .. 17 : fields[k][2] = m
      /\ \A k \in 1 .. 17 : fields[k][1] = "str" => C!WriteString(i[fields[k][2]]) = i[fields[k][2]]
  BY <1>2, VendorFieldsAre
<1>8. /\ DOMAIN entry = 1 .. Len(entry) /\ Len(entry) = 6 /\ Len(entry) \in Nat
      /\ \A j, k \in 1 .. 6 : entry[j][2] = entry[k][2] => j = k
      /\ \A m \in DOMAIN EntryBefore : \E k \in 1 .. 6 : entry[k][2] = m
      /\ \A k \in 1 .. 6 : entry[k][1] = "str" => entry[k][2] = "name"
  BY EntryFieldsAre
<1>9. i = [m \in DOMAIN VendorBefore |-> i[m]]
      /\ \A k \in 1 .. n : t[k] = [m \in DOMAIN EntryBefore |-> t[k][m]]
  BY VendorFieldsAre, EntryFieldsAre DEF IsStored
<1> HIDE DEF fields, entry, c, n
<1>10. C!VendorRead(c, VendorBefore) = i
  <2>1. \A k \in 1 .. Len(fields) : k \in DOMAIN c /\ c[k] = C!Written(fields, i)[k]
    <3>1. DOMAIN c = 1 .. Len(c)
      BY <1>4
    <3>2. 1 .. 17 \subseteq DOMAIN c
      BY <1>5, <3>1
    <3> QED  BY <1>5, <1>7, <3>2
  <2>2. BeginsWith(c, fields, i, VendorBefore)
    BY <1>7, <1>9, <2>1 DEF BeginsWith
  <2>3. C!ReadRecord(c, fields, VendorBefore) = i
    BY <2>2, ReadBack
  <2> QED  BY <2>3, VendorFieldsAre DEF C!VendorRead, fields
<1>11. ASSUME NEW j \in 1 .. n
       PROVE  C!ReadRecord(SubSeq(c, (17 + (j - 1) * 6) + 1, Len(c)), entry, EntryBefore) = t[j]
  <2> DEFINE m == 17 + (j - 1) * 6
             rest == SubSeq(c, m + 1, Len(c))
  <2>1. ASSUME NEW k \in 1 .. 6 PROVE k \in DOMAIN rest /\ rest[k] = C!Written(entry, t[j])[k]
    <3>1. m \in Nat /\ m + k <= Len(c) /\ k \in Nat \ {0}
      BY <1>5
    <3>2. c[m + k] = C!Written(entry, t[j])[k]
      BY <1>5
    <3> HIDE DEF m
    <3> QED  BY <1>4, <3>1, <3>2, RestIs
  <2>2. \A k \in 1 .. 6 : entry[k][1] = "str" => C!WriteString(t[j][entry[k][2]]) = t[j][entry[k][2]]
    BY <1>3, <1>8 DEF n
  <2> HIDE DEF rest
  <2>3. BeginsWith(rest, entry, t[j], EntryBefore)
    BY <1>8, <1>9, <2>1, <2>2 DEF BeginsWith
  <2> QED  BY <2>3, ReadBack DEF rest
<1>12. C!VendorReadTable(c, i.entry_num, EntryBefore) = t
  <2>1. t = [k \in 1 .. n |-> t[k]] /\ i.entry_num = n
    BY DEF IsStored, n
  <2>2. C!VendorReadTable(c, n, EntryBefore) =
            [j \in 1 .. n |-> C!ReadRecord(SubSeq(c, (17 + (j - 1) * 6) + 1, Len(c)), entry, EntryBefore)]
    BY VendorFieldsAre, EntryFieldsAre DEF C!VendorReadTable, entry
  <2> QED  BY <1>11, <2>1, <2>2
<1>13. c[1].value = V!VENDOR_BOOT_MAGIC
  <2>1. c[1] = C!Written(fields, i)[1]
    BY <1>5
  <2>2. C!Written(fields, i)[1] = [kind |-> "str", value |-> C!WriteString(i["boot_magic"])]
    BY <1>6, <1>7 DEF C!Written
  <2> QED  BY <1>1, <2>1, <2>2 DEF IsStored
<1> QED  BY <1>10, <1>12, <1>13 DEF c
-----------------------------------------------------------------------------
(* What a build writes.  (VendorBootBuilder)                               *)

\* The widths of the texts in a vendor_boot header.
LEMMA VendorTextBounds ==
    /\ VENDOR_BOOT_ARGS_SIZE \in Nat \ {0} /\ VENDOR_BOOT_ARGS_SIZE < StringSize
    /\ VENDOR_BOOT_NAME_SIZE \in Nat \ {0} /\ VENDOR_BOOT_NAME_SIZE < StringSize
    /\ VENDOR_RAMDISK_NAME_SIZE \in Nat \ {0} /\ VENDOR_RAMDISK_NAME_SIZE < StringSize
    /\ StringSize \in Nat
  BY KitchenAssumption

\* What comes out of an image of this form can be stored.
LEMMA VendorStored ==
    ASSUME NEW x, IsVendor(x)
    PROVE  IsStored(VendorInfoOf(x), VendorTableOf(x))
<1> DEFINE i == VendorInfoOf(x)
           t == VendorTableOf(x)
           L == Len(x.ramdisks)
<1>1. i = [n \in VendorFieldNames |-> i[n]]
  BY DEF VendorInfoOf, VendorReading, VendorFieldNames
<1>2. i.boot_magic = V!VENDOR_BOOT_MAGIC /\ i.cmdline = x.cmdline /\ i.product_name = x.name
      /\ i.entry_num = IF x.version > 3 THEN L ELSE 0
  BY DEF VendorInfoOf, VendorReading
<1>3. Storable(i.cmdline) /\ Storable(i.product_name)
  BY <1>2, VendorTextBounds DEF IsVendor, Storable
<1>4. L \in Nat
  BY DEF IsVendor
<1>5. CASE x.version > 3
  <2>1. t = [k \in 1 .. L |-> EntryOf(x, k, FoundFormat(x, k))]
    BY <1>5 DEF VendorTableOf
  <2>2. t = [k \in 1 .. L |-> t[k]]
    BY <2>1
  <2>3. \A k \in 1 .. L : t[k] = EntryOf(x, k, FoundFormat(x, k))
    BY <2>1
  <2> HIDE DEF t, L, i
  <2>4. Len(t) = L
    BY <1>4, <2>2, WholeIs
  <2>5. ASSUME NEW k \in 1 .. L PROVE t[k] = [n \in EntryFieldNames |-> t[k][n]] /\ Storable(t[k].name)
    <3>1. \A c : EntryOf(x, k, c) = [n \in EntryFieldNames |-> EntryOf(x, k, c)[n]]
                 /\ EntryOf(x, k, c).name = x.ramdisks[k].name
      BY DEF EntryOf, EntryFieldNames
    <3>2. Storable(x.ramdisks[k].name)
      BY <2>5 DEF IsVendor, IsRamdisk, L
    <3> QED  BY <2>3, <3>1, <3>2
  <2> QED  BY <1>1, <1>2, <1>3, <1>4, <1>5, <2>2, <2>4, <2>5 DEF IsStored, t, i
<1>6. CASE ~ (x.version > 3)
  <2>1. t = <<>>
    BY <1>6 DEF VendorTableOf
  <2>2. Len(t) = 0 /\ t = [k \in 1 .. 0 |-> t[k]]
    BY <2>1
  <2> HIDE DEF t, i
  <2> QED  BY <1>1, <1>2, <1>3, <1>6, <2>2 DEF IsStored, t, i
<1> QED  BY <1>5, <1>6

\* A section of any length that is written on a page.
LEMMA VendorSectionWritten ==
    ASSUME NEW p \in Nat \ {0}, NEW m \in Nat, NEW file, file.size \in Nat, NEW out, out.end = p * m
    PROVE  /\ V!WriteSection(out, file, p).parts = out.parts \cup B!Chunk(p * m, file)
           /\ V!WriteSection(out, file, p).end = p * (m + Pages(file.size, p))
<1> DEFINE w == [parts |-> out.parts \cup B!Chunk(out.end, file), end |-> out.end + file.size]
<1>1. B!WriteSection(out, file, p) = [w EXCEPT !.end = B!Padded(@, p)]
  BY DEF B!WriteSection, B!PadFile, B!Write
<1>2. w.parts = out.parts \cup B!Chunk(p * m, file) /\ w.end = p * m + file.size
      /\ [w EXCEPT !.end = B!Padded(@, p)].parts = w.parts
      /\ [w EXCEPT !.end = B!Padded(@, p)].end = B!Padded(w.end, p)
  OBVIOUS
<1>3. B!Padded(p * m + file.size, p) = p * (m + Pages(file.size, p))
  BY PaddedIs
<1> HIDE DEF w
<1> QED  BY <1>1, <1>2, <1>3, SameOperators

\* The same files in the arguments of VendorBootBuilder and in an image.
ArgsOf(a, y) ==
    /\ a.header_version = y.version /\ a.page_size = y.page
    /\ a.kernel_offset = y.kernel /\ a.ramdisk_offset = y.ramdisk /\ a.tags_offset = y.tags
    /\ V!Field(a.vendor_cmdline, VENDOR_BOOT_ARGS_SIZE) = y.cmdline
    /\ V!Field(a.board, VENDOR_BOOT_NAME_SIZE) = y.name
    /\ a.dtb = y.dtb /\ a.bootconfig = y.bootconfig
    /\ V!Low(a.dtb_offset) = y.low /\ V!High(a.dtb_offset) = y.high
    /\ a.ramdisks = [k \in 1 .. Len(y.ramdisks) |-> a.ramdisks[k]]
    /\ \A k \in 1 .. Len(y.ramdisks) :
          /\ a.ramdisks[k].file.size = y.ramdisks[k].file.size
          /\ a.ramdisks[k].file.size # 0 => a.ramdisks[k].file.is = y.ramdisks[k].file.is
          /\ a.ramdisks[k].type = y.ramdisks[k].type /\ y.ramdisks[k].board_id = 0
          /\ V!Field(a.ramdisks[k].name, VENDOR_RAMDISK_NAME_SIZE - 1) = y.ramdisks[k].name

\* A build writes the image of the sections it was given.
LEMMA VendorWritten ==
    ASSUME NEW y, IsVendor(y), NEW a, ArgsOf(a, y)
    PROVE  V!Build(a) = ImageOf(y)
<1> DEFINE L == Len(y.ramdisks)
           p == y.page
           g == V!RamdiskContents(a)
           f == RamdisksOf(y)
           four == y.version > 3
           total == V!Total(f)
<1>1. /\ a.header_version = y.version /\ a.page_size = p /\ a.dtb = y.dtb /\ a.bootconfig = y.bootconfig
      /\ DOMAIN a.ramdisks = 1 .. L
  BY DEF ArgsOf
<1>2. L \in Nat /\ p \in 1 .. MaxSize /\ p \in Nat \ {0} /\ y.dtb.size \in Nat /\ y.bootconfig.size \in Nat
  <2>1. \A h \in HeldFiles : h.size \in Nat
    BY SizeBounds DEF HeldFiles
  <2>2. L \in Nat /\ p \in 1 .. MaxSize /\ y.dtb \in HeldFiles /\ y.bootconfig \in HeldFiles
    BY DEF IsVendor
  <2> HIDE DEF p, L
  <2>3. p \in Nat \ {0}
    BY <2>2, SizeBounds
  <2> QED  BY <2>1, <2>2, <2>3
<1>3. Len(a.ramdisks) = L
  <2>1. a.ramdisks = [k \in 1 .. L |-> a.ramdisks[k]]
    BY DEF ArgsOf
  <2> HIDE DEF L
  <2> QED  BY <1>2, <2>1, WholeIs
<1>4. /\ g = [k \in 1 .. L |-> a.ramdisks[k].file] /\ DOMAIN g = 1 .. L
      /\ \A k \in 1 .. L : g[k] = a.ramdisks[k].file
  BY <1>1 DEF V!RamdiskContents
<1>5. Len(g) = L
  <2>1. g = [k \in 1 .. L |-> g[k]]
    BY <1>4
  <2> HIDE DEF L, g
  <2> QED  BY <1>2, <2>1, WholeIs
<1>6. /\ Len(f) = L /\ total \in 0 .. L * MaxSize /\ L * MaxSize \in Nat
      /\ \A k \in 1 .. L : /\ f[k] = y.ramdisks[k].file /\ f[k].size \in 0 .. MaxSize
                           /\ V!Before(f)[k] \in 0 .. L * MaxSize
                           /\ V!Before(f)[k] + f[k].size <= total
  BY VendorFilesBounds
<1>7. \A k \in 1 .. L : g[k].size = f[k].size /\ (g[k].size # 0 => g[k].is = f[k].is)
  BY <1>4, <1>6 DEF ArgsOf
<1>8. V!Before(g) = V!Before(f) /\ V!Total(g) = total
  <2> HIDE DEF L, g, f
  <2> QED  BY <1>2, <1>5, <1>6, <1>7, BeforeSame
<1>9. total \in 0 .. U32 - 1 /\ TableOf(y).size \in 0 .. U32 - 1 /\ TableOf(y).size = L * EntrySize
      /\ {RamdiskAt(y), DtbAt(y), TableAt(y), ConfigAt(y), EndAt(y)} \subseteq Nat
      /\ HeaderSize(y) \in 1 .. MaxSize
  BY VendorPages
<1>10. \A n \in 0 .. U32 - 1 : V!Word(n) = n
  <2> SUFFICES ASSUME NEW n \in 0 .. U32 - 1 PROVE V!Word(n) = n
    OBVIOUS
  <2>1. n \in Nat /\ n < U32 /\ U32 \in Nat
    BY SizeBounds
  <2> QED  BY <2>1, WordOf, SameOperators
<1>11. \A k \in 1 .. L : V!Before(f)[k] \in 0 .. U32 - 1
  <2> SUFFICES ASSUME NEW k \in 1 .. L PROVE V!Before(f)[k] \in 0 .. U32 - 1
    OBVIOUS
  <2> DEFINE b == V!Before(f)[k]
             s == f[k].size
             m == L * MaxSize
  <2>1. b \in 0 .. m /\ b + s <= total /\ s \in 0 .. MaxSize /\ m \in Nat /\ total \in 0 .. U32 - 1
    BY <1>6, <1>9
  <2> HIDE DEF b, s, m, total
  <2>2. b \in 0 .. U32 - 1
    BY <2>1, SizeBounds
  <2> QED  BY <2>2 DEF b
<1> HIDE DEF g, f, L, total
<1>12. V!Header(a) = ImageOf(y).header
  <2>1. V!Header(a) =
          << a.header_version, a.page_size, a.kernel_offset, a.ramdisk_offset, V!Word(V!Total(g)),
             V!Field(a.vendor_cmdline, VENDOR_BOOT_ARGS_SIZE), a.tags_offset,
             V!Field(a.board, VENDOR_BOOT_NAME_SIZE),
             IF a.header_version > 3 THEN VENDOR_BOOT_IMAGE_HEADER_V4_SIZE
                                     ELSE VENDOR_BOOT_IMAGE_HEADER_V3_SIZE,
             a.dtb.size, V!Low(a.dtb_offset), V!High(a.dtb_offset) >>
          \o (IF a.header_version > 3
              THEN << V!Word(Len(a.ramdisks) * VENDOR_RAMDISK_TABLE_ENTRY_V4_SIZE), Len(a.ramdisks),
                      VENDOR_RAMDISK_TABLE_ENTRY_V4_SIZE, a.bootconfig.size >>
              ELSE <<>>)
    BY DEF V!Header, g
  <2>2. V!Word(V!Total(g)) = total
    BY <1>8, <1>9, <1>10
  <2>3. V!Word(Len(a.ramdisks) * VENDOR_RAMDISK_TABLE_ENTRY_V4_SIZE) = TableOf(y).size
    BY <1>3, <1>9, <1>10 DEF EntrySize
  <2>4. V!Header(a) =
          << y.version, y.page, y.kernel, y.ramdisk, total, y.cmdline, y.tags,
             y.name, HeaderSize(y), y.dtb.size, y.low, y.high >>
          \o (IF four THEN <<TableOf(y).size, L, EntrySize, y.bootconfig.size>> ELSE <<>>)
    BY <1>3, <2>1, <2>2, <2>3 DEF ArgsOf, HeaderSize, EntrySize
  <2> QED  BY <2>4 DEF ImageOf, total, f, L
<1> DEFINE o1 == [parts |-> {}, end |-> V!HeaderEnd(a)]
           o2 == V!WriteRamdisks(o1, a)
           o3 == V!WriteSection(o2, a.dtb, p)
           o4 == V!WriteSection(o3, V!TableFile(a), p)
           o5 == V!WriteSection(o4, a.bootconfig, p)
           all == IF a.header_version > 3 THEN o5 ELSE o3
<1>13. V!HeaderEnd(a) = p * RamdiskAt(y)
  <2> DEFINE h == HeaderSize(y)
  <2>1. V!HeaderEnd(a) = B!Padded(h, p)
    BY <1>1, SameOperators DEF V!HeaderEnd, HeaderSize
  <2>2. h \in Nat
    BY <1>9
  <2>3. RamdiskAt(y) = Pages(h, p)
    BY DEF RamdiskAt
  <2> HIDE DEF h
  <2>4. B!Padded(p * 0 + h, p) = p * (0 + Pages(h, p))
    BY <1>2, <2>2, PaddedIs
  <2>5. p * 0 + h = h /\ 0 + Pages(h, p) = Pages(h, p)
    BY <1>2, <1>9, <2>2, <2>3
  <2> QED  BY <2>1, <2>3, <2>4, <2>5
<1>14. o2.parts = RamdiskParts(y) /\ o2.end = p * DtbAt(y)
  <2> DEFINE Q == UNION {V!Chunk(o1.end + V!Before(g)[k], g[k]) : k \in DOMAIN g}
  <2>1. o1.end = p * RamdiskAt(y) /\ o1.parts = {}
    BY <1>13
  <2> HIDE DEF o1
  <2>2. o2 = V!PadFile([parts |-> o1.parts \cup Q, end |-> o1.end + V!Total(g)], p)
    BY <1>1 DEF V!WriteRamdisks, g
  <2> HIDE DEF Q
  <2>3. o2.parts = o1.parts \cup Q /\ o2.end = V!Padded(o1.end + V!Total(g), p)
    BY <2>2 DEF V!PadFile
  <2>4. o2.end = p * DtbAt(y)
    <3>1. B!Padded(p * RamdiskAt(y) + total, p) = p * (RamdiskAt(y) + Pages(total, p))
      <4>1. total \in Nat /\ RamdiskAt(y) \in Nat
        BY <1>9
      <4> QED  BY <1>2, <4>1, PaddedIs
    <3>2. RamdiskAt(y) + Pages(total, p) = DtbAt(y)
      BY DEF DtbAt, total, f
    <3> QED  BY <1>8, <2>1, <2>3, <3>1, <3>2, SameOperators
  <2>5. Q = RamdiskParts(y)
    <3>1. ASSUME NEW k \in 1 .. L
          PROVE  V!Chunk(o1.end + V!Before(g)[k], g[k]) = B!Chunk(Place(y, k), y.ramdisks[k].file)
      <4>1. o1.end + V!Before(g)[k] = Place(y, k)
        BY <1>8, <2>1 DEF Place, f
      <4>2. B!Chunk(Place(y, k), g[k]) = B!Chunk(Place(y, k), f[k])
        BY <1>7 DEF B!Chunk
      <4> QED  BY <1>6, <4>1, <4>2, SameOperators
    <3> QED  BY <1>4, <3>1 DEF Q, RamdiskParts, L
  <2> QED  BY <2>1, <2>3, <2>4, <2>5
<1> HIDE DEF o2
<1>15. o3.parts = RamdiskParts(y) \cup B!Chunk(p * DtbAt(y), y.dtb) /\ o3.end = p * TableAt(y)
  <2>1. DtbAt(y) \in Nat
    BY <1>9
  <2>2. V!WriteSection(o2, y.dtb, p).parts = o2.parts \cup B!Chunk(p * DtbAt(y), y.dtb)
        /\ V!WriteSection(o2, y.dtb, p).end = p * (DtbAt(y) + Pages(y.dtb.size, p))
    BY <1>2, <1>14, <2>1, VendorSectionWritten
  <2> QED  BY <1>1, <1>14, <2>2 DEF TableAt
<1> HIDE DEF o3
<1>16. V!TableFile(a) = TableOf(y)
  BY <1>3, SameOperators DEF V!TableFile, TableOf, EntrySize, L
<1>17. o4.parts = o3.parts \cup B!Chunk(p * TableAt(y), TableOf(y)) /\ o4.end = p * ConfigAt(y)
  <2>1. TableAt(y) \in Nat /\ TableOf(y).size \in Nat
    BY <1>9
  <2>2. V!WriteSection(o3, TableOf(y), p).parts = o3.parts \cup B!Chunk(p * TableAt(y), TableOf(y))
        /\ V!WriteSection(o3, TableOf(y), p).end = p * (TableAt(y) + Pages(TableOf(y).size, p))
    BY <1>2, <1>15, <2>1, VendorSectionWritten
  <2> QED  BY <1>16, <2>2 DEF ConfigAt
<1> HIDE DEF o4
<1>18. o5.parts = o4.parts \cup B!Chunk(p * ConfigAt(y), y.bootconfig) /\ o5.end = p * EndAt(y)
  <2>1. ConfigAt(y) \in Nat
    BY <1>9
  <2>2. V!WriteSection(o4, y.bootconfig, p).parts = o4.parts \cup B!Chunk(p * ConfigAt(y), y.bootconfig)
        /\ V!WriteSection(o4, y.bootconfig, p).end = p * (ConfigAt(y) + Pages(y.bootconfig.size, p))
    BY <1>2, <1>17, <2>1, VendorSectionWritten
  <2> QED  BY <1>1, <2>2 DEF EndAt
<1> HIDE DEF o5
<1>19. all.parts = ImageOf(y).parts
  <2>1. CASE four
    BY <1>1, <1>15, <1>17, <1>18, <2>1 DEF ImageOf, Parts
  <2>2. CASE ~ four
    BY <1>1, <1>15, <2>2 DEF ImageOf, Parts
  <2> QED  BY <2>1, <2>2
<1>20. all.end = ImageOf(y).end
  BY <1>1, <1>15, <1>18 DEF ImageOf
<1> DEFINE table == IF a.header_version > 3
                    THEN [at |-> o3.end, entry_size |-> VENDOR_RAMDISK_TABLE_ENTRY_V4_SIZE,
                          entries |-> V!TableEntries(a)]
                    ELSE V!NoTable
<1>21. table = ImageOf(y).table
  <2>1. CASE four
    <3> DEFINE E(k) == [size |-> y.ramdisks[k].file.size, offset |-> V!Before(f)[k],
                        type |-> y.ramdisks[k].type, board_id |-> y.ramdisks[k].board_id,
                        ramdisk_compression |-> B!FORMAT_OTHER, name |-> y.ramdisks[k].name]
               F(k) == [size |-> a.ramdisks[k].file.size, offset |-> V!Word(V!TableOffset(a, k)),
                        type |-> a.ramdisks[k].type, board_id |-> 0,
                        ramdisk_compression |-> V!FORMAT_OTHER,
                        name |-> V!Field(a.ramdisks[k].name, VENDOR_RAMDISK_NAME_SIZE - 1)]
    <3>1. V!TableEntries(a) = [k \in 1 .. L |-> F(k)]
      BY <1>1 DEF V!TableEntries
    <3>2. ImageOf(y).table = [at |-> p * TableAt(y), entry_size |-> EntrySize, entries |-> [k \in 1 .. L |-> E(k)]]
      BY <2>1 DEF ImageOf, f, L
    <3>3. ASSUME NEW k \in 1 .. L PROVE E(k) = F(k)
      <4>1. V!Word(V!TableOffset(a, k)) = V!Before(f)[k]
        BY <1>8, <1>10, <1>11 DEF V!TableOffset, g
      <4>2. /\ a.ramdisks[k].file.size = y.ramdisks[k].file.size
            /\ a.ramdisks[k].type = y.ramdisks[k].type /\ y.ramdisks[k].board_id = 0
            /\ V!Field(a.ramdisks[k].name, VENDOR_RAMDISK_NAME_SIZE - 1) = y.ramdisks[k].name
        BY DEF ArgsOf, L
      <4> QED  BY <4>1, <4>2, SameOperators
    <3> HIDE DEF E, F
    <3>4. [k \in 1 .. L |-> E(k)] = [k \in 1 .. L |-> F(k)]
      BY <3>3
    <3> QED  BY <1>1, <1>15, <2>1, <3>1, <3>2, <3>4 DEF EntrySize
  <2>2. CASE ~ four
    BY <1>1, <2>2 DEF ImageOf
  <2> QED  BY <2>1, <2>2
<1>22. V!Build(a) = [header |-> V!Header(a), parts |-> all.parts, end |-> all.end, table |-> table]
  BY <1>1 DEF V!Build, o1, o2, o3, o4, o5
<1>23. ImageOf(y) = [header |-> ImageOf(y).header, parts |-> ImageOf(y).parts, end |-> ImageOf(y).end,
                     table |-> ImageOf(y).table]
  BY DEF ImageOf
<1> HIDE DEF all, table
<1> QED  BY <1>12, <1>19, <1>20, <1>21, <1>22, <1>23
\* The vendor_boot image that a build makes of the files of a project.
PutOf(x, files, k) ==
    IF x.ramdisks[k].file.size # 0
    THEN Built(files[NameOf(x, k)], x.ramdisks[k].file.is.format) ELSE B!Absent

\* What a build from files makes of the image of x.
NextOf(x, files) ==
    [version |-> x.version, page |-> x.page, kernel |-> x.kernel, ramdisk |-> x.ramdisk, tags |-> x.tags,
     cmdline |-> x.cmdline, name |-> x.name,
     dtb  |-> IF x.dtb.size > 0 THEN files["dtb"] ELSE B!Absent,
     low  |-> IF x.dtb.size > 0 THEN x.low ELSE V!DTB_OFFSET, high |-> 0,
     bootconfig |-> IF x.bootconfig.size > 0 THEN files["bootconfig"] ELSE B!Absent,
     ramdisks |-> [k \in 1 .. Len(x.ramdisks) |->
         [file |-> PutOf(x, files, k),
          type |-> IF x.version > 3 THEN x.ramdisks[k].type ELSE 0,
          name |-> IF x.version > 3 THEN B!Field(x.ramdisks[k].name, VENDOR_RAMDISK_NAME_SIZE - 1) ELSE <<>>,
          board_id |-> 0]]]

\* A file that was there is there after edits, in the form it had.
LEMMA EditedIs ==
    ASSUME NEW u, NEW files, Edits(files, u), NEW n \in DOMAIN u, u[n].size # 0
    PROVE  /\ files[n].size \in 1 .. MaxSize /\ files[n].is.format = u[n].is.format
           /\ files[n].is.name \in Labels /\ files[n].is.rev \in Revs
           /\ files[n].is.rev \in {u[n].is.rev, 1}
           /\ files[n] = [size |-> files[n].size,
                          is |-> [name |-> files[n].is.name, rev |-> files[n].is.rev,
                                  format |-> files[n].is.format]]
<1>1. /\ files[n] \in [size: 1 .. MaxSize, is: [name: Labels, rev: Revs, format: {u[n].is.format}]]
      /\ files[n].is.rev \in {u[n].is.rev, 1}
  BY DEF Edits, B!EDITED
<1> DEFINE c == u[n].is.format
           x == files[n]
<1> HIDE DEF c, x
<1>2. x \in [size: 1 .. MaxSize, is: [name: Labels, rev: Revs, format: {c}]]
  BY <1>1 DEF c, x
<1>3. /\ x.size \in 1 .. MaxSize /\ x.is.format = c /\ x.is.name \in Labels /\ x.is.rev \in Revs
      /\ x = [size |-> x.size, is |-> [name |-> x.is.name, rev |-> x.is.rev, format |-> x.is.format]]
  BY <1>2
<1> QED  BY <1>1, <1>3 DEF c, x

\* What a build makes of a directory was packed by it.
LEMMA BuiltPacked ==
    ASSUME NEW file, file.size \in 1 .. MaxSize, file.is.name \in Labels, file.is.rev \in Revs,
           NEW format \in Formats,
           file.is.format = IF format = B!FORMAT_OTHER THEN format ELSE B!DIRECTORY
    PROVE  PackedHere(Built(file, format))
<1> DEFINE b == Built(file, format)
<1>1. b.is.format = format
  BY BuiltHeld DEF B!FORMAT_OTHER, B!DIRECTORY
<1>2. CASE format = B!FORMAT_OTHER
  <2> HIDE DEF b
  <2> QED  BY <1>1, <1>2 DEF PackedHere, b
<1>3. CASE format # B!FORMAT_OTHER
  <2>1. b = B!Repacked(file, format)
    BY <1>3 DEF Built
  <2>2. b.is.rev \in 1 .. 2
    BY <1>3, <2>1, RepackedIs
  <2>3. b.size = PackedSize[b.is]
    BY <2>1 DEF B!Repacked
  <2> HIDE DEF b
  <2> QED  BY <2>2, <2>3 DEF PackedHere, b
<1> QED  BY <1>2, <1>3

\* As a build puts it into an image it is a file again.
\* A ramdisk goes back into the format it had.
LEMMA VendorRamdiskBack ==
    ASSUME NEW x, IsVendor(x), NEW u, AreFiles(x, u), NEW files, Edits(files, u),
           NEW k \in 1 .. Len(x.ramdisks)
    PROVE  LET r == x.ramdisks[k].file
               n == NameOf(x, k)
               b == B!BuildRamdisk(files[n], FoundFormat(x, k))
           IN  /\ n \in DOMAIN files /\ n \in DOMAIN u
               /\ b = PutOf(x, files, k)
               /\ PutOf(x, files, k) \in HeldFiles /\ PackedHere(PutOf(x, files, k))
               /\ u[n].size = r.size
               /\ r.size # 0 =>
                    /\ files[n].size > 0 /\ PutOf(x, files, k).size > 0
                    /\ PutOf(x, files, k).is.format = r.is.format
                    /\ SameContents(B!UnpackRamdisk(PutOf(x, files, k), r.is.format), files[n])
                    /\ r.is.format = B!FORMAT_OTHER => PutOf(x, files, k) = files[n]
               /\ r.size = 0 => files[n] = B!Absent /\ PutOf(x, files, k) = B!Absent
<1> DEFINE r == x.ramdisks[k].file
           n == NameOf(x, k)
           c == r.is.format
           b == B!BuildRamdisk(files[n], c)
           p == PutOf(x, files, k)
<1>1. r \in HeldFiles
  BY DEF IsVendor, IsRamdisk
<1>2. u[n] = B!UnpackRamdisk(r, c) /\ DOMAIN u = VendorNames(x) /\ n \in VendorNames(x)
  BY FormatFound DEF AreFiles, VendorNames
<1>3. DOMAIN files = DOMAIN u
  BY DEF Edits
<1>4. FoundFormat(x, k) = c
  BY FormatFound
<1>5. p = IF r.size # 0 THEN Built(files[n], c) ELSE B!Absent
  BY DEF PutOf
<1> HIDE DEF r, n, p
<1>6. /\ r = [size |-> r.size, is |-> [name |-> r.is.name, rev |-> r.is.rev, format |-> r.is.format]]
      /\ r.size \in Nat /\ c \in Formats /\ r.is.rev \in Revs
  BY <1>1, HeldParts
<1>7. /\ u[n].size = r.size
      /\ u[n].is.rev = IF c # B!FORMAT_OTHER /\ r.is.rev = 2 THEN 0 ELSE r.is.rev
      /\ u[n].is.format = IF c = B!FORMAT_OTHER THEN c ELSE B!DIRECTORY
      /\ c = B!FORMAT_OTHER => u[n] = r
  BY <1>2, <1>6, UnpackIs
<1> HIDE DEF c
<1>8. CASE r.size # 0
  <2> DEFINE file == files[n]
             d == B!UnpackRamdisk(r, c).is.format
  <2>1. /\ file.size \in 1 .. MaxSize /\ file.is.format = u[n].is.format
        /\ file.is.name \in Labels /\ file.is.rev \in Revs /\ file.is.rev \in {u[n].is.rev, 1}
        /\ file = [size |-> file.size,
                   is |-> [name |-> file.is.name, rev |-> file.is.rev, format |-> file.is.format]]
    BY <1>2, <1>7, <1>8, EditedIs
  <2>2. file.is.format = d
    BY <1>2, <2>1
  <2>3. file.size \in 0 .. MaxSize /\ file.size > 0
    BY <2>1, SizeBounds
  <2> HIDE DEF file, d
  <2>4. file.is.format = IF c = B!FORMAT_OTHER THEN c ELSE B!DIRECTORY
    BY <1>7, <2>1
  <2>5. file \in [size: 0 .. MaxSize, is: [name: Labels, rev: Revs, format: {d}]]
    BY <2>1, <2>2, <2>3
  <2>6. b = Built(file, c)
    BY <1>6, <2>5, RamdiskBack DEF file, d, c
  <2>7. file.is.format = B!DIRECTORY => c # B!FORMAT_OTHER /\ file.is.rev # 2
    <3>1. c # B!FORMAT_OTHER => file.is.rev # 2
      BY <1>7, <2>1
    <3> QED  BY <2>4, <3>1 DEF B!FORMAT_OTHER, B!DIRECTORY
  <2> DEFINE w == Built(file, c)
  <2>8. w \in HeldFiles /\ w.size \in 1 .. MaxSize /\ w.is.format = c
    BY <1>6, <2>1, <2>7, BuiltHeld
  <2>9. PackedHere(w)
    BY <1>6, <2>1, <2>4, BuiltPacked
  <2>10. SameContents(B!UnpackRamdisk(w, c), file)
    BY <1>6, <2>1, <2>4, <2>7, BuiltComesBack
  <2>11. c = B!FORMAT_OTHER => w = file
    <3> SUFFICES ASSUME c = B!FORMAT_OTHER PROVE w = file
      OBVIOUS
    <3>1. file.is.format = c /\ file.is.format # B!DIRECTORY
      BY <2>4 DEF B!FORMAT_OTHER, B!DIRECTORY
    <3> QED  BY <2>1, <3>1 DEF Built
  <2>12. p = w
    BY <1>5, <1>8 DEF file
  <2>13. w.size > 0
    BY <2>8, SizeBounds
  <2> HIDE DEF w, b
  <2>14. n \in DOMAIN files /\ n \in DOMAIN u
    BY <1>2, <1>3
  <2>15. b = p
    BY <2>6, <2>12 DEF w
  <2> QED  BY <1>4, <1>7, <1>8, <2>3, <2>8, <2>9, <2>10, <2>11, <2>12, <2>13, <2>14, <2>15
       DEF file, b, p, r, n, c
<1>9. CASE r.size = 0
  <2>1. r = B!Absent
    BY <1>1, <1>9 DEF HeldFiles
  <2>2. c = B!FORMAT_OTHER
    BY <2>1 DEF B!Absent, B!Content, c
  <2>3. files[n] = u[n] /\ u[n] = r
    BY <1>2, <1>7, <1>9, <2>2 DEF Edits
  <2>4. b = files[n]
    <3>1. files[n].is.format # B!DIRECTORY
      BY <2>2, <2>3 DEF c, B!FORMAT_OTHER, B!DIRECTORY
    <3> QED  BY <3>1 DEF B!BuildRamdisk
  <2>5. PackedHere(B!Absent)
    BY DEF PackedHere, B!Absent, B!Content
  <2>6. p = B!Absent
    BY <1>5, <1>9
  <2> HIDE DEF b
  <2> QED  BY <1>2, <1>3, <1>4, <1>7, <1>9, <2>1, <2>3, <2>4, <2>5, <2>6, AbsentHeld DEF b, p, r, n, c
<1> QED  BY <1>8, <1>9

\* A field is cut once.
LEMMA FieldOnce ==
    ASSUME NEW s \in Seq(Nat), NEW limit \in Nat
    PROVE  B!Field(B!Field(s, limit), limit) = B!Field(s, limit)
  BY FieldIs

\* The arguments of a build describe the next image, and it is of this form again.
LEMMA VendorArgs ==
    ASSUME NEW x, IsVendor(x), NEW u, AreFiles(x, u), NEW files, Edits(files, u)
    PROVE  /\ ArgsOf(V!Args(VendorInfoOf(x), VendorTableOf(x), files), NextOf(x, files))
           /\ IsVendor(NextOf(x, files))
<1> DEFINE i == VendorInfoOf(x)
           t == VendorTableOf(x)
           a == V!Args(i, t, files)
           y == NextOf(x, files)
           L == Len(x.ramdisks)
           four == x.version > 3
<1>1. /\ i.header_version = x.version /\ i.page_size = x.page /\ i.kernel_load_address = x.kernel
      /\ i.ramdisk_load_address = x.ramdisk /\ i.tags_load_address = x.tags /\ i.cmdline = x.cmdline
      /\ i.product_name = x.name /\ i.dtb_size = x.dtb.size
      /\ i.dtb_load_address = x.low + U32 * x.high
      /\ i.bootconfig_size = (IF four THEN x.bootconfig.size ELSE 0)
      /\ ~ four => i.ramdisk_compression = FoundFormat(x, 1)
  BY DEF VendorInfoOf, VendorReading
<1>2. four => /\ DOMAIN t = 1 .. L
              /\ \A k \in 1 .. L : t[k].ramdisk_compression = FoundFormat(x, k)
                                   /\ t[k].type = x.ramdisks[k].type /\ t[k].name = x.ramdisks[k].name
  BY DEF VendorTableOf, EntryOf
<1>3. /\ x.version \in Nat /\ x.page \in 1 .. MaxSize /\ L \in Nat
      /\ \A k \in 1 .. L : Storable(x.ramdisks[k].name)
      /\ L <= Len(RamdiskFiles) /\ (8 + 2 * L) * MaxSize <= U32
      /\ x.dtb \in HeldFiles /\ x.bootconfig \in HeldFiles
      /\ x.cmdline \in Seq(Nat) /\ Len(x.cmdline) <= VENDOR_BOOT_ARGS_SIZE
      /\ x.name \in Seq(Nat) /\ Len(x.name) <= VENDOR_BOOT_NAME_SIZE
      /\ x.low \in 0 .. U32 - 1 /\ x.high \in Nat
      /\ x.version <= 3 => L = 1 /\ x.bootconfig = B!Absent
  BY DEF IsVendor, IsRamdisk
<1>4. DOMAIN files = VendorNames(x) /\ DOMAIN u = VendorNames(x)
  BY DEF Edits, AreFiles
<1>5. /\ y.version = x.version /\ y.page = x.page /\ y.kernel = x.kernel /\ y.ramdisk = x.ramdisk
      /\ y.tags = x.tags /\ y.cmdline = x.cmdline /\ y.name = x.name
      /\ y.dtb = (IF x.dtb.size > 0 THEN files["dtb"] ELSE B!Absent)
      /\ y.low = (IF x.dtb.size > 0 THEN x.low ELSE V!DTB_OFFSET) /\ y.high = 0
      /\ y.bootconfig = (IF x.bootconfig.size > 0 THEN files["bootconfig"] ELSE B!Absent)
      /\ y.ramdisks = [k \in 1 .. L |->
            [file |-> PutOf(x, files, k), type |-> IF four THEN x.ramdisks[k].type ELSE 0,
             name |-> IF four THEN B!Field(x.ramdisks[k].name, VENDOR_RAMDISK_NAME_SIZE - 1) ELSE <<>>,
             board_id |-> 0]]
  BY DEF NextOf
<1> HIDE DEF y
<1>6. /\ y.ramdisks = [k \in 1 .. L |-> y.ramdisks[k]]
      /\ \A k \in 1 .. L :
            /\ y.ramdisks[k] = [file |-> y.ramdisks[k].file, type |-> y.ramdisks[k].type,
                                name |-> y.ramdisks[k].name, board_id |-> y.ramdisks[k].board_id]
            /\ y.ramdisks[k].file = PutOf(x, files, k)
            /\ y.ramdisks[k].type = (IF four THEN x.ramdisks[k].type ELSE 0)
            /\ y.ramdisks[k].name = IF four THEN B!Field(x.ramdisks[k].name, VENDOR_RAMDISK_NAME_SIZE - 1)
                                    ELSE <<>>
            /\ y.ramdisks[k].board_id = 0
  BY <1>5
<1>7. Len(y.ramdisks) = L
  <2> HIDE DEF L
  <2> QED  BY <1>3, <1>6, WholeIs
<1>8. \A k \in 1 .. L :
         LET b == B!BuildRamdisk(files[NameOf(x, k)], FoundFormat(x, k))
         IN  /\ NameOf(x, k) \in DOMAIN files
             /\ b = PutOf(x, files, k)
             /\ PutOf(x, files, k) \in HeldFiles
             /\ x.ramdisks[k].file.size # 0 => PutOf(x, files, k).size > 0
  BY VendorRamdiskBack
<1>9. /\ x.bootconfig.size > 0 => four
      /\ x.bootconfig.size \in Nat /\ x.dtb.size \in Nat
  <2>1. B!Absent.size = 0
    BY DEF B!Absent
  <2> QED  BY <1>3, <2>1, HeldParts
<1>10. x.bootconfig.size > 0 => /\ files["bootconfig"] = Built(files["bootconfig"], x.bootconfig.is.format)
                                /\ "bootconfig" \in DOMAIN files
                                /\ files["bootconfig"] \in HeldFiles
  <2> SUFFICES ASSUME x.bootconfig.size > 0
               PROVE  /\ files["bootconfig"] = Built(files["bootconfig"], x.bootconfig.is.format)
                      /\ "bootconfig" \in DOMAIN files
                      /\ files["bootconfig"] \in HeldFiles
    OBVIOUS
  <2>1. u["bootconfig"] = x.bootconfig /\ "bootconfig" \in VendorNames(x)
    BY <1>9 DEF AreFiles, VendorNames
  <2>0. "bootconfig" \in DOMAIN u /\ u["bootconfig"].size # 0
    BY <1>4, <2>1
  <2>2. /\ files["bootconfig"].size \in 1 .. MaxSize
        /\ files["bootconfig"].is.format = x.bootconfig.is.format
        /\ files["bootconfig"].is.name \in Labels /\ files["bootconfig"].is.rev \in Revs
        /\ files["bootconfig"] = [size |-> files["bootconfig"].size,
              is |-> [name |-> files["bootconfig"].is.name, rev |-> files["bootconfig"].is.rev,
                      format |-> files["bootconfig"].is.format]]
    BY <2>0, <2>1, EditedIs
  <2>3. x.bootconfig.is.format \in Formats
    BY <1>3, HeldParts
  <2>6. files["bootconfig"].is.format # B!DIRECTORY
    BY <2>2, <2>3 DEF Formats, B!DIRECTORY, B!FORMAT_NONE, B!FORMAT_LZ4, B!FORMAT_GZIP, B!FORMAT_LZMA,
                      B!FORMAT_OTHER
  <2>4. files["bootconfig"] = Built(files["bootconfig"], x.bootconfig.is.format)
    BY <2>2, <2>6 DEF Built
  <2>5. Built(files["bootconfig"], x.bootconfig.is.format) \in HeldFiles
    BY <2>2, <2>3, <2>6, BuiltHeld
  <2> QED  BY <1>4, <2>1, <2>4, <2>5
<1>11. x.dtb.size > 0 => /\ files["dtb"] = Built(files["dtb"], x.dtb.is.format)
                         /\ "dtb" \in DOMAIN files
                         /\ files["dtb"] \in HeldFiles /\ files["dtb"].is.format = x.dtb.is.format
  <2> SUFFICES ASSUME x.dtb.size > 0
               PROVE  /\ files["dtb"] = Built(files["dtb"], x.dtb.is.format)
                      /\ "dtb" \in DOMAIN files
                      /\ files["dtb"] \in HeldFiles /\ files["dtb"].is.format = x.dtb.is.format
    OBVIOUS
  <2>1. u["dtb"] = x.dtb /\ "dtb" \in VendorNames(x)
    BY DEF AreFiles, VendorNames
  <2>0. "dtb" \in DOMAIN u /\ u["dtb"].size # 0
    BY <1>4, <2>1
  <2>2. /\ files["dtb"].size \in 1 .. MaxSize
        /\ files["dtb"].is.format = x.dtb.is.format
        /\ files["dtb"].is.name \in Labels /\ files["dtb"].is.rev \in Revs
        /\ files["dtb"] = [size |-> files["dtb"].size,
              is |-> [name |-> files["dtb"].is.name, rev |-> files["dtb"].is.rev,
                      format |-> files["dtb"].is.format]]
    BY <2>0, <2>1, EditedIs
  <2>3. x.dtb.is.format \in Formats
    BY <1>3, HeldParts
  <2>6. files["dtb"].is.format # B!DIRECTORY
    BY <2>2, <2>3 DEF Formats, B!DIRECTORY, B!FORMAT_NONE, B!FORMAT_LZ4, B!FORMAT_GZIP, B!FORMAT_LZMA,
                      B!FORMAT_OTHER
  <2>4. files["dtb"] = Built(files["dtb"], x.dtb.is.format)
    BY <2>2, <2>6 DEF Built
  <2>5. Built(files["dtb"], x.dtb.is.format) \in HeldFiles
    BY <2>2, <2>3, <2>6, BuiltHeld
  <2> QED  BY <1>4, <2>1, <2>2, <2>4, <2>5
<1>12. y.dtb \in HeldFiles /\ y.bootconfig \in HeldFiles
  BY <1>5, <1>10, <1>11, AbsentHeld
<1>13. 4 \in 0 .. U32 - 1 /\ V!DTB_OFFSET = 4
  BY SizeBounds DEF V!DTB_OFFSET
<1>14. y.low \in 0 .. U32 - 1 /\ y.high \in Nat
  BY <1>3, <1>5, <1>13
<1>15. \A s \in Seq(Nat) : \A n \in Nat : B!Field(s, n) \in Seq(Nat) /\ Len(B!Field(s, n)) <= n
                                          /\ Len(B!Field(s, n)) <= Len(s)
  BY FieldIs
<1>16. VENDOR_RAMDISK_NAME_SIZE - 1 \in Nat /\ VENDOR_RAMDISK_NAME_SIZE < StringSize /\ StringSize \in Nat
       /\ VENDOR_BOOT_ARGS_SIZE \in Nat /\ VENDOR_BOOT_NAME_SIZE \in Nat
  BY VendorTextBounds
<1>17. ASSUME NEW k \in 1 .. L PROVE IsRamdisk(y.ramdisks[k])
  <2>1. Storable(y.ramdisks[k].name)
    <3>1. CASE four
      <4> DEFINE s == x.ramdisks[k].name
                 n == VENDOR_RAMDISK_NAME_SIZE - 1
      <4>0. Storable(s)
        BY <1>3
      <4>1. s \in Seq(Nat) /\ n \in Nat /\ n < StringSize
        <5>1. s \in Seq(Nat)
          BY <4>0 DEF Storable
        <5>2. VENDOR_RAMDISK_NAME_SIZE \in Nat \ {0}
          BY VendorTextBounds
        <5> QED  BY <1>16, <5>1, <5>2
      <4>2. y.ramdisks[k].name = B!Field(s, n)
        BY <1>6, <3>1
      <4> HIDE DEF s, n
      <4>3. B!Field(s, n) \in Seq(Nat) /\ Len(B!Field(s, n)) <= n
        BY <1>15, <4>1
      <4> QED  BY <1>16, <4>1, <4>2, <4>3 DEF Storable
    <3>2. CASE ~ four
      <4>1. y.ramdisks[k].name = <<>>
        BY <1>6, <3>2
      <4>2. <<>> \in Seq(Nat) /\ Len(<<>>) = 0
        OBVIOUS
      <4>3. 0 < StringSize
        BY VendorTextBounds
      <4> QED  BY <4>1, <4>2, <4>3 DEF Storable
    <3> QED  BY <3>1, <3>2
  <2>2. y.ramdisks[k].file \in HeldFiles
    BY <1>6, <1>8
  <2> QED  BY <1>6, <2>1, <2>2 DEF IsRamdisk
<1>18. IsVendor(y)
  <2>1. y.version <= 3 => y.bootconfig = B!Absent
    BY <1>3, <1>5, <1>9
  <2>2. y.dtb.is.format = B!FORMAT_OTHER
    <3>1. x.dtb.is.format = B!FORMAT_OTHER /\ B!Absent.is.format = B!FORMAT_OTHER
      BY DEF IsVendor, B!Absent, B!Content
    <3> QED  BY <1>5, <1>11, <3>1
  <2>3. y.version > 3 => \A k \in 1 .. L : y.ramdisks[k].file.size > 0
    <3> SUFFICES ASSUME y.version > 3, NEW k \in 1 .. L PROVE y.ramdisks[k].file.size > 0
      OBVIOUS
    <3>1. x.ramdisks[k].file.size > 0
      BY <1>5 DEF IsVendor
    <3>2. x.ramdisks[k].file.size # 0
      BY <3>1
    <3>3. PutOf(x, files, k).size > 0
      BY <1>8, <3>2
    <3> QED  BY <1>6, <3>3
  <2> HIDE DEF L
  <2> QED  BY <1>3, <1>5, <1>6, <1>7, <1>12, <1>14, <1>17, <2>1, <2>2, <2>3 DEF IsVendor
<1>19. /\ a.header_version = x.version /\ a.page_size = x.page /\ a.kernel_offset = x.kernel
       /\ a.ramdisk_offset = x.ramdisk /\ a.tags_offset = x.tags
       /\ a.vendor_cmdline = x.cmdline /\ a.board = x.name
       /\ a.dtb = (IF x.dtb.size > 0 THEN V!File(files, "dtb") ELSE V!Absent)
       /\ a.dtb_offset = (IF x.dtb.size > 0 THEN V!Low(x.low + U32 * x.high) ELSE V!DTB_OFFSET)
       /\ a.bootconfig = (IF i.bootconfig_size > 0 THEN V!File(files, "bootconfig") ELSE V!Absent)
       /\ a.ramdisks = IF four
                       THEN [k \in DOMAIN t |->
                                [file |-> V!BuildRamdisk(V!File(files, RamdiskFiles[k]),
                                                         t[k].ramdisk_compression),
                                 type |-> t[k].type, name |-> t[k].name]]
                       ELSE << [file |-> V!BuildRamdisk(V!File(files, "vendor_ramdisk"),
                                                        i.ramdisk_compression),
                                type |-> 0, name |-> <<>>] >>
  <2> HIDE DEF i, t
  <2> QED  BY <1>1 DEF V!Args
<1> HIDE DEF a, i, t
<1>20. \A n \in DOMAIN files : V!File(files, n) = files[n]
  BY DEF V!File
<1>21. a.dtb = y.dtb /\ a.bootconfig = y.bootconfig
  <2>1. x.dtb.size > 0 => V!File(files, "dtb") = files["dtb"]
    BY <1>11, <1>20
  <2>2. x.bootconfig.size > 0 => V!File(files, "bootconfig") = files["bootconfig"]
    BY <1>10, <1>20
  <2>3. i.bootconfig_size > 0 <=> x.bootconfig.size > 0
    BY <1>1, <1>9
  <2> QED  BY <1>5, <1>19, <2>1, <2>2, <2>3, SameOperators
<1>22. V!Low(a.dtb_offset) = y.low /\ V!High(a.dtb_offset) = y.high
  <2> DEFINE l == x.low
             h == x.high
  <2>0. l \in 0 .. U32 - 1 /\ h \in Nat /\ U32 \in Nat \ {0}
    BY <1>3, SizeBounds
  <2>1. V!Low(l + U32 * h) = l
    <3>1. l + U32 * h \in Nat /\ l + U32 * h = U32 * h + l
      BY <2>0
    <3>2. (l + U32 * h) % U32 = l
      <4> DEFINE e == l + U32 * h
      <4>1. e \in Nat /\ e = U32 * h + l
        BY <3>1
      <4> HIDE DEF l, h, e
      <4>2. e % U32 = l
        BY <2>0, <4>1, Unique
      <4> QED  BY <4>2 DEF e
    <3> QED  BY <3>2 DEF V!Low
  <2> HIDE DEF l, h
  <2>2. \A n \in 0 .. U32 - 1 : V!Low(n) = n /\ V!High(n) = 0
    <3> SUFFICES ASSUME NEW n \in 0 .. U32 - 1 PROVE V!Low(n) = n /\ V!High(n) = 0
      OBVIOUS
    <3>1. n \in Nat /\ n = U32 * 0 + n /\ 0 \in Nat
      BY <2>0
    <3>2. \A q \in Nat : n = U32 * q + n => n % U32 = n /\ n \div U32 = q
      <4> SUFFICES ASSUME NEW q \in Nat, n = U32 * q + n PROVE n % U32 = n /\ n \div U32 = q
        OBVIOUS
      <4> QED  BY <2>0, <3>1, Unique
    <3>3. n % U32 = n /\ n \div U32 = 0
      BY <3>1, <3>2
    <3> QED  BY <3>3 DEF V!Low, V!High
  <2>3. a.dtb_offset = y.low
    BY <1>5, <1>19, <2>1 DEF l, h
  <2> QED  BY <1>5, <1>14, <2>2, <2>3
<1>23. /\ V!Field(a.vendor_cmdline, VENDOR_BOOT_ARGS_SIZE) = y.cmdline
       /\ V!Field(a.board, VENDOR_BOOT_NAME_SIZE) = y.name
  BY <1>3, <1>5, <1>16, <1>19, FieldIs, SameOperators
<1>24. a.ramdisks = [k \in 1 .. L |-> a.ramdisks[k]]
  <2>1. CASE four
    <3>1. DOMAIN t = 1 .. L
      BY <1>2, <2>1
    <3> QED  BY <1>19, <2>1, <3>1
  <2>2. CASE ~ four
    <3>1. L = 1
      BY <1>3, <2>2
    <3> HIDE DEF L
    <3> QED  BY <1>19, <2>2, <3>1
  <2> QED  BY <2>1, <2>2
<1>25. ASSUME NEW k \in 1 .. L
       PROVE  /\ a.ramdisks[k].file = B!BuildRamdisk(files[NameOf(x, k)], FoundFormat(x, k))
              /\ a.ramdisks[k].type = y.ramdisks[k].type
              /\ V!Field(a.ramdisks[k].name, VENDOR_RAMDISK_NAME_SIZE - 1) = y.ramdisks[k].name
  <2>1. V!File(files, NameOf(x, k)) = files[NameOf(x, k)]
    BY <1>8, <1>20
  <2>2. CASE four
    <3>1. k \in DOMAIN t /\ NameOf(x, k) = RamdiskFiles[k]
      BY <1>2, <2>2 DEF NameOf
    <3>2. /\ a.ramdisks[k].file = V!BuildRamdisk(V!File(files, RamdiskFiles[k]), t[k].ramdisk_compression)
          /\ a.ramdisks[k].type = t[k].type /\ a.ramdisks[k].name = t[k].name
      BY <1>19, <2>2, <3>1
    <3>3. t[k].ramdisk_compression = FoundFormat(x, k) /\ t[k].type = x.ramdisks[k].type
          /\ t[k].name = x.ramdisks[k].name
      BY <1>2, <2>2
    <3>4. y.ramdisks[k].type = x.ramdisks[k].type
          /\ y.ramdisks[k].name = B!Field(x.ramdisks[k].name, VENDOR_RAMDISK_NAME_SIZE - 1)
      BY <1>6, <2>2
    <3>5. a.ramdisks[k].file = V!BuildRamdisk(files[NameOf(x, k)], FoundFormat(x, k))
      BY <2>1, <3>1, <3>2, <3>3
    <3> HIDE DEF y, a, t
    <3>6. a.ramdisks[k].file = B!BuildRamdisk(files[NameOf(x, k)], FoundFormat(x, k))
      BY <3>5, SameOperators
    <3>7. V!Field(a.ramdisks[k].name, VENDOR_RAMDISK_NAME_SIZE - 1) = y.ramdisks[k].name
      BY <3>2, <3>3, <3>4, SameOperators
    <3> QED  BY <3>2, <3>3, <3>4, <3>6, <3>7
  <2>3. CASE ~ four
    <3>1. L = 1
      BY <1>3, <2>3
    <3>2. k = 1
      <4> HIDE DEF L
      <4> QED  BY <3>1
    <3>3. NameOf(x, k) = "vendor_ramdisk"
      BY <2>3 DEF NameOf
    <3>4. /\ a.ramdisks[1].file = V!BuildRamdisk(V!File(files, "vendor_ramdisk"), i.ramdisk_compression)
          /\ a.ramdisks[1].type = 0 /\ a.ramdisks[1].name = <<>>
      BY <1>19, <2>3
    <3>5. B!Field(<<>>, VENDOR_RAMDISK_NAME_SIZE - 1) = <<>>
      <4>1. <<>> \in Seq(Nat) /\ Len(<<>>) = 0 /\ 0 <= VENDOR_RAMDISK_NAME_SIZE - 1
        BY <1>16
      <4> QED  BY <1>16, <4>1, FieldIs
    <3> QED  BY <1>1, <1>6, <2>1, <2>3, <3>2, <3>3, <3>4, <3>5, SameOperators
  <2> QED  BY <2>2, <2>3
<1>26. \A k \in 1 .. L : /\ a.ramdisks[k].file.size = y.ramdisks[k].file.size
                         /\ a.ramdisks[k].file.size # 0 => a.ramdisks[k].file.is = y.ramdisks[k].file.is
  <2> SUFFICES ASSUME NEW k \in 1 .. L PROVE a.ramdisks[k].file = y.ramdisks[k].file
    OBVIOUS
  <2>1. y.ramdisks[k].file = PutOf(x, files, k)
    BY <1>6
  <2>2. a.ramdisks[k].file = B!BuildRamdisk(files[NameOf(x, k)], FoundFormat(x, k))
    BY <1>25
  <2>3. B!BuildRamdisk(files[NameOf(x, k)], FoundFormat(x, k)) = PutOf(x, files, k)
    BY <1>8
  <2> QED  BY <2>1, <2>2, <2>3
<1>27. ArgsOf(a, y)
  <2> HIDE DEF L
  <2> QED  BY <1>5, <1>6, <1>7, <1>19, <1>21, <1>22, <1>23, <1>24, <1>25, <1>26 DEF ArgsOf
<1> QED  BY <1>18, <1>27 DEF a, y, i, t
-----------------------------------------------------------------------------
(* From one vendor_boot image to the next.                                 *)

\* What a build makes of a vendor_boot image that nobody edited.
RebuiltVendor(img) ==
    V!Build(V!Args(V!Unpacked(img).info, V!Unpacked(img).table, V!Unpacked(img).files))

\* The fields of the next image.
LEMMA NextIs ==
    ASSUME NEW x, IsVendor(x), NEW u, AreFiles(x, u), NEW files, Edits(files, u)
    PROVE  LET y == NextOf(x, files)
               L == Len(x.ramdisks)
           IN  /\ y.version = x.version /\ y.page = x.page /\ y.kernel = x.kernel
               /\ y.ramdisk = x.ramdisk /\ y.tags = x.tags /\ y.cmdline = x.cmdline /\ y.name = x.name
               /\ y.low = (IF x.dtb.size > 0 THEN x.low ELSE V!DTB_OFFSET) /\ y.high = 0
               /\ L \in Nat /\ Len(y.ramdisks) = L
               /\ \A k \in 1 .. L :
                     /\ y.ramdisks[k].file = PutOf(x, files, k)
                     /\ y.ramdisks[k].type = (IF x.version > 3 THEN x.ramdisks[k].type ELSE 0)
                     /\ y.ramdisks[k].name = IF x.version > 3
                            THEN B!Field(x.ramdisks[k].name, VENDOR_RAMDISK_NAME_SIZE - 1) ELSE <<>>
                     /\ y.ramdisks[k].board_id = 0
                     /\ NameOf(y, k) = NameOf(x, k)
               /\ x.dtb.size > 0 => y.dtb = files["dtb"] /\ "dtb" \in DOMAIN u /\ u["dtb"] = x.dtb
               /\ ~ (x.dtb.size > 0) => y.dtb = B!Absent
               /\ x.bootconfig.size > 0 => y.bootconfig = files["bootconfig"] /\ x.version > 3
               /\ ~ (x.bootconfig.size > 0) => y.bootconfig = B!Absent
               /\ y.dtb.size > 0 <=> x.dtb.size > 0
               /\ y.bootconfig.size > 0 <=> x.bootconfig.size > 0
               /\ VendorNames(y) = VendorNames(x)
<1> DEFINE y == NextOf(x, files)
           L == Len(x.ramdisks)
           four == x.version > 3
<1>1. /\ y.version = x.version /\ y.page = x.page /\ y.kernel = x.kernel
      /\ y.ramdisk = x.ramdisk /\ y.tags = x.tags /\ y.cmdline = x.cmdline /\ y.name = x.name
      /\ y.low = (IF x.dtb.size > 0 THEN x.low ELSE V!DTB_OFFSET) /\ y.high = 0
      /\ y.dtb = (IF x.dtb.size > 0 THEN files["dtb"] ELSE B!Absent)
      /\ y.bootconfig = (IF x.bootconfig.size > 0 THEN files["bootconfig"] ELSE B!Absent)
      /\ DOMAIN y.ramdisks = 1 .. L
      /\ \A k \in 1 .. L :
            /\ y.ramdisks[k].file = PutOf(x, files, k)
            /\ y.ramdisks[k].type = (IF four THEN x.ramdisks[k].type ELSE 0)
            /\ y.ramdisks[k].name = IF four
                   THEN B!Field(x.ramdisks[k].name, VENDOR_RAMDISK_NAME_SIZE - 1) ELSE <<>>
            /\ y.ramdisks[k].board_id = 0
  BY DEF NextOf
<1>2. /\ L \in Nat /\ x.dtb \in HeldFiles /\ x.bootconfig \in HeldFiles
      /\ x.version <= 3 => x.bootconfig = B!Absent
      /\ x.version \in Nat
  BY DEF IsVendor
<1>3. Len(y.ramdisks) \in Nat /\ y.ramdisks = [k \in 1 .. Len(y.ramdisks) |-> y.ramdisks[k]]
  BY VendorArgs DEF IsVendor
<1> HIDE DEF y
<1>4. Len(y.ramdisks) = L
  <2> DEFINE s == y.ramdisks
             n == Len(s)
  <2>1. n \in Nat /\ DOMAIN s = 1 .. n /\ DOMAIN s = 1 .. L
    BY <1>1, <1>3
  <2> HIDE DEF s, n, L
  <2>2. n = L
    <3>1. 1 .. n = 1 .. L
      BY <2>1
    <3>2. CASE n = 0 \/ L = 0
      BY <1>2, <2>1, <3>1, <3>2
    <3>3. CASE n # 0 /\ L # 0
      <4>1. n \in 1 .. n /\ L \in 1 .. L
        BY <1>2, <2>1, <3>3
      <4>2. n \in 1 .. L /\ L \in 1 .. n
        BY <3>1, <4>1
      <4> QED  BY <1>2, <2>1, <4>2
    <3> QED  BY <3>2, <3>3
  <2> QED  BY <2>2 DEF n, s
<1>5. B!Absent.size = 0
  BY DEF B!Absent
<1>6. x.bootconfig.size > 0 => four
  BY <1>2, <1>5
<1>7. \A n \in DOMAIN u : u[n].size # 0 => files[n].size \in 1 .. MaxSize
  BY EditedIs
<1>8. DOMAIN u = VendorNames(x)
  BY DEF AreFiles
<1>9. x.dtb.size > 0 => /\ "dtb" \in DOMAIN u /\ u["dtb"] = x.dtb /\ files["dtb"].size > 0
  <2> SUFFICES ASSUME x.dtb.size > 0 PROVE "dtb" \in DOMAIN u /\ u["dtb"] = x.dtb /\ files["dtb"].size > 0
    OBVIOUS
  <2>1. u["dtb"] = x.dtb /\ "dtb" \in DOMAIN u
    BY <1>8 DEF AreFiles, VendorNames
  <2>2. u["dtb"].size # 0
    BY <2>1
  <2>3. files["dtb"].size \in 1 .. MaxSize
    BY <1>7, <2>1, <2>2
  <2> QED  BY <2>1, <2>3, SizeBounds
<1>10. x.bootconfig.size > 0 => files["bootconfig"].size > 0
  <2> SUFFICES ASSUME x.bootconfig.size > 0 PROVE files["bootconfig"].size > 0
    OBVIOUS
  <2>1. u["bootconfig"] = x.bootconfig /\ "bootconfig" \in DOMAIN u
    BY <1>6, <1>8 DEF AreFiles, VendorNames
  <2>2. u["bootconfig"].size # 0
    BY <2>1
  <2>3. files["bootconfig"].size \in 1 .. MaxSize
    BY <1>7, <2>1, <2>2
  <2> QED  BY <2>3, SizeBounds
<1>11. (y.dtb.size > 0 <=> x.dtb.size > 0) /\ (y.bootconfig.size > 0 <=> x.bootconfig.size > 0)
  BY <1>1, <1>5, <1>9, <1>10
<1>12. \A k : NameOf(y, k) = NameOf(x, k)
  BY <1>1 DEF NameOf
<1>13. VendorNames(y) = VendorNames(x)
  BY <1>1, <1>4, <1>11, <1>12 DEF VendorNames
<1> HIDE DEF L
<1> QED  BY <1>1, <1>2, <1>4, <1>6, <1>9, <1>11, <1>12, <1>13 DEF y, L

\* A build leaves nothing out.
LEMMA NextNotBare ==
    ASSUME NEW x, IsVendor(x), NEW u, AreFiles(x, u), NEW files, Edits(files, u), ~ Bare(x)
    PROVE  ~ Bare(NextOf(x, files))
<1> DEFINE y == NextOf(x, files)
<1> SUFFICES ASSUME Bare(y) PROVE FALSE
  OBVIOUS
<1>1. /\ y.version = x.version /\ (y.dtb.size > 0 <=> x.dtb.size > 0)
      /\ \A k \in 1 .. Len(x.ramdisks) : y.ramdisks[k].file = PutOf(x, files, k)
  BY NextIs
<1>2. IsVendor(y)
  BY VendorArgs
<1> HIDE DEF y
<1>3. x.version <= 3 /\ y.version <= 3 /\ V!Total(RamdisksOf(y)) = 0 /\ y.dtb.size = 0
  BY <1>1 DEF Bare
<1>4. x.dtb.size = 0
  <2>1. x.dtb.size \in Nat
    BY HeldParts DEF IsVendor
  <2> QED  BY <1>1, <1>3, <2>1
<1>5. V!Total(RamdisksOf(x)) # 0
  BY <1>3, <1>4 DEF Bare
<1>6. V!Total(RamdisksOf(x)) = x.ramdisks[1].file.size /\ 1 \in 1 .. Len(x.ramdisks)
  BY <1>3, TotalOfOne
<1>7. V!Total(RamdisksOf(y)) = y.ramdisks[1].file.size
  BY <1>2, <1>3, TotalOfOne
<1>8. y.ramdisks[1].file = PutOf(x, files, 1)
  BY <1>1, <1>6
<1>9. PutOf(x, files, 1).size > 0
  BY <1>5, <1>6, VendorRamdiskBack
<1> QED  BY <1>3, <1>7, <1>8, <1>9

\* What comes out of an image are held files, the ramdisks in another form.
LEMMA VendorFilesAre ==
    ASSUME NEW x, IsVendor(x), NEW u, AreFiles(x, u), NEW n \in DOMAIN u
    PROVE  \E r \in HeldFiles, c \in {B!FORMAT_OTHER} \cup {FoundFormat(x, k) : k \in 1 .. Len(x.ramdisks)} :
              u[n] = B!UnpackRamdisk(r, c)
<1>1. n \in VendorNames(x)
  BY DEF AreFiles
<1>2. B!FORMAT_OTHER \in {B!FORMAT_OTHER} \cup {FoundFormat(x, k) : k \in 1 .. Len(x.ramdisks)}
  OBVIOUS
<1>3. \A r : B!UnpackRamdisk(r, B!FORMAT_OTHER) = r
  BY DEF B!UnpackRamdisk
<1>4. x.dtb \in HeldFiles /\ x.bootconfig \in HeldFiles
  BY DEF IsVendor
<1>5. CASE n = "dtb" /\ x.dtb.size > 0
  <2>1. u[n] = x.dtb
    BY <1>5 DEF AreFiles
  <2> QED  BY <1>2, <1>3, <1>4, <2>1
<1>6. CASE n = "bootconfig" /\ x.version > 3
  <2>1. u[n] = x.bootconfig
    BY <1>6 DEF AreFiles
  <2> QED  BY <1>2, <1>3, <1>4, <2>1
<1>7. CASE \E k \in 1 .. Len(x.ramdisks) : n = NameOf(x, k)
  <2>1. PICK k \in 1 .. Len(x.ramdisks) : n = NameOf(x, k)
    BY <1>7
  <2>2. u[n] = B!UnpackRamdisk(x.ramdisks[k].file, FoundFormat(x, k)) /\ x.ramdisks[k].file \in HeldFiles
    BY <2>1 DEF AreFiles, IsVendor, IsRamdisk
  <2> QED  BY <2>2
<1> QED  BY <1>1, <1>5, <1>6, <1>7 DEF VendorNames

\* The files of an image can be taken as they are.
LEMMA VendorFilesUnedited ==
    ASSUME NEW x, IsVendor(x), NEW u, AreFiles(x, u)
    PROVE  Edits(u, u)
<1>1. u = [n \in DOMAIN u |-> u[n]]
  BY DEF AreFiles
<1>2. ASSUME NEW n \in DOMAIN u, u[n].size # 0
      PROVE  u[n] \in [size: 1 .. MaxSize, is: [name: Labels, rev: Revs, format: {u[n].is.format}]]
  <2>0. PICK r \in HeldFiles : \E c : u[n] = B!UnpackRamdisk(r, c)
    BY VendorFilesAre
  <2>1. PICK c : u[n] = B!UnpackRamdisk(r, c)
    BY <2>0
  <2> DEFINE e == u[n]
  <2>2. /\ r = [size |-> r.size, is |-> [name |-> r.is.name, rev |-> r.is.rev, format |-> r.is.format]]
        /\ r.size \in 0 .. MaxSize /\ r.is.name \in Labels /\ r.is.rev \in Revs
    BY HeldParts
  <2>3. /\ c = B!FORMAT_OTHER => e = r
        /\ c # B!FORMAT_OTHER =>
              e = [size |-> r.size, is |-> [name |-> r.is.name, rev |-> IF r.is.rev = 2 THEN 0 ELSE r.is.rev,
                                            format |-> B!DIRECTORY]]
        /\ e.size = r.size /\ e.is.name = r.is.name /\ e.is.rev \in Revs
    BY <2>1, <2>2, UnpackIs
  <2>4. e.size # 0
    BY <1>2
  <2> HIDE DEF e
  <2>5. e = [size |-> e.size, is |-> [name |-> e.is.name, rev |-> e.is.rev, format |-> e.is.format]]
    BY <2>2, <2>3
  <2>6. e.size \in 1 .. MaxSize /\ e.is.name \in Labels
    BY <2>2, <2>3, <2>4, SizeBounds
  <2>7. e \in [size: 1 .. MaxSize, is: [name: Labels, rev: Revs, format: {e.is.format}]]
    BY <2>3, <2>5, <2>6
  <2> QED  BY <2>7 DEF e
<1> QED  BY <1>1, <1>2 DEF Edits

\* What a build writes does not change any more.
LEMMA NextIsStable ==
    ASSUME NEW x, IsVendor(x), NEW u, AreFiles(x, u), NEW files, Edits(files, u),
           NEW v, AreFiles(NextOf(x, files), v)
    PROVE  NextOf(NextOf(x, files), v) = NextOf(x, files)
<1> DEFINE y == NextOf(x, files)
           z == NextOf(y, v)
           L == Len(x.ramdisks)
           four == x.version > 3
<1>1. /\ y.version = x.version
      /\ y.low = (IF x.dtb.size > 0 THEN x.low ELSE V!DTB_OFFSET) /\ y.high = 0
      /\ L \in Nat /\ Len(y.ramdisks) = L
      /\ \A k \in 1 .. L :
            /\ y.ramdisks[k].file = PutOf(x, files, k)
            /\ y.ramdisks[k].type = (IF x.version > 3 THEN x.ramdisks[k].type ELSE 0)
            /\ y.ramdisks[k].name = IF x.version > 3
                   THEN B!Field(x.ramdisks[k].name, VENDOR_RAMDISK_NAME_SIZE - 1) ELSE <<>>
            /\ y.ramdisks[k].board_id = 0
      /\ ~ (x.dtb.size > 0) => y.dtb = B!Absent
      /\ ~ (x.bootconfig.size > 0) => y.bootconfig = B!Absent
      /\ x.bootconfig.size > 0 => four
      /\ y.dtb.size > 0 <=> x.dtb.size > 0
      /\ y.bootconfig.size > 0 <=> x.bootconfig.size > 0
  BY NextIs
<1>2. y = [version |-> y.version, page |-> y.page, kernel |-> y.kernel, ramdisk |-> y.ramdisk,
           tags |-> y.tags, cmdline |-> y.cmdline, name |-> y.name, dtb |-> y.dtb, low |-> y.low,
           high |-> y.high, bootconfig |-> y.bootconfig, ramdisks |-> y.ramdisks]
  BY DEF NextOf
<1>3. IsVendor(y)
  BY VendorArgs
<1>4. z = [version |-> y.version, page |-> y.page, kernel |-> y.kernel, ramdisk |-> y.ramdisk,
           tags |-> y.tags, cmdline |-> y.cmdline, name |-> y.name, dtb |-> z.dtb, low |-> z.low,
           high |-> 0, bootconfig |-> z.bootconfig, ramdisks |-> z.ramdisks]
      /\ z.dtb = (IF y.dtb.size > 0 THEN v["dtb"] ELSE B!Absent)
      /\ z.low = (IF y.dtb.size > 0 THEN y.low ELSE V!DTB_OFFSET)
      /\ z.bootconfig = (IF y.bootconfig.size > 0 THEN v["bootconfig"] ELSE B!Absent)
      /\ z.ramdisks = [k \in 1 .. Len(y.ramdisks) |->
            [file |-> PutOf(y, v, k), type |-> IF y.version > 3 THEN y.ramdisks[k].type ELSE 0,
             name |-> IF y.version > 3 THEN B!Field(y.ramdisks[k].name, VENDOR_RAMDISK_NAME_SIZE - 1) ELSE <<>>,
             board_id |-> 0]]
  BY DEF NextOf
<1> HIDE DEF y, z
<1>5. (y.dtb.size > 0 => v["dtb"] = y.dtb) /\ (y.version > 3 => v["bootconfig"] = y.bootconfig)
  BY DEF AreFiles, y
<1>6. z.dtb = y.dtb /\ z.low = y.low /\ z.bootconfig = y.bootconfig
  BY <1>1, <1>4, <1>5
<1>7. ASSUME NEW k \in 1 .. L
      PROVE  y.ramdisks[k] = [file |-> PutOf(y, v, k), type |-> IF y.version > 3 THEN y.ramdisks[k].type ELSE 0,
                 name |-> IF y.version > 3 THEN B!Field(y.ramdisks[k].name, VENDOR_RAMDISK_NAME_SIZE - 1)
                                           ELSE <<>>,
                 board_id |-> 0]
  <2> DEFINE r == y.ramdisks[k]
             f == r.file
  <2>1. IsRamdisk(r)
    BY <1>1, <1>3 DEF IsVendor
  <2>2. r = [file |-> f, type |-> r.type, name |-> r.name, board_id |-> r.board_id] /\ f \in HeldFiles
    BY <2>1 DEF IsRamdisk
  <2>3. v[NameOf(y, k)] = B!UnpackRamdisk(f, FoundFormat(y, k))
    BY <1>1 DEF AreFiles, y
  <2>4. PutOf(y, v, k) = IF f.size # 0 THEN Built(v[NameOf(y, k)], f.is.format) ELSE B!Absent
    BY DEF PutOf
  <2>5. x.ramdisks[k].name \in Seq(Nat) /\ VENDOR_RAMDISK_NAME_SIZE - 1 \in Nat
    <3>1. Storable(x.ramdisks[k].name)
      BY DEF IsVendor, IsRamdisk
    <3>2. x.ramdisks[k].name \in Seq(Nat)
      BY <3>1 DEF Storable
    <3> QED  BY <3>2, VendorTextBounds
  <2>6. /\ r.type = (IF four THEN x.ramdisks[k].type ELSE 0) /\ r.board_id = 0
        /\ r.name = IF four THEN B!Field(x.ramdisks[k].name, VENDOR_RAMDISK_NAME_SIZE - 1) ELSE <<>>
    BY <1>1
  <2> HIDE DEF r, f
  <2>7. PutOf(y, v, k) = f
    <3>1. CASE f.size # 0
      <4>1. PackedHere(f)
        BY <1>1, VendorRamdiskBack DEF r, f
      <4>2. FoundFormat(y, k) = f.is.format
        BY <1>1, <1>3, FormatFound DEF r, f
      <4>3. Built(B!UnpackRamdisk(f, f.is.format), f.is.format) = f
        BY <2>2, <4>1, PackedAgain
      <4> QED  BY <2>3, <2>4, <3>1, <4>2, <4>3
    <3>2. CASE f.size = 0
      BY <2>2, <2>4, <3>2 DEF HeldFiles
    <3> QED  BY <3>1, <3>2
  <2>8. four => B!Field(r.name, VENDOR_RAMDISK_NAME_SIZE - 1) = r.name
    BY <2>5, <2>6, FieldOnce
  <2>9. r = [file |-> PutOf(y, v, k), type |-> IF y.version > 3 THEN r.type ELSE 0,
             name |-> IF y.version > 3 THEN B!Field(r.name, VENDOR_RAMDISK_NAME_SIZE - 1) ELSE <<>>,
             board_id |-> 0]
    BY <1>1, <2>2, <2>6, <2>7, <2>8
  <2> QED  BY <2>9 DEF r
<1>8. y.ramdisks = [k \in 1 .. Len(y.ramdisks) |-> y.ramdisks[k]]
  BY <1>3 DEF IsVendor
<1>9. z.ramdisks = y.ramdisks
  BY <1>1, <1>4, <1>7, <1>8
<1>10. z = y
  BY <1>1, <1>2, <1>4, <1>6, <1>9
<1> QED  BY <1>10 DEF y, z
\* Every file of the project comes out of the next image.
LEMMA NextKept ==
    ASSUME NEW x, IsVendor(x), NEW u, AreFiles(x, u), NEW files, Edits(files, u),
           NEW v, AreFiles(NextOf(x, files), v)
    PROVE  Kept(v, files, TRUE)
<1> DEFINE y == NextOf(x, files)
           L == Len(x.ramdisks)
<1>1. /\ y.version = x.version /\ L \in Nat /\ Len(y.ramdisks) = L
      /\ \A k \in 1 .. L : y.ramdisks[k].file = PutOf(x, files, k) /\ NameOf(y, k) = NameOf(x, k)
      /\ x.dtb.size > 0 => y.dtb = files["dtb"]
      /\ x.bootconfig.size > 0 => y.bootconfig = files["bootconfig"]
      /\ ~ (x.bootconfig.size > 0) => y.bootconfig = B!Absent
      /\ y.dtb.size > 0 <=> x.dtb.size > 0
      /\ VendorNames(y) = VendorNames(x)
  BY NextIs
<1>2. IsVendor(y)
  BY VendorArgs
<1> HIDE DEF y
<1>3. DOMAIN files = VendorNames(x) /\ DOMAIN u = VendorNames(x) /\ DOMAIN v = VendorNames(x)
  BY <1>1 DEF AreFiles, Edits, y
<1>4. \A f \in HeldFiles : SameContents(f, f)
  <2> SUFFICES ASSUME NEW f \in HeldFiles PROVE SameContents(f, f)
    OBVIOUS
  <2>1. f.size = 0 \/ f.size > 0
    BY HeldParts
  <2> QED  BY <2>1 DEF SameContents
<1>5. y.dtb \in HeldFiles /\ y.bootconfig \in HeldFiles
  BY <1>2 DEF IsVendor
<1>6. ASSUME x.dtb.size > 0 PROVE SameContents(v["dtb"], files["dtb"])
  <2>1. v["dtb"] = y.dtb
    BY <1>1, <1>6 DEF AreFiles, y
  <2>2. files["dtb"] = y.dtb
    BY <1>1, <1>6
  <2> QED  BY <1>4, <1>5, <2>1, <2>2
<1>7. ASSUME x.version > 3 PROVE SameContents(v["bootconfig"], files["bootconfig"])
  <2>1. v["bootconfig"] = y.bootconfig /\ u["bootconfig"] = x.bootconfig /\ "bootconfig" \in DOMAIN u
    BY <1>1, <1>3, <1>7 DEF AreFiles, VendorNames, y
  <2>2. CASE x.bootconfig.size > 0
    BY <1>1, <1>4, <1>5, <2>1, <2>2
  <2>3. CASE ~ (x.bootconfig.size > 0)
    <3>1. x.bootconfig = B!Absent /\ B!Absent.size = 0
      <4>1. x.bootconfig \in HeldFiles
        BY DEF IsVendor
      <4>2. x.bootconfig.size \in Nat
        BY <4>1, HeldParts
      <4>3. x.bootconfig.size = 0
        BY <2>3, <4>2
      <4> QED  BY <4>1, <4>3 DEF HeldFiles
    <3>2. u["bootconfig"].size = 0
      BY <2>1, <3>1
    <3>3. files["bootconfig"] = u["bootconfig"]
      BY <2>1, <3>2 DEF Edits
    <3> QED  BY <1>1, <1>4, <1>5, <2>1, <2>3, <3>1, <3>3
  <2> QED  BY <2>2, <2>3
<1>8. ASSUME NEW k \in 1 .. L PROVE SameContents(v[NameOf(x, k)], files[NameOf(x, k)])
  <2> DEFINE r == x.ramdisks[k].file
             f == PutOf(x, files, k)
             n == NameOf(x, k)
             c == FoundFormat(y, k)
  <2>1. /\ f \in HeldFiles /\ r.size \in Nat
        /\ r.size # 0 => /\ f.is.format = r.is.format
                         /\ SameContents(B!UnpackRamdisk(f, r.is.format), files[n])
        /\ r.size = 0 => files[n] = B!Absent /\ f = B!Absent
    <3>1. r \in HeldFiles
      BY DEF IsVendor, IsRamdisk
    <3> QED  BY <3>1, HeldParts, VendorRamdiskBack
  <2>2. y.ramdisks[k].file = f /\ k \in 1 .. Len(y.ramdisks)
    BY <1>1
  <2>3. v[n] = B!UnpackRamdisk(f, c)
    BY <1>1 DEF AreFiles, y
  <2>4. c = f.is.format
    BY <1>2, <2>2, FormatFound
  <2> HIDE DEF f, r, n, c
  <2>5. CASE r.size # 0
    BY <2>1, <2>3, <2>4, <2>5 DEF n
  <2>6. CASE r.size = 0
    <3>1. f = B!Absent /\ files[n] = B!Absent /\ c = B!FORMAT_OTHER
      BY <2>1, <2>4, <2>6 DEF B!Absent, B!Content
    <3>2. v[n] = B!Absent
      BY <2>3, <3>1 DEF B!UnpackRamdisk
    <3> QED  BY <1>4, <3>1, <3>2, AbsentHeld DEF n
  <2> QED  BY <2>5, <2>6
<1>9. ASSUME NEW n \in VendorNames(x) PROVE SameContents(v[n], files[n])
  BY <1>6, <1>7, <1>8 DEF VendorNames
<1> QED  BY <1>3, <1>9 DEF Kept

\* A build of an edited vendor_boot project writes an image of this form, out of
\* which every file of the project comes again, and which another build does not
\* change.
LEMMA VendorBuilds ==
    ASSUME NEW x, IsVendor(x), ~ Bare(x), NEW files, Edits(files, V!Unpacked(ImageOf(x)).files)
    PROVE  LET w == V!Build(V!Args(V!Unpacked(ImageOf(x)).info, V!Unpacked(ImageOf(x)).table, files))
           IN  /\ \E y : IsVendor(y) /\ ~ Bare(y) /\ w = ImageOf(y)
               /\ Kept(V!Unpacked(w).files, files, TRUE)
               /\ RebuiltVendor(w) = w
<1> DEFINE u == V!Unpacked(ImageOf(x)).files
           y == NextOf(x, files)
           v == V!Unpacked(ImageOf(y)).files
           w == V!Build(V!Args(V!Unpacked(ImageOf(x)).info, V!Unpacked(ImageOf(x)).table, files))
<1>1. /\ V!Unpacked(ImageOf(x)).info = VendorInfoOf(x) /\ V!Unpacked(ImageOf(x)).table = VendorTableOf(x)
      /\ AreFiles(x, u)
  BY VendorExtracts
<1>2. ArgsOf(V!Args(VendorInfoOf(x), VendorTableOf(x), files), y) /\ IsVendor(y)
  BY <1>1, VendorArgs
<1>10. ~ Bare(y)
  BY <1>1, NextNotBare
<1> HIDE DEF y
<1>3. w = ImageOf(y)
  BY <1>1, <1>2, VendorWritten
<1>4. /\ V!Unpacked(ImageOf(y)).info = VendorInfoOf(y) /\ V!Unpacked(ImageOf(y)).table = VendorTableOf(y)
      /\ AreFiles(y, v)
  BY <1>2, VendorExtracts
<1> HIDE DEF u, v
<1>5. Kept(v, files, TRUE)
  BY <1>1, <1>4, NextKept DEF u, y
<1>6. Edits(v, v)
  BY <1>2, <1>4, VendorFilesUnedited
<1>7. NextOf(y, v) = y
  BY <1>1, <1>4, NextIsStable DEF u, y
<1>8. ArgsOf(V!Args(VendorInfoOf(y), VendorTableOf(y), v), y)
  <2>1. ArgsOf(V!Args(VendorInfoOf(y), VendorTableOf(y), v), NextOf(y, v))
    BY <1>2, <1>4, <1>6, VendorArgs
  <2> QED  BY <1>7, <2>1
<1>9. RebuiltVendor(ImageOf(y)) = ImageOf(y)
  BY <1>2, <1>4, <1>8, VendorWritten DEF RebuiltVendor, v
<1> HIDE DEF w
<1> QED  BY <1>2, <1>3, <1>5, <1>9, <1>10 DEF v, w
-----------------------------------------------------------------------------
(* The vendor_boot image from elsewhere.                                   *)

\* What an image from elsewhere holds.
XOf(d) ==
    [version |-> d.version, page |-> d.page, kernel |-> d.address, ramdisk |-> d.address,
     tags |-> d.address, cmdline |-> d.cmdline, name |-> d.name, dtb |-> d.dtb,
     low |-> d.dtb_address % U32, high |-> d.dtb_address \div U32, bootconfig |-> d.bootconfig,
     ramdisks |-> d.ramdisks]

\* A file from elsewhere is a file that an image can have in it.
LEMMA FilesHeld ==
    ASSUME NEW f \in Files
    PROVE  f \in HeldFiles
<1>1. CASE f = B!Absent
  BY <1>1, AbsentHeld
<1>2. CASE f \in [size: 1 .. MaxSize, is: [name: Contents, rev: {0}, format: Formats]]
  <2>1. f.is \in [name: Labels, rev: Revs, format: Formats]
    BY <1>2 DEF Labels, Revs
  <2>2. f = [size |-> f.size, is |-> f.is] /\ f.size \in 0 .. MaxSize /\ f.size # 0
    BY <1>2, SizeBounds
  <2> QED  BY <2>1, <2>2 DEF HeldFiles
<1> QED  BY <1>1, <1>2 DEF Files

\* An image from elsewhere is of the form.
LEMMA OriginalIsVendor ==
    ASSUME NEW d, IsVendorImage(d)
    PROVE  IsVendor(XOf(d))
<1> DEFINE x == XOf(d)
           L == Len(d.ramdisks)
<1>1. /\ x.version = d.version /\ x.page = d.page /\ x.cmdline = d.cmdline /\ x.name = d.name
      /\ x.dtb = d.dtb /\ x.low = d.dtb_address % U32 /\ x.high = d.dtb_address \div U32
      /\ x.bootconfig = d.bootconfig /\ x.ramdisks = d.ramdisks
  BY DEF XOf
<1>2. d \in VendorDescriptions
  BY DEF IsVendorImage
<1>3. /\ d.version \in Nat /\ d.page \in 1 .. MaxSize /\ d.dtb_address \in 0 .. U32 * U32 - 1
      /\ d.name \in Strings(VENDOR_BOOT_NAME_SIZE) /\ d.cmdline \in Strings(VENDOR_BOOT_ARGS_SIZE)
      /\ d.dtb \in DtbFiles /\ d.bootconfig \in Files /\ d.ramdisks \in Seq(Ramdisks)
  BY <1>2 DEF VendorDescriptions
<1>4. /\ L <= Len(RamdiskFiles) /\ (8 + 2 * L) * MaxSize <= U32
      /\ d.version <= 3 => L = 1 /\ d.bootconfig = B!Absent
      /\ d.version > 3 => \A k \in 1 .. L : d.ramdisks[k].file.size > 0
  <2>1. DOMAIN d.ramdisks = 1 .. L
    BY <1>3
  <2> HIDE DEF L
  <2> QED  BY <2>1 DEF IsVendorImage, L
<1>12. d.dtb \in Files /\ d.dtb.is.format = B!FORMAT_OTHER
  <2>1. CASE d.dtb = B!Absent
    BY <2>1 DEF Files, B!Absent, B!Content
  <2>2. CASE d.dtb \in [size: 1 .. MaxSize, is: [name: Contents, rev: {0}, format: {B!FORMAT_OTHER}]]
    <3> DEFINE f == d.dtb
    <3>1. f.is.format = B!FORMAT_OTHER /\ f \in [size: 1 .. MaxSize, is: [name: Contents, rev: {0}, format: Formats]]
      BY <2>2 DEF Formats
    <3> QED  BY <3>1 DEF Files
  <2> QED  BY <1>3, <2>1, <2>2 DEF DtbFiles
<1>5. d.dtb \in HeldFiles /\ d.bootconfig \in HeldFiles
  BY <1>3, <1>12, FilesHeld
<1>6. \A s, n : s \in Strings(n) => s \in Seq(Nat) /\ Len(s) <= n
  BY DEF Strings
<1>7. /\ d.name \in Seq(Nat) /\ Len(d.name) <= VENDOR_BOOT_NAME_SIZE
      /\ d.cmdline \in Seq(Nat) /\ Len(d.cmdline) <= VENDOR_BOOT_ARGS_SIZE
  BY <1>3, <1>6
<1>8. L \in Nat /\ d.ramdisks = [k \in 1 .. L |-> d.ramdisks[k]]
      /\ \A k \in 1 .. L : d.ramdisks[k] \in Ramdisks
  BY <1>3
<1>9. ASSUME NEW k \in 1 .. L PROVE IsRamdisk(d.ramdisks[k])
  <2> DEFINE r == d.ramdisks[k]
  <2>1. r \in Ramdisks
    BY <1>8
  <2> HIDE DEF r
  <2>2. r.file \in Files /\ r.name \in Strings(VENDOR_RAMDISK_NAME_SIZE)
        /\ r = [file |-> r.file, type |-> r.type, name |-> r.name, board_id |-> r.board_id]
    BY <2>1 DEF Ramdisks
  <2>3. r.name \in Seq(Nat) /\ Len(r.name) <= VENDOR_RAMDISK_NAME_SIZE
    BY <1>6, <2>2
  <2> DEFINE n == Len(r.name)
  <2>4. n \in Nat /\ n <= VENDOR_RAMDISK_NAME_SIZE
    BY <2>3
  <2> HIDE DEF n
  <2>5. n < StringSize
    BY <2>4, VendorTextBounds
  <2>6. Storable(r.name)
    BY <2>3, <2>5 DEF Storable, n
  <2> QED  BY <2>2, <2>6, FilesHeld DEF IsRamdisk, r
<1>10. d.dtb_address % U32 \in 0 .. U32 - 1 /\ d.dtb_address \div U32 \in Nat
  <2> DEFINE n == d.dtb_address
  <2>1. U32 \in Nat \ {0}
    BY SizeBounds
  <2>2. n \in Nat
    <3>1. U32 * U32 \in Nat
      BY <2>1
    <3> DEFINE m == U32 * U32
    <3>2. m \in Nat /\ n \in 0 .. m - 1
      BY <1>3, <3>1
    <3> HIDE DEF m, n
    <3> QED  BY <3>2
  <2> HIDE DEF n
  <2> QED  BY <2>1, <2>2, DivMod DEF n
<1> HIDE DEF L, x
<1>11. IsVendor(x)
  BY <1>1, <1>3, <1>4, <1>5, <1>7, <1>8, <1>9, <1>10, <1>12 DEF IsVendor, L
<1> QED  BY <1>11 DEF x

\* A factor goes into a sum.
LEMMA Distributes ==
    ASSUME NEW p \in Nat, NEW j \in Nat, NEW k \in Nat
    PROVE  p * (j + k) = (p * j) + (p * k)
  OBVIOUS

\* It is where a build would put it, byte by byte.
LEMMA VendorOriginalIs ==
    ASSUME NEW d, IsVendorImage(d)
    PROVE  VendorOriginal(d) = ImageOf(XOf(d))
<1> DEFINE x == XOf(d)
           o == VendorOriginal(d)
           page   == d.page
           four   == d.version > 3
           size   == IF four THEN VENDOR_BOOT_IMAGE_HEADER_V4_SIZE ELSE VENDOR_BOOT_IMAGE_HEADER_V3_SIZE
           files  == [k \in DOMAIN d.ramdisks |-> d.ramdisks[k].file]
           before == V!Before(files)
           total  == V!Total(files)
           table  == [size |-> VENDOR_RAMDISK_TABLE_ENTRY_V4_SIZE * Len(files),
                      is |-> B!Content("table", 0, B!FORMAT_OTHER)]
           start  == page * Pages(size, page)
           dtbAt  == start + page * Pages(total, page)
           tableAt == dtbAt + page * Pages(d.dtb.size, page)
           configAt == tableAt + page * Pages(table.size, page)
           header == << d.version, page, d.address, d.address, total, d.cmdline, d.address, d.name, size,
                        d.dtb.size, d.dtb_address % U32, d.dtb_address \div U32 >>
                     \o (IF four
                         THEN <<table.size, Len(d.ramdisks), VENDOR_RAMDISK_TABLE_ENTRY_V4_SIZE,
                                d.bootconfig.size>> ELSE <<>>)
           parts == (UNION {B!Chunk(start + before[k], files[k]) : k \in DOMAIN files})
                    \cup B!Chunk(dtbAt, d.dtb)
                    \cup (IF four THEN B!Chunk(tableAt, table) \cup B!Chunk(configAt, d.bootconfig) ELSE {})
           end == IF four THEN configAt + page * Pages(d.bootconfig.size, page) ELSE tableAt
           entries == [k \in DOMAIN d.ramdisks |->
                             [size |-> files[k].size, offset |-> before[k],
                              type |-> d.ramdisks[k].type, name |-> d.ramdisks[k].name,
                              board_id |-> d.ramdisks[k].board_id,
                              ramdisk_compression |-> B!FORMAT_OTHER]]
           index == IF four
                   THEN [at |-> tableAt, entry_size |-> VENDOR_RAMDISK_TABLE_ENTRY_V4_SIZE,
                         entries |-> entries]
                   ELSE V!NoTable
           L == Len(d.ramdisks)
<1>1. o = [header |-> header, parts |-> parts, end |-> end, table |-> index]
  BY DEF VendorOriginal
<1>2. IsVendor(x)
  BY OriginalIsVendor
<1>3. /\ x.version = d.version /\ x.page = d.page /\ x.kernel = d.address /\ x.ramdisk = d.address
      /\ x.tags = d.address /\ x.cmdline = d.cmdline /\ x.name = d.name
      /\ x.dtb = d.dtb /\ x.low = d.dtb_address % U32 /\ x.high = d.dtb_address \div U32
      /\ x.bootconfig = d.bootconfig /\ x.ramdisks = d.ramdisks
  BY DEF XOf
<1> HIDE DEF x
<1>4. DOMAIN d.ramdisks = 1 .. L /\ L \in Nat
  <2> DEFINE s == x.ramdisks
             n == Len(s)
  <2>1. n \in Nat /\ s = [k \in 1 .. n |-> s[k]]
    BY <1>2 DEF IsVendor
  <2> HIDE DEF s, n
  <2>2. DOMAIN s = 1 .. n
    BY <2>1
  <2> QED  BY <1>3, <2>1, <2>2 DEF s, n
<1>5. files = RamdisksOf(x) /\ DOMAIN files = 1 .. L
  BY <1>3, <1>4 DEF RamdisksOf
<1>6. Len(files) = L /\ Len(x.ramdisks) = L
  BY <1>2, <1>3, <1>5, VendorFilesBounds
<1>7. /\ before = V!Before(RamdisksOf(x)) /\ total = V!Total(RamdisksOf(x)) /\ size = HeaderSize(x)
  BY <1>3, <1>5 DEF HeaderSize
<1>8. table = TableOf(x)
  <2> DEFINE n == Len(files)
  <2>1. n = L /\ EntrySize \in Nat
    BY <1>2, <1>6, VendorPages
  <2> HIDE DEF n, L
  <2>2. EntrySize * n = L * EntrySize
    BY <1>4, <2>1
  <2>3. TableOf(x) = [size |-> L * EntrySize, is |-> B!Content("table", 0, B!FORMAT_OTHER)]
    BY <1>6 DEF TableOf
  <2> QED  BY <2>2, <2>3 DEF EntrySize, n
<1> HIDE DEF before, total, size, table
<1>9. /\ start = x.page * RamdiskAt(x) /\ dtbAt = x.page * DtbAt(x) /\ tableAt = x.page * TableAt(x)
      /\ configAt = x.page * ConfigAt(x)
      /\ configAt + page * Pages(d.bootconfig.size, page) = x.page * EndAt(x)
  <2>1. /\ {RamdiskAt(x), DtbAt(x), TableAt(x), ConfigAt(x)} \subseteq Nat
        /\ \A s \in {HeaderSize(x), V!Total(RamdisksOf(x)), x.dtb.size, TableOf(x).size} :
                Pages(s, x.page) \in Nat
        /\ Pages(x.bootconfig.size, x.page) \in Nat
    BY <1>2, VendorPages
  <2> DEFINE p == x.page
             N(s) == Pages(s, p)
             t == V!Total(RamdisksOf(x))
  <2>2. p \in Nat
    BY <1>2 DEF IsVendor
  <2>3. /\ RamdiskAt(x) = N(HeaderSize(x)) /\ DtbAt(x) = RamdiskAt(x) + N(t)
        /\ TableAt(x) = DtbAt(x) + N(x.dtb.size) /\ ConfigAt(x) = TableAt(x) + N(TableOf(x).size)
        /\ EndAt(x) = ConfigAt(x) + N(x.bootconfig.size)
    BY DEF RamdiskAt, DtbAt, TableAt, ConfigAt, EndAt
  <2>4. N(t) \in Nat /\ N(x.dtb.size) \in Nat /\ N(TableOf(x).size) \in Nat /\ N(x.bootconfig.size) \in Nat
    BY <2>1
  <2>5. /\ start = p * N(HeaderSize(x)) /\ dtbAt = start + p * N(t)
        /\ tableAt = dtbAt + p * N(x.dtb.size) /\ configAt = tableAt + p * N(TableOf(x).size)
        /\ page * Pages(d.bootconfig.size, page) = p * N(x.bootconfig.size)
    BY <1>3, <1>7, <1>8
  <2> HIDE DEF N, p, t, start, dtbAt, tableAt, configAt
  <2>6. start = p * RamdiskAt(x)
    BY <2>3, <2>5
  <2>7. dtbAt = p * DtbAt(x)
    BY <2>1, <2>2, <2>3, <2>4, <2>5, <2>6, Distributes
  <2>8. tableAt = p * TableAt(x)
    BY <2>1, <2>2, <2>3, <2>4, <2>5, <2>7, Distributes
  <2>9. configAt = p * ConfigAt(x)
    BY <2>1, <2>2, <2>3, <2>4, <2>5, <2>8, Distributes
  <2>10. configAt + p * N(x.bootconfig.size) = p * EndAt(x)
    BY <2>1, <2>2, <2>3, <2>4, <2>5, <2>9, Distributes
  <2> QED  BY <2>5, <2>6, <2>7, <2>8, <2>9, <2>10 DEF p
<1>10. index = ImageOf(x).table
  <2>1. CASE four
    <3> DEFINE E(k) == [size |-> files[k].size, offset |-> before[k],
                        type |-> d.ramdisks[k].type, name |-> d.ramdisks[k].name,
                        board_id |-> d.ramdisks[k].board_id,
                        ramdisk_compression |-> B!FORMAT_OTHER]
               F(k) == [size |-> x.ramdisks[k].file.size, offset |-> V!Before(RamdisksOf(x))[k],
                        type |-> x.ramdisks[k].type, board_id |-> x.ramdisks[k].board_id,
                        ramdisk_compression |-> B!FORMAT_OTHER, name |-> x.ramdisks[k].name]
    <3>1. entries = [k \in 1 .. L |-> E(k)]
      BY <1>4
    <3>2. ImageOf(x).table = [at |-> x.page * TableAt(x), entry_size |-> EntrySize,
                              entries |-> [k \in 1 .. L |-> F(k)]]
      BY <1>3, <1>6, <2>1 DEF ImageOf
    <3>3. \A k \in 1 .. L : E(k) = F(k)
      BY <1>3, <1>4, <1>7
    <3> HIDE DEF E, F, entries
    <3>4. entries = [k \in 1 .. L |-> F(k)]
      BY <3>1, <3>3
    <3> QED  BY <1>9, <2>1, <3>2, <3>4 DEF EntrySize
  <2>2. CASE ~ four
    BY <1>3, <2>2 DEF ImageOf
  <2> QED  BY <2>1, <2>2
<1>11. parts = ImageOf(x).parts
  <2> DEFINE G(k) == B!Chunk(start + before[k], files[k])
             H(k) == B!Chunk(Place(x, k), x.ramdisks[k].file)
  <2>1. \A k \in 1 .. L : G(k) = H(k)
    BY <1>3, <1>4, <1>7, <1>9 DEF Place
  <2> HIDE DEF G, H
  <2>2. {G(k) : k \in DOMAIN files} = {H(k) : k \in 1 .. Len(x.ramdisks)}
    BY <1>5, <1>6, <2>1
  <2>3. UNION {G(k) : k \in DOMAIN files} = RamdiskParts(x)
    BY <2>2 DEF RamdiskParts, H
  <2> DEFINE g == UNION {G(k) : k \in DOMAIN files}
             q1 == B!Chunk(dtbAt, d.dtb)
             q2 == B!Chunk(tableAt, table)
             q3 == B!Chunk(configAt, d.bootconfig)
  <2>4. parts = g \cup q1 \cup (IF four THEN q2 \cup q3 ELSE {})
    BY DEF G
  <2> HIDE DEF parts, dtbAt, tableAt, configAt
  <2>5. parts = Parts(x)
    <3>1. /\ B!Chunk(dtbAt, d.dtb) = B!Chunk(x.page * DtbAt(x), x.dtb)
          /\ B!Chunk(tableAt, table) = B!Chunk(x.page * TableAt(x), TableOf(x))
          /\ B!Chunk(configAt, d.bootconfig) = B!Chunk(x.page * ConfigAt(x), x.bootconfig)
      BY <1>3, <1>8, <1>9

    <3>3. Parts(x) = g \cup q1 \cup (IF four THEN q2 \cup q3 ELSE {})
      <4>1. g = RamdiskParts(x)
        BY <2>3
      <4> HIDE DEF g
      <4> QED  BY <1>3, <3>1, <4>1 DEF Parts
    <3> HIDE DEF g, q1, q2, q3
    <3> QED  BY <2>4, <3>3
  <2> QED  BY <2>5 DEF ImageOf
<1>12. end = ImageOf(x).end
  <2>1. ImageOf(x).end = x.page * (IF four THEN EndAt(x) ELSE TableAt(x))
    BY <1>3 DEF ImageOf
  <2> HIDE DEF tableAt, configAt
  <2> QED  BY <1>9, <2>1
<1>13. header = ImageOf(x).header
  BY <1>3, <1>6, <1>7, <1>8 DEF ImageOf, EntrySize
<1>14. ImageOf(x) = [header |-> ImageOf(x).header, parts |-> ImageOf(x).parts, end |-> ImageOf(x).end,
                     table |-> ImageOf(x).table]
  BY DEF ImageOf
<1> HIDE DEF header, parts, end, index, o
<1> QED  BY <1>1, <1>10, <1>11, <1>12, <1>13, <1>14 DEF o, x
\* What an image from elsewhere came with comes out of it.
LEMMA VendorOriginalKept ==
    ASSUME NEW d, IsVendorImage(d)
    PROVE  Kept(V!Unpacked(VendorOriginal(d)).files, VendorFiles(d), FALSE)
<1> DEFINE x == XOf(d)
           u == V!Unpacked(ImageOf(x)).files
           p == VendorFiles(d)
           L == Len(d.ramdisks)
           four == d.version > 3
           names == IF four THEN {RamdiskFiles[k] : k \in DOMAIN d.ramdisks} \cup {"bootconfig"}
                    ELSE {"vendor_ramdisk"}
           all == names \cup (IF d.dtb.size > 0 THEN {"dtb"} ELSE {})
           The(n) == CHOOSE k \in DOMAIN d.ramdisks : RamdiskFiles[k] = n
           Case(n) == CASE n = "dtb" -> d.dtb [] n = "bootconfig" -> d.bootconfig
                        [] n = "vendor_ramdisk" -> d.ramdisks[1].file
                        [] OTHER -> d.ramdisks[The(n)].file
<1>1. VendorOriginal(d) = ImageOf(x) /\ IsVendor(x)
  BY VendorOriginalIs, OriginalIsVendor
<1>2. AreFiles(x, u)
  BY <1>1, VendorExtracts
<1>3. p = [n \in all |-> Case(n)]
  BY DEF VendorFiles
<1>4. /\ x.version = d.version /\ x.dtb = d.dtb /\ x.bootconfig = d.bootconfig /\ x.ramdisks = d.ramdisks
  BY DEF XOf
<1> HIDE DEF x, u, p
<1>5. L \in Nat /\ DOMAIN d.ramdisks = 1 .. L /\ (~ four => L = 1)
  <2> DEFINE s == d.ramdisks
             n == Len(s)
  <2>1. n \in Nat /\ s = [k \in 1 .. n |-> s[k]] /\ (~ four => n = 1)
    BY <1>1, <1>4 DEF IsVendor
  <2> HIDE DEF s, n
  <2>2. DOMAIN s = 1 .. n
    BY <2>1
  <2> QED  BY <2>1, <2>2 DEF s, n
<1>6. VendorNames(x) = all
  <2>1. CASE four
    BY <1>4, <1>5, <2>1 DEF VendorNames, NameOf
  <2>2. CASE ~ four
    <3>1. {NameOf(x, k) : k \in 1 .. L} = {"vendor_ramdisk"}
      <4>1. 1 \in 1 .. L
        BY <1>5, <2>2
      <4>2. \A k \in 1 .. L : NameOf(x, k) = "vendor_ramdisk"
        BY <1>4, <2>2 DEF NameOf
      <4> HIDE DEF L
      <4> QED  BY <4>1, <4>2
    <3> QED  BY <1>4, <2>2, <3>1 DEF VendorNames
  <2> QED  BY <2>1, <2>2
<1>7. /\ \A j, k \in 1 .. L : NameOf(x, j) = NameOf(x, k) => j = k
      /\ \A k \in 1 .. L : /\ NameOf(x, k) # "bootconfig" /\ NameOf(x, k) # "dtb"
                           /\ four => NameOf(x, k) # "vendor_ramdisk" /\ NameOf(x, k) = RamdiskFiles[k]
  BY <1>1, <1>4, NamesDiffer
<1>8. \A n \in all : p[n] = Case(n)
  BY <1>3
<1>9. \A f \in HeldFiles : SameContents(f, f)
  <2> SUFFICES ASSUME NEW f \in HeldFiles PROVE SameContents(f, f)
    OBVIOUS
  <2>1. f.size = 0 \/ f.size > 0
    BY HeldParts
  <2> QED  BY <2>1 DEF SameContents
<1>16. d.dtb \in HeldFiles /\ d.bootconfig \in HeldFiles
  BY <1>1, <1>4 DEF IsVendor
<1>17. \A k \in 1 .. L : d.ramdisks[k].file.is.rev = 0
  <2> SUFFICES ASSUME NEW k \in 1 .. L PROVE d.ramdisks[k].file.is.rev = 0
    OBVIOUS
  <2>1. d.ramdisks \in Seq(Ramdisks)
    BY DEF IsVendorImage, VendorDescriptions
  <2>2. d.ramdisks[k] \in Ramdisks
    BY <2>1
  <2> DEFINE f == d.ramdisks[k].file
  <2>3. f \in Files
    BY <2>2 DEF Ramdisks
  <2> HIDE DEF f
  <2>4. f.is.rev = 0
    BY <2>3 DEF Files, B!Absent, B!Content
  <2> QED  BY <2>4 DEF f
<1>10. ASSUME NEW k \in 1 .. L PROVE SameContents(u[NameOf(x, k)], p[NameOf(x, k)])
  <2> DEFINE n == NameOf(x, k)
             r == d.ramdisks[k].file
             c == FoundFormat(x, k)
  <2>1. n \in all
    BY <1>4, <1>6 DEF VendorNames
  <2>2. p[n] = r
    <3>1. CASE four
      <4>1. The(n) = k
        <5>1. k \in DOMAIN d.ramdisks /\ RamdiskFiles[k] = n
          BY <1>5, <1>7, <3>1
        <5>2. \A j \in DOMAIN d.ramdisks : RamdiskFiles[j] = n => j = k
          BY <1>5, <1>7, <3>1
        <5> HIDE DEF n
        <5> QED  BY <5>1, <5>2
      <4>2. n # "bootconfig" /\ n # "dtb" /\ n # "vendor_ramdisk"
        BY <1>7, <3>1
      <4> HIDE DEF n, The
      <4>3. Case(n) = d.ramdisks[The(n)].file
        BY <4>2
      <4> QED  BY <1>8, <2>1, <4>1, <4>3 DEF n
    <3>2. CASE ~ four
      <4>1. n = "vendor_ramdisk" /\ k = 1
        <5>1. L = 1
          BY <1>5, <3>2
        <5> HIDE DEF L
        <5>2. k = 1
          BY <5>1
        <5> QED  BY <1>4, <3>2, <5>2 DEF NameOf
      <4>2. Case("vendor_ramdisk") = d.ramdisks[1].file
        OBVIOUS
      <4> HIDE DEF n
      <4> QED  BY <1>8, <2>1, <4>1, <4>2
    <3> QED  BY <3>1, <3>2
  <2>3. u[n] = B!UnpackRamdisk(r, c) /\ r \in HeldFiles /\ r.is.rev = 0
    BY <1>1, <1>2, <1>4, <1>17 DEF AreFiles, IsVendor, IsRamdisk
  <2> HIDE DEF n, r, c
  <2>4. /\ r = [size |-> r.size, is |-> [name |-> r.is.name, rev |-> r.is.rev, format |-> r.is.format]]
        /\ r.is.rev \in Revs /\ r.size \in Nat
    BY <2>3, HeldParts
  <2> DEFINE e == u[n]
  <2>6. /\ e.size = r.size /\ e.is.name = r.is.name /\ e.is.rev = r.is.rev
        /\ e.is.format = r.is.format \/ e.is.format = B!DIRECTORY
    BY <2>3, <2>4, UnpackIs
  <2> HIDE DEF e
  <2>8. r.size = 0 \/ r.size > 0
    BY <2>4
  <2>7. SameContents(e, r)
    BY <2>6, <2>8 DEF SameContents
  <2> QED  BY <2>2, <2>7 DEF e, n
<1>11. ASSUME four PROVE SameContents(u["bootconfig"], p["bootconfig"])
  <2>1. "bootconfig" \in all
    BY <1>11
  <2>2. Case("bootconfig") = d.bootconfig
    OBVIOUS
  <2>3. u["bootconfig"] = d.bootconfig
    BY <1>2, <1>4, <1>11 DEF AreFiles
  <2> QED  BY <1>8, <1>9, <1>16, <2>1, <2>2, <2>3
<1>12. ASSUME d.dtb.size > 0 PROVE SameContents(u["dtb"], p["dtb"])
  <2>1. "dtb" \in all
    BY <1>12
  <2>2. Case("dtb") = d.dtb
    OBVIOUS
  <2>3. u["dtb"] = d.dtb
    BY <1>2, <1>4, <1>12 DEF AreFiles
  <2> QED  BY <1>8, <1>9, <1>16, <2>1, <2>2, <2>3
<1>13. ASSUME NEW n \in VendorNames(x) PROVE SameContents(u[n], p[n])
  BY <1>4, <1>10, <1>11, <1>12 DEF VendorNames
<1>14. DOMAIN u = VendorNames(x) /\ DOMAIN p = VendorNames(x)
  BY <1>2, <1>3, <1>6 DEF AreFiles
<1>15. Kept(u, p, FALSE)
  BY <1>13, <1>14 DEF Kept
<1> QED  BY <1>1, <1>15 DEF u, p

\* The cells of the header.
LEMMA VendorCells ==
    ASSUME NEW x, IsVendor(x)
    PROVE  LET h == ImageOf(x).header
           IN  /\ DOMAIN h = 1 .. (IF x.version > 3 THEN 16 ELSE 12)
               /\ h[1] = x.version /\ h[2] = x.page /\ h[3] = x.kernel /\ h[4] = x.ramdisk
               /\ h[5] = V!Total(RamdisksOf(x)) /\ h[6] = x.cmdline /\ h[7] = x.tags
               /\ h[8] = x.name /\ h[9] = HeaderSize(x) /\ h[10] = x.dtb.size
               /\ h[11] = x.low /\ h[12] = x.high
               /\ x.version > 3 => /\ h[13] = TableOf(x).size /\ h[14] = Len(x.ramdisks)
                                   /\ h[15] = EntrySize /\ h[16] = x.bootconfig.size
<1> DEFINE h == ImageOf(x).header
           s == << x.version, x.page, x.kernel, x.ramdisk, V!Total(RamdisksOf(x)), x.cmdline, x.tags,
                   x.name, HeaderSize(x), x.dtb.size, x.low, x.high >>
           t == IF x.version > 3 THEN <<TableOf(x).size, Len(x.ramdisks), EntrySize, x.bootconfig.size>>
                ELSE <<>>
           n == IF x.version > 3 THEN 4 ELSE 0
<1>1. h = s \o t
  BY DEF ImageOf
<1>2. /\ Len(s) = 12 /\ s[1] = x.version /\ s[2] = x.page /\ s[3] = x.kernel /\ s[4] = x.ramdisk
      /\ s[5] = V!Total(RamdisksOf(x)) /\ s[6] = x.cmdline /\ s[7] = x.tags
      /\ s[8] = x.name /\ s[9] = HeaderSize(x) /\ s[10] = x.dtb.size /\ s[11] = x.low /\ s[12] = x.high
  OBVIOUS
<1>3. x.version > 3 => /\ t[1] = TableOf(x).size /\ t[2] = Len(x.ramdisks)
                       /\ t[3] = EntrySize /\ t[4] = x.bootconfig.size
  OBVIOUS
<1>4. Len(t) = n /\ n \in Nat /\ (x.version > 3 => n = 4) /\ (~ (x.version > 3) => n = 0)
  OBVIOUS
<1> HIDE DEF s, t, h, n
<1>5. /\ \A k \in 1 .. 12 : h[k] = s[k]
      /\ \A k \in 1 .. n : h[12 + k] = t[k]
      /\ DOMAIN h = 1 .. 12 + n
  <2>1. Len(s) = 12 /\ Len(s) \in Nat /\ Len(t) \in Nat
    BY <1>2, <1>4
  <2>2. /\ \A k \in 1 .. Len(s) : h[k] = s[k]
        /\ \A k \in 1 .. Len(t) : h[Len(s) + k] = t[k]
        /\ DOMAIN h = 1 .. Len(s) + Len(t)
    <3>1. Len(s) \in Nat /\ Len(t) \in Nat
      BY <2>1
    <3> QED  BY <1>1, <3>1, CellsOfBoth
  <2> QED  BY <1>4, <2>1, <2>2
<1>6. x.version > 3 => \A k \in 1 .. 4 : h[12 + k] = t[k]
  BY <1>4, <1>5
<1>7. x.version > 3 => /\ h[12 + 1] = t[1] /\ h[12 + 2] = t[2] /\ h[12 + 3] = t[3] /\ h[12 + 4] = t[4]
  BY <1>6
<1>8. DOMAIN h = 1 .. (IF x.version > 3 THEN 16 ELSE 12)
  BY <1>4, <1>5
<1>9. x.version > 3 => /\ h[13] = TableOf(x).size /\ h[14] = Len(x.ramdisks)
                       /\ h[15] = EntrySize /\ h[16] = x.bootconfig.size
  BY <1>3, <1>7
<1>10. /\ h[1] = x.version /\ h[2] = x.page /\ h[3] = x.kernel /\ h[4] = x.ramdisk
       /\ h[5] = V!Total(RamdisksOf(x)) /\ h[6] = x.cmdline /\ h[7] = x.tags
       /\ h[8] = x.name /\ h[9] = HeaderSize(x) /\ h[10] = x.dtb.size
       /\ h[11] = x.low /\ h[12] = x.high
  <2>1. \A k \in 1 .. 12 : h[k] = s[k]
    BY <1>5
  <2> QED  BY <1>2, <2>1
<1> QED  BY <1>8, <1>9, <1>10 DEF h
\* A ramdisk that stays a file.
Plain(x, k) == x.ramdisks[k].file.is.format = B!FORMAT_OTHER

\* What nobody edited has the sizes it had, but for a ramdisk that became a directory.
LEMMA NextSizes ==
    ASSUME NEW x, IsVendor(x), NEW u, AreFiles(x, u)
    PROVE  LET y == NextOf(x, u)
               L == Len(x.ramdisks)
           IN  /\ \A k \in 1 .. L :
                     /\ Plain(x, k) => y.ramdisks[k].file.size = x.ramdisks[k].file.size
                     /\ (\A j \in 1 .. k - 1 : Plain(x, j)) =>
                            V!Before(RamdisksOf(y))[k] = V!Before(RamdisksOf(x))[k]
               /\ (\A j \in 1 .. L : Plain(x, j)) => V!Total(RamdisksOf(y)) = V!Total(RamdisksOf(x))
               /\ y.dtb.size = x.dtb.size /\ y.bootconfig.size = x.bootconfig.size
               /\ HeaderSize(y) = HeaderSize(x) /\ TableOf(y).size = TableOf(x).size
<1> DEFINE y == NextOf(x, u)
           L == Len(x.ramdisks)
<1>0. Edits(u, u)
  BY VendorFilesUnedited
<1>1. /\ y.version = x.version /\ L \in Nat /\ Len(y.ramdisks) = L
      /\ \A k \in 1 .. L : y.ramdisks[k].file = PutOf(x, u, k)
      /\ x.dtb.size > 0 => y.dtb = u["dtb"] /\ u["dtb"] = x.dtb
      /\ ~ (x.dtb.size > 0) => y.dtb = B!Absent
      /\ x.bootconfig.size > 0 => y.bootconfig = u["bootconfig"] /\ x.version > 3
      /\ ~ (x.bootconfig.size > 0) => y.bootconfig = B!Absent
  BY <1>0, NextIs
<1>2. IsVendor(y)
  BY <1>0, VendorArgs
<1> HIDE DEF y
<1>3. B!Absent.size = 0
  BY DEF B!Absent
<1>4. x.dtb.size \in Nat /\ x.bootconfig.size \in Nat
  BY HeldParts DEF IsVendor
<1>5. y.dtb.size = x.dtb.size
  BY <1>1, <1>3, <1>4
<1>6. y.bootconfig.size = x.bootconfig.size
  BY <1>1, <1>3, <1>4 DEF AreFiles
<1>7. ASSUME NEW k \in 1 .. L, Plain(x, k) PROVE y.ramdisks[k].file.size = x.ramdisks[k].file.size
  <2> DEFINE r == x.ramdisks[k].file
             e == B!UnpackRamdisk(r, FoundFormat(x, k))
  <2>1. u[NameOf(x, k)] = e /\ r \in HeldFiles
    BY DEF AreFiles, IsVendor, IsRamdisk
  <2>2. y.ramdisks[k].file = IF r.size # 0 THEN Built(u[NameOf(x, k)], r.is.format) ELSE B!Absent
    BY <1>1 DEF PutOf
  <2>3. r.is.format = B!FORMAT_OTHER /\ FoundFormat(x, k) = B!FORMAT_OTHER
    BY <1>7, FormatFound DEF Plain
  <2> HIDE DEF r
  <2>4. e = r /\ r.is.format # B!DIRECTORY
    BY <2>1, <2>3, HeldParts DEF B!UnpackRamdisk
  <2> HIDE DEF e
  <2>5. Built(e, r.is.format).size = e.size
    BY <2>4 DEF Built
  <2> QED  BY <1>3, <2>1, <2>2, <2>4, <2>5 DEF r
<1>8. /\ Len(RamdisksOf(x)) = L /\ Len(RamdisksOf(y)) = L
      /\ \A k \in 1 .. L : RamdisksOf(x)[k] = x.ramdisks[k].file /\ RamdisksOf(y)[k] = y.ramdisks[k].file
  <2>1. /\ Len(RamdisksOf(x)) = L
        /\ \A k \in 1 .. L : RamdisksOf(x)[k] = x.ramdisks[k].file
    BY VendorFilesBounds
  <2>2. /\ Len(RamdisksOf(y)) = Len(y.ramdisks)
        /\ \A k \in 1 .. Len(y.ramdisks) : RamdisksOf(y)[k] = y.ramdisks[k].file
    BY <1>2, VendorFilesBounds
  <2> HIDE DEF L
  <2> QED  BY <1>1, <2>1, <2>2
<1>9. ASSUME NEW k \in 1 .. L, \A j \in 1 .. k - 1 : Plain(x, j)
      PROVE  V!Before(RamdisksOf(y))[k] = V!Before(RamdisksOf(x))[k]
  <2> DEFINE f == RamdisksOf(y)
             g == RamdisksOf(x)
  <2>1. /\ Len(f) = L /\ Len(g) = L /\ k - 1 \in 0 .. L /\ (k - 1) + 1 = k
        /\ \A j \in 1 .. k - 1 : j \in 1 .. L
    BY <1>1, <1>8
  <2>2. \A j \in 1 .. k - 1 : f[j].size = g[j].size
    BY <1>7, <1>8, <1>9, <2>1
  <2> HIDE DEF f, g, L
  <2>3. V!Before(f)[(k - 1) + 1] = V!Before(g)[(k - 1) + 1]
    BY <1>1, <2>1, <2>2, BeforeUpTo
  <2> QED  BY <2>1, <2>3 DEF f, g
<1>11. ASSUME \A j \in 1 .. L : Plain(x, j)
       PROVE  V!Total(RamdisksOf(y)) = V!Total(RamdisksOf(x))
  <2> DEFINE f == RamdisksOf(y)
             g == RamdisksOf(x)
  <2>1. Len(f) \in Nat /\ Len(g) = Len(f) /\ \A k \in 1 .. Len(f) : f[k].size = g[k].size
    BY <1>1, <1>7, <1>8, <1>11
  <2> HIDE DEF f, g
  <2>2. V!Total(f) = V!Total(g)
    BY <2>1, BeforeSame
  <2> QED  BY <2>2 DEF f, g
<1>10. HeaderSize(y) = HeaderSize(x) /\ TableOf(y).size = TableOf(x).size
  BY <1>1 DEF HeaderSize, TableOf
<1> QED  BY <1>5, <1>6, <1>7, <1>9, <1>10, <1>11 DEF y

\* Whether none of its ramdisks becomes a directory.
AllPlain(x) == \A k \in 1 .. Len(x.ramdisks) : Plain(x, k)

\* A build of a project that nobody edited keeps the header and the table, but for the
\* sizes of what was a directory and the offsets behind it.
LEMMA VendorHeaderKept ==
    ASSUME NEW d, IsVendorImage(d)
    PROVE  LET o   == VendorOriginal(d)
               new == RebuiltVendor(o)
           IN  /\ \A k \in DOMAIN o.header \ UnkeptVendor(o.header, ~ AllPlain(XOf(d))) :
                      new.header[k] = o.header[k]
               /\ Len(new.table.entries) = Len(o.table.entries)
               /\ DOMAIN new.table.entries = DOMAIN o.table.entries
               /\ \A k \in DOMAIN new.table.entries :
                     LET e == new.table.entries[k]
                         f == o.table.entries[k]
                     IN  /\ e.type = f.type
                         /\ Plain(XOf(d), k) => e.size = f.size
                         /\ (\A j \in 1 .. k - 1 : Plain(XOf(d), j)) => e.offset = f.offset
                         /\ Len(f.name) < VENDOR_RAMDISK_NAME_SIZE => e.name = f.name
<1> DEFINE x == XOf(d)
           o == ImageOf(x)
           u == V!Unpacked(o).files
           y == NextOf(x, u)
           new == ImageOf(y)
           L == Len(x.ramdisks)
           four == x.version > 3
<1>1. VendorOriginal(d) = o /\ IsVendor(x)
  BY VendorOriginalIs, OriginalIsVendor
<1> HIDE DEF x
<1>2. /\ V!Unpacked(o).info = VendorInfoOf(x) /\ V!Unpacked(o).table = VendorTableOf(x)
      /\ AreFiles(x, u)
  BY <1>1, VendorExtracts
<1> HIDE DEF u
<1>3. Edits(u, u)
  BY <1>1, <1>2, VendorFilesUnedited
<1>4. ArgsOf(V!Args(VendorInfoOf(x), VendorTableOf(x), u), y) /\ IsVendor(y)
  BY <1>1, <1>2, <1>3, VendorArgs
<1>5. RebuiltVendor(o) = new
  BY <1>2, <1>4, VendorWritten DEF RebuiltVendor, u
<1>6. /\ y.version = x.version /\ y.page = x.page /\ y.kernel = x.kernel
      /\ y.ramdisk = x.ramdisk /\ y.tags = x.tags /\ y.cmdline = x.cmdline /\ y.name = x.name
      /\ y.low = (IF x.dtb.size > 0 THEN x.low ELSE V!DTB_OFFSET)
      /\ L \in Nat /\ Len(y.ramdisks) = L
      /\ \A k \in 1 .. L :
            /\ y.ramdisks[k].type = (IF x.version > 3 THEN x.ramdisks[k].type ELSE 0)
            /\ y.ramdisks[k].name = IF x.version > 3
                   THEN B!Field(x.ramdisks[k].name, VENDOR_RAMDISK_NAME_SIZE - 1) ELSE <<>>
  BY <1>1, <1>2, <1>3, NextIs
<1>7. /\ \A k \in 1 .. L :
            /\ Plain(x, k) => y.ramdisks[k].file.size = x.ramdisks[k].file.size
            /\ (\A j \in 1 .. k - 1 : Plain(x, j)) =>
                   V!Before(RamdisksOf(y))[k] = V!Before(RamdisksOf(x))[k]
      /\ AllPlain(x) => V!Total(RamdisksOf(y)) = V!Total(RamdisksOf(x))
      /\ y.dtb.size = x.dtb.size /\ y.bootconfig.size = x.bootconfig.size
      /\ HeaderSize(y) = HeaderSize(x) /\ TableOf(y).size = TableOf(x).size
  BY <1>1, <1>2, NextSizes DEF AllPlain
<1> HIDE DEF y
<1>8. \A k \in DOMAIN o.header \ UnkeptVendor(o.header, ~ AllPlain(x)) : new.header[k] = o.header[k]
  <2> DEFINE h == o.header
             g == new.header
  <2>1. /\ DOMAIN h = 1 .. (IF four THEN 16 ELSE 12)
        /\ h[1] = x.version /\ h[2] = x.page /\ h[3] = x.kernel /\ h[4] = x.ramdisk
        /\ h[5] = V!Total(RamdisksOf(x)) /\ h[6] = x.cmdline /\ h[7] = x.tags
        /\ h[8] = x.name /\ h[9] = HeaderSize(x) /\ h[10] = x.dtb.size /\ h[11] = x.low
        /\ four => /\ h[13] = TableOf(x).size /\ h[14] = L
                   /\ h[15] = EntrySize /\ h[16] = x.bootconfig.size
    BY <1>1, VendorCells
  <2>2. /\ g[1] = y.version /\ g[2] = y.page /\ g[3] = y.kernel /\ g[4] = y.ramdisk
        /\ g[5] = V!Total(RamdisksOf(y)) /\ g[6] = y.cmdline /\ g[7] = y.tags
        /\ g[8] = y.name /\ g[9] = HeaderSize(y) /\ g[10] = y.dtb.size /\ g[11] = y.low
        /\ y.version > 3 => /\ g[13] = TableOf(y).size /\ g[14] = Len(y.ramdisks)
                            /\ g[15] = EntrySize /\ g[16] = y.bootconfig.size
    BY <1>4, VendorCells
  <2> HIDE DEF h, g
  <2>3. x.dtb.size \in Nat
    BY <1>1, HeldParts DEF IsVendor
  <2>4. \A k \in 1 .. 10 : k # 5 \/ AllPlain(x) => g[k] = h[k]
    <3>1. /\ g[1] = h[1] /\ g[2] = h[2] /\ g[3] = h[3] /\ g[4] = h[4] /\ g[6] = h[6]
          /\ AllPlain(x) => g[5] = h[5]
          /\ g[7] = h[7] /\ g[8] = h[8] /\ g[9] = h[9] /\ g[10] = h[10]
      BY <1>6, <1>7, <2>1, <2>2
    <3> QED  BY <3>1
  <2>5. four => \A k \in 13 .. 16 : g[k] = h[k]
    <3>1. four => g[13] = h[13] /\ g[14] = h[14] /\ g[15] = h[15] /\ g[16] = h[16]
      BY <1>6, <1>7, <2>1, <2>2
    <3> QED  BY <3>1
  <2>6. h[10] # 0 => g[11] = h[11]
    BY <1>6, <2>1, <2>2, <2>3
  <2>7. ASSUME NEW k \in DOMAIN h \ UnkeptVendor(h, ~ AllPlain(x)) PROVE g[k] = h[k]
    <3>1. k # 12 /\ (k = 11 => h[10] # 0) /\ (k # 5 \/ AllPlain(x))
      BY DEF UnkeptVendor
    <3>2. k \in 1 .. 10 \/ k = 11 \/ (four /\ k \in 13 .. 16)
      <4>1. k \in 1 .. (IF four THEN 16 ELSE 12)
        BY <2>1
      <4> HIDE DEF four
      <4> QED  BY <3>1, <4>1
    <3> QED  BY <2>4, <2>5, <2>6, <3>1, <3>2
  <2> QED  BY <2>7 DEF h, g
<1>9. CASE four
  <2> DEFINE E(z, k) == [size |-> z.ramdisks[k].file.size, offset |-> V!Before(RamdisksOf(z))[k],
                         type |-> z.ramdisks[k].type, board_id |-> z.ramdisks[k].board_id,
                         ramdisk_compression |-> B!FORMAT_OTHER, name |-> z.ramdisks[k].name]
  <2>1. /\ o.table.entries = [k \in 1 .. L |-> E(x, k)]
        /\ new.table.entries = [k \in 1 .. L |-> E(y, k)]
    <3>1. o.table.entries = [k \in 1 .. L |-> E(x, k)]
      BY <1>9 DEF ImageOf
    <3>2. y.version > 3 /\ Len(y.ramdisks) = L
      BY <1>6, <1>9
    <3>3. new.table.entries = [k \in 1 .. L |-> E(y, k)]
      BY <3>2 DEF ImageOf
    <3> QED  BY <3>1, <3>3
  <2>2. \A z, k : /\ E(z, k).size = z.ramdisks[k].file.size /\ E(z, k).offset = V!Before(RamdisksOf(z))[k]
                  /\ E(z, k).type = z.ramdisks[k].type /\ E(z, k).name = z.ramdisks[k].name
    OBVIOUS
  <2> DEFINE e == new.table.entries
             f == o.table.entries
  <2> HIDE DEF E, e, f
  <2>3. Len(e) = L /\ Len(f) = L /\ DOMAIN e = 1 .. L /\ DOMAIN f = 1 .. L
    <3>1. e = [k \in 1 .. L |-> e[k]] /\ f = [k \in 1 .. L |-> f[k]]
      BY <2>1 DEF e, f
    <3> HIDE DEF L
    <3> QED  BY <1>6, <3>1, WholeIs
  <2>4. ASSUME NEW k \in 1 .. L
        PROVE  /\ e[k].type = f[k].type
               /\ Plain(x, k) => e[k].size = f[k].size
               /\ (\A j \in 1 .. k - 1 : Plain(x, j)) => e[k].offset = f[k].offset
               /\ Len(f[k].name) < VENDOR_RAMDISK_NAME_SIZE => e[k].name = f[k].name
    <3>1. e[k] = E(y, k) /\ f[k] = E(x, k)
      BY <2>1 DEF e, f
    <3>2. /\ e[k].type = f[k].type
          /\ Plain(x, k) => e[k].size = f[k].size
          /\ (\A j \in 1 .. k - 1 : Plain(x, j)) => e[k].offset = f[k].offset
      BY <1>6, <1>7, <1>9, <2>2, <3>1
    <3>3. e[k].name = B!Field(f[k].name, VENDOR_RAMDISK_NAME_SIZE - 1) /\ f[k].name = x.ramdisks[k].name
      BY <1>6, <1>9, <2>2, <3>1
    <3> DEFINE s == f[k].name
               n == VENDOR_RAMDISK_NAME_SIZE
    <3>4. s \in Seq(Nat)
      <4>1. Storable(x.ramdisks[k].name)
        BY <1>1 DEF IsVendor, IsRamdisk
      <4> QED  BY <3>3, <4>1 DEF Storable
    <3>5. n \in Nat \ {0}
      BY VendorTextBounds
    <3> HIDE DEF s, n
    <3>6. Len(s) < n => B!Field(s, n - 1) = s
      <4>1. n - 1 \in Nat /\ Len(s) \in Nat
        BY <3>4, <3>5
      <4>2. Len(s) < n => Len(s) <= n - 1
        BY <3>5, <4>1
      <4> QED  BY <3>4, <4>1, <4>2, FieldIs
    <3> QED  BY <3>2, <3>3, <3>6 DEF s, n
  <2> HIDE DEF o, new
  <2>5. /\ Len(new.table.entries) = Len(o.table.entries) /\ DOMAIN new.table.entries = 1 .. L
        /\ DOMAIN o.table.entries = 1 .. L
        /\ \A k \in 1 .. L :
            /\ new.table.entries[k].type = o.table.entries[k].type
            /\ Plain(x, k) => new.table.entries[k].size = o.table.entries[k].size
            /\ (\A j \in 1 .. k - 1 : Plain(x, j)) =>
                   new.table.entries[k].offset = o.table.entries[k].offset
            /\ Len(o.table.entries[k].name) < VENDOR_RAMDISK_NAME_SIZE =>
                   new.table.entries[k].name = o.table.entries[k].name
    BY <2>3, <2>4 DEF e, f
  <2> QED  BY <1>1, <1>5, <1>8, <2>5 DEF o, new, x
<1>10. CASE ~ four
  <2>1. o.table = V!NoTable
    BY <1>10 DEF ImageOf
  <2>2. new.table = V!NoTable
    BY <1>6, <1>10 DEF ImageOf
  <2>3. V!NoTable.entries = <<>> /\ DOMAIN <<>> = {}
    BY DEF V!NoTable
  <2> HIDE DEF o, new
  <2>4. new.table.entries = o.table.entries /\ DOMAIN new.table.entries = {}
    BY <2>1, <2>2, <2>3
  <2> QED  BY <1>1, <1>5, <1>8, <2>4 DEF o, new, x
<1> QED  BY <1>9, <1>10

\* The directories of HeaderKept are the ramdisks that are no plain files.
LEMMA VendorDirectoriesAre ==
    ASSUME NEW d, IsVendorImage(d), original = VendorOriginal(d)
    PROVE  /\ VendorHasDirectory <=> ~ AllPlain(XOf(d))
           /\ \A k \in DOMAIN original.table.entries :
                  /\ k \notin VendorDirectories => Plain(XOf(d), k)
                  /\ VendorDirectories \cap 1 .. k - 1 = {} => \A j \in 1 .. k - 1 : Plain(XOf(d), j)
<1> DEFINE x == XOf(d)
           L == Len(x.ramdisks)
           t == V!Unpacked(original).table
           i == V!Unpacked(original).info
<1>1. original = ImageOf(x) /\ IsVendor(x)
  BY VendorOriginalIs, OriginalIsVendor
<1> HIDE DEF x
<1>2. i = VendorInfoOf(x) /\ t = VendorTableOf(x)
  BY <1>1, VendorExtracts
<1>3. \A k \in 1 .. L : FoundFormat(x, k) = B!FORMAT_OTHER <=> Plain(x, k)
  BY <1>1, FormatFound DEF Plain
<1>4. VendorDirectories = {k \in DOMAIN t : t[k].ramdisk_compression # B!FORMAT_OTHER}
  BY DEF VendorDirectories
<1>5. VendorHasDirectory <=> (i.ramdisk_compression # B!FORMAT_OTHER \/ VendorDirectories # {})
  BY DEF VendorHasDirectory
<1>6. L \in Nat /\ (x.version <= 3 => L = 1) /\ x.version \in Nat
  BY <1>1 DEF IsVendor
<1> HIDE DEF t, i
<1>7. CASE x.version > 3
  <2>1. i.ramdisk_compression = B!FORMAT_OTHER
    BY <1>2, <1>7 DEF VendorInfoOf, VendorReading
  <2>2. t = [k \in 1 .. L |-> EntryOf(x, k, FoundFormat(x, k))]
    BY <1>2, <1>7 DEF VendorTableOf
  <2>3. \A k \in 1 .. L : EntryOf(x, k, FoundFormat(x, k)).ramdisk_compression = FoundFormat(x, k)
    BY DEF EntryOf
  <2>4. VendorDirectories = {k \in 1 .. L : ~ Plain(x, k)}
    <3> HIDE DEF L
    <3> QED  BY <1>3, <1>4, <2>2, <2>3
  <2>5. DOMAIN original.table.entries = 1 .. L
    BY <1>1, <1>7 DEF ImageOf
  <2> HIDE DEF L
  <2>6. \A k \in 1 .. L : \A j \in 1 .. k - 1 : j \in 1 .. L
    BY <1>6
  <2>7. AllPlain(x) <=> \A k \in 1 .. L : Plain(x, k)
    BY DEF AllPlain, L
  <2> QED  BY <1>5, <2>1, <2>4, <2>5, <2>6, <2>7 DEF x
<1>8. CASE ~ (x.version > 3)
  <2>1. i.ramdisk_compression = FoundFormat(x, 1)
    BY <1>2, <1>8 DEF VendorInfoOf, VendorReading
  <2>2. t = <<>> /\ DOMAIN <<>> = {}
    BY <1>2, <1>8 DEF VendorTableOf
  <2>3. VendorDirectories = {}
    BY <1>4, <2>2
  <2>4. L = 1
    BY <1>6, <1>8
  <2>5. AllPlain(x) <=> Plain(x, 1)
    <3>1. AllPlain(x) <=> \A k \in 1 .. L : Plain(x, k)
      BY DEF AllPlain
    <3> HIDE DEF L
    <3>2. 1 .. L = {1}
      BY <2>4
    <3> QED  BY <3>1, <3>2
  <2>6. 1 \in 1 .. L
    BY <2>4
  <2>7. original.table.entries = <<>>
    BY <1>1, <1>8 DEF ImageOf, V!NoTable
  <2> QED  BY <1>3, <1>5, <2>1, <2>2, <2>3, <2>5, <2>6, <2>7 DEF x
<1> QED  BY <1>7, <1>8
-----------------------------------------------------------------------------
(* The inductive invariant: the last image is one of which every section is *)
(* found, it holds what was put into it, and the project is its own.        *)

\* Both kinds of images, those that are refused and those that are not.
IsImage(k, img) ==
    \/ k = "boot" /\ \E f : BootSound(img, f)
    \/ k = "vendor_boot" /\ \E x : IsVendor(x) /\ img = ImageOf(x)

\* Those that are not refused.
IsFull(k, img) ==
    \/ k = "boot" /\ \E f : BootSound(img, f)
    \/ k = "vendor_boot" /\ \E x : IsVendor(x) /\ ~ Bare(x) /\ img = ImageOf(x)

\* An image from elsewhere.
IsOriginal(k, o) ==
    \/ k = "boot" /\ \E d : IsBootImage(d) /\ o = BootOriginal(d)
    \/ k = "vendor_boot" /\ \E d : IsVendorImage(d) /\ o = VendorOriginal(d)

\* The files extraction writes.
FilesFrom(k, img) == IF k = "boot" THEN B!Unpacked(img).files ELSE V!Unpacked(img).files

\* The configuration extraction writes.
ConfigFrom(k, img) ==
    IF k = "boot" THEN C!BootWrite(B!Unpacked(img).info)
                  ELSE C!VendorWrite(V!Unpacked(img).info, V!Unpacked(img).table)

\* What a build makes of the configuration and of these files.
Made(k, img, files) ==
    IF k = "boot" THEN B!WriteBootImage(B!Args(B!Unpacked(img).info, files))
                  ELSE V!Build(V!Args(V!Unpacked(img).info, V!Unpacked(img).table, files))

\* A boot image can be built of files: the writer is defined on its arguments.
CanMake(k, img, files) ==
    k = "boot" => LET a == B!Args(B!Unpacked(img).info, files) IN B!Writable(a) /\ B!Defined(a)

\* What a build makes when nothing was edited.
Again(k, img) == Made(k, img, FilesFrom(k, img))

\* The images are of one of the two kinds, the first from elsewhere.
KindInv == kind \in {"boot", "vendor_boot"} /\ at \in {"image", "project"} /\ IsOriginal(kind, original)

\* The history counts the builds and ends with the last image.
HistoryInv ==
    /\ builds \in Nat /\ Len(history) = builds
    /\ history = [k \in 1 .. builds |-> history[k]]
    /\ BuildsAreStable
    /\ builds > 0 /\ ~ history[1].edited => /\ history[1].image = Again(kind, original)
                                            /\ CanMake(kind, original, FilesFrom(kind, original))

\* The last image is of the form that extracts; before any edit, builds agree.
ImageInv ==
    /\ IsImage(kind, image)
    /\ Kept(FilesFrom(kind, image), put, builds > 0)
    /\ builds = 0 => image = original
    /\ builds > 0 => /\ history[builds].image = image /\ Again(kind, image) = image
                     /\ IsFull(kind, image)

\* The project is what was extracted, up to the edits.
ProjectInv ==
    at = "project" =>
        /\ IsFull(kind, image)
        /\ project = [files |-> project.files, config |-> C!AppendSHA1(ConfigFrom(kind, image))]
        /\ Edits(project.files, FilesFrom(kind, image))
        /\ ~ edited => project.files = FilesFrom(kind, image)

\* The inductive invariant.
KitchenInv == KindInv /\ HistoryInv /\ ImageInv /\ ProjectInv

\* A full image can be extracted; of the others, those of header 3 with nothing behind
\* the header are refused.
LEMMA ImageExtracts ==
    ASSUME NEW k, NEW img, IsImage(k, img)
    PROVE  /\ k = "boot" => B!Unpackable(img) /\ IsFull(k, img)
           /\ k # "boot" => /\ V!Unpackable(img) <=> ~ BareVendor(img.header)
                            /\ V!Unpackable(img) <=> IsFull(k, img)
           /\ Edits(FilesFrom(k, img), FilesFrom(k, img))
<1>1. CASE k = "boot"
  <2>1. PICK f : BootSound(img, f)
    BY <1>1 DEF IsImage
  <2>2. B!Unpackable(img) /\ B!Unpacked(img).files = FilesOf(f) /\ f \in BootFiles
    BY <2>1, BootExtracts DEF BootSound
  <2>3. Edits(FilesOf(f), FilesOf(f))
    BY <2>2, FilesUnedited
  <2> QED  BY <1>1, <2>1, <2>2, <2>3 DEF FilesFrom, IsFull
<1>2. CASE k # "boot"
  <2>1. PICK x : IsVendor(x) /\ img = ImageOf(x) /\ k = "vendor_boot"
    BY <1>2 DEF IsImage
  <2>2. (V!Unpackable(img) <=> ~ Bare(x)) /\ AreFiles(x, V!Unpacked(img).files)
    BY <2>1, VendorExtracts
  <2>3. Edits(V!Unpacked(img).files, V!Unpacked(img).files)
    BY <2>1, <2>2, VendorFilesUnedited
  <2>4. IsFull(k, img) => V!Unpackable(img)
    <3> SUFFICES ASSUME IsFull(k, img) PROVE V!Unpackable(img)
      OBVIOUS
    <3>1. PICK y : IsVendor(y) /\ ~ Bare(y) /\ img = ImageOf(y)
      BY <1>2 DEF IsFull
    <3> QED  BY <3>1, VendorExtracts
  <2>5. V!Unpackable(img) => IsFull(k, img)
    BY <2>1, <2>2 DEF IsFull
  <2>6. Bare(x) <=> BareVendor(img.header)
    <3>1. /\ img.header[1] = x.version /\ img.header[5] = V!Total(RamdisksOf(x))
          /\ img.header[10] = x.dtb.size
      BY <2>1, VendorCells
    <3> QED  BY <3>1 DEF Bare, BareVendor
  <2> QED  BY <1>2, <2>2, <2>3, <2>4, <2>5, <2>6 DEF FilesFrom
<1> QED  BY <1>1, <1>2

\* What a build reads in the configuration is what the extraction wrote into it,
\* and it is told by its magic.
LEMMA ConfigComesBack ==
    ASSUME NEW k, NEW img, IsImage(k, img)
    PROVE  LET c == ConfigFrom(k, img)
           IN  /\ k = "boot" => /\ C!BootRead(c, B!NoInfo) = B!Unpacked(img).info
                                /\ c[1].value = B!BOOT_MAGIC
               /\ k # "boot" => LET i == C!VendorRead(c, VendorBefore)
                                IN  /\ i = V!Unpacked(img).info
                                    /\ C!VendorReadTable(c, i.entry_num, EntryBefore) = V!Unpacked(img).table
                                    /\ c[1].value = V!VENDOR_BOOT_MAGIC
<1>1. CASE k = "boot"
  <2> DEFINE i == B!Unpacked(img).info
  <2>1. PICK f : BootSound(img, f)
    BY <1>1 DEF IsImage
  <2>2. IsInfo(i) /\ SameInfo(i, BootReading(img.header)) /\ Texts(BootReading(img.header))
    BY <2>1, BootExtracts DEF BootSound
  <2>3. BootReading(img.header).boot_magic = B!BOOT_MAGIC
    BY DEF BootReading
  <2> HIDE DEF i
  <2>4. Texts(i) /\ i.boot_magic = B!BOOT_MAGIC
    BY <2>2, <2>3 DEF SameInfo, Texts
  <2>5. C!BootRead(C!BootWrite(i), B!NoInfo) = i /\ C!BootWrite(i)[1].value = B!BOOT_MAGIC
    BY <2>2, <2>4, BootConfigKept
  <2> QED  BY <1>1, <2>5 DEF ConfigFrom, i
<1>2. CASE k # "boot"
  <2> DEFINE i == V!Unpacked(img).info
             t == V!Unpacked(img).table
  <2>1. PICK x : IsVendor(x) /\ img = ImageOf(x)
    BY <1>2 DEF IsImage
  <2>2. i = VendorInfoOf(x) /\ t = VendorTableOf(x)
    BY <2>1, VendorExtracts
  <2> HIDE DEF i, t
  <2>3. IsStored(i, t)
    BY <2>1, <2>2, VendorStored
  <2>4. /\ C!VendorRead(C!VendorWrite(i, t), VendorBefore) = i
        /\ C!VendorReadTable(C!VendorWrite(i, t), i.entry_num, EntryBefore) = t
        /\ C!VendorWrite(i, t)[1].value = V!VENDOR_BOOT_MAGIC
    BY <2>3, VendorConfigKept
  <2> QED  BY <1>2, <2>4 DEF ConfigFrom, i, t
<1> QED  BY <1>1, <1>2

\* A build makes an image out of an image.
LEMMA ImageBuilds ==
    ASSUME NEW k, NEW img, IsFull(k, img),
           NEW files, Edits(files, FilesFrom(k, img)), CanMake(k, img, files)
    PROVE  /\ IsImage(k, Made(k, img, files)) /\ IsFull(k, Made(k, img, files))
           /\ Kept(FilesFrom(k, Made(k, img, files)), files, TRUE)
           /\ Again(k, Made(k, img, files)) = Made(k, img, files)
<1> DEFINE w == Made(k, img, files)
<1>1. CASE k = "boot"
  <2>1. PICK f : BootSound(img, f)
    BY <1>1 DEF IsFull
  <2>2. w = B!WriteBootImage(B!Args(B!Unpacked(img).info, files))
    BY <1>1 DEF Made
  <2>3. Edits(files, B!Unpacked(img).files)
    BY <1>1 DEF FilesFrom
  <2>4. LET a == B!Args(B!Unpacked(img).info, files) IN B!Writable(a) /\ B!Defined(a)
    BY <1>1 DEF CanMake
  <2> HIDE DEF w
  <2>5. (\E g : BootSound(w, g)) /\ Kept(B!Unpacked(w).files, files, TRUE) /\ Rebuilt(w) = w
    BY <2>1, <2>2, <2>3, <2>4, BootBuilds
  <2>6. IsImage(k, w) /\ IsFull(k, w)
    BY <1>1, <2>5 DEF IsImage, IsFull
  <2> QED  BY <1>1, <2>5, <2>6 DEF FilesFrom, Again, Made, Rebuilt, w
<1>2. CASE k # "boot"
  <2>1. PICK x : IsVendor(x) /\ ~ Bare(x) /\ img = ImageOf(x) /\ k = "vendor_boot"
    BY <1>2 DEF IsFull
  <2>2. w = V!Build(V!Args(V!Unpacked(ImageOf(x)).info, V!Unpacked(ImageOf(x)).table, files))
    BY <1>2, <2>1 DEF Made
  <2>3. Edits(files, V!Unpacked(ImageOf(x)).files)
    BY <1>2, <2>1 DEF FilesFrom
  <2> HIDE DEF w
  <2>4. /\ \E y : IsVendor(y) /\ ~ Bare(y) /\ w = ImageOf(y)
        /\ Kept(V!Unpacked(w).files, files, TRUE) /\ RebuiltVendor(w) = w
    BY <2>1, <2>2, <2>3, VendorBuilds
  <2>5. IsImage(k, w) /\ IsFull(k, w)
    BY <2>1, <2>4 DEF IsImage, IsFull
  <2> QED  BY <1>2, <2>4, <2>5 DEF FilesFrom, Again, Made, RebuiltVendor, w
<1> QED  BY <1>1, <1>2

\* An edit of a file that is there.
LEMMA EditsAgain ==
    ASSUME NEW u, NEW files, Edits(files, u), NEW n \in DOMAIN files, files[n].size > 0,
           NEW size \in NewSizes
    PROVE  Edits([files EXCEPT ![n].size = size, ![n].is.rev = B!EDITED], u)
<1> DEFINE x == files[n]
           y == [size |-> size, is |-> [name |-> x.is.name, rev |-> B!EDITED, format |-> x.is.format]]
           g == [files EXCEPT ![n].size = size, ![n].is.rev = B!EDITED]
<1>1. DOMAIN files = DOMAIN u /\ files = [m \in DOMAIN u |-> files[m]]
  BY DEF Edits
<1>2. u[n].size # 0
  <2> SUFFICES ASSUME u[n].size = 0 PROVE FALSE
    OBVIOUS
  <2>1. files[n] = u[n]
    BY <1>1 DEF Edits
  <2>2. files[n].size = 0
    BY <2>1
  <2> QED  BY <2>2
<1>3. /\ x.is.name \in Labels /\ x.is.format = u[n].is.format
      /\ x = [size |-> x.size, is |-> [name |-> x.is.name, rev |-> x.is.rev, format |-> x.is.format]]
  <2>1. n \in DOMAIN u
    BY <1>1
  <2>2. /\ files[n].size \in 1 .. MaxSize /\ files[n].is.format = u[n].is.format
        /\ files[n].is.name \in Labels /\ files[n].is.rev \in Revs
        /\ files[n] = [size |-> files[n].size,
                       is |-> [name |-> files[n].is.name, rev |-> files[n].is.rev,
                               format |-> files[n].is.format]]
    <3> DEFINE m == n
    <3>1. m \in DOMAIN u /\ u[m].size # 0
      BY <1>2, <2>1
    <3> HIDE DEF m, x, y, g
    <3>2. /\ files[m].size \in 1 .. MaxSize /\ files[m].is.format = u[m].is.format
          /\ files[m].is.name \in Labels /\ files[m].is.rev \in Revs
          /\ files[m] = [size |-> files[m].size,
                         is |-> [name |-> files[m].is.name, rev |-> files[m].is.rev,
                                 format |-> files[m].is.format]]
      BY <3>1, EditedIs
    <3> QED  BY <3>2 DEF m
  <2> QED  BY <2>2
<1>4. g = [m \in DOMAIN u |-> IF m = n THEN y ELSE files[m]]
  <2> DEFINE a == [x EXCEPT !.size = size]
             b == [a EXCEPT !.is.rev = B!EDITED]
             h == [files EXCEPT ![n] = a]
  <2>1. g = [h EXCEPT ![n] = b]
    BY <1>1
  <2>2. a = [size |-> size, is |-> [name |-> x.is.name, rev |-> x.is.rev, format |-> x.is.format]]
    <3> HIDE DEF x
    <3> QED  BY <1>3
  <2> HIDE DEF a
  <2>3. b = y
    BY <2>2
  <2> HIDE DEF b, y, g
  <2> QED  BY <1>1, <2>1, <2>3
<1>5. size \in 1 .. MaxSize
  BY KitchenAssumption
<1>6. /\ y \in [size: 1 .. MaxSize, is: [name: Labels, rev: Revs, format: {u[n].is.format}]]
      /\ y.is.rev = B!EDITED
  <2>1. B!EDITED \in Revs
    BY DEF B!EDITED, Revs
  <2> HIDE DEF x
  <2> QED  BY <1>3, <1>5, <2>1
<1> HIDE DEF g, y, x
<1>7. ASSUME NEW m \in DOMAIN u
      PROVE  /\ u[m].size = 0 => g[m] = u[m]
             /\ u[m].size # 0 => /\ g[m] \in [size: 1 .. MaxSize,
                                              is: [name: Labels, rev: Revs, format: {u[m].is.format}]]
                                 /\ g[m].is.rev \in {u[m].is.rev, B!EDITED}
  <2>1. CASE m = n
    BY <1>2, <1>4, <1>6, <2>1
  <2>2. CASE m # n
    <3>1. g[m] = files[m]
      BY <1>4, <2>2
    <3> QED  BY <3>1 DEF Edits
  <2> QED  BY <2>1, <2>2
<1>8. g = [m \in DOMAIN u |-> g[m]]
  BY <1>4
<1> QED  BY <1>7, <1>8 DEF Edits, g

\* One element more at the end.
LEMMA AppendIs ==
    ASSUME NEW n \in Nat, NEW s, Len(s) = n, s = [k \in 1 .. n |-> s[k]], NEW e
    PROVE  /\ Len(Append(s, e)) = n + 1
           /\ Append(s, e) = [k \in 1 .. n + 1 |-> Append(s, e)[k]]
           /\ \A k \in 1 .. n : Append(s, e)[k] = s[k]
           /\ Append(s, e)[n + 1] = e
<1> DEFINE S == {s[k] : k \in 1 .. n} \cup {e}
<1>1. s \in [1 .. n -> S]
  OBVIOUS
<1> HIDE DEF S
<1>2. s \in Seq(S) /\ e \in S
  BY <1>1, SequenceIs DEF S
<1>3. Append(s, e) \in Seq(S) /\ Len(Append(s, e)) = n + 1
  BY <1>2
<1> QED  BY <1>2, <1>3
\* It holds at the beginning.
LEMMA KitchenInit ==
    ASSUME Init
    PROVE  KitchenInv
<1>1. /\ image = original /\ project = NoProject /\ edited = FALSE /\ at = "image"
      /\ builds = 0 /\ history = <<>>
  BY DEF Init
<1>2. HistoryInv
  <2>1. Len(history) = 0 /\ history = [k \in 1 .. 0 |-> history[k]]
    BY <1>1
  <2>2. BuildsAreStable
    BY <1>1 DEF BuildsAreStable
  <2> QED  BY <1>1, <2>1, <2>2 DEF HistoryInv
<1>3. ProjectInv
  BY <1>1 DEF ProjectInv
<1>4. \A p, q : Kept(p, q, builds > 0) <=> Kept(p, q, FALSE)
  <2>1. (builds > 0) = FALSE
    BY <1>1
  <2> QED  BY <2>1 DEF Kept
<1>5. CASE kind = "boot"
  <2>1. PICK d \in BootOriginals : original = BootOriginal(d) /\ put = d.files
    BY <1>5 DEF Init
  <2>2. IsBootImage(d)
    BY OriginalsAssumption
  <2>3. BootSound(original, d.files) /\ Kept(B!Unpacked(original).files, put, FALSE)
    BY <2>1, <2>2, OriginalIsSound, OriginalKept
  <2>4. IsOriginal(kind, original) /\ IsImage(kind, original)
    BY <1>5, <2>1, <2>2, <2>3 DEF IsOriginal, IsImage
  <2>5. Kept(FilesFrom(kind, image), put, builds > 0)
    BY <1>1, <1>4, <1>5, <2>3 DEF FilesFrom
  <2> QED  BY <1>1, <1>2, <1>3, <1>5, <2>4, <2>5 DEF KitchenInv, KindInv, ImageInv
<1>6. CASE kind # "boot"
  <2>1. kind = "vendor_boot"
    BY <1>6 DEF Init
  <2>2. PICK d \in VendorOriginals : original = VendorOriginal(d) /\ put = VendorFiles(d)
    BY <1>6 DEF Init
  <2>3. IsVendorImage(d)
    BY OriginalsAssumption
  <2>4. /\ IsVendor(XOf(d)) /\ original = ImageOf(XOf(d))
        /\ Kept(V!Unpacked(original).files, put, FALSE)
    BY <2>2, <2>3, OriginalIsVendor, VendorOriginalIs, VendorOriginalKept
  <2>5. IsOriginal(kind, original) /\ IsImage(kind, original)
    BY <2>1, <2>2, <2>3, <2>4 DEF IsOriginal, IsImage
  <2>6. Kept(FilesFrom(kind, image), put, builds > 0)
    BY <1>1, <1>4, <1>6, <2>4 DEF FilesFrom
  <2> QED  BY <1>1, <1>2, <1>3, <2>1, <2>5, <2>6 DEF KitchenInv, KindInv, ImageInv
<1> QED  BY <1>5, <1>6

\* An extraction makes a project of the last image.
LEMMA KitchenExtract ==
    ASSUME KitchenInv, Extract
    PROVE  KitchenInv'
<1>1. /\ at' = "project" /\ edited' = FALSE
      /\ UNCHANGED <<kind, original, image, put, builds, history>>
  BY DEF Extract
<1>2. project' = [files |-> FilesFrom(kind, image), config |-> C!AppendSHA1(ConfigFrom(kind, image))]
  <2>1. ExtractBoot \/ ExtractVendor
    BY DEF Extract
  <2>2. CASE ExtractBoot
    BY <2>2 DEF ExtractBoot, FilesFrom, ConfigFrom
  <2>3. CASE ExtractVendor
    BY <2>3 DEF ExtractVendor, FilesFrom, ConfigFrom
  <2> QED  BY <2>1, <2>2, <2>3
<1>3. Edits(FilesFrom(kind, image), FilesFrom(kind, image))
  BY ImageExtracts DEF KitchenInv, ImageInv
<1>9. IsFull(kind, image)
  <2>1. IsImage(kind, image)
    BY DEF KitchenInv, ImageInv
  <2>2. kind # "boot" => V!Unpackable(image)
    BY DEF Extract, ExtractBoot, ExtractVendor
  <2> QED  BY <2>1, <2>2, ImageExtracts
<1>4. /\ project'.files = FilesFrom(kind, image)
      /\ project' = [files |-> project'.files, config |-> C!AppendSHA1(ConfigFrom(kind, image))]
  BY <1>2
<1>5. ProjectInv'
  BY <1>1, <1>3, <1>4, <1>9 DEF ProjectInv
<1>6. KindInv'
  BY <1>1 DEF KitchenInv, KindInv
<1>7. HistoryInv'
  BY <1>1 DEF KitchenInv, HistoryInv, BuildsAreStable
<1>8. ImageInv'
  BY <1>1 DEF KitchenInv, ImageInv
<1> QED  BY <1>5, <1>6, <1>7, <1>8 DEF KitchenInv

\* An edit leaves the project one of that image.
LEMMA KitchenEdit ==
    ASSUME KitchenInv, NEW n \in DOMAIN project.files, NEW size \in NewSizes, Edit(n, size)
    PROVE  KitchenInv'
<1>1. /\ at = "project" /\ project.files[n].size > 0 /\ edited' = TRUE
      /\ UNCHANGED <<kind, original, image, put, at, builds, history>>
      /\ project' = [project EXCEPT !.files[n].size = size, !.files[n].is.rev = B!EDITED]
  BY DEF Edit
<1> DEFINE files == project.files
           config == C!AppendSHA1(ConfigFrom(kind, image))
           u == FilesFrom(kind, image)
           g == [files EXCEPT ![n].size = size, ![n].is.rev = B!EDITED]
<1>2. project = [files |-> files, config |-> config] /\ Edits(files, u) /\ IsFull(kind, image)
  BY <1>1 DEF KitchenInv, ProjectInv
<1>3. project' = [files |-> g, config |-> config]
  <2> DEFINE a == [files EXCEPT ![n].size = size]
             p == [project EXCEPT !.files = a]
  <2>1. project' = [[project EXCEPT !.files[n].size = size] EXCEPT !.files[n].is.rev = B!EDITED]
    BY <1>1
  <2>2. [project EXCEPT !.files[n].size = size] = [files |-> a, config |-> config]
    BY <1>2
  <2>3. g = [a EXCEPT ![n].is.rev = B!EDITED]
    OBVIOUS
  <2> HIDE DEF a, g, config
  <2> QED  BY <2>1, <2>2, <2>3
<1>4. Edits(g, u)
  <2> HIDE DEF files, u
  <2> QED  BY <1>1, <1>2, EditsAgain DEF files
<1>5. ProjectInv'
  <2> HIDE DEF g
  <2>1. project'.files = g
    BY <1>3
  <2>2. project' = [files |-> project'.files, config |-> config]
    BY <1>3, <2>1
  <2> QED  BY <1>1, <1>2, <1>4, <2>1, <2>2 DEF ProjectInv
<1>6. KindInv'
  BY <1>1 DEF KitchenInv, KindInv
<1>7. HistoryInv'
  BY <1>1 DEF KitchenInv, HistoryInv, BuildsAreStable
<1>8. ImageInv'
  BY <1>1 DEF KitchenInv, ImageInv
<1> QED  BY <1>5, <1>6, <1>7, <1>8 DEF KitchenInv

\* A build makes of the last image and of the files of the project the next.
LEMMA BuildMakes ==
    ASSUME KitchenInv, Build
    PROVE  /\ CanMake(kind, image, project.files)
           /\ image' = Made(kind, image, project.files)
<1> DEFINE c == ConfigFrom(kind, image)
<1>1. at = "project" /\ (BuildBoot \/ BuildVendor)
  BY DEF Build
<1>2. project.config.content = c
  <2>1. project = [files |-> project.files, config |-> C!AppendSHA1(ConfigFrom(kind, image))]
    BY <1>1 DEF KitchenInv, ProjectInv
  <2> DEFINE a == C!AppendSHA1(c)
  <2>2. a.content = c
    BY DEF C!AppendSHA1
  <2> HIDE DEF a, c
  <2>3. project.config = a
    BY <2>1 DEF a, c
  <2> QED  BY <2>2, <2>3
<1>3. /\ kind = "boot" => /\ C!BootRead(c, B!NoInfo) = B!Unpacked(image).info
                          /\ c[1].value = B!BOOT_MAGIC
      /\ kind # "boot" => LET i == C!VendorRead(c, VendorBefore)
                          IN  /\ i = V!Unpacked(image).info
                              /\ C!VendorReadTable(c, i.entry_num, EntryBefore) = V!Unpacked(image).table
                              /\ c[1].value = V!VENDOR_BOOT_MAGIC
  BY ConfigComesBack DEF KitchenInv, ImageInv
<1>4. B!BOOT_MAGIC # V!VENDOR_BOOT_MAGIC
  BY DEF B!BOOT_MAGIC, V!VENDOR_BOOT_MAGIC
<1> HIDE DEF c
<1>5. CASE kind = "boot"
  <2>1. BuildBoot
    BY <1>1, <1>2, <1>3, <1>4, <1>5 DEF BuildVendor
  <2>2. BootInfo = B!Unpacked(image).info
    BY <1>2, <1>3, <1>5 DEF BootInfo
  <2> QED  BY <1>5, <2>1, <2>2 DEF BuildBoot, CanMake, Made
<1>6. CASE kind # "boot"
  <2>1. BuildVendor
    BY <1>1, <1>2, <1>3, <1>4, <1>6 DEF BuildBoot
  <2>2. VendorInfo = C!VendorRead(c, VendorBefore)
    BY <1>2 DEF VendorInfo, VendorBefore
  <2>3. VendorTable = C!VendorReadTable(c, VendorInfo.entry_num, EntryBefore)
    BY <1>2 DEF VendorTable, EntryBefore
  <2>4. VendorInfo = V!Unpacked(image).info /\ VendorTable = V!Unpacked(image).table
    BY <1>3, <1>6, <2>2, <2>3
  <2> QED  BY <1>6, <2>1, <2>4 DEF BuildVendor, CanMake, Made
<1> QED  BY <1>5, <1>6

\* A build leaves an image of the same form, with the project's files in it.
LEMMA KitchenBuild ==
    ASSUME KitchenInv, Build
    PROVE  KitchenInv'
<1> DEFINE files == project.files
           u == FilesFrom(kind, image)
           e == [image |-> image', edited |-> edited]
<1>1. /\ at = "project" /\ put' = files /\ at' = "image" /\ builds' = builds + 1
      /\ history' = Append(history, e)
      /\ UNCHANGED <<kind, original, project, edited>>
  BY DEF Build
<1>2. CanMake(kind, image, files) /\ image' = Made(kind, image, files)
  BY BuildMakes
<1>3. IsFull(kind, image) /\ Edits(files, u) /\ (~ edited => files = u)
  BY <1>1 DEF KitchenInv, ImageInv, ProjectInv
<1>4. /\ IsImage(kind, image') /\ IsFull(kind, image') /\ Kept(FilesFrom(kind, image'), files, TRUE)
      /\ Again(kind, image') = image'
  BY <1>2, <1>3, ImageBuilds
<1>5. /\ builds \in Nat /\ Len(history) = builds /\ history = [k \in 1 .. builds |-> history[k]]
      /\ BuildsAreStable
      /\ builds > 0 /\ ~ history[1].edited => /\ history[1].image = Again(kind, original)
                                              /\ CanMake(kind, original, FilesFrom(kind, original))
  BY DEF KitchenInv, HistoryInv
<1> HIDE DEF e
<1>6. /\ Len(history') = builds + 1 /\ history' = [k \in 1 .. builds + 1 |-> history'[k]]
      /\ \A k \in 1 .. builds : history'[k] = history[k]
      /\ history'[builds + 1] = e
  BY <1>1, <1>5, AppendIs
<1>7. e.image = image' /\ e.edited = edited
  BY DEF e
<1>8. ~ edited => image' = Again(kind, image) /\ CanMake(kind, image, u)
  BY <1>2, <1>3 DEF Again
<1>9. ImageInv'
  <2>1. (builds' > 0) = TRUE /\ builds' # 0
    BY <1>1, <1>5
  <2>2. history'[builds'].image = image'
    BY <1>1, <1>6, <1>7
  <2>3. Kept(FilesFrom(kind, image'), put', builds' > 0)
    BY <1>1, <1>4, <2>1
  <2> QED  BY <1>1, <1>4, <2>1, <2>2, <2>3 DEF ImageInv
<1>10. BuildsAreStable'
  <2>1. ASSUME NEW k \in 1 .. Len(history') - 1, ~ history'[k + 1].edited
        PROVE  history'[k + 1].image = history'[k].image
    <3>1. k \in 1 .. builds /\ Len(history') - 1 = builds
      BY <1>5, <1>6, <2>1
    <3>2. CASE k < builds
      <4>1. k \in 1 .. Len(history) - 1 /\ k + 1 \in 1 .. builds
        BY <1>5, <3>1, <3>2
      <4>2. history'[k] = history[k] /\ history'[k + 1] = history[k + 1]
        BY <1>6, <3>1, <4>1
      <4> QED  BY <1>5, <2>1, <4>1, <4>2 DEF BuildsAreStable
    <3>3. CASE k = builds
      <4>1. history'[k + 1] = e /\ history'[k] = history[builds]
        BY <1>6, <3>1, <3>3
      <4>2. history[builds].image = image /\ Again(kind, image) = image
        BY <1>5, <3>1, <3>3 DEF KitchenInv, ImageInv
      <4> QED  BY <1>7, <1>8, <2>1, <4>1, <4>2
    <3> QED  BY <1>5, <3>1, <3>2, <3>3
  <2> QED  BY <2>1 DEF BuildsAreStable
<1>11. HistoryInv'
  <2>1. builds' \in Nat /\ Len(history') = builds' /\ history' = [k \in 1 .. builds' |-> history'[k]]
    BY <1>1, <1>5, <1>6
  <2>2. ~ history'[1].edited => /\ history'[1].image = Again(kind, original)
                                /\ CanMake(kind, original, FilesFrom(kind, original))
    <3>1. CASE builds = 0
      <4>1. image = original /\ history'[1] = e
        BY <1>6, <3>1 DEF KitchenInv, ImageInv
      <4> QED  BY <1>7, <1>8, <4>1
    <3>2. CASE builds > 0
      <4>1. history'[1] = history[1]
        BY <1>5, <1>6, <3>2
      <4> QED  BY <1>5, <3>2, <4>1
    <3> QED  BY <1>5, <3>1, <3>2
  <2> QED  BY <1>1, <1>10, <2>1, <2>2 DEF HistoryInv
<1>12. KindInv' /\ ProjectInv'
  BY <1>1 DEF KitchenInv, KindInv, ProjectInv
<1> QED  BY <1>9, <1>11, <1>12 DEF KitchenInv
\* The image is always one of which every section is found, it holds what was
\* put into it, and the project is its own, with the edits of the user.
THEOREM KitchenInvariant == Spec => []KitchenInv
<1>1. Init => KitchenInv
  BY KitchenInit
<1>2. KitchenInv /\ [Next]_vars => KitchenInv'
  <2> SUFFICES ASSUME KitchenInv, [Next]_vars
               PROVE  KitchenInv'
    OBVIOUS
  <2>1. CASE Extract
    BY <2>1, KitchenExtract
  <2>2. ASSUME NEW n \in DOMAIN project.files, NEW size \in NewSizes, Edit(n, size)
        PROVE  KitchenInv'
    BY <2>2, KitchenEdit
  <2>3. CASE Build
    BY <2>3, KitchenBuild
  <2>4. CASE UNCHANGED vars
    BY <2>4 DEF vars, KitchenInv, KindInv, HistoryInv, BuildsAreStable, ImageInv, ProjectInv
  <2> QED  BY <2>1, <2>2, <2>3, <2>4 DEF Next
<1> QED  BY <1>1, <1>2, PTL DEF Spec

\* Every file of a project that nobody edited holds what was put under its name
\* into the image, by the tool that made the image or by the last build, and
\* nothing else comes out of it: for every image that OriginalsAssumption allows
\* and every sequence of edits and builds.  (UnpackBootImage, BootImageUtil,
\* UnpackVendorBootImage, VendorBootBuilder)
THEOREM SectionsComeBack == Spec => []SectionsKept
<1>1. KitchenInv => SectionsKept
  <2> SUFFICES ASSUME KitchenInv, at = "project", ~ edited,
                      NEW n \in DOMAIN put \cup DOMAIN project.files
               PROVE  /\ n \in DOMAIN put /\ n \in DOMAIN project.files
                      /\ \/ SameContents(project.files[n], put[n])
                         \/ n = "boot_signature" /\ builds > 0 /\ project.files[n].size = 0
    BY DEF SectionsKept
  <2>1. Kept(project.files, put, builds > 0)
    BY DEF KitchenInv, ImageInv, ProjectInv
  <2> QED  BY <2>1 DEF Kept
<1> QED  BY <1>1, KitchenInvariant, PTL

\* What was written by a build, and what came from elsewhere, can be extracted:
\* no section and no entry of the table lies behind the end of the file.
\* (UnpackBootImage, UnpackVendorBootImage)
THEOREM AlwaysExtractable == Spec => []CanBeExtracted
<1>1. KitchenInv => CanBeExtracted
  <2> SUFFICES ASSUME KitchenInv
               PROVE  IF kind = "boot" THEN B!Unpackable(image)
                      ELSE V!Unpackable(image) <=> ~ (builds = 0 /\ BareVendor(image.header))
    BY DEF CanBeExtracted
  <2>1. IsImage(kind, image) /\ builds \in Nat /\ (builds > 0 => IsFull(kind, image))
    BY DEF KitchenInv, ImageInv, HistoryInv
  <2>2. builds = 0 \/ builds > 0
    BY <2>1
  <2>3. /\ kind = "boot" => B!Unpackable(image)
        /\ kind # "boot" => /\ V!Unpackable(image) <=> ~ BareVendor(image.header)
                            /\ V!Unpackable(image) <=> IsFull(kind, image)
    BY <2>1, ImageExtracts
  <2> QED  BY <2>1, <2>2, <2>3
<1> QED  BY <1>1, KitchenInvariant, PTL

\* What a build loses, it loses once: a second build without an edit gives the
\* same image.  (mkbootimg_wrapper, BootImageUtil, VendorBootBuilder)
THEOREM BuildsStable == Spec => []BuildsAreStable
<1>1. KitchenInv => BuildsAreStable
  BY DEF KitchenInv, HistoryInv
<1> QED  BY <1>1, KitchenInvariant, PTL

\* A build of a project that nobody edited writes the header that the image came
\* with, and the table of a vendor_boot image, but for what Unkept and
\* UnkeptVendor name.  (BootConfig, VendorBootConfig, the header writers)
THEOREM HeadersComeBack == Spec => []HeaderKept
<1>1. KitchenInv => HeaderKept
  <2> SUFFICES ASSUME KitchenInv, builds >= 1, ~ history[1].edited
               PROVE  HeaderKept
    BY DEF HeaderKept
  <2> DEFINE h == original.header
             new == history[1].image
  <2>1. /\ new = Again(kind, original)
        /\ CanMake(kind, original, FilesFrom(kind, original))
        /\ IsOriginal(kind, original)
    BY DEF KitchenInv, HistoryInv, KindInv
  <2>2. CASE kind = "boot"
    <3>1. PICK d : IsBootImage(d) /\ original = BootOriginal(d)
      BY <2>1, <2>2 DEF IsOriginal
    <3>2. new = Rebuilt(original)
      BY <2>1, <2>2 DEF Again, Made, FilesFrom, Rebuilt
    <3>3. LET u == B!Unpacked(original) IN B!Writable(B!Args(u.info, u.files))
      BY <2>1, <2>2 DEF CanMake, FilesFrom
    <3>4. d.version \in Nat
      BY <3>1, OriginalFiles
    <3>6. IsDirectory = HasDirectory(d)
      <4>1. B!Unpacked(original).info.ramdisk_compression = d.files["ramdisk"].is.format
        BY <3>1, OriginalIsSound, BootExtracts
      <4> QED  BY <4>1 DEF IsDirectory, HasDirectory
    <3> HIDE DEF new
    <3>5. CASE d.version >= 3
      <4>1. h[9] >= 3 /\ \A k \in DOMAIN h \ Unkept(h, IsDirectory) : B!ReadCell(new.header, k, 0) = h[k]
        BY <3>1, <3>2, <3>5, <3>6, LaterHeaderKept
      <4>2. ~ (h[9] < 3)
        <5>1. h[9] \in 0 .. MaxVersion
          BY <3>1, OriginalIsSound DEF BootSound
        <5> QED  BY <4>1, <5>1, SizeBounds
      <4> QED  BY <2>2, <4>1, <4>2 DEF HeaderKept, new
    <3>7. CASE d.version < 3
      <4>1. /\ \A k \in DOMAIN h \ Unkept(h, IsDirectory) : B!ReadCell(new.header, k, 0) = h[k]
            /\ Len(CommandLine(h)) < BOOT_ARGS_SIZE => CommandLine(new.header) = CommandLine(h)
        BY <3>1, <3>2, <3>3, <3>6, <3>7, LegacyHeaderKept
      <4> QED  BY <2>2, <4>1 DEF HeaderKept, new
    <3> QED  BY <3>4, <3>5, <3>7
  <2>3. CASE kind # "boot"
    <3>1. PICK d : IsVendorImage(d) /\ original = VendorOriginal(d)
      BY <2>1, <2>3 DEF IsOriginal
    <3>2. new = RebuiltVendor(original)
      BY <2>1, <2>3 DEF Again, Made, FilesFrom, RebuiltVendor
    <3> HIDE DEF new
    <3>3. /\ \A k \in DOMAIN h \ UnkeptVendor(h, ~ AllPlain(XOf(d))) : new.header[k] = h[k]
          /\ Len(new.table.entries) = Len(original.table.entries)
          /\ DOMAIN new.table.entries = DOMAIN original.table.entries
          /\ \A k \in DOMAIN new.table.entries :
                LET e == new.table.entries[k]
                    f == original.table.entries[k]
                IN  /\ e.type = f.type
                    /\ Plain(XOf(d), k) => e.size = f.size
                    /\ (\A j \in 1 .. k - 1 : Plain(XOf(d), j)) => e.offset = f.offset
                    /\ Len(f.name) < VENDOR_RAMDISK_NAME_SIZE => e.name = f.name
      BY <3>1, <3>2, VendorHeaderKept
    <3>4. /\ VendorHasDirectory <=> ~ AllPlain(XOf(d))
          /\ \A k \in DOMAIN original.table.entries :
                 /\ k \notin VendorDirectories => Plain(XOf(d), k)
                 /\ VendorDirectories \cap 1 .. k - 1 = {} => \A j \in 1 .. k - 1 : Plain(XOf(d), j)
      BY <3>1, VendorDirectoriesAre
    <3>5. \A k \in DOMAIN h \ UnkeptVendor(h, VendorHasDirectory) : new.header[k] = h[k]
      BY <3>3, <3>4 DEF UnkeptVendor
    <3>6. \A k \in DOMAIN new.table.entries :
              LET e == new.table.entries[k]
                  f == original.table.entries[k]
              IN  /\ e.type = f.type
                  /\ k \notin VendorDirectories => e.size = f.size
                  /\ VendorDirectories \cap 1 .. k - 1 = {} => e.offset = f.offset
                  /\ Len(f.name) < VENDOR_RAMDISK_NAME_SIZE => e.name = f.name
      BY <3>3, <3>4
    <3> QED  BY <2>3, <3>3, <3>5, <3>6 DEF HeaderKept, new
  <2> QED  BY <2>2, <2>3
<1> QED  BY <1>1, KitchenInvariant, PTL
=============================================================================
