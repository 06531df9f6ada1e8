# A TLA+ model of Android Boot Image Kitchen

ABIK is an Android application that unpacks boot and vendor_boot images into project
directories below `<external storage>/ABIK`, lets the user change their contents with any
file manager, and builds new images from them. This directory holds TLA+ modules that model the
application, TLC configurations that check them on small instances, and proofs of the properties
that matter most for every instance.

All paths below are relative to `src/app/src/main/`.

## Inventory

| Component | Code | State it keeps | Operations | What makes it correct |
|---|---|---|---|---|
| Native calls | `cpp/Jni.cc` | the files of a project directory | `jniExtract`, `jniBuild` | whatever interrupts a call, nothing of the image is lost; extract, edit and build gives the image back; a call leaves no intermediate files; a call ends |
| Unique names | `cpp/Tools.cc` `get_unique_path` | none (asks the file system) | pick `<b>`, `<b>_1`, ... | an extraction never works in an earlier project |
| Unpackers | `cpp/unpackbootimg/` | position in the image file | headers 0 to 4 of boot, 3 and 4 of vendor_boot; section tables; `ExtractImage` | sections do not overlap, are the ones of the header, and are all extracted before the configuration is signed |
| Writers | `cpp/mkbootimg/` | the output stream | `WriteBootImage`, `VendorBootBuilder` | the written layout is the one the unpacker reads; no section is left out silently |
| Configuration | `cpp/include/bootconfig.h`, `vendorbootconfig.h`, `SHA1FileHelper.hpp` | `.parserconfig` | write, sign, validate, read | a build accepts only a configuration that was written completely; read gives what was written |
| cpio codec | `cpp/include/cpio_extract.hpp`, `cpio_build.hpp` | a directory and its list of entries | extract, build | the archive built from an extracted one has the same entries |
| Compression wrappers | `cpp/include/decompressor.hpp`, `compressor.hpp` | `<ramdisk>.tmp`, `<ramdisk>.build.tmp` | decompress, compress | the old form goes only after the new one is complete |
| Format detection | `cpp/Tools.cc` `getHeaderFormat` | none | magic numbers to a format | what is detected can be unpacked |
| LZ4 pipeline | `cpp/liblz4/lz4io.c`, `threadpool.c` | two thread pools, a write register, a ring of buffers | legacy compression and decompression with workers | blocks are written in order, no buffer is reused while queued, no deadlock |
| User interface | `java/com/oops/abik/ABIKCore.kt` | the message queue of the main thread, dialogs, picker | extract, build, clean | one operation at a time; the user is never locked out |
| Bridge | `ABIKBridge.kt`, `DataHelper.isABIKRunning` | the flag, coroutines | start a native call, reset the flag | the flag is set exactly while a call runs |
| Console | `cpp/Log.cc`, `DataHelper.console` | JNI references, a string | append a line | no call logs through the references of another |
| LZ4 block coders | `cpp/liblz4/lz4.c`, `lz4hc.c` | hash tables and chains of a context, indexes that go on from call to call, dictionaries | one block, streams of blocks, dictionaries, resets; three decoders | what is decoded is what was compressed, within the room that was given, whatever the context was used for before |
| LZ4 frames | `cpp/liblz4/lz4frame.c`, `xxhash.c`, `lz4io.c` | a context of either side with its buffer, its history and its stage | begin, update, flush, end; a decoder that takes any piece of the input | contents come back or the damage is noticed; the documented room suffices; every call gets on |
| Start-up, SHA-1 | `MainActivity.kt`, `TinySHA1.hpp`, headers of zlib and liblzma | - | - | not modelled (see below) |

How they interact: a tap runs on the main thread, which reads `isABIKRunning`, opens the document
picker or a dialog, and later, in another message, calls `ABIKBridge`, which sets the flag and
launches a coroutine on `Dispatchers.IO`. The coroutine makes one native call, which works on one
project directory step by step, and posts a message that clears the flag. A deletion is another
coroutine; it never sets the flag. Nothing locks a directory: the flag is all that keeps two
operations apart, and the user can change any file at any time through another application.

What is hard: a kill of the process between any two file operations (Android kills without notice,
and `END_PROCESS` in `lz4io.c` exits the whole process); failures in the middle of a call and the
clean-up after them; leftovers of an earlier call that died; the flag being read in one message and
acted upon in another; lists of directories that are old when used; an activity that is recreated
under its dialogs, its picker and its coroutines; the threads of the LZ4 pipeline. In the formats: sizes
on a page boundary, header versions that leave fields out, strings that fill their field, codecs that take
and give what they like in one call. In the LZ4 coders: positions in a table that outlive the bytes they
stand for, copies in words that go past their end, a history that is partly in the caller's buffer and
partly in the context's, and pieces of input that have nothing to do with blocks.

## Modules

### `ProjectStore`: the native calls and the files

One step per file operation that a crash can separate. The state is the disk (`present`, `config`,
`node`, `tmp`, `build`, `buildtmp`, `out`: the directories, `.parserconfig`, `<part>`, `<part>.tmp`,
`<part>.build`, `<part>.build.tmp` and the new image), which survives a crash, the call in progress
(`job`: its program counter, work directory and loop counter), which does not, and two history
variables (`done`: the directories whose extraction was reported "Done"; `gone`: what was deleted, by
the user or by the clean-up of a failed extraction). Two fields of `job` are history as well, of the
errors the code does not look at: `spoilt`, the parts this build could not read or write to their
end, and `unremoved`, the parts whose intermediate file could not be removed.

- Extraction (`jniExtract`, `unpackbootimg_wrapper`): `PickUnique`, `CreateWorkDir`, `ParseHeader`,
  `OpenSection`/`WriteSection` for every section, `WriteConfig`, `SignConfig`, then for every ramdisk
  `UnpackRamdisk` in its steps: `BeginInflate`, `EndInflate`, `RemoveInput` (or `RenameRamdisk`, or
  `KeepRamdisk` for an unknown format), `BeginUntar`, `EndUntar`, `RemoveArchive`. Every failure goes to
  the `Cleanup...` actions: `remove_all(workdir)` of `Jni.cc:392`, entry by entry, because a crash may
  fall between two of them, and because it may stop at an error nobody looks at.
- Build (`jniBuild`, `mkbootimg_wrapper`): `ValidateConfig`, then for every ramdisk `BuildRamdisk`
  (`BeginCpio`, `EndCpio`, `BeginCompress`, `EndCompress`, or `BeginCopy`, `EndCopy`), `OpenOutput`,
  `WriteImage`, `TryClean`. `AbortBuild` is the early `return false` that leaves before `try_clean`.
- Errors the code does not look at let a build go on with what there is: the archive of `BuildCPIO` is
  short, an LZ4 compressor takes a failed read for the end, `copy_file` (`CopyFailed`) leaves the old
  `.build` or a part of the new one, the writers of the image do not look at their streams, and
  `remove_all` and `try_clean` leave what they cannot remove. `RoundTrip`, `BuildIsFresh` and `NoDebris`
  hold for all parts but those, and say so.
- The environment: `Crash` at any moment, and between two calls `Edit`, `Delete`, `Clean`.

Data is abstracted to what the properties tell apart: a content records the form it is in, whether
it is complete, the image its bytes come from, and how often the user edited it. An image is a
constant: its sections in order, its ramdisks, the sections a build writes back (the boot signature
is extracted and not written), and the format detection reports for each ramdisk.

### `AbikApp`: the buttons, the flag and the coroutines

The main thread handles the messages of its `looper` one by one (`Handle`); answers to dialogs
(`Answer`) come from the user; the coroutines of the bridge and of the deletion (`Work`) run next to
it; `ConfigChange` and `Kill` come from Android. `isABIKRunning`, the coroutines and the posted
messages survive the recreation of the activity (`Recreate`), its dialogs and its callback do not.
A native call is `Enter` and `Leave` here, between which it logs through the references that
`initializeJNIReferences` of `Log.cc` has set (`references`). `world` fixes for a behaviour whether the user
is patient (taps only when the last tap has shown its effect) and whether Android recreates the activity;
the properties say of which they speak.
Kotlin callbacks that run on the main thread are one atomic action each: that is what the looper
guarantees. The message that changes the text of the progress dialog for every deleted directory
is left out.

### `ThreadPool`, `Lz4Compress`, `Lz4Decode`, `OrderedWriter`: the LZ4 threads

`ThreadPool` is the POSIX pool of `threadpool.c`: a bounded queue, the number of busy threads, and
the two condition variables as the sets of threads that wait on them. A critical section of the mutex
is one action; a signal wakes an arbitrary waiter and is lost when there is none; `SpuriousWakeup` is
what POSIX allows. A woken thread runs its action again, which is the `while` around the wait. The two
components take it with `INSTANCE` and supply the pools, their sizes, and what a job does.

`Lz4Compress` is `LZ4IO_compressFilename_Legacy`: `OpenFiles` and `MainPool` on the caller's thread; on a
worker `ReadChunk`, `SubmitChunk`, `Advance`, `SubmitNextRead` (a read job) or `CompressChunk`; on the
writer's thread `StoreBlock`, `WriteBlock`, `DrainRegister`. The write register is the array of the
code, free slots included, because its scans stop at the first free slot. `Lz4Decode` is
`LZ4IO_decodeLegacyStream`, with the ring of buffer pairs and their contents. `EndProcess` is
`END_PROCESS`: it stops everything.

`OrderedWriter` is what both promise: the blocks in order, each once, success only when all are
there, unless the input could not be read. Both refine it (`OW!Spec`, with its liveness).

### `ImageFile`, `BootImage`, `VendorBootImage`, `ParserConfig`, `ImageKitchen`: the image formats

`ImageFile` has the unsigned 32-bit arithmetic on pages and offsets, an image as the set of its chunks,
each at its offset, and `ExtractImage`, which gives what lies at an offset, be it a section or not. `BootImage` (headers 0 to 4)
and `VendorBootImage` (headers 3 and 4, with the table of ramdisks) are the unpackers and the writers as
operators: `Unpacked`, `Args` (what `mkbootimg_wrapper` makes of a configuration), `WriteBootImage` and
`Build`. A header is the sequence of its cells in the order of the file. `ParserConfig` is the record of
either kind, item by item, where a reader who asks for another width is out of step from there on, and
its signature. `ImageKitchen` composes them: `Extract`, `Edit`, `Build`, and again. The first image is
one that AOSP's `mkbootimg` makes of any description that `IsBootImage` or `IsVendorImage` admits; all
later ones are written here. The file operations inside the two
calls, their failures and crashes are those of `ProjectStore`.

A ramdisk of a known format becomes a directory, and `BuildRamdisk` packs the directory anew: what it
writes has a content of its own (`REPACKED`, or `EDITED` if the user changed something) and a size of its
own, `PackedSize`, any function of the content and the format. That the directory is the same again is the
business of `Ramdisk`; here it is what `SameContents` compares. `Unpackable` has every way in which
extraction refuses an image: a section or an entry of the table behind the end of the file (`Readable`), and
a place without a byte where the format of a vendor ramdisk is to be read (`HasBytes`).

### `FormatDetect`, `CpioCodec`, `StreamWrap`, `Ramdisk`: a ramdisk and its directory

`FormatDetect` is `getHeaderFormat` over the first sixteen bytes. `CpioCodec` is `ExtractCPIO` and
`BuildCPIO`: entries in their order, the list of them that becomes `.parserconfig`, names and
link targets with a quote or the end of a line, hard links, types that are not supported, the end of an
archive in any part of an entry, reads that fail. `StreamWrap` has one action for each
round of the loops around zlib and liblzma: a codec takes and gives as much in one call as it likes
within what its interface promises (external), the output stream buffers, the disk may be full, and a read that fails ends the call or is
taken for the end of the file (`end`), as the function that reads does: the C++ streams and `fread` of the
compressors give what they have, `gzread` and the LZ4 decoder say that they failed.
`Ramdisk` composes them as `UnpackRamdisk` and `BuildRamdisk` do, with the user's edits between, and
unpacks what was built.

### `BlockFormat`, `BlockCompress`, `BlockDecompress`, `Hc...`, `BlockStream`: LZ4 blocks

`BlockCompress` is `LZ4_compress_generic` with its table types, dictionaries (prefix, external,
attached) and limits, one action for each search, extension and encoding, and the calls around it:
`LZ4_compress_fast_continue`, `_destSize`, `_extState`, `LZ4_loadDict`, `LZ4_saveDict`, resets that do
not clear. `HcContext` has the context, hash chains and searches of `lz4hc.c`, `HcSequence` the
encoding, `HcMid`, `HcChain` and `HcOptimal` the three parsers, `BlockCompressHC` the calls.
`BlockDecompress` has the fast and the safe loop of `LZ4_decompress_generic`, partial decoding, the
older decoder without a size, and the streaming calls. Memory is a function from addresses to bytes and
the blocks are real ones: tokens, lengths, offsets. The bytes that a copy in words writes past its end
are tracked (`high`, `stray`). `BlockStream` is a program that follows the rules of `lz4.h` and
`lz4hc.h`: a session says how both sides arrange their buffers (contiguous, rings of documented sizes, a
double buffer, a history that was moved), which calls and levels they use and how much room they give;
contexts and memory are used again from chain to chain.

### `XxHash`, `FrameFormat`, `FrameCompress`, `FrameDecompress`, `FrameStream`: LZ4 frames

`FrameDecompress` has one action for each stage of `LZ4F_decompress`, and `Return`, which moves the
history out of the caller's buffer; `LZ4F_updateDict` in it decides where the history is.
`FrameCompress` has the calls of the compression context as operators that take a context with its
memory and return them, with the parts of `LZ4F_compressUpdate` in their order (`CompleteTmp`,
`FullBlocks`, `LastBlock`, `PreserveDict`, `WithinLimits`, `KeepRest`). Here a compressed block stands
for its content and for *all* the history its coder holds, as the worst of the coders would refer to it;
that a coder of `BlockStream` refers to nothing else is `NoStray` and `BlocksComeBack` there. A byte is
a cell that says what it is a byte of, so that a reader that is out of step finds no number. A hash
stands for all that went into it (`XxHash` keeps what is done with the bytes, by lanes and rests, and
leaves the arithmetic out). `FrameStream` writes frames by updates, in one call or by the jobs of
`lz4io.c` (`LZ4IO_compressFrameChunk` has a context of its own for each chunk and the end of the chunk
before in front of it), damages or cuts them, and reads them back in pieces, by the hint, or by the jobs
of `LZ4IO_decompressLZ4F`, which choose the decoder by the first bytes. The pools and the write register
below those jobs are the ones of `Lz4Compress` and `Lz4Decode`.

### `MC...`: the instances; `..._proofs`: the proofs

`ProjectStore_proofs` and, on top of it, `ProjectBuild_proofs` are about `ProjectStore`; `AbikApp_proofs`,
`Lz4Compress_proofs`, `Lz4Decode_proofs` and `Ramdisk_proofs` about the modules they are named after,
`RamdiskBuild_proofs`, on top of `Ramdisk_proofs`, about the second half of `Ramdisk`, and
`ImageKitchen_proofs` about `ImageKitchen` and the modules it composes.

Definitions whose comment begins with `Fault:` are not part of the model. Each one changes one
definition the way a plausible mistake in the code would; substituted for it, TLC finds the property
they are paired with in `PROJECT.json` violated, which shows that the property depends on that code.

## Runs

| Run | Instance | Question |
|---|---|---|
| `store_crash` | one directory; a boot image with kernel, LZ4 ramdisk and signature, and a vendor_boot image with a plain cpio ramdisk, one of unknown format and a dtb; one edit per file | type correctness, `NothingLost`, `RoundTrip`, `BuildIsFresh`, `BootImageComplete`, `NoDebris`, and that every call ends |
| `store_copies` | `<b>` and `<b>_1`, a boot image with one ramdisk | `ExtractionSparesProjects`: an extraction changes no finished project except in the clean-up of a failed `<b>_k` |
| `store_failed_copy` | the same | `ExtractionKeepsProjects`, without the exception: **violated** |
| `app` | two projects, two calls, one deletion; patient and hasty users, an activity that stays or is recreated | types, `StartsAlone`, `BuildHasTarget`, `ProgressEnds`, `LogsThroughOwnEnv` (patient user, activity stays); `MarkedWhileCalling`, `KillHarmless` (patient user); `FlagMeansCall`, `FlagClears` (everybody) |
| `app_overlap` | the same | `NothingOverlaps`, what the message to the user promises everybody: **violated** |
| `images` | headers 0 to 4 and vendor headers 3 and 4, every set of sections of no, one and two pages, texts of every length up to their limit, two builds with and without edits | `SectionsKept`, `HeaderKept`, `BuildsAreStable`, `CanBeExtracted` |
| `ramdisk` | nine archives, and twenty-one that end inside an entry, in every format, whole, damaged and cut at every unit, three disks, reads that fail anywhere | `NothingLost`, `BuiltUnpacksAgain`, `UnpackedIsArchive`, `CallEnds` |
| `lz4_blocks` | a window of 32 bytes, both coders at levels of every strategy, eleven arrangements of buffers, rooms from nothing to the bound | `BlocksComeBack`, `FitsTheBuffer`, `NoStray` |
| `lz4_frames` | a window of four bytes, every combination of block mode, checksums, coder, dictionary and `autoFlush`, pieces and rooms of one byte and more, one byte damaged at every place | `FramesComeBack`, `BuffersSuffice`, `HintLeadsOn` |
| `lz4_compress` | three workers, up to four chunks, room for one job in the queue for writing, a register of one slot that grows, reads that may fail | types, `OneReader`, `ReaderNeverWaits`, `NoJobOutlivesItsStack`, `NoBlockStranded`, and that it implements `OrderedWriter` |
| `lz4_read_fails` | two workers, up to four chunks, queues of four | `SuccessIsComplete`: **violated** |
| `lz4_decode` | up to nine blocks | `BuffersExclusive`, `NoJobOutlivesItsStack`, and that it implements `OrderedWriter` |

The bounds and why they are enough. `MaxCopy`: with one directory every interleaving of crashes,
calls and edits on it happens; with two, every relation between a project and its copy. No
action relates three directories except `get_unique_path`, whose loop takes its second step with two.
`MaxRev = 1` tells an edited file from the extracted one. Two images in one run let a directory be
cleaned and refilled from the other kind. Three parts cover the cases of a part: not a ramdisk,
ramdisk of each kind of format (a compressor, none, other), written back or not. In `AbikApp` two
projects make the selector ask and one makes it build at once, and both lists occur; two
callers are what overlap needs. `Room` bounds the taps so that every call that was asked for finds a
coroutine.

Three workers let two compressions
end in either order while the third reads; four chunks fill, grow and drain the register, and remove a block
from the middle of it. The queues of the two pools have room for four jobs in the code. `QueueSize`, the
first one's, does not matter from two jobs on (`ReaderNeverWaits`). `WriteQueueSize`, the second one's, is
one in `lz4_compress`: with one chunk at the writer and one queued, two workers wait for room at the same
time, and one signal wakes either; a queue of four needs seven chunks for that. The compression still
always ends. (With two workers, both queues of four and seven chunks the same properties were checked once,
in three minutes.) The theorems about the compressor hold for every size of the queues. Nine blocks use each of
the four buffers twice.

In `images` sizes, pages and strings are scaled down (a page is 4 or 8 bytes, a word has 256 values):
what matters is whether a size is nothing, within a page, a whole page or more, and whether a text is
shorter than its field, fills it, or goes on in the next one; all of these occur in every header
version. `MaxSize` bounds pages, sections and headers, and `KitchenAssumption` says how far a word
exceeds it (eleven times for boot images, 8 + 2 per ramdisk for vendor_boot images), so that no offset
wraps; TLC evaluates it and that every original is such an image (`OriginalsAssumption`). Two builds
show that what the first one loses is all that is lost. A ramdisk that is packed here is one page longer,
shorter or as long, by its content and format. In `ramdisk` the archives
have an entry of every type; the streams are cut after every unit, and in an entry in its header, in its
name, where what is left may be the name of another file, or in its data; a buffer of two units makes the
loops take several rounds; disks of two and five units are full in the middle of a call or when it
closes.

In `lz4_blocks` the window and the tables are small, so that blocks of twenty to sixty bytes leave the
window, overwrite ring buffers, collide in the tables, and make the indexes reach the size at which they
are cleared or start again (`KB4`, `GB1`, `GB2`); the constants of the format itself (minimum match,
last literals, words of eight bytes) have their values. Blocks of 280 and 290 bytes have lengths of more
than one byte. In a ring of `LZ4_decoderRingBufferSize` one match goes from the history on into the
block and overlaps what it is copied from. Every action is taken, and every branch but three early returns for arguments and damaged
blocks that these sessions do not have. In `lz4_frames` a block is four or sixteen bytes long and a
header is as long as it is in fact, so that one call may cover a header, several blocks, or a part of
one; contents of up to 23 bytes fill `tmpBuff` and `tmpOutBuffer` to their ends and wrap them.

What the violations show. `store_failed_copy`: extract an image, extract it again (into
`<b>_1`), let the second extraction fail: `jniExtract` passes `workdir` and not `unique_work_dir` to
`remove_all`, so the first project is deleted and the broken copy stays. `app_overlap`: a second
tap handled before the callback of the first one ran starts a second native call next to
the first, although the application means to answer "ABIK is currently working. Please wait.".
`lz4_read_fails`: a read job takes a failed `fread` for the end of the file, so the
compression ends with result 0 and a truncated output, which replaces the ramdisk.

## Fairness

`ProjectStore`: weak fairness of the steps of the call in progress: it runs on a thread of its own
that Android schedules, and none of its steps waits for anything but the file system. Neither a
crash nor anything the user does is fair. `AbikApp`: weak fairness of the main thread, of every
coroutine of the bridge and of every deletion; `Dispatchers.IO` has 64 threads, more than the user can
occupy. A native call is assumed to return (`Leave` is fair), which `CallsEnd` of `ProjectStore` shows.

`Ramdisk`: weak fairness of the rounds of a loop (`Stream`), which run on the thread of the call. A
codec may take nothing and give nothing in one call; that the second time in a row is an error is what
liblzma promises (`LZMA_BUF_ERROR`), and what `CallEnds` rests on.

LZ4 threads: weak fairness of the main thread, the writer and every worker, which the kernel schedules
and which get the mutex in the end (a mutex that starved one thread for ever could only do so while the
others keep taking it, and their work is finite). Spurious wake-ups are not fair.

## What is proved

For every value of the constants that the named assumptions (`StoreAssumption`, `AppAssumption`,
`CompressAssumption`, `DecodeAssumption`, `RamdiskAssumption`, `KitchenAssumption`,
`OriginalsAssumption`) admit: any images, projects, coroutines and ramdisks, any number of workers,
chunks and blocks.
TLC checked each inductive invariant on the instances before it was proved. `PROJECT.json` lists the
theorems; what follows is the argument of each.

`ProjectStore_proofs`:

- `TypeCorrect`: `TypeOK` is inductive; `JobOK` in it says that both loops of a call stay within their
  tables.
- `NoSectionLost`: `NothingLost` alone is not inductive. `IInv` adds
  `SignedIsPresent` (a configuration only exists in a directory that exists) and
  `ExtractInv`: while sections are extracted the directory is not signed; the sections with an index
  below the loop counter are complete; at `sign` all are; and in the middle of `UnpackRamdisk` the form
  about to be dropped is no longer the only complete one: at `unlink`, `untardir`, `untar` the archive is as
  complete as the section was, at `rmtmp` the directory is. The steps that only write other files
  are covered by the lemmas `NothingTouched`, `UnsignedWritten` and `OnePartWritten`.

`ProjectBuild_proofs`, on top of `TypeOK`:

- `NoDebrisLeft`, `BootImagesComplete`, `BuildsAreFresh` and `ImageComesBack` follow from `DoneInv`. It says
  of a directory whose extraction was reported what its files are in terms of the image (`DirOK`), of the
  extraction in progress how far that has come (`ExtractOK`), and of the build in progress (`BuildOK`)
  that the ramdisks with an index below the loop counter are packed from what the directory holds now,
  up to those `spoilt` names, and that their `.build.tmp` is renamed (`Made`). The loop counter is needed because an earlier build may have left its `<ramdisk>.build`: a ramdisk whose
  turn has not come can still have the old one.
- `ProjectsSpared`: step by step, an extraction only writes where `get_unique_path` has led it.

`AbikApp_proofs`:

- `FlagNeverStuck`: `FInv` adds to `FlagMeansCall` only that `calls` has a record for each caller.
- All others follow from `AppInv`. Its parts for everybody: `PickersOK` (a tap that is queued has room
  for its picker), `ResetsOK` (a reset is posted once for a call, and by a call that has returned),
  `DeletionsOK` (where no deletion is in progress nothing is left to delete). For the patient user:
  `OneThing`, at most one of a picker, a dialog, a selection or document in the queue and a call, and
  a tap only in front of everything else. When the activity stays too: `Undisturbed`, a deletion in
  progress shows its dialog and nothing else, and no list of projects that is still going to be used
  names one that is gone. `TypesKept`, `CallsAreMarked`, `ProblemIsIdle` and `OwnEnvOnly` read their property off it;
  `OneAtATime` and `TargetIsThere` are action properties of the states it describes.

`Lz4Compress_proofs`, from `CInv`:

- `Chain` and `Tracker`: a read job is the last of its queue, so that the queue is empty when it runs; it
  has room for the two jobs it submits if the queue has room for two (`CompressAssumption`; four in the
  code), so that no read job waits (`ReadersNeverWait`), and there is never a second one
  (`OneReadAtATime`). The `ReadTracker` counts the chunks read as long as the chain goes on, and the chain
  ends at the end of the file or with an error.
- `Jobs` and `Waited`: the number of busy threads is the number of threads that have a job; a pool that was
  waited for stays at rest, because no one is left to submit (`StackOutlivesJobs`). The order of the two
  waits is what makes this inductive.
- `Singly`, `Apart`: a block that was read and is not yet written is at one place, once: to be submitted, in
  a compression, in the writer's queue, with the writer, or in the register. These are the blocks from
  `Len(out)` up to the tracker's position.
- `Register`, `Output`: the free slots of the register are its last ones, so that its scans see every
  block, and the next block to write is not in it except while the writer is looking for it.
  With `Apart` this gives `NoBlockIsStranded`; with `Waited`, that at the end all is written.
- `SuccessUnlessReadFails` is `SuccessIsComplete`, which `lz4_read_fails` refutes, for all behaviours
  in which no read fails; the failed read is the only reason.
- `CompressorWritesInOrder`: `Spec` implies the initial condition and the steps of `OrderedWriter` under
  the mapping of `OW`.

`Lz4Decode_proofs`, from `DInv`:

- `Loop`, `Stations`: the blocks between the reader, the decoder's queue, the decoder, the writer's queue and
  the writer are consecutive, and each block's number determines its buffers. With the lengths of the
  queues there are never more than four under way on either side (`BuffersAreExclusive`).
- `Contents`, `Output`: what a buffer holds as long as someone is going to read it
  (`DecoderWritesInOrder`). `Waited` as above (`StackOutlivesJobs`).

`Ramdisk_proofs`:

- `RamdiskKept`: `NothingLost` alone is not inductive, since it says nothing of a file that is half written. The
  invariant `RInv` says what a loop has in hand (`Streaming`): the units in the file, the one the stream
  keeps, those the codec keeps and those in the buffer are consecutive segments of the ramdisk, up to the
  place where it is read, which is at most where the reads end. So when the loop ends at the end of the stream, all the data is in the file or is
  written by `close`, and the input may go; in all other cases the input stays.
  `RamdiskAssumption` says that only the last unit of a ramdisk can be a mark, that an uncompressed one has none,
  that the trailer of an archive is not a mark, and that a disk of size `Ample` has room for the archive, the one
  that is built and what it is packed into.

`RamdiskBuild_proofs`:

- `BuiltComesBackPacked`: `BuiltUnpacksAgain` needs three things. First, what is in the directory: `IsTree` says
  that its entries are lines, that only symbolic links have a target and that every file has its line. It holds of
  what `ExtractCPIO` makes of any archive (`ExtractedIsTree`), the edits keep it, and as the disk has room no file is
  short (`UnpackCPIOMakesTree`); a failed read may make it any other directory, so the claim is about the others
  (`misread`). Second, that the archive of such a directory is unpacked as that directory
  (`BuiltComesBack`), with the targets up to their quotes (`Relined`). Both are inductions over the entries, on the function `Directories`: the set of the
  lengths for which the claim holds has 0 and with n also n + 1, and so has all numbers (`Induct`, from the least
  element that every set of numbers has). Third, that the compressor writes the archive and its end: `BInv` says
  what each loop has in hand, as consecutive parts of the packed archive (`PackingLzma`, with the buffer of the
  output between codec and stream, and `PackingGzip`), that the disk has room for what is missing, and which
  file is there when the call is done. The headers are compared byte by byte (`BuiltDetected`), and the dictionary
  is within the limit of the decoder.

`ImageKitchen_proofs`:

- `SectionsComeBack`, `AlwaysExtractable`, `BuildsStable` and `HeadersComeBack` follow from `KitchenInv`
  (`KitchenInvariant`). Its core is the form of an image of which everything is found: for boot images
  `BootSound`, a header that describes six sections (`Describes`) which lie on the pages that
  `FirstPage` gives them (`Holds`); for vendor_boot images `ImageOf(x)`, the one image that holds the
  ramdisks, texts and sections of `x`. The images from elsewhere have this form, and what a build writes
  has it again (`ImageBuilds`), although the writers and AOSP's tool lay out an image each in its own way:
  the code pads what was written so far, which the lemmas on `Padded` and `GetNumberOfPages` show to be
  the same pages, where no sum wraps. The ramdisks of a vendor_boot image lie one behind the other, so their places
  are sums, on which the lemmas about `Before` are inductions over the ramdisks (`Induct`).
- Extraction from this form: the chunk found at the place of a section is that section, because no two
  that are not empty begin at the same place (`ImageExtracts`; a signature begins where `second` would,
  but no version has both). Then the files, their formats and the header fields are those of the image. A
  place where the format of a ramdisk is read has a byte unless the image is one of header 3 with nothing
  behind its header (`Bare`): what lies behind an empty ramdisk is a dtb, which has no format of a ramdisk
  (`BytesThere`, `FormatFound`). No build makes such an image of another one (`NextNotBare`).
- Packing anew: what `PackedSize` gives depends on name, revision and format, and a ramdisk that was packed
  here has the size it says (`PackedHere`), so that to unpack and pack it once more gives the same
  (`PackedAgain`). This is why `BuildsAreStable` holds from the first build on and not before.
- `ConfigComesBack`: a record that is read item by item in the order and the widths it was written in
  is the record. This is an induction over the items, and it needs that the texts of a header fit into
  `StringSize` (`Texts`), that the fields differ in their names, and that the table has as many entries as
  the configuration says.
- `KitchenInv` adds to the form of the last image what the properties compare: that it has the files put
  into it (`Kept`), that building it again without an edit gives the same image (`Again`: the losses of a
  build do not repeat, which for a command line is `CommandLineKept`), that the project is its files up to
  edits of size and revision (`Edits`) with its signed configuration, and that an unedited first build is
  the one of the original.

The assumptions on images from elsewhere: sizes up to `MaxSize` and texts up to their fields, sections
only in the header versions that have them, and offsets within 32 bits. That is what AOSP's tool makes; `MaxSize`
stands for 64 MiB or any other bound that 2^32 exceeds far enough.

The assumption on the images of `ProjectStore` (each section and each ramdisk is named once, ramdisks and repacked
sections are sections) is what `UnpackBootImage` and `UnpackVendorBootImage` build: fixed names for boot
images, `output_name` made unique by its index for the ramdisk table.

Only model-checked: all liveness (`CallsEnd`, `FlagClears`, `ProgressEnds`, and that a compression and a
decompression end, which `WritesInOrder` says beyond the two theorems above); that the directory of a foreign
archive is what the archive says (`UnpackedIsArchive`, which compares `ExtractCPIO` with a reader that filters the
entries by `SelectSeq`); LZ4 blocks and frames (`BlocksComeBack`, `FitsTheBuffer`, `NoStray`, `FramesComeBack`,
`BuffersSuffice`, `HintLeadsOn`). These properties compare the results of recursive definitions (filters, folds,
coders, decoders) over the bytes of a memory, where a statement about every input needs an induction over data for
each of them, as `BuiltComesBack` has it for the archive and `ConfigComesBack` for the configuration.

## What the models say of the code beyond the runs

`HeaderKept` holds up to losses that `Unkept` and `UnkeptVendor` name, each of them at its cell: a
ramdisk that was a directory is packed anew, so that its size in the header or in the table is another, with it
the size of all ramdisks, the offsets of those behind it in the table and that of the recovery dtbo, and the
identifier; the address of a section that is not there is written anew; a patch level that is not in a year is dropped;
a name that fills its field loses the last character; so does a first command line field that is full,
and two short fields are joined by a blank; the upper word of the address of the dtb is 0; the boot
signature is dropped; the `board_id` of every vendor ramdisk is 0. `BuildsAreStable` shows that these
losses happen in the first build only; that archives and streams packed here are the same whenever the
directory and the format are the same is what `PackedSize` assumes of cpio, zlib, liblzma and LZ4.
`CanBeExtracted` names one image that is refused although it is well formed: a vendor_boot image of header 3
with neither ramdisk nor dtb, whose file ends where the format of the ramdisk is read. `UnpackedIsArchive` names two for the cpio codec: entries of
devices are left out, and of a hard-linked file only the name that has the data in the archive keeps it.
And it says what an archive adds that ends inside an entry, which `ExtractCPIO` does not notice: the buffers
are zero where nothing was read, so there is a file, or a link, with zeros for what is missing, and its line;
the call reports success. `BuiltUnpacksAgain` names what a quote does to the target of a link: `BuildCPIO`
ends the value there. A name with a quote or the end of a line, or a target with the latter, makes the build fail.
A read that fails and is taken for the end of the file (`misread`) gives a directory or a ramdisk with less
in it, and success: both properties except it. `NothingLost` does not: a stream of LZMA that ends early is an
error, and the other decoders report the read.
`NothingLost` and `BuiltUnpacksAgain` of `Ramdisk` speak of disks with room for everything: the streams
are closed without a look at the result, so that on a full disk a ramdisk can be replaced by a shorter
one.

Four places in the LZ4 sources do not keep what their headers say, none of which the application reaches:

- `LZ4_compress_HC_continue_destSize` (`lz4hc.c:1731`, by way of `ctx->end += *srcSizePtr` in line 1391)
  takes the whole input as history, compressed or not. A caller that then offers less than the rest gets
  blocks that refer to bytes the reader has not. The sessions that use it offer the whole rest.
- `lz4.c:2373` (and 2185) copies a part of an external dictionary with `memcpy` where source and
  destination may overlap: in a ring as small as `LZ4_decoderRingBufferSize` allows, with blocks longer than
  the window and a match that goes on from the history into the block. In the model the copy goes either
  way. `BlocksComeBack` excepts a block in which it went backwards, which is spoilt indeed.
- A change between `LZ4F_compressUpdate` and `LZ4F_uncompressedUpdate` (`lz4frame.c:1013`) flushes what
  was kept, which `LZ4F_compressBound` does not count: with the room that `lz4frame.h` and the comment in
  line 1133 ask for, such an update writes up to a block beyond its buffer. In the model a program gives this
  room, and the session ends where the update goes beyond it (`overrun`), or a block more; `BuffersSuffice`
  excepts the former and shows that the latter is enough, and that no other call ever needs more than the
  room of the header.
- The hint of a compressed block that is kept in pieces (`lz4frame.c:1859`) counts the block's checksum
  twice, so that with block checksums it can ask for four bytes more than is left of the frame;
  `HintLeadsOn` names the exception. The threaded reader does not use hints.

## What is not modelled

- Two native calls at once on the disk: `ProjectStore` runs one at a time, although `app_overlap` shows
  the application can start two. Its inductive invariant speaks of the one call in progress.
- In `ProjectStore`, errors of an extraction that the code does not look at: a stream that fails when it
  is closed (`ExtractImage`, the decompressors) and reads and writes of `ExtractCPIO`, after which "Done"
  stands for a short file. `NothingLost` speaks of crashes and of the failures the code sees. `StreamWrap`
  and `CpioCodec` have these errors, for one ramdisk.
- A write of the configuration that fails while the next one, of its signature, succeeds.
- In the legacy compressor a failed read is one step that delivers nothing; the bytes before the error
  would be one more block.
- Of `lz4io.c`: sparse writing (`LZ4IO_fwriteSparse`), pass-through, lists of files and information
  about files, which the application does not ask for, and the single-threaded functions, which are not
  built. Of the LZ4 library: allocation, the deprecated names of its calls, `lz4file.c`.
- Images whose sizes wrap 32 bits or whose page size is 0: no tool writes them. Empty ramdisks in the table
  of a vendor_boot image of header 4: `IsVendorImage` has none, and the format of one would be that of the
  ramdisk behind it. A dtb whose first bytes are those of a ramdisk (`DtbFiles`): it has a magic of its own.
- Start-up (`MainActivity`) asks for a permission and keeps no state; the text of the console is read by
  nobody; the arithmetic of SHA-1 and xxHash: equal digests are taken to mean equal contents. zlib and
  liblzma are there as headers and binaries only.

## Plan

1. Done: `ProjectStore` and `AbikApp` with their first proofs; `ThreadPool`, `Lz4Compress`, `Lz4Decode`, refining `OrderedWriter`.
2. Done: the image formats, the ramdisk, LZ4 blocks and frames, the references of `Log.cc`.
3. Done: the safety of `ProjectStore`, `AbikApp`, `Lz4Compress` and `Lz4Decode`, that `Ramdisk` loses
   nothing and that what it builds is unpacked again, and all of `ImageKitchen`: sections, headers,
   configuration, repeated builds (see "What is proved").
   Left: `UnpackedIsArchive`; of LZ4 the bound of `LZ4F_compressBound_internal` and `WithinLimits`.
4. Two jobs in `ProjectStore`; an abstract `Kitchen` (a project appears complete or not at all) that
   `ProjectStore` implements between the crash and the clean-up.
