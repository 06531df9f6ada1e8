----------------------------- MODULE CpioCodec -----------------------------
(***************************************************************************)
(* ExtractCPIO and BuildCPIO: an archive is a sequence of entries, the     *)
(* last one the trailer; a directory is its .parserconfig, a sequence of   *)
(* lines, and its files.  A name, or the data of a file, is one value;     *)
(* whether a quote or the end of a line is in it is known of it.  Modes    *)
(* are 0 or another value.  The last entry may be cut: where, `cut` says:  *)
(* in the header, in the name (in one that is cut to a directory's:        *)
(* "parent"), or in the data.                                              *)
(***************************************************************************)
EXTENDS Integers, Sequences, SequencesExt

CONSTANTS
    Quoted,         \* the names, and the targets of links, with a quote in them, and no = behind it
    Split,          \* those with the end of a line in them
    BeforeQuote(_), \* what is before the quote
    Torn(_),        \* the first bytes, and zeros for the others
    Zeros(_)        \* zeros for all of them

TRAILER == [magic |-> "070701", path |-> "TRAILER!!!", type |-> "trailer", mode |-> 0, uid |-> 0,
            ino |-> 0, data |-> "", cut |-> "none"]

-----------------------------------------------------------------------------
(* ExtractCPIO *)

EmptyDirectory == [lines |-> <<>>, files |-> <<>>, ok |-> TRUE, more |-> TRUE]

Line(e) == [path |-> e.path, type |-> e.type, mode |-> e.mode, uid |-> e.uid,
            target |-> IF e.type = "symlink" THEN e.data ELSE ""]

\* What the buffers have of an entry: they are zero where a read was short, which
\* is not looked at.  A zero ends a name for the system.
Read(e) ==
    CASE e.cut \in {"name", "parent"} -> [e EXCEPT !.path = Torn(@), !.data = Zeros(@)]
      [] e.cut = "data" -> [e EXCEPT !.data = Torn(@)]
      [] OTHER -> e

\* A header that is cut is the end; a file is not opened where a directory is.
Refused(e) == e.magic # "070701" \/ (e.type = "file" /\ e.cut = "parent")

\* A file is created; the target of a symbolic link only goes to the line.
WithFile(files, e) ==
    [p \in DOMAIN files \cup {e.path} |-> IF p = e.path THEN e.data ELSE files[p]]

\* Fault: an unsupported type ends the loop.
StopAtUnsupported(dir, e) ==
    IF ~dir.more THEN dir
    ELSE IF e.cut = "header" THEN [dir EXCEPT !.more = FALSE]
    ELSE IF Refused(e) THEN [dir EXCEPT !.ok = FALSE, !.more = FALSE]
    ELSE IF e.type \notin {"dir", "file", "symlink"} THEN [dir EXCEPT !.more = FALSE]
    ELSE [dir EXCEPT !.lines = Append(@, Line(Read(e))),
                     !.files = IF e.type = "file" THEN WithFile(@, Read(e)) ELSE @,
                     !.more = (e.cut = "none")]

\* One round of the loop: another magic and a file that cannot be created end it
\* with a failure, the trailer and the end of the input with success, wherever in
\* the entry that end is; an unsupported type is passed over.
ExtractEntry(dir, e) ==
    IF ~dir.more THEN dir
    ELSE IF e.cut = "header" THEN [dir EXCEPT !.more = FALSE]
    ELSE IF Refused(e) THEN [dir EXCEPT !.ok = FALSE, !.more = FALSE]
    ELSE IF e.type = "trailer" THEN [dir EXCEPT !.more = FALSE]
    ELSE IF e.type \notin {"dir", "file", "symlink"} THEN dir
    ELSE [dir EXCEPT !.lines = Append(@, Line(Read(e))),
                     !.files = IF e.type = "file" THEN WithFile(@, Read(e)) ELSE @,
                     !.more = (e.cut = "none")]

\* The directory after each entry.
Directories(archive) ==
    LET dir[k \in 0 .. Len(archive)] ==
            IF k = 0 THEN EmptyDirectory ELSE ExtractEntry(dir[k - 1], archive[k])
    IN  dir

ExtractCPIO(archive) == Directories(archive)[Len(archive)]

-----------------------------------------------------------------------------
(* BuildCPIO *)

\* Fault: the permissions are taken as they are written.
PermissionsAsWritten(line) == line.mode

\* The permissions of an entry that has none: 0755 and 0754.
Permissions(line) ==
    IF line.mode # 0 THEN line.mode ELSE IF line.type = "dir" THEN 755 ELSE 754

\* The quote in a name ends the value, and the type is not found behind it; the
\* end of a line in a name or a target leaves a quote that is not closed.
Parsed(line) == line.path \notin Quoted \cup Split /\ line.target \notin Split

\* The quote in a target ends it, and what is behind it is dropped.
Target(line) == IF line.target \in Quoted THEN BeforeQuote(line.target) ELSE line.target

\* A line makes an entry, or the build fails.
Buildable(dir, line) ==
    /\ Parsed(line)
    /\ line.type = "file" => line.path \in DOMAIN dir.files

BuildEntry(dir, line) ==
    [magic |-> "070701", path |-> line.path, type |-> line.type, mode |-> Permissions(line),
     uid |-> line.uid, ino |-> 0,
     data |-> CASE line.type = "file" -> dir.files[line.path]
                [] line.type = "symlink" -> Target(line)
                [] OTHER -> "",
     cut |-> "none"]

CanBuild(dir) == \A k \in DOMAIN dir.lines : Buildable(dir, dir.lines[k])

BuildCPIO(dir) ==
    Append([k \in DOMAIN dir.lines |-> BuildEntry(dir, dir.lines[k])], TRAILER)

=============================================================================
