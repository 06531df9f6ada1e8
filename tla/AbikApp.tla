------------------------------ MODULE AbikApp ------------------------------
(***************************************************************************)
(* The user interface of the activity ABIKCore and its bridge: which taps, *)
(* picker results and dialog answers start a native call or a deletion,    *)
(* and how far isABIKRunning keeps them apart.  The main thread handles    *)
(* the messages of its looper one by one; native calls (GlobalScope) and   *)
(* deletions (CoroutineScope) run on Dispatchers.IO next to it, and the    *)
(* activity can be recreated and the process killed.                       *)
(*                                                                         *)
(* What a call does to the files is ProjectStore's subject; here it works  *)
(* on one project directory until it returns.                              *)
(***************************************************************************)
EXTENDS Integers, Sequences, FiniteSets

CONSTANTS
    Project,     \* the directories below ABIK/
    Caller,      \* bound: the native calls that can be in progress at once
    Cleaner,     \* bound: the deletions that can be in progress at once
    MaxPicker    \* bound: document pickers on their way at once

ASSUME AppAssumption ==
    /\ MaxPicker \in Nat
    /\ IsFiniteSet(Project) /\ IsFiniteSet(Caller) /\ IsFiniteSet(Cleaner)

VARIABLES
    isABIKRunning,  \* DataHelper.isABIKRunning: static, survives the activity
    looper,         \* the messages of the main thread, oldest first
    dialogs,        \* the dialogs on the screen, topmost last
    picker,         \* the document pickers launched, and whether one is in front
    callback,       \* this activity's selectedImageCallback is initialised
    calls,          \* [Caller -> Call]: coroutines of ABIKBridge
    deletions,      \* [Cleaner -> Deletion]: coroutines of the clean dialog
    present,        \* the project directories that exist
    references,     \* savedEnv, dataHelperClass, ...: the call that set them
    world           \* how the user and Android behave; never changes

others == <<references, world>>

vars == <<isABIKRunning, looper, dialogs, picker, callback, calls, deletions, present,
          references, world>>

\* A coroutine of the bridge: launched, inside jniExtract or jniBuild, and
\* back with its withContext(Dispatchers.Main) posted.
Call == [pc : {"free", "launched", "native", "returned"},
         op : {"none", "extract", "build"}, dir : SUBSET Project]
Free == [pc |-> "free", op |-> "none", dir |-> {}]

\* The deletion coroutine: what is left to delete, and what is being deleted.
Deletion == [on : BOOLEAN, todo : SUBSET Project, cur : SUBSET Project]
NoDeletion == [on |-> FALSE, todo |-> {}, cur |-> {}]

\* hasty: the user may tap while an earlier tap is still in effect; recreates:
\* Android may recreate the activity (dark mode, language, ...).
\* (A hasty user whose activity stays is the last kind, with no recreation.)
World == {[hasty |-> h, recreates |-> r] : h \in BOOLEAN, r \in BOOLEAN}
         \ {[hasty |-> TRUE, recreates |-> FALSE]}

Message ==
    [kind : {"tapExtract", "tapBuild", "tapClean", "picked", "recreate"}]
    \cup [kind : {"select"}, list : SUBSET Project, orphan : BOOLEAN]
    \cup [kind : {"reset"}, caller : Caller]
    \cup [kind : {"dismiss"}, cleaner : Cleaner]

\* The dialogs: choose a project to build, choose what to clean, the progress
\* of a deletion, and "Please disable Don't keep activities".
Dialog ==
    [kind : {"project", "clean"}, list : SUBSET Project]
    \cup [kind : {"progress"}, cleaner : Cleaner]
    \cup [kind : {"problem"}]

TypeOK ==
    /\ isABIKRunning \in BOOLEAN
    /\ looper \in Seq(Message)
    /\ dialogs \in Seq(Dialog)
    /\ picker \in [n : 0 .. MaxPicker, front : BOOLEAN]
    /\ callback \in BOOLEAN
    /\ calls \in [Caller -> Call]
    /\ deletions \in [Cleaner -> Deletion]
    /\ present \in SUBSET Project
    /\ references \in SUBSET Caller /\ Cardinality(references) <= 1
    /\ world \in World

Init ==
    /\ isABIKRunning = FALSE
    /\ looper = <<>>
    /\ dialogs = <<>>
    /\ picker = [n |-> 0, front |-> FALSE]
    /\ callback = FALSE
    /\ calls = [c \in Caller |-> Free]
    /\ deletions = [c \in Cleaner |-> NoDeletion]
    /\ present \in SUBSET Project
    /\ references = {}
    /\ world \in World

-----------------------------------------------------------------------------
(* The user. *)

Post(m) == looper' = Append(looper, m)

\* A tap reaches a button when no other window is on top of the activity.  A
\* patient user waits until the main thread has shown what the last tap did.
CanTap == /\ dialogs = <<>> /\ ~ picker.front
          /\ world.hasty \/ (looper = <<>> /\ picker.n = 0)

\* How many messages of these kinds wait, and how many such dialogs are open.
Queued(kinds) == Cardinality({k \in DOMAIN looper : looper[k].kind \in kinds})
Shown(kind)   == Cardinality({k \in DOMAIN dialogs : dialogs[k].kind = kind})

\* The native calls in progress, and those the taps so far may still start.
Starts == picker.n + Queued({"tapExtract", "tapBuild", "select", "picked"})
          + Shown("project") + Cardinality({c \in Caller : calls[c].pc # "free"})

\* Bound: whatever the taps so far may still start has a coroutine to run in.
Room(kind) ==
    CASE kind = "tapExtract" ->
            /\ picker.n + Queued({"tapExtract", "picked"}) < MaxPicker
            /\ Starts < Cardinality(Caller)
      [] kind = "tapBuild"   -> Starts < Cardinality(Caller)
      [] kind = "tapClean"   ->
            Queued({"tapClean"}) + Shown("clean")
                + Cardinality({c \in Cleaner : deletions[c].on}) < Cardinality(Cleaner)

Tap == /\ CanTap
       /\ \E k \in {"tapExtract", "tapBuild", "tapClean"} : Room(k) /\ Post([kind |-> k])
       /\ UNCHANGED <<isABIKRunning, dialogs, picker, callback, calls, deletions, present, others>>

\* A picker comes to the front ...
PickerOpens ==
    /\ picker.n > 0 /\ ~ picker.front
    /\ picker' = [picker EXCEPT !.front = TRUE]
    /\ UNCHANGED <<isABIKRunning, looper, dialogs, callback, calls, deletions, present, others>>

\* ... and the user picks a document or leaves it.
PickerCloses ==
    /\ picker.front
    /\ picker' = [n |-> picker.n - 1, front |-> picker.n > 1]
    /\ Post([kind |-> "picked"]) \/ UNCHANGED looper
    /\ UNCHANGED <<isABIKRunning, dialogs, callback, calls, deletions, present, others>>

-----------------------------------------------------------------------------
(* The main thread: the message at the head of the looper. *)

Handling(kind) == looper # <<>> /\ Head(looper).kind = kind
Done           == looper' = Tail(looper)
Open(d)        == dialogs' = Append(dialogs, d)

\* The process dies; what is on the disk stays.
Killed ==
    /\ isABIKRunning' = FALSE
    /\ looper' = <<>>
    /\ dialogs' = <<>>
    /\ callback' = FALSE
    /\ calls' = [c \in Caller |-> Free]
    /\ deletions' = [c \in Cleaner |-> NoDeletion]
    /\ references' = {}
    /\ UNCHANGED <<present, world>>

\* Fault: isABIKRunning is set by the coroutine and not by its caller.
LaunchUnmarked(c, op, dir) ==
    /\ calls[c].pc = "free"
    /\ calls' = [calls EXCEPT ![c] = [pc |-> "launched", op |-> op, dir |-> dir]]
    /\ UNCHANGED isABIKRunning

\* ABIKBridge.extract and ABIKBridge.build: mark, then launch the coroutine.
Launch(c, op, dir) ==
    /\ calls[c].pc = "free"
    /\ calls' = [calls EXCEPT ![c] = [pc |-> "launched", op |-> op, dir |-> dir]]
    /\ isABIKRunning' = TRUE

\* A button whose tap finds isABIKRunning set shows a toast and no more.
Refused == isABIKRunning /\ UNCHANGED <<isABIKRunning, dialogs, picker, callback>>

\* Fault: the extract button does not look at isABIKRunning.
TapExtractUnchecked ==
    /\ Handling("tapExtract") /\ Done
    /\ callback' = TRUE
    /\ picker' = [picker EXCEPT !.n = @ + 1]
    /\ UNCHANGED <<isABIKRunning, dialogs, calls, deletions, present, others>>

\* startFilePicker
TapExtract ==
    /\ Handling("tapExtract") /\ Done
    /\ \/ Refused
       \/ /\ ~ isABIKRunning
          /\ callback' = TRUE
          /\ picker' = [picker EXCEPT !.n = @ + 1]
          /\ UNCHANGED <<isABIKRunning, dialogs>>
    /\ UNCHANGED <<calls, deletions, present, others>>

\* buildImageBtn: the selector lists the projects now and posts the rest.
TapBuild ==
    /\ Handling("tapBuild")
    /\ looper' = IF isABIKRunning THEN Tail(looper)
                 ELSE Append(Tail(looper), [kind |-> "select", list |-> present, orphan |-> FALSE])
    /\ UNCHANGED <<isABIKRunning, dialogs, picker, callback, calls, deletions, present, others>>

\* Fault: withABIKRunning leaves the mark when its block is through.
TapCleanMarked ==
    /\ Handling("tapClean") /\ Done
    /\ \/ Refused
       \/ /\ ~ isABIKRunning
          /\ IF present = {} THEN UNCHANGED dialogs
                             ELSE Open([kind |-> "clean", list |-> present])
          /\ isABIKRunning' = TRUE
          /\ UNCHANGED <<picker, callback>>
    /\ UNCHANGED <<calls, deletions, present, others>>

\* cleanBtn: withABIKRunning marks the time it takes to show the dialog.
TapClean ==
    /\ Handling("tapClean") /\ Done
    /\ \/ Refused
       \/ /\ ~ isABIKRunning
          /\ IF present = {} THEN UNCHANGED dialogs
                             ELSE Open([kind |-> "clean", list |-> present])
          /\ isABIKRunning' = FALSE
          /\ UNCHANGED <<picker, callback>>
    /\ UNCHANGED <<calls, deletions, present, others>>

\* SelectedProjectSelector: a single project is built without asking, and
\* nothing looks at isABIKRunning again.
Select ==
    /\ Handling("select") /\ Done
    /\ LET list == Head(looper).list IN
       \/ list = {} /\ UNCHANGED <<isABIKRunning, dialogs, calls>>
       \/ /\ Cardinality(list) = 1
          /\ \E c \in Caller : Launch(c, "build", list)
          /\ UNCHANGED dialogs
       \/ /\ Cardinality(list) > 1 /\ ~ Head(looper).orphan
          /\ Open([kind |-> "project", list |-> list])
          /\ UNCHANGED <<isABIKRunning, calls>>
    /\ UNCHANGED <<picker, callback, deletions, present, others>>

\* The dialog of an activity that was recreated meanwhile has no window.
SelectOrphan ==
    /\ Handling("select")
    /\ Head(looper).orphan /\ Cardinality(Head(looper).list) > 1
    /\ Killed /\ UNCHANGED picker

\* The result of the picker: the extraction starts, whatever runs by now; the
\* file cannot be opened (a toast); or an exception, thrown by the provider or
\* because this activity never set its callback, ends in showActivitiesProblem.
Picked ==
    /\ Handling("picked") /\ Done
    /\ \/ callback /\ (\E c \in Caller : Launch(c, "extract", {})) /\ UNCHANGED dialogs
       \/ callback /\ UNCHANGED <<isABIKRunning, dialogs, calls>>
       \/ Open([kind |-> "problem"]) /\ UNCHANGED <<isABIKRunning, calls>>
    /\ UNCHANGED <<picker, callback, deletions, present, others>>

\* withContext(Dispatchers.Main): the call is over.
Reset ==
    /\ Handling("reset") /\ Done
    /\ isABIKRunning' = FALSE
    /\ calls' = [calls EXCEPT ![Head(looper).caller] = Free]
    /\ UNCHANGED <<dialogs, picker, callback, deletions, present, others>>

\* The deletion is over: dismiss its progress dialog.  Dismissing one whose
\* activity was recreated throws, and nothing catches it.
Dismiss ==
    /\ Handling("dismiss")
    /\ LET c    == Head(looper).cleaner
           open == {k \in DOMAIN dialogs : dialogs[k] = [kind |-> "progress", cleaner |-> c]}
       IN  IF open # {}
           THEN /\ Done
                /\ \E k \in open : dialogs' = SubSeq(dialogs, 1, k - 1)
                                          \o SubSeq(dialogs, k + 1, Len(dialogs))
                /\ deletions' = [deletions EXCEPT ![c] = NoDeletion]
                /\ UNCHANGED <<isABIKRunning, callback, calls, present, others>>
           ELSE Killed
    /\ UNCHANGED picker

\* A posted list whose activity is gone.
Orphan(m) == IF m.kind = "select" THEN [m EXCEPT !.orphan = TRUE] ELSE m

\* The elements of a set of numbers, in their order.
Rising(S) == {f \in [1 .. Cardinality(S) -> S] :
                 \A i, j \in DOMAIN f : i < j => f[i] < f[j]}

\* A new ABIKCore: the dialogs, the callback and the taps of the old one are
\* gone; everything static, every coroutine and every posted message stays.
Recreate ==
    /\ Handling("recreate")
    /\ \E kept \in Rising({k \in 2 .. Len(looper) :
                           looper[k].kind \notin {"tapExtract", "tapBuild", "tapClean"}}) :
          looper' = [i \in DOMAIN kept |-> Orphan(looper[kept[i]])]
    /\ dialogs' = <<>>
    /\ callback' = FALSE
    /\ UNCHANGED <<isABIKRunning, picker, calls, deletions, present, others>>

Top        == dialogs[Len(dialogs)]
Asking(k)  == dialogs # <<>> /\ ~ picker.front /\ Top.kind = k
CloseTop   == dialogs' = SubSeq(dialogs, 1, Len(dialogs) - 1)

\* Cancel in one of the two selection dialogs.
Cancel ==
    /\ Asking("project") \/ Asking("clean")
    /\ CloseTop
    /\ UNCHANGED <<isABIKRunning, looper, picker, callback, calls, deletions, present, others>>

\* Fault: OK with no project selected builds folderList[-1].
ChooseProjectUnselected ==
    /\ Asking("project")
    /\ CloseTop
    /\ \E c \in Caller : Launch(c, "build", {-1})
    /\ UNCHANGED <<looper, picker, callback, deletions, present, others>>

\* OK in the project dialog: the list is the one of the tap.
ChooseProject ==
    /\ Asking("project")
    /\ CloseTop
    /\ \E p \in Top.list, c \in Caller : Launch(c, "build", {p})
    /\ UNCHANGED <<looper, picker, callback, deletions, present, others>>

\* Fault: no progress dialog covers the activity.
ChooseCleanUncovered ==
    /\ Asking("clean")
    /\ \E c \in Cleaner, checked \in SUBSET Top.list :
          /\ ~ deletions[c].on
          /\ deletions' = [deletions EXCEPT ![c] =
                              [on |-> TRUE, todo |-> checked, cur |-> {}]]
          /\ CloseTop
    /\ UNCHANGED <<isABIKRunning, looper, picker, callback, calls, present, others>>

\* OK in the clean dialog: delete what is checked of the list of the tap,
\* behind a progress dialog that cannot be cancelled.
ChooseClean ==
    /\ Asking("clean")
    /\ \E c \in Cleaner, checked \in SUBSET Top.list :
          /\ ~ deletions[c].on
          /\ deletions' = [deletions EXCEPT ![c] =
                              [on |-> TRUE, todo |-> checked, cur |-> {}]]
          /\ dialogs' = Append(SubSeq(dialogs, 1, Len(dialogs) - 1),
                               [kind |-> "progress", cleaner |-> c])
    /\ UNCHANGED <<isABIKRunning, looper, picker, callback, calls, present, others>>

\* OK in the problem dialog kills the process.
ConfirmProblem == Asking("problem") /\ Killed /\ UNCHANGED picker

-----------------------------------------------------------------------------
(* The threads of Dispatchers.IO. *)

\* Fault: references that are set already are kept.
initializeJNIReferencesOnce(c) == references' = IF references = {} THEN {c} ELSE references

initializeJNIReferences(c) == references' = {c}

releaseJNIReferences == references' = {}

\* initializeJNIReferences first of all.  jniExtract then creates a directory
\* under an absent name, or fails to; jniBuild takes the one it was given.
Enter(c) ==
    /\ calls[c].pc = "launched"
    /\ \/ /\ calls' = [calls EXCEPT ![c].pc = "native"]
          /\ UNCHANGED present
       \/ /\ calls[c].op = "extract"
          /\ \E p \in Project \ present :
                /\ calls' = [calls EXCEPT ![c] =
                                [pc |-> "native", op |-> "extract", dir |-> {p}]]
                /\ present' = present \cup {p}
    /\ initializeJNIReferences(c)
    /\ UNCHANGED <<isABIKRunning, looper, dialogs, picker, callback, deletions, world>>

\* An extraction that failed removes a directory, most likely its own.
MayRemove(c) == \/ UNCHANGED present
                \/ calls[c].op = "extract" /\ \E p \in Project : present' = present \ {p}

\* The end of the native function, with releaseJNIReferences, or one of its
\* early returns, which leave the references as they are.
Release(c) == \/ MayRemove(c) /\ releaseJNIReferences
              \/ /\ calls[c].op = "extract" /\ calls[c].dir = {}
                 /\ UNCHANGED <<present, references>>

\* Fault: a call that failed returns without posting the reset.
LeaveSilently(c) ==
    /\ calls[c].pc = "native"
    /\ calls' = [calls EXCEPT ![c].pc = "returned"]
    /\ Post([kind |-> "reset", caller |-> c]) \/ UNCHANGED looper
    /\ Release(c)
    /\ UNCHANGED <<isABIKRunning, dialogs, picker, callback, deletions, world>>

\* The native function returns and the reset is posted.
Leave(c) ==
    /\ calls[c].pc = "native"
    /\ calls' = [calls EXCEPT ![c].pc = "returned"]
    /\ Post([kind |-> "reset", caller |-> c])
    /\ Release(c)
    /\ UNCHANGED <<isABIKRunning, dialogs, picker, callback, deletions, world>>

\* file.deleteRecursively() for one checked directory: it begins ...
DeleteBegin(c) ==
    /\ deletions[c].cur = {}
    /\ \E p \in deletions[c].todo :
          deletions' = [deletions EXCEPT ![c].cur = {p}, ![c].todo = @ \ {p}]
    /\ UNCHANGED <<isABIKRunning, looper, dialogs, picker, callback, calls, present, others>>

\* ... and ends.
DeleteEnd(c) ==
    /\ deletions[c].cur # {}
    /\ present' = present \ deletions[c].cur
    /\ deletions' = [deletions EXCEPT ![c].cur = {}]
    /\ UNCHANGED <<isABIKRunning, looper, dialogs, picker, callback, calls, others>>

\* Fault: the dialog is dismissed in the loop, which may have nothing to do.
DeleteDoneUnlessEmpty(c) ==
    /\ deletions[c].on /\ deletions[c].todo = {} /\ deletions[c].cur # {}
    /\ [kind |-> "dismiss", cleaner |-> c] \notin {looper[k] : k \in DOMAIN looper}
    /\ Post([kind |-> "dismiss", cleaner |-> c])
    /\ deletions' = [deletions EXCEPT ![c].cur = {}]
    /\ present' = present \ deletions[c].cur
    /\ UNCHANGED <<isABIKRunning, dialogs, picker, callback, calls, others>>

\* The whole list is through.
DeleteDone(c) ==
    /\ deletions[c].on /\ deletions[c].todo = {} /\ deletions[c].cur = {}
    /\ [kind |-> "dismiss", cleaner |-> c] \notin {looper[k] : k \in DOMAIN looper}
    /\ Post([kind |-> "dismiss", cleaner |-> c])
    /\ UNCHANGED <<isABIKRunning, dialogs, picker, callback, calls, deletions, present, others>>

-----------------------------------------------------------------------------
(* Android. *)

\* A configuration change the manifest does not list.  Bound: one at a time.
ConfigChange ==
    /\ world.recreates
    /\ \A k \in DOMAIN looper : looper[k].kind # "recreate"
    /\ Post([kind |-> "recreate"])
    /\ UNCHANGED <<isABIKRunning, dialogs, picker, callback, calls, deletions, present, others>>

\* A kill; a picker that is open stays and answers to the next process.
Kill == Killed /\ UNCHANGED picker

Handle == \/ TapExtract \/ TapBuild \/ TapClean \/ Select \/ SelectOrphan \/ Picked
          \/ Reset \/ Dismiss \/ Recreate
Answer == Cancel \/ ChooseProject \/ ChooseClean \/ ConfirmProblem
Work   == \/ \E c \in Caller : Enter(c) \/ Leave(c)
          \/ \E c \in Cleaner : DeleteBegin(c) \/ DeleteEnd(c) \/ DeleteDone(c)

Next == \/ Tap \/ PickerOpens \/ PickerCloses
        \/ Handle \/ Answer \/ Work
        \/ ConfigChange \/ Kill

\* The looper is served and every coroutine gets a thread of Dispatchers.IO;
\* neither the user nor Android owes anything.
Fairness == WF_vars(Handle) /\ (\A c \in Caller : WF_vars(Enter(c) \/ Leave(c)))
            /\ (\A c \in Cleaner : WF_vars(DeleteBegin(c) \/ DeleteEnd(c) \/ DeleteDone(c)))

Spec == Init /\ [][Next]_vars /\ Fairness

-----------------------------------------------------------------------------
(***************************************************************************)
(* What the flag is for.                                                   *)
(***************************************************************************)

Calling  == \E c \in Caller : calls[c].pc # "free"
Deleting == \E c \in Cleaner : deletions[c].on

Patient == ~ world.hasty
Stays   == ~ world.recreates

\* No native call and no deletion begins while another one is in progress.
BeginsAlone ==
    /\ \A c \in Caller : calls[c].pc = "free" /\ calls'[c].pc = "launched"
                         => ~ Calling /\ ~ Deleting
    /\ \A c \in Cleaner : ~ deletions[c].on /\ deletions'[c].on
                         => ~ Calling /\ ~ Deleting

\* "ABIK is currently working. Please wait." keeps two operations apart, as
\* long as the user waits and the activity stays: a picker, a list of projects
\* and a progress dialog each span several messages.
StartsAlone == [][Patient /\ Stays => BeginsAlone]_vars

\* The same of every user, as the message promises it.
NothingOverlaps == [][BeginsAlone]_vars

\* The project that is built is still there when its build begins, however
\* long ago the list was read.
BuildHasTarget ==
    [][ Patient /\ Stays =>
        \A c \in Caller : calls[c].pc = "launched" /\ calls'[c].pc = "native"
                          /\ calls[c].op = "build" => calls[c].dir \subseteq present ]_vars

\* While a native call is in progress the flag is set: the buttons refuse, and
\* the back gesture stays in the application.
MarkedWhileCalling == Patient /\ Calling => isABIKRunning

\* The dialog that ends in killProcess never ends a native call.
KillHarmless == Patient /\ (dialogs # <<>> /\ Top.kind = "problem") => ~ Calling

\* A native call logs through its own JNIEnv, from the first line to the last:
\* no other call has replaced or released the references it set.  A JNIEnv is
\* only valid on its own thread.
LogsThroughOwnEnv ==
    Patient /\ Stays => \A c \in Caller : calls[c].pc = "native" => references = {c}

\* The flag never outlives the calls: no "Please wait" with nothing to wait
\* for, whatever is tapped, recreated or killed.
FlagMeansCall == isABIKRunning => Calling

\* The user is not locked out for ever: neither by the flag ...
FlagClears == isABIKRunning ~> ~ isABIKRunning

\* ... nor behind the progress dialog that has no button.
InProgress   == \E k \in DOMAIN dialogs : dialogs[k].kind = "progress"
ProgressEnds == Patient /\ Stays /\ InProgress ~> ~ InProgress
=============================================================================
