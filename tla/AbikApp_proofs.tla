--------------------------- MODULE AbikApp_proofs ---------------------------
(***************************************************************************)
(* Proofs about AbikApp for any number of projects, taps and coroutines,   *)
(* for hasty and patient users, with and without recreated activities.     *)
(***************************************************************************)
EXTENDS AbikApp, FiniteSetTheorems, SequenceTheorems, TLAPS

\* One record per coroutine slot: all that FlagMeansCall needs of the types.
CallsOK == calls = [c \in Caller |-> [pc  |-> calls[c].pc, op |-> calls[c].op,
                                      dir |-> calls[c].dir]]

FInv == CallsOK /\ FlagMeansCall

\* Putting a call that is not free into a slot.
LEMMA SlotTaken ==
    ASSUME CallsOK, NEW c \in Caller, NEW pc, pc # "free", NEW op, NEW dir,
           calls' = [calls EXCEPT ![c] = [pc |-> pc, op |-> op, dir |-> dir]]
    PROVE  CallsOK' /\ FlagMeansCall'
<1>1. calls'[c].pc = pc /\ CallsOK'
  BY DEF CallsOK
<1> QED  BY <1>1 DEF FlagMeansCall, Calling

\* ABIKBridge.extract and build take a slot and mark it.
LEMMA LaunchTakes ==
    ASSUME CallsOK, NEW c \in Caller, NEW op, NEW dir, Launch(c, op, dir)
    PROVE  CallsOK' /\ FlagMeansCall'
<1>1. calls' = [calls EXCEPT ![c] = [pc |-> "launched", op |-> op, dir |-> dir]]
  BY DEF Launch
<1> QED  BY <1>1, SlotTaken

\* Where neither the flag nor the calls change, and where the flag is cleared.
LEMMA NothingChanged ==
    ASSUME FInv, UNCHANGED <<isABIKRunning, calls>>
    PROVE  FInv'
  BY DEF FInv, CallsOK, FlagMeansCall, Calling

\* The process that follows a kill has no calls and no mark.
LEMMA KilledClears == ASSUME Killed PROVE FInv'
  BY DEF Killed, Free, FInv, CallsOK, FlagMeansCall

\* Every message of the main thread keeps the invariant.
LEMMA HandleFInv == FInv /\ Handle => FInv'
<1> SUFFICES ASSUME FInv, Handle PROVE FInv'
  OBVIOUS
<1>i. CallsOK /\ FlagMeansCall
  BY DEF FInv
<1>1. CASE TapExtract \/ TapBuild \/ Recreate
  BY <1>1, NothingChanged DEF TapExtract, TapBuild, Recreate, Refused
<1>2. CASE TapClean
  <2>1. CASE Refused
    BY <1>2, <2>1, NothingChanged DEF TapClean, Refused
  <2>2. CASE isABIKRunning' = FALSE
    BY <1>2, <1>i, <2>2 DEF TapClean, FInv, CallsOK, FlagMeansCall
  <2> QED  BY <1>2, <2>1, <2>2 DEF TapClean
<1>3. CASE Select
  <2>1. CASE \E c \in Caller : Launch(c, "build", Head(looper).list)
    BY <1>i, <2>1, LaunchTakes DEF FInv
  <2>2. CASE UNCHANGED <<isABIKRunning, calls>>
    BY <2>2, NothingChanged
  <2> QED  BY <1>3, <2>1, <2>2 DEF Select
<1>4. CASE SelectOrphan
  BY <1>4, KilledClears DEF SelectOrphan
<1>5. CASE Picked
  <2>1. CASE \E c \in Caller : Launch(c, "extract", {})
    BY <1>i, <2>1, LaunchTakes DEF FInv
  <2>2. CASE UNCHANGED <<isABIKRunning, calls>>
    BY <2>2, NothingChanged
  <2> QED  BY <1>5, <2>1, <2>2 DEF Picked
<1>6. CASE Reset
  BY <1>6, <1>i DEF Reset, Free, FInv, CallsOK, FlagMeansCall
<1>7. CASE Dismiss
  BY <1>7, NothingChanged, KilledClears DEF Dismiss
<1> QED  BY <1>1, <1>2, <1>3, <1>4, <1>5, <1>6, <1>7 DEF Handle

\* So does every answer to a dialog.
LEMMA AnswerFInv == FInv /\ Answer => FInv'
<1> SUFFICES ASSUME FInv, Answer PROVE FInv'
  OBVIOUS
<1>i. CallsOK /\ FlagMeansCall
  BY DEF FInv
<1>1. CASE Cancel \/ ChooseClean
  BY <1>1, NothingChanged DEF Cancel, ChooseClean
<1>2. CASE ChooseProject
  <2>1. PICK p \in Top.list, c \in Caller : Launch(c, "build", {p})
    BY <1>2 DEF ChooseProject
  <2> QED  BY <1>i, <2>1, LaunchTakes DEF FInv
<1>3. CASE ConfirmProblem
  BY <1>3, KilledClears DEF ConfirmProblem
<1> QED  BY <1>1, <1>2, <1>3 DEF Answer

\* A call that enters or leaves the native function keeps its slot.
LEMMA WorkFInv == FInv /\ Work => FInv'
<1> SUFFICES ASSUME FInv, Work PROVE FInv'
  OBVIOUS
<1>i. CallsOK /\ FlagMeansCall
  BY DEF FInv
<1>1. ASSUME NEW c \in Caller, Enter(c) \/ Leave(c) PROVE FInv'
  <2>1. PICK pc \in {"native", "returned"}, dir \in {calls[c].dir} \cup {{p} : p \in Project} :
           calls' = [calls EXCEPT ![c] = [pc |-> pc, op |-> calls[c].op, dir |-> dir]]
    <3>1. calls[c] = [pc |-> calls[c].pc, op |-> calls[c].op, dir |-> calls[c].dir]
      BY <1>i DEF CallsOK
    <3>2. CASE calls' = [calls EXCEPT ![c].pc = "native"]
      <4>1. [calls[c] EXCEPT !.pc = "native"] =
               [pc |-> "native", op |-> calls[c].op, dir |-> calls[c].dir]
        BY <3>1
      <4>2. calls' = [calls EXCEPT ![c] = [calls[c] EXCEPT !.pc = "native"]]
        BY <3>2
      <4> QED  BY <4>1, <4>2
    <3>3. CASE calls[c].op = "extract" /\ \E p \in Project :
                  calls' = [calls EXCEPT ![c] =
                                [pc |-> "native", op |-> "extract", dir |-> {p}]]
      BY <3>3
    <3>4. CASE calls' = [calls EXCEPT ![c].pc = "returned"]
      <4>1. [calls[c] EXCEPT !.pc = "returned"] =
               [pc |-> "returned", op |-> calls[c].op, dir |-> calls[c].dir]
        BY <3>1
      <4>2. calls' = [calls EXCEPT ![c] = [calls[c] EXCEPT !.pc = "returned"]]
        BY <3>4
      <4> QED  BY <4>1, <4>2
    <3> QED  BY <1>1, <3>2, <3>3, <3>4 DEF Enter, Leave
  <2> QED  BY <1>i, <2>1, SlotTaken DEF FInv
<1>2. ASSUME NEW c \in Cleaner, DeleteBegin(c) \/ DeleteEnd(c) \/ DeleteDone(c) PROVE FInv'
  BY <1>2, NothingChanged DEF DeleteBegin, DeleteEnd, DeleteDone
<1> QED  BY <1>1, <1>2 DEF Work

\* isABIKRunning never outlives the native calls: whatever is tapped, picked,
\* recreated or killed, the buttons refuse only while there is something to
\* wait for.
THEOREM FlagNeverStuck == Spec => []FlagMeansCall
<1>1. Init => FInv
  BY DEF Init, Free, FInv, CallsOK, FlagMeansCall
<1>2. FInv /\ [Next]_vars => FInv'
  <2> SUFFICES ASSUME FInv, [Next]_vars PROVE FInv'
    OBVIOUS
  <2>1. CASE UNCHANGED vars
    BY <2>1, NothingChanged DEF vars
  <2>2. CASE Tap \/ PickerOpens \/ PickerCloses \/ ConfigChange
    BY <2>2, NothingChanged DEF Tap, PickerOpens, PickerCloses, ConfigChange
  <2>3. CASE Kill
    BY <2>3, KilledClears DEF Kill
  <2> QED  BY <2>1, <2>2, <2>3, HandleFInv, AnswerFInv, WorkFInv DEF Next
<1>3. FInv => FlagMeansCall
  BY DEF FInv
<1> QED  BY <1>1, <1>2, <1>3, PTL DEF Spec

-----------------------------------------------------------------------------
(***************************************************************************)
(* The inductive invariant of the other properties.                        *)
(***************************************************************************)

Taps == {"tapExtract", "tapBuild", "tapClean"}

\* A list or a document on its way to the handler that may start a call.
Pending == \E k \in DOMAIN looper : looper[k].kind \in {"select", "picked"}

\* What a picker is launched for, and what it answers with.
Asked  == {"tapExtract", "picked"}
Ask(m) == m.kind \in Asked

\* A picker in front is one of those launched, and the bound MaxPicker covers
\* what the taps and results in the queue stand for.
PickersOK == /\ picker.front => picker.n > 0
             /\ picker.n + Queued(Asked) <= MaxPicker

\* A reset is posted once for each call, and by the call that has returned.
ResetsOK ==
    /\ \A k \in DOMAIN looper :
          looper[k].kind = "reset" => calls[looper[k].caller].pc = "returned"
    /\ \A j, k \in DOMAIN looper :
          looper[j].kind = "reset" /\ looper[k].kind = "reset"
          /\ looper[j].caller = looper[k].caller => j = k

\* A patient user's taps lead to one thing at a time: a tap, a picker, a list
\* or a document in the queue, a dialog, a native call.  A tap can be queued
\* while a call is in progress, but then it was posted to an empty queue, and
\* is handled before the reset of that call.
OneThing ==
    /\ picker.n <= 1 /\ Len(dialogs) <= 1
    /\ \A k \in DOMAIN looper : looper[k].kind \in Taps =>
          k = 1 /\ picker.n = 0 /\ ~ Pending /\ dialogs = <<>>
    /\ \A j, k \in DOMAIN looper :
          looper[j].kind \in {"select", "picked"} /\ looper[k].kind \in {"select", "picked"}
          => j = k
    /\ \A c, d \in Caller : calls[c].pc # "free" /\ calls[d].pc # "free" => c = d
    /\ picker.n > 0 => ~ Pending /\ dialogs = <<>> /\ ~ Calling
    /\ Pending => dialogs = <<>> /\ ~ Calling
    /\ Calling => dialogs = <<>> /\ isABIKRunning
    /\ \A c \in Caller : calls[c].pc = "native" => references = {c}

\* As long as the activity stays, a deletion in progress shows its dialog, and
\* nobody deletes what somebody means to build.
Undisturbed ==
    /\ \A c \in Cleaner : deletions[c].on => dialogs = <<[kind |-> "progress", cleaner |-> c]>>
    /\ \A k \in DOMAIN looper :
          /\ looper[k].kind # "recreate"
          /\ looper[k].kind = "select" => looper[k].list \subseteq present
    /\ \A k \in DOMAIN dialogs :
          dialogs[k].kind = "project" => dialogs[k].list \subseteq present
    /\ \A c \in Caller :
          calls[c].pc = "launched" /\ calls[c].op = "build" => calls[c].dir \subseteq present

\* Nothing is left to delete where no deletion is in progress.
DeletionsOK == \A c \in Cleaner : deletions[c].on \/ deletions[c] = NoDeletion

AppInv == /\ TypeOK /\ PickersOK /\ ResetsOK /\ DeletionsOK
          /\ Patient => OneThing
          /\ Patient /\ Stays => Undisturbed

-----------------------------------------------------------------------------
(* The queue of the main thread. *)

\* A message is posted: it comes last.
LEMMA Posted ==
    ASSUME looper \in Seq(Message), NEW m \in Message, Post(m)
    PROVE  /\ looper' \in Seq(Message)
           /\ DOMAIN looper = 1 .. Len(looper) /\ DOMAIN looper' = 1 .. Len(looper) + 1
           /\ Len(looper) \in Nat
           /\ looper'[Len(looper) + 1] = m
           /\ \A k \in DOMAIN looper : looper'[k] = looper[k]
  BY DEF Post

\* The message at the head is handled: the others move up.
LEMMA Handled ==
    ASSUME looper \in Seq(Message), looper # <<>>, Done
    PROVE  /\ looper' \in Seq(Message) /\ looper[1] \in Message
           /\ Head(looper) = looper[1] /\ 1 \in DOMAIN looper
           /\ \A k \in DOMAIN looper' :
                 k + 1 \in DOMAIN looper /\ looper'[k] = looper[k + 1]
  BY DEF Done

\* The list of projects is posted while the tap that asked for it is handled.
LEMMA Exchanged ==
    ASSUME looper \in Seq(Message), looper # <<>>, NEW m \in Message,
           looper' = Append(Tail(looper), m)
    PROVE  /\ looper' \in Seq(Message) /\ looper[1] \in Message
           /\ Head(looper) = looper[1] /\ DOMAIN looper = 1 .. Len(looper) /\ Len(looper) \in Nat
           /\ DOMAIN looper' = DOMAIN looper /\ Len(looper) >= 1
           /\ looper'[Len(looper)] = m
           /\ \A k \in 1 .. Len(looper) - 1 : looper'[k] = looper[k + 1]
  OBVIOUS

\* A recreated activity leaves messages out and marks others, no more.
LEMMA Recreated ==
    ASSUME looper \in Seq(Message), Recreate
    PROVE  /\ looper # <<>> /\ looper' \in Seq(Message)
           /\ \E at \in [DOMAIN looper' -> DOMAIN looper] :
                 /\ \A j, k \in DOMAIN looper' : at[j] = at[k] => j = k
                 /\ \A k \in DOMAIN looper' :
                       /\ looper'[k] = Orphan(looper[at[k]])
                       /\ looper'[k].kind = looper[at[k]].kind
                       /\ looper[at[k]].kind \notin Taps
                       /\ looper[at[k]].kind = "reset" => looper'[k] = looper[at[k]]
                       /\ looper[at[k]].kind = "select" => looper'[k].list = looper[at[k]].list
<1> DEFINE Kept == {k \in 2 .. Len(looper) :
                       looper[k].kind \notin {"tapExtract", "tapBuild", "tapClean"}}
<1>1. looper # <<>>
  BY DEF Recreate, Handling
<1>2. PICK at \in Rising(Kept) : looper' = [i \in DOMAIN at |-> Orphan(looper[at[i]])]
  BY DEF Recreate
<1>3. IsFiniteSet(Kept) /\ Cardinality(Kept) \in Nat
  <2>1. IsFiniteSet(2 .. Len(looper)) /\ Kept \subseteq 2 .. Len(looper)
    BY FS_Interval
  <2> HIDE DEF Kept
  <2> QED  BY <2>1, FS_Subset, FS_CardinalityType
<1>4. /\ DOMAIN at = 1 .. Cardinality(Kept) /\ \A k \in DOMAIN at : at[k] \in Kept
      /\ \A i, j \in DOMAIN at : i < j => at[i] < at[j]
  BY <1>2 DEF Rising
<1>5. Kept \subseteq DOMAIN looper /\ \A k \in Kept : looper[k] \in Message /\ looper[k].kind \notin Taps /\ k \in Nat
  BY DEF Taps
<1>6. \A m \in Message : /\ Orphan(m) \in Message /\ Orphan(m).kind = m.kind
                         /\ m.kind # "select" => Orphan(m) = m
                         /\ m.kind = "select" => Orphan(m).list = m.list
  BY DEF Message, Orphan
<1>7. DOMAIN looper' = DOMAIN at /\ \A k \in DOMAIN at : looper'[k] = Orphan(looper[at[k]])
  BY <1>2
<1>8. looper' \in Seq(Message)
  <2>1. \A k \in DOMAIN at : Orphan(looper[at[k]]) \in Message
    BY <1>4, <1>5, <1>6
  <2>2. looper' \in [1 .. Cardinality(Kept) -> Message]
    BY <1>4, <1>7, <1>2, <2>1
  <2> QED  BY <1>3, <2>2, SeqDef
<1>9. at \in [DOMAIN looper' -> DOMAIN looper]
  BY <1>2, <1>4, <1>5, <1>7 DEF Rising
<1>10. \A j, k \in DOMAIN looper' : at[j] = at[k] => j = k
  BY <1>3, <1>4, <1>5, <1>7
<1> HIDE DEF Kept
<1>11. \A k \in DOMAIN looper' :
         /\ looper'[k] = Orphan(looper[at[k]])
         /\ looper'[k].kind = looper[at[k]].kind
         /\ looper[at[k]].kind \notin Taps
         /\ looper[at[k]].kind = "reset" => looper'[k] = looper[at[k]]
         /\ looper[at[k]].kind = "select" => looper'[k].list = looper[at[k]].list
  BY <1>4, <1>5, <1>6, <1>7
<1> QED  BY <1>1, <1>8, <1>9, <1>10, <1>11

-----------------------------------------------------------------------------
(* How many taps on the extract button and how many documents are queued. *)

LEMMA AskedType ==
    ASSUME looper \in Seq(Message)
    PROVE  IsFiniteSet({k \in DOMAIN looper : looper[k].kind \in Asked}) /\ Queued(Asked) \in Nat
<1>1. IsFiniteSet(DOMAIN looper)
  BY FS_Interval
<1>2. {k \in DOMAIN looper : looper[k].kind \in Asked} \in SUBSET DOMAIN looper
  OBVIOUS
<1> QED  BY <1>1, <1>2, FS_Subset, FS_CardinalityType DEF Queued

\* Of messages that were in the queue before, no more are asking than before,
\* and one less when the message at the head, which asked, is handled.
LEMMA AskedFewer ==
    ASSUME looper \in Seq(Message), looper' \in Seq(Message),
           NEW at \in [DOMAIN looper' -> DOMAIN looper],
           \A j, k \in DOMAIN looper' : at[j] = at[k] => j = k,
           \A k \in DOMAIN looper' : looper'[k].kind = looper[at[k]].kind
    PROVE  /\ Queued(Asked)' <= Queued(Asked) /\ Queued(Asked)' \in Nat
           /\ (1 \in DOMAIN looper /\ Ask(looper[1]) /\ \A k \in DOMAIN looper' : at[k] # 1)
              => Queued(Asked)' <= Queued(Asked) - 1
<1> DEFINE A == {k \in DOMAIN looper : looper[k].kind \in Asked}
           B == {k \in DOMAIN looper' : looper'[k].kind \in Asked}
           f == [k \in B |-> at[k]]
<1>1. IsFiniteSet(A) /\ Queued(Asked) = Cardinality(A) /\ Queued(Asked) \in Nat
  BY AskedType DEF Queued
<1>2. Queued(Asked)' = Cardinality(B)
  BY DEF Queued
<1>3. f \in [B -> A] /\ \A j, k \in B : f[j] = f[k] => j = k
  OBVIOUS
<1>4. (\A k \in DOMAIN looper' : at[k] # 1) => f \in [B -> A \ {1}]
  OBVIOUS
<1>5. (1 \in DOMAIN looper /\ Ask(looper[1])) => 1 \in A
  BY DEF Ask
<1> HIDE DEF A, B, f
<1>6. Cardinality(B) <= Cardinality(A) /\ Cardinality(B) \in Nat
  <2>1. f \in Injection(B, A)
    BY <1>3 DEF Injection, IsInjective
  <2> QED  BY <1>1, <2>1, FS_Injection, FS_CardinalityType
<1>7. ASSUME 1 \in A, f \in [B -> A \ {1}] PROVE Cardinality(B) <= Cardinality(A) - 1
  <2>1. f \in Injection(B, A \ {1})
    BY <1>3, <1>7 DEF Injection, IsInjective
  <2>2. IsFiniteSet(A \ {1}) /\ Cardinality(A \ {1}) = Cardinality(A) - 1
    BY <1>1, <1>7, FS_RemoveElement
  <2> QED  BY <2>1, <2>2, FS_Injection
<1> QED  BY <1>1, <1>2, <1>4, <1>5, <1>6, <1>7

LEMMA AskedPosted ==
    ASSUME looper \in Seq(Message), NEW m \in Message, Post(m)
    PROVE  /\ Queued(Asked)' \in Nat
           /\ Ask(m) => Queued(Asked)' = Queued(Asked) + 1
           /\ ~ Ask(m) => Queued(Asked)' = Queued(Asked)
<1> DEFINE A == {k \in DOMAIN looper : looper[k].kind \in Asked}
           B == {k \in DOMAIN looper' : looper'[k].kind \in Asked}
           n == Len(looper) + 1
<1>1. IsFiniteSet(A) /\ Queued(Asked) = Cardinality(A) /\ Queued(Asked)' = Cardinality(B)
  BY AskedType DEF Queued
<1>2. n \notin A
  BY Posted
<1>3. B = IF Ask(m) THEN A \cup {n} ELSE A
  BY Posted DEF Ask
<1> HIDE DEF A, B, n
<1>4. Cardinality(A) \in Nat
  BY <1>1, FS_CardinalityType
<1>5. Cardinality(A \cup {n}) = Cardinality(A) + 1
  BY <1>1, <1>2, FS_AddElement
<1> QED  BY <1>1, <1>3, <1>4, <1>5

LEMMA AskedHandled ==
    ASSUME looper \in Seq(Message), looper # <<>>, Done
    PROVE  /\ Queued(Asked)' <= Queued(Asked) /\ Queued(Asked)' \in Nat
           /\ Ask(Head(looper)) => Queued(Asked)' <= Queued(Asked) - 1
<1> DEFINE at == [k \in DOMAIN looper' |-> k + 1]
<1>1. /\ at \in [DOMAIN looper' -> DOMAIN looper] /\ looper' \in Seq(Message)
      /\ \A k \in DOMAIN looper' : at[k] = k + 1 /\ looper'[k].kind = looper[at[k]].kind
      /\ \A k \in DOMAIN looper' : k \in Nat /\ k >= 1
      /\ 1 \in DOMAIN looper /\ Head(looper) = looper[1]
  BY Handled
<1> HIDE DEF at
<1>2. /\ \A j, k \in DOMAIN looper' : at[j] = at[k] => j = k
      /\ \A k \in DOMAIN looper' : at[k] # 1
  BY <1>1
<1> QED  BY <1>1, <1>2, AskedFewer

LEMMA AskedExchanged ==
    ASSUME looper \in Seq(Message), looper # <<>>, NEW m \in Message, ~ Ask(m),
           looper' = Append(Tail(looper), m)
    PROVE  Queued(Asked)' <= Queued(Asked) /\ Queued(Asked)' \in Nat
<1> DEFINE B == {k \in DOMAIN looper' : looper'[k].kind \in Asked}
           A == {k \in DOMAIN looper : looper[k].kind \in Asked}
           f == [k \in B |-> k + 1]
<1>1. f \in [B -> A]
  BY Exchanged DEF Ask
<1>2. \A j, k \in B : f[j] = f[k] => j = k
  BY Exchanged
<1>3. IsFiniteSet(A) /\ Queued(Asked) = Cardinality(A) /\ Queued(Asked)' = Cardinality(B)
  BY AskedType DEF Queued
<1> HIDE DEF A, B, f
<1> QED  BY <1>1, <1>2, <1>3, FS_Injection, FS_CardinalityType DEF Injection, IsInjective

-----------------------------------------------------------------------------
(* Types, and the bound on pickers. *)

Typed == TypeOK /\ PickersOK

LEMMA Parts ==
    ASSUME Typed
    PROVE  /\ isABIKRunning \in BOOLEAN /\ looper \in Seq(Message) /\ dialogs \in Seq(Dialog)
           /\ picker \in [n : 0 .. MaxPicker, front : BOOLEAN]
           /\ picker = [n |-> picker.n, front |-> picker.front]
           /\ picker.n \in 0 .. MaxPicker /\ picker.front \in BOOLEAN /\ MaxPicker \in Nat
           /\ picker.front => picker.n > 0
           /\ picker.n + Queued(Asked) <= MaxPicker /\ Queued(Asked) \in Nat
           /\ callback \in BOOLEAN /\ calls \in [Caller -> Call]
           /\ deletions \in [Cleaner -> Deletion] /\ present \in SUBSET Project
           /\ references \in SUBSET Caller /\ Cardinality(references) <= 1 /\ world \in World
  BY AppAssumption, AskedType DEF Typed, TypeOK, PickersOK

\* The bound holds when neither a picker nor a message that asks is added.
LEMMA NoMorePickers ==
    ASSUME Typed, UNCHANGED picker, Queued(Asked)' <= Queued(Asked), Queued(Asked)' \in Nat
    PROVE  PickersOK' /\ picker' \in [n : 0 .. MaxPicker, front : BOOLEAN]
  BY Parts DEF PickersOK

LEMMA LaunchTypes ==
    ASSUME Typed, NEW c \in Caller, NEW op \in {"extract", "build"}, NEW dir \in SUBSET Project,
           Launch(c, op, dir)
    PROVE  calls' \in [Caller -> Call] /\ isABIKRunning' \in BOOLEAN
<1>1. [pc |-> "launched", op |-> op, dir |-> dir] \in Call
  BY DEF Call
<1> QED  BY <1>1, Parts DEF Launch

LEMMA KilledTypes == ASSUME Typed, Killed, UNCHANGED picker PROVE Typed'
<1>1. looper' = <<>> /\ looper' \in Seq(Message)
  BY DEF Killed
<1>2. Queued(Asked)' = 0
  <2>1. {k \in DOMAIN looper' : looper'[k].kind \in Asked} = {}
    BY <1>1
  <2> QED  BY <2>1, FS_EmptySet DEF Queued
<1>3. PickersOK' /\ picker' \in [n : 0 .. MaxPicker, front : BOOLEAN]
  BY <1>2, Parts, NoMorePickers
<1>4. calls' \in [Caller -> Call] /\ deletions' \in [Cleaner -> Deletion]
  BY DEF Killed, Call, Free, Deletion, NoDeletion
<1>5. references' \in SUBSET Caller /\ Cardinality(references') <= 1
  BY FS_EmptySet DEF Killed
<1>6. isABIKRunning' \in BOOLEAN /\ callback' \in BOOLEAN
  BY DEF Killed
<1>7. dialogs' \in Seq(Dialog)
  BY DEF Killed
<1>8. present' \in SUBSET Project /\ world' \in World
  BY Parts DEF Killed
<1> QED  BY <1>1, <1>3, <1>4, <1>5, <1>6, <1>7, <1>8 DEF Typed, TypeOK

LEMMA OpenedTypes ==
    ASSUME dialogs \in Seq(Dialog), NEW d \in Dialog, Open(d)
    PROVE  dialogs' \in Seq(Dialog)
  BY DEF Open

\* The main thread.
LEMMA HandleTypes == Typed /\ Handle => Typed'
<1> SUFFICES ASSUME Typed, Handle PROVE Typed'
  OBVIOUS
<1> USE DEF others, Handling
<1>p. /\ looper \in Seq(Message) /\ calls \in [Caller -> Call] /\ present \in SUBSET Project
      /\ dialogs \in Seq(Dialog) /\ isABIKRunning \in BOOLEAN /\ callback \in BOOLEAN
      /\ deletions \in [Cleaner -> Deletion]
  BY Parts
<1>h. looper # <<>> /\ Head(looper) \in Message
  BY <1>p DEF Handle, TapExtract, TapBuild, TapClean, Select, SelectOrphan, Picked, Reset, Dismiss,
              Recreate
<1>d. Done => /\ looper' \in Seq(Message) /\ Queued(Asked)' <= Queued(Asked)
              /\ Queued(Asked)' \in Nat
              /\ Ask(Head(looper)) => Queued(Asked)' <= Queued(Asked) - 1
  BY <1>p, <1>h, Handled, AskedHandled
<1>k. Done /\ UNCHANGED picker => PickersOK' /\ picker' \in [n : 0 .. MaxPicker, front : BOOLEAN]
  BY <1>d, NoMorePickers
<1>1. CASE TapExtract
  <2>1. looper' \in Seq(Message) /\ Queued(Asked)' \in Nat /\ Queued(Asked)' <= Queued(Asked) - 1
    BY <1>1, <1>d DEF TapExtract, Ask, Asked
  <2>2. PickersOK' /\ picker' \in [n : 0 .. MaxPicker, front : BOOLEAN]
    <3>1. CASE picker' = [picker EXCEPT !.n = @ + 1]
      <4>1. picker' = [n |-> picker.n + 1, front |-> picker.front]
        BY <3>1, Parts
      <4> QED  BY <2>1, <4>1, Parts DEF PickersOK
    <3>2. CASE UNCHANGED picker
      BY <1>1, <1>k, <3>2 DEF TapExtract
    <3> QED  BY <1>1, <3>1, <3>2 DEF TapExtract, Refused
  <2> QED  BY <1>1, <2>1, <2>2, Parts DEF TapExtract, Refused, Typed, TypeOK
<1>2. CASE TapBuild
  <2>1. looper' \in Seq(Message) /\ Queued(Asked)' \in Nat /\ Queued(Asked)' <= Queued(Asked)
    <3>1. CASE Done
      BY <1>d, <3>1
    <3>2. CASE looper' = Append(Tail(looper), [kind |-> "select", list |-> present, orphan |-> FALSE])
      <4> DEFINE m == [kind |-> "select", list |-> present, orphan |-> FALSE]
      <4>1. m \in Message /\ ~ Ask(m)
        BY <1>p DEF Message, Ask, Asked
      <4>2. looper' = Append(Tail(looper), m)
        BY <3>2
      <4> HIDE DEF m
      <4> QED  BY <1>p, <1>h, <4>1, <4>2, Exchanged, AskedExchanged
    <3> QED  BY <1>2, <3>1, <3>2 DEF TapBuild, Done
  <2> QED  BY <1>2, <2>1, NoMorePickers, Parts DEF TapBuild, Typed, TypeOK
<1>3. CASE TapClean
  <2>1. ASSUME Open([kind |-> "clean", list |-> present]) PROVE dialogs' \in Seq(Dialog)
    <3>1. [kind |-> "clean", list |-> present] \in Dialog
      BY <1>p DEF Dialog
    <3> QED  BY <1>p, <2>1, <3>1, OpenedTypes
  <2>2. Done /\ UNCHANGED picker /\ isABIKRunning' \in BOOLEAN /\ dialogs' \in Seq(Dialog)
    BY <1>3, <1>p, <2>1 DEF TapClean, Refused
  <2> QED  BY <1>3, <1>d, <1>k, <2>2, Parts DEF TapClean, Refused, Typed, TypeOK
<1>4. CASE Select
  <2>1. Head(looper).list \in SUBSET Project
    BY <1>4, <1>h DEF Select, Message
  <2>2. calls' \in [Caller -> Call] /\ isABIKRunning' \in BOOLEAN
    BY <1>4, <1>p, <2>1, LaunchTypes DEF Select
  <2>3. dialogs' \in Seq(Dialog)
    <3>1. [kind |-> "project", list |-> Head(looper).list] \in Dialog
      BY <2>1 DEF Dialog
    <3>2. dialogs' = dialogs \/ Open([kind |-> "project", list |-> Head(looper).list])
      BY <1>4 DEF Select
    <3> QED  BY <1>p, <3>1, <3>2, OpenedTypes
  <2>4. Done /\ UNCHANGED <<picker, callback, deletions, present, references, world>>
    BY <1>4 DEF Select
  <2>5. /\ looper' \in Seq(Message) /\ PickersOK' /\ picker' \in [n : 0 .. MaxPicker, front : BOOLEAN]
        /\ callback' \in BOOLEAN /\ deletions' \in [Cleaner -> Deletion]
        /\ present' \in SUBSET Project
        /\ references' \in SUBSET Caller /\ Cardinality(references') <= 1 /\ world' \in World
    BY <1>d, <1>k, <1>p, <2>4, Parts
  <2> QED  BY <2>2, <2>3, <2>5 DEF Typed, TypeOK
<1>5. CASE SelectOrphan
  BY <1>5, KilledTypes DEF SelectOrphan
<1>6. CASE Picked
  <2>1. calls' \in [Caller -> Call] /\ isABIKRunning' \in BOOLEAN
    BY <1>6, <1>p, LaunchTypes DEF Picked
  <2>2. dialogs' \in Seq(Dialog)
    <3>1. [kind |-> "problem"] \in Dialog
      BY DEF Dialog
    <3>2. dialogs' = dialogs \/ Open([kind |-> "problem"])
      BY <1>6 DEF Picked
    <3> QED  BY <1>p, <3>1, <3>2, OpenedTypes
  <2>3. Done /\ UNCHANGED <<picker, callback, deletions, present, references, world>>
    BY <1>6 DEF Picked
  <2>4. /\ looper' \in Seq(Message) /\ PickersOK' /\ picker' \in [n : 0 .. MaxPicker, front : BOOLEAN]
        /\ callback' \in BOOLEAN /\ deletions' \in [Cleaner -> Deletion]
        /\ present' \in SUBSET Project
        /\ references' \in SUBSET Caller /\ Cardinality(references') <= 1 /\ world' \in World
    BY <1>d, <1>k, <1>p, <2>3, Parts
  <2> QED  BY <2>1, <2>2, <2>4 DEF Typed, TypeOK
<1>7. CASE Reset
  <2>1. calls' \in [Caller -> Call]
    BY <1>7, <1>p DEF Reset, Call, Free
  <2> QED  BY <1>7, <1>d, <1>k, <2>1, Parts DEF Reset, Typed, TypeOK
<1>8. CASE Dismiss
  <2>1. CASE Killed /\ UNCHANGED picker
    BY <2>1, KilledTypes
  <2>2. CASE ~ Killed
    <3>1. PICK i \in DOMAIN dialogs :
             dialogs' = SubSeq(dialogs, 1, i - 1) \o SubSeq(dialogs, i + 1, Len(dialogs))
      BY <1>8, <2>2 DEF Dismiss
    <3>2. dialogs' \in Seq(Dialog)
      BY <1>p, <3>1
    <3>3. deletions' = [deletions EXCEPT ![Head(looper).cleaner] = NoDeletion]
      BY <1>8, <2>2 DEF Dismiss
    <3>4. deletions' \in [Cleaner -> Deletion]
      BY <1>p, <3>3 DEF Deletion, NoDeletion
    <3> QED  BY <1>8, <1>d, <1>k, <2>2, <3>2, <3>4, Parts DEF Dismiss, Typed, TypeOK
  <2> QED  BY <1>8, <2>1, <2>2 DEF Dismiss
<1>9. CASE Recreate
  <2>1. looper' \in Seq(Message) /\ Queued(Asked)' \in Nat /\ Queued(Asked)' <= Queued(Asked)
    BY <1>9, <1>p, Recreated, AskedFewer
  <2>2. dialogs' = <<>> /\ dialogs' \in Seq(Dialog)
    BY <1>9 DEF Recreate
  <2>3. callback' \in BOOLEAN
    BY <1>9 DEF Recreate
  <2> QED  BY <1>9, <2>1, <2>2, <2>3, NoMorePickers, Parts DEF Recreate, Typed, TypeOK
<1> QED  BY <1>1, <1>2, <1>3, <1>4, <1>5, <1>6, <1>7, <1>8, <1>9 DEF Handle

\* The dialogs.
LEMMA AnswerTypes == Typed /\ Answer => Typed'
<1> SUFFICES ASSUME Typed, Answer PROVE Typed'
  OBVIOUS
<1> USE DEF others
<1>p. /\ looper \in Seq(Message) /\ calls \in [Caller -> Call] /\ present \in SUBSET Project
      /\ dialogs \in Seq(Dialog) /\ deletions \in [Cleaner -> Deletion]
      /\ picker \in [n : 0 .. MaxPicker, front : BOOLEAN]
  BY Parts
<1>1. ASSUME Asking("project") \/ Asking("clean")
      PROVE  /\ Len(dialogs) \in Nat \ {0} /\ Top \in Dialog
             /\ SubSeq(dialogs, 1, Len(dialogs) - 1) \in Seq(Dialog)
             /\ Top.kind \in {"project", "clean"} /\ Top.list \in SUBSET Project
  <2>1. dialogs # <<>> /\ Len(dialogs) \in Nat \ {0}
    BY <1>p, <1>1 DEF Asking
  <2>2. Top \in Dialog /\ SubSeq(dialogs, 1, Len(dialogs) - 1) \in Seq(Dialog)
    BY <1>p, <2>1 DEF Top
  <2>3. Top.kind \in {"project", "clean"}
    BY <1>1 DEF Asking
  <2> QED  BY <2>1, <2>2, <2>3 DEF Dialog
<1>q. UNCHANGED <<looper, picker>> => PickersOK'
  BY DEF Typed, PickersOK, Queued
<1>2. CASE Cancel
  BY <1>1, <1>2, <1>q, Parts DEF Cancel, CloseTop, Typed, TypeOK
<1>3. CASE ChooseProject
  <2>1. PICK p \in Top.list, c \in Caller : Launch(c, "build", {p})
    BY <1>3 DEF ChooseProject
  <2>2. Asking("project") /\ dialogs' = SubSeq(dialogs, 1, Len(dialogs) - 1)
    BY <1>3 DEF ChooseProject, CloseTop
  <2>3. calls' \in [Caller -> Call] /\ isABIKRunning' \in BOOLEAN
    BY <1>1, <2>1, <2>2, LaunchTypes
  <2> QED  BY <1>1, <1>3, <1>q, <2>2, <2>3, Parts DEF ChooseProject, Typed, TypeOK
<1>4. CASE ChooseClean
  <2>1. PICK c \in Cleaner, checked \in SUBSET Top.list :
           /\ deletions' = [deletions EXCEPT ![c] = [on |-> TRUE, todo |-> checked, cur |-> {}]]
           /\ dialogs' = Append(SubSeq(dialogs, 1, Len(dialogs) - 1),
                                [kind |-> "progress", cleaner |-> c])
    BY <1>4 DEF ChooseClean
  <2>2. /\ SubSeq(dialogs, 1, Len(dialogs) - 1) \in Seq(Dialog)
        /\ Top.list \in SUBSET Project
    BY <1>1, <1>4 DEF ChooseClean
  <2>3. dialogs' \in Seq(Dialog)
    <3>1. [kind |-> "progress", cleaner |-> c] \in Dialog
      BY DEF Dialog
    <3> QED  BY <2>1, <2>2, <3>1
  <2>4. deletions' \in [Cleaner -> Deletion]
    <3>1. [on |-> TRUE, todo |-> checked, cur |-> {}] \in Deletion
      BY <2>1, <2>2 DEF Deletion
    <3> QED  BY <1>p, <2>1, <3>1
  <2> QED  BY <1>4, <1>q, <2>3, <2>4, Parts DEF ChooseClean, Typed, TypeOK
<1>5. CASE ConfirmProblem
  BY <1>5, KilledTypes DEF ConfirmProblem
<1> QED  BY <1>2, <1>3, <1>4, <1>5 DEF Answer

\* The coroutines.
LEMMA WorkTypes == Typed /\ Work => Typed'
<1> SUFFICES ASSUME Typed, Work PROVE Typed'
  OBVIOUS
<1> USE DEF others
<1>p. /\ looper \in Seq(Message) /\ calls \in [Caller -> Call] /\ present \in SUBSET Project
      /\ deletions \in [Cleaner -> Deletion] /\ references \in SUBSET Caller
      /\ Cardinality(references) <= 1
  BY Parts
<1>q. UNCHANGED <<looper, picker>> => PickersOK'
  BY DEF Typed, PickersOK, Queued
<1>r. ASSUME NEW m \in Message, ~ Ask(m), Post(m), UNCHANGED picker
      PROVE  PickersOK' /\ looper' \in Seq(Message)
  BY <1>p, <1>r, Posted, AskedPosted, Parts, NoMorePickers
<1>1. ASSUME NEW c \in Caller, Enter(c) PROVE Typed'
  <2>1. references' \in SUBSET Caller /\ Cardinality(references') <= 1
    BY <1>1, FS_Singleton DEF Enter, initializeJNIReferences
  <2>2. calls' \in [Caller -> Call] /\ present' \in SUBSET Project
    <3>1. CASE calls' = [calls EXCEPT ![c].pc = "native"] /\ UNCHANGED present
      <4>1. [calls[c] EXCEPT !.pc = "native"] \in Call
        BY <1>p DEF Call
      <4> QED  BY <1>p, <3>1, <4>1
    <3>2. ASSUME NEW p \in Project \ present,
                 calls' = [calls EXCEPT ![c] = [pc |-> "native", op |-> "extract", dir |-> {p}]],
                 present' = present \cup {p}
          PROVE  calls' \in [Caller -> Call] /\ present' \in SUBSET Project
      <4>1. [pc |-> "native", op |-> "extract", dir |-> {p}] \in Call
        BY DEF Call
      <4> QED  BY <1>p, <3>2, <4>1
    <3> QED  BY <1>1, <3>1, <3>2 DEF Enter
  <2> QED  BY <1>1, <1>q, <2>1, <2>2, Parts DEF Enter, Typed, TypeOK
<1>2. ASSUME NEW c \in Caller, Leave(c) PROVE Typed'
  <2>1. calls' \in [Caller -> Call]
    <3>1. [calls[c] EXCEPT !.pc = "returned"] \in Call
      BY <1>p DEF Call
    <3> QED  BY <1>2, <1>p, <3>1 DEF Leave
  <2>2. PickersOK' /\ looper' \in Seq(Message)
    <3>1. [kind |-> "reset", caller |-> c] \in Message /\ ~ Ask([kind |-> "reset", caller |-> c])
      BY DEF Message, Ask, Asked
    <3> QED  BY <1>2, <1>r, <3>1 DEF Leave
  <2>3. references' \in SUBSET Caller /\ Cardinality(references') <= 1
    <3>1. references' = {} \/ references' = references
      BY <1>2 DEF Leave, Release, releaseJNIReferences
    <3>2. {} \in SUBSET Caller /\ Cardinality({}) <= 1
      BY FS_EmptySet
    <3> QED  BY <1>p, <3>1, <3>2
  <2>4. present' \in SUBSET Project
    BY <1>2, <1>p DEF Leave, Release, MayRemove
  <2> QED  BY <1>2, <2>1, <2>2, <2>3, <2>4, Parts DEF Leave, Typed, TypeOK
<1>3. ASSUME NEW c \in Cleaner, DeleteBegin(c) PROVE Typed'
  <2>1. PICK p \in deletions[c].todo :
           deletions' = [deletions EXCEPT ![c].cur = {p}, ![c].todo = @ \ {p}]
    BY <1>3 DEF DeleteBegin
  <2>2. deletions' = [deletions EXCEPT ![c] =
                        [on |-> deletions[c].on, todo |-> deletions[c].todo \ {p}, cur |-> {p}]]
    BY <1>p, <2>1 DEF Deletion
  <2>3. [on |-> deletions[c].on, todo |-> deletions[c].todo \ {p}, cur |-> {p}] \in Deletion
    BY <1>p, <2>1 DEF Deletion
  <2> QED  BY <1>3, <1>q, <2>2, <2>3, Parts DEF DeleteBegin, Typed, TypeOK
<1>4. ASSUME NEW c \in Cleaner, DeleteEnd(c) PROVE Typed'
  <2>1. [deletions[c] EXCEPT !.cur = {}] \in Deletion
    BY <1>p DEF Deletion
  <2>2. deletions' \in [Cleaner -> Deletion] /\ present' \in SUBSET Project
    BY <1>4, <1>p, <2>1 DEF DeleteEnd
  <2> QED  BY <1>4, <1>q, <2>2, Parts DEF DeleteEnd, Typed, TypeOK
<1>5. ASSUME NEW c \in Cleaner, DeleteDone(c) PROVE Typed'
  <2>1. /\ [kind |-> "dismiss", cleaner |-> c] \in Message
        /\ ~ Ask([kind |-> "dismiss", cleaner |-> c])
    BY DEF Message, Ask, Asked
  <2> QED  BY <1>5, <1>r, <2>1, Parts DEF DeleteDone, Typed, TypeOK
<1> QED  BY <1>1, <1>2, <1>3, <1>4, <1>5 DEF Work

\* The user and Android.
LEMMA OutsideTypes ==
    Typed /\ (Tap \/ PickerOpens \/ PickerCloses \/ ConfigChange \/ Kill) => Typed'
<1> SUFFICES ASSUME Typed, Tap \/ PickerOpens \/ PickerCloses \/ ConfigChange \/ Kill PROVE Typed'
  OBVIOUS
<1> USE DEF others
<1>p. /\ looper \in Seq(Message)
      /\ picker \in [n : 0 .. MaxPicker, front : BOOLEAN]
      /\ picker = [n |-> picker.n, front |-> picker.front]
      /\ picker.n + Queued(Asked) <= MaxPicker /\ Queued(Asked) \in Nat
      /\ picker.n \in 0 .. MaxPicker /\ MaxPicker \in Nat /\ (picker.front => picker.n > 0)
  BY Parts
<1>1. CASE Tap
  <2>1. PICK k \in {"tapExtract", "tapBuild", "tapClean"} : Room(k) /\ Post([kind |-> k])
    BY <1>1 DEF Tap
  <2>2. [kind |-> k] \in Message /\ (Ask([kind |-> k]) <=> k = "tapExtract")
    BY DEF Message, Ask, Asked
  <2>3. k = "tapExtract" => picker.n + Queued(Asked) < MaxPicker
    BY <2>1 DEF Room, Asked
  <2>4. looper' \in Seq(Message)
    BY <1>p, <2>1, <2>2, Posted
  <2>5. PickersOK'
    <3>1. UNCHANGED picker
      BY <1>1 DEF Tap
    <3> QED  BY <1>p, <2>1, <2>2, <2>3, <3>1, AskedPosted DEF PickersOK
  <2> QED  BY <1>1, <2>4, <2>5, Parts DEF Tap, Typed, TypeOK
<1>2. CASE PickerOpens
  <2>1. picker' = [n |-> picker.n, front |-> TRUE]
    BY <1>2, <1>p DEF PickerOpens
  <2>2. picker'.n = picker.n /\ picker.n > 0 /\ picker' \in [n : 0 .. MaxPicker, front : BOOLEAN]
    BY <1>2, <1>p, <2>1 DEF PickerOpens
  <2>3. PickersOK'
    BY <1>2, <1>p, <2>2 DEF PickerOpens, PickersOK, Queued
  <2> QED  BY <1>2, <2>2, <2>3, Parts DEF PickerOpens, Typed, TypeOK
<1>3. CASE PickerCloses
  <2>1. picker' = [n |-> picker.n - 1, front |-> picker.n > 1] /\ picker.n > 0
    BY <1>3, <1>p DEF PickerCloses
  <2>2. /\ picker'.n = picker.n - 1 /\ (picker'.front => picker.n > 1)
        /\ picker' \in [n : 0 .. MaxPicker, front : BOOLEAN]
    <3>1. \A b \in BOOLEAN : [n |-> picker.n - 1, front |-> b] \in [n : 0 .. MaxPicker, front : BOOLEAN]
      BY <1>p, <2>1
    <3>2. (picker.n > 1) \in BOOLEAN
      OBVIOUS
    <3>3. picker'.n = picker.n - 1 /\ picker'.front = (picker.n > 1)
      BY <2>1
    <3> QED  BY <2>1, <3>1, <3>2, <3>3
  <2>3. looper' \in Seq(Message) /\ Queued(Asked)' <= Queued(Asked) + 1 /\ Queued(Asked)' \in Nat
    <3>1. CASE UNCHANGED looper
      BY <1>p, <3>1 DEF Queued
    <3>2. CASE Post([kind |-> "picked"])
      <4>1. [kind |-> "picked"] \in Message
        BY DEF Message
      <4> QED  BY <1>p, <3>2, <4>1, Posted, AskedPosted
    <3> QED  BY <1>3, <3>1, <3>2 DEF PickerCloses
  <2>4. PickersOK'
    BY <1>p, <2>1, <2>2, <2>3 DEF PickersOK
  <2> QED  BY <1>3, <2>2, <2>3, <2>4, Parts DEF PickerCloses, Typed, TypeOK
<1>4. CASE ConfigChange
  <2>1. /\ [kind |-> "recreate"] \in Message /\ ~ Ask([kind |-> "recreate"])
        /\ Post([kind |-> "recreate"]) /\ UNCHANGED picker
    BY <1>4 DEF ConfigChange, Message, Ask, Asked
  <2>2. looper' \in Seq(Message) /\ PickersOK'
    BY <1>p, <2>1, Posted, AskedPosted, NoMorePickers
  <2> QED  BY <1>4, <2>2, Parts DEF ConfigChange, Typed, TypeOK
<1>5. CASE Kill
  BY <1>5, KilledTypes DEF Kill
<1> QED  BY <1>1, <1>2, <1>3, <1>4, <1>5

-----------------------------------------------------------------------------
(* Each reset belongs to a call that has returned. *)

\* The resets of the queue were there before, and their calls stay returned.
LEMMA ResetsMove ==
    ASSUME ResetsOK, looper' \in Seq(Message), NEW at,
           \A k \in DOMAIN looper' : looper'[k].kind = "reset" =>
               at[k] \in DOMAIN looper /\ looper'[k] = looper[at[k]],
           \A j, k \in DOMAIN looper' : at[j] = at[k] => j = k,
           \A c \in Caller : calls[c].pc = "returned" => calls'[c].pc = "returned"
    PROVE  ResetsOK'
<1>1. \A k \in DOMAIN looper' : looper'[k].kind = "reset" => looper'[k].caller \in Caller
  BY DEF Message
<1> QED  BY <1>1 DEF ResetsOK

LEMMA ResetsKept ==
    ASSUME Typed, ResetsOK,
           \/ looper # <<>> /\ Done
           \/ UNCHANGED looper
           \/ \E m \in Message : m.kind # "reset" /\ Post(m),
           \A c \in Caller : calls[c].pc = "returned" => calls'[c].pc = "returned"
    PROVE  ResetsOK'
<1>p. looper \in Seq(Message)
  BY Parts
<1>1. CASE looper # <<>> /\ Done
  <2> DEFINE at == [k \in DOMAIN looper' |-> k + 1]
  <2>1. looper' \in Seq(Message) /\ \A k \in DOMAIN looper' : at[k] \in DOMAIN looper /\ looper'[k] = looper[at[k]]
    BY <1>p, <1>1, Handled
  <2>2. \A j, k \in DOMAIN looper' : at[j] = at[k] => j = k
    BY <2>1
  <2> HIDE DEF at
  <2> QED  BY <2>1, <2>2, ResetsMove
<1>2. CASE UNCHANGED looper
  <2> DEFINE at == [k \in DOMAIN looper' |-> k]
  <2>1. looper' \in Seq(Message) /\ \A k \in DOMAIN looper' : at[k] \in DOMAIN looper /\ looper'[k] = looper[at[k]]
    BY <1>p, <1>2
  <2>2. \A j, k \in DOMAIN looper' : at[j] = at[k] => j = k
    OBVIOUS
  <2> HIDE DEF at
  <2> QED  BY <2>1, <2>2, ResetsMove
<1>3. ASSUME NEW m \in Message, m.kind # "reset", Post(m) PROVE ResetsOK'
  <2> DEFINE at == [k \in DOMAIN looper' |-> k]
  <2>1. looper' \in Seq(Message) /\ \A k \in DOMAIN looper' : looper'[k].kind = "reset" =>
                                        at[k] \in DOMAIN looper /\ looper'[k] = looper[at[k]]
    BY <1>p, <1>3, Posted
  <2>2. \A j, k \in DOMAIN looper' : at[j] = at[k] => j = k
    OBVIOUS
  <2> HIDE DEF at
  <2> QED  BY <2>1, <2>2, ResetsMove
<1> QED  BY <1>1, <1>2, <1>3

LEMMA LaunchKeepsReturned ==
    ASSUME Typed, NEW c \in Caller, NEW op, NEW dir, Launch(c, op, dir)
    PROVE  /\ \A d \in Caller : calls[d].pc = "returned" => calls'[d].pc = "returned"
           /\ calls[c].pc = "free" /\ isABIKRunning' = TRUE
           /\ calls'[c] = [pc |-> "launched", op |-> op, dir |-> dir]
           /\ \A d \in Caller : d # c => calls'[d] = calls[d]
  BY Parts DEF Launch

LEMMA KilledResets == ASSUME Killed PROVE ResetsOK'
  BY DEF Killed, ResetsOK

LEMMA HandleResets == Typed /\ ResetsOK /\ Handle => ResetsOK'
<1> SUFFICES ASSUME Typed, ResetsOK, Handle PROVE ResetsOK'
  OBVIOUS
<1> USE DEF others, Handling
<1>p. looper \in Seq(Message) /\ calls \in [Caller -> Call]
  BY Parts
<1>1. CASE TapExtract \/ TapClean
  BY <1>1, ResetsKept DEF TapExtract, TapClean
<1>2. CASE TapBuild
  <2>1. CASE Done
    BY <1>2, <2>1, ResetsKept DEF TapBuild
  <2>2. CASE looper' = Append(Tail(looper), [kind |-> "select", list |-> present, orphan |-> FALSE])
    <3> DEFINE m  == [kind |-> "select", list |-> present, orphan |-> FALSE]
               at == [k \in DOMAIN looper' |-> k + 1]
    <3>1. m \in Message /\ m.kind = "select" /\ looper # <<>> /\ UNCHANGED calls
      BY <1>2, Parts DEF Message, TapBuild
    <3>2. looper' = Append(Tail(looper), m)
      BY <2>2
    <3> HIDE DEF m
    <3>3. looper' \in Seq(Message) /\ \A k \in DOMAIN looper' : looper'[k].kind = "reset" =>
                                          at[k] \in DOMAIN looper /\ looper'[k] = looper[at[k]]
      BY <1>p, <3>1, <3>2, Exchanged
    <3>4. \A j, k \in DOMAIN looper' : at[j] = at[k] => j = k
      BY <3>3
    <3> HIDE DEF at
    <3> QED  BY <3>1, <3>3, <3>4, ResetsMove
  <2> QED  BY <1>2, <2>1, <2>2 DEF TapBuild, Done
<1>3. CASE Select
  BY <1>3, ResetsKept, LaunchKeepsReturned DEF Select
<1>4. CASE SelectOrphan
  BY <1>4, KilledResets DEF SelectOrphan
<1>5. CASE Picked
  BY <1>5, ResetsKept, LaunchKeepsReturned DEF Picked
<1>6. CASE Reset
  <2>1. /\ looper # <<>> /\ Done /\ looper[1].kind = "reset" /\ Head(looper) = looper[1]
        /\ 1 \in DOMAIN looper /\ looper' \in Seq(Message)
        /\ \A k \in DOMAIN looper' : k + 1 \in DOMAIN looper /\ looper'[k] = looper[k + 1] /\ k >= 1
    BY <1>6, <1>p, Handled DEF Reset
  <2>2. /\ calls'[looper[1].caller].pc # "returned"
        /\ \A c \in Caller : c # looper[1].caller => calls'[c] = calls[c]
    <3>1. calls' = [calls EXCEPT ![looper[1].caller] = Free] /\ looper[1].caller \in Caller
      BY <1>6, <1>p, <2>1 DEF Reset, Message
    <3> QED  BY <1>p, <3>1 DEF Free
  <2>3. \A k \in DOMAIN looper' : looper'[k].kind = "reset" =>
           looper'[k].caller # looper[1].caller /\ looper'[k].caller \in Caller
    <3> SUFFICES ASSUME NEW k \in DOMAIN looper', looper'[k].kind = "reset"
                 PROVE  looper'[k].caller # looper[1].caller /\ looper'[k].caller \in Caller
      OBVIOUS
    <3>1. k + 1 \in DOMAIN looper /\ looper'[k] = looper[k + 1] /\ k + 1 # 1
      BY <2>1
    <3>2. looper'[k] \in Message
      BY <2>1
    <3> QED  BY <2>1, <3>1, <3>2 DEF ResetsOK, Message
  <2> QED  BY <2>1, <2>2, <2>3 DEF ResetsOK
<1>7. CASE Dismiss
  <2>1. CASE Killed
    BY <2>1, KilledResets
  <2>2. CASE ~ Killed
    BY <1>7, <2>2, ResetsKept DEF Dismiss
  <2> QED  BY <2>1, <2>2
<1>8. CASE Recreate
  <2>1. PICK at \in [DOMAIN looper' -> DOMAIN looper] :
           /\ \A j, k \in DOMAIN looper' : at[j] = at[k] => j = k
           /\ \A k \in DOMAIN looper' :
                 /\ looper'[k].kind = looper[at[k]].kind
                 /\ looper[at[k]].kind = "reset" => looper'[k] = looper[at[k]]
    BY <1>8, <1>p, Recreated
  <2>2. looper' \in Seq(Message) /\ UNCHANGED calls
    BY <1>8, <1>p, Recreated DEF Recreate
  <2>3. \A k \in DOMAIN looper' : looper'[k].kind = "reset" =>
           at[k] \in DOMAIN looper /\ looper'[k] = looper[at[k]]
    BY <2>1
  <2> QED  BY <2>1, <2>2, <2>3, ResetsMove
<1> QED  BY <1>1, <1>2, <1>3, <1>4, <1>5, <1>6, <1>7, <1>8 DEF Handle

LEMMA OtherResets == Typed /\ ResetsOK /\ [Next]_vars /\ ~ Handle => ResetsOK'
<1> SUFFICES ASSUME Typed, ResetsOK, [Next]_vars, ~ Handle PROVE ResetsOK'
  OBVIOUS
<1> USE DEF others
<1>p. looper \in Seq(Message) /\ calls \in [Caller -> Call]
  BY Parts
<1>1. CASE Kill \/ ConfirmProblem
  BY <1>1, KilledResets DEF Kill, ConfirmProblem
<1>2. CASE Tap \/ PickerCloses \/ ConfigChange
  <2>1. /\ [kind |-> "picked"] \in Message /\ [kind |-> "recreate"] \in Message
        /\ \A k \in {"tapExtract", "tapBuild", "tapClean"} : [kind |-> k] \in Message
    BY DEF Message
  <2>2. UNCHANGED calls
    BY <1>2 DEF Tap, PickerCloses, ConfigChange
  <2>3. UNCHANGED looper \/ \E m \in Message : m.kind # "reset" /\ Post(m)
    BY <1>2, <2>1 DEF Tap, PickerCloses, ConfigChange
  <2> QED  BY <2>2, <2>3, ResetsKept
<1>3. CASE PickerOpens \/ Cancel \/ ChooseClean \/ UNCHANGED vars
  BY <1>3, ResetsKept DEF PickerOpens, Cancel, ChooseClean, vars
<1>4. CASE ChooseProject
  BY <1>4, ResetsKept, LaunchKeepsReturned DEF ChooseProject
<1>5. ASSUME NEW c \in Caller, Enter(c) PROVE ResetsOK'
  <2>1. \A d \in Caller : calls[d].pc = "returned" => calls'[d].pc = "returned"
    BY <1>5, <1>p DEF Enter
  <2> QED  BY <1>5, <2>1, ResetsKept DEF Enter
<1>6. ASSUME NEW c \in Caller, Leave(c) PROVE ResetsOK'
  <2> DEFINE m == [kind |-> "reset", caller |-> c]
  <2>1. m \in Message /\ m.kind = "reset" /\ m.caller = c /\ Post(m)
    BY <1>6 DEF Message, Leave
  <2> HIDE DEF m
  <2>2. /\ calls[c].pc = "native" /\ calls'[c].pc = "returned"
        /\ \A d \in Caller : d # c => calls'[d] = calls[d]
    BY <1>6, <1>p DEF Leave, Call
  <2>3. \A k \in DOMAIN looper : looper[k].kind = "reset" => looper[k].caller \in Caller \ {c}
    BY <1>p, <2>2 DEF ResetsOK, Message
  <2>4. /\ DOMAIN looper' = 1 .. Len(looper) + 1 /\ DOMAIN looper = 1 .. Len(looper)
        /\ Len(looper) \in Nat
        /\ looper'[Len(looper) + 1] = m /\ \A k \in DOMAIN looper : looper'[k] = looper[k]
    BY <1>p, <2>1, Posted
  <2>5. \A k \in DOMAIN looper' : k = Len(looper) + 1 \/ k \in DOMAIN looper
    BY <2>4
  <2> QED  BY <2>1, <2>2, <2>3, <2>4, <2>5 DEF ResetsOK
<1>7. ASSUME NEW c \in Cleaner, DeleteBegin(c) \/ DeleteEnd(c) \/ DeleteDone(c) PROVE ResetsOK'
  <2>1. [kind |-> "dismiss", cleaner |-> c] \in Message
    BY DEF Message
  <2> QED  BY <1>7, <2>1, ResetsKept DEF DeleteBegin, DeleteEnd, DeleteDone
<1> QED  BY <1>1, <1>2, <1>3, <1>4, <1>5, <1>6, <1>7 DEF Next, Answer, Work

\* Nothing is left to delete where no deletion is in progress.
LEMMA DeletionsStep == Typed /\ DeletionsOK /\ [Next]_vars => DeletionsOK'
<1> SUFFICES ASSUME Typed, DeletionsOK, [Next]_vars PROVE DeletionsOK'
  OBVIOUS
<1> USE DEF others
<1>p. deletions \in [Cleaner -> Deletion]
  BY Parts
<1>1. CASE UNCHANGED deletions
  BY <1>1 DEF DeletionsOK
<1>2. CASE Killed
  BY <1>2 DEF Killed, DeletionsOK
<1>3. CASE Dismiss /\ ~ Killed
  BY <1>3, <1>p DEF Dismiss, DeletionsOK
<1>4. CASE ChooseClean
  BY <1>4, <1>p DEF ChooseClean, DeletionsOK
<1>5. ASSUME NEW c \in Cleaner, DeleteBegin(c) \/ DeleteEnd(c) PROVE DeletionsOK'
  <2>1. deletions[c].on
    <3>1. deletions[c].cur # {} \/ deletions[c].todo # {}
      BY <1>5 DEF DeleteBegin, DeleteEnd
    <3>2. deletions[c] # NoDeletion
      BY <3>1 DEF NoDeletion
    <3> QED  BY <3>2 DEF DeletionsOK
  <2>2. deletions'[c].on /\ \A d \in Cleaner : d # c => deletions'[d] = deletions[d]
    BY <1>5, <1>p, <2>1 DEF DeleteBegin, DeleteEnd, Deletion
  <2> QED  BY <2>2 DEF DeletionsOK
<1>6. UNCHANGED deletions \/ Killed \/ Dismiss \/ ChooseClean
      \/ \E c \in Cleaner : DeleteBegin(c) \/ DeleteEnd(c)
  BY DEF Next, vars, Tap, PickerOpens, PickerCloses, Handle, TapExtract, TapBuild, TapClean,
         Select, SelectOrphan, Picked, Reset, Recreate, Answer, Cancel, ChooseProject,
         ConfirmProblem, Work, Enter, Leave, DeleteDone, ConfigChange, Kill
<1> QED  BY <1>1, <1>2, <1>3, <1>4, <1>5, <1>6

-----------------------------------------------------------------------------
(* A patient user's taps lead to one thing at a time. *)

\* The dialogs of a patient user, one at most.
LEMMA OneDialog ==
    ASSUME Typed, Len(dialogs) <= 1, dialogs # <<>>
    PROVE  /\ Len(dialogs) = 1 /\ Top = dialogs[1] /\ dialogs = <<Top>>
           /\ SubSeq(dialogs, 1, Len(dialogs) - 1) = <<>>
           /\ \A k \in DOMAIN dialogs : SubSeq(dialogs, 1, k - 1)
                                        \o SubSeq(dialogs, k + 1, Len(dialogs)) = <<>>
<1>1. dialogs \in Seq(Dialog) /\ Len(dialogs) = 1
  <2>1. dialogs \in Seq(Dialog)
    BY Parts
  <2>2. Len(dialogs) \in Nat \ {0}
    BY <2>1, EmptySeq
  <2>3. \A n \in Nat \ {0} : n <= 1 => n = 1
    OBVIOUS
  <2> QED  BY <2>1, <2>2, <2>3
<1>2. Top = dialogs[1] /\ dialogs = <<Top>>
  BY <1>1 DEF Top
<1>3. SubSeq(dialogs, 1, 0) = <<>> /\ SubSeq(dialogs, 2, 1) = <<>>
  BY SubSeqEmpty
<1>4. \A k \in DOMAIN dialogs : k = 1
  BY <1>1
<1> QED  BY <1>1, <1>2, <1>3, <1>4

\* What is queued when a tap of a patient user is handled: nothing that starts
\* a call, and neither a picker nor a dialog is open.
LEMMA TapAlone ==
    ASSUME Typed, OneThing, looper # <<>>, Head(looper).kind \in Taps
    PROVE  /\ picker.n = 0 /\ ~ Pending /\ dialogs = <<>>
           /\ \A k \in DOMAIN looper : k # 1 =>
                 looper[k].kind \notin Taps /\ looper[k].kind \notin {"select", "picked"}
<1>1. 1 \in DOMAIN looper /\ Head(looper) = looper[1]
  BY Parts
<1> QED  BY <1>1 DEF OneThing, Pending

\* The same for a list or a document.
LEMMA PendingAlone ==
    ASSUME Typed, OneThing, looper # <<>>, Head(looper).kind \in {"select", "picked"}
    PROVE  /\ picker.n = 0 /\ ~ Calling /\ dialogs = <<>>
           /\ \A k \in DOMAIN looper : k # 1 =>
                 looper[k].kind \notin Taps /\ looper[k].kind \notin {"select", "picked"}
<1>1. 1 \in DOMAIN looper /\ Head(looper) = looper[1] /\ picker.n \in Nat
  BY Parts
<1>2. Pending
  BY <1>1 DEF Pending
<1> QED  BY <1>1, <1>2 DEF OneThing

\* A queue in which nothing is left that starts a call.
Quiet == \A k \in DOMAIN looper :
            looper[k].kind \notin Taps /\ looper[k].kind \notin {"select", "picked"}

\* One call in a quiet system, or none.
LEMMA QuietCall ==
    ASSUME Quiet', picker'.n = 0, dialogs' = <<>>,
           \/ \A c \in Caller : calls'[c].pc = "free"
           \/ /\ isABIKRunning' = TRUE
              /\ \E c \in Caller : /\ \A d \in Caller : d # c => calls'[d].pc = "free"
                                   /\ calls'[c].pc = "native" => references' = {c}
    PROVE  OneThing'
<1>1. Len(dialogs') = 0
  OBVIOUS
<1> QED  BY <1>1 DEF OneThing, Quiet, Pending, Calling

\* No call, and one dialog or one picker in a quiet system.
LEMMA QuietWindow ==
    ASSUME Quiet', \A c \in Caller : calls'[c].pc = "free",
           \/ picker'.n \in {0, 1} /\ dialogs' = <<>>
           \/ picker'.n = 0 /\ Len(dialogs') = 1
    PROVE  OneThing'
<1>1. Len(<<>>) = 0
  OBVIOUS
<1>2. Len(dialogs') <= 1 /\ picker'.n <= 1 /\ (picker'.n > 0 => dialogs' = <<>>)
  <2>1. CASE picker'.n \in {0, 1} /\ dialogs' = <<>>
    BY <1>1, <2>1
  <2>2. CASE picker'.n = 0 /\ Len(dialogs') = 1
    BY <2>2
  <2> QED  BY <2>1, <2>2
<1> QED  BY <1>2 DEF OneThing, Quiet, Pending, Calling

\* Nothing that starts a call comes to the queue, and all else stays.
LEMMA OneThingMoves ==
    ASSUME OneThing, UNCHANGED <<dialogs, calls, isABIKRunning, references>>,
           picker'.n = picker.n, NEW at,
           \A k \in DOMAIN looper' :
               looper'[k].kind \in Taps \/ looper'[k].kind \in {"select", "picked"} =>
                   /\ at[k] \in DOMAIN looper /\ looper'[k].kind = looper[at[k]].kind
                   /\ at[k] = 1 => k = 1,
           \A j, k \in DOMAIN looper' : at[j] = at[k] => j = k
    PROVE  OneThing'
<1>1. Pending' => Pending
  BY DEF Pending
<1>2. Calling' <=> Calling
  BY DEF Calling
<1> QED  BY <1>1, <1>2 DEF OneThing

LEMMA OneThingKept ==
    ASSUME Typed, OneThing, UNCHANGED <<dialogs, calls, isABIKRunning, references>>,
           picker'.n = picker.n,
           \/ looper # <<>> /\ Done
           \/ UNCHANGED looper
           \/ \E m \in Message : /\ Post(m) /\ m.kind \notin Taps
                                 /\ m.kind \notin {"select", "picked"}
    PROVE  OneThing'
<1>p. looper \in Seq(Message)
  BY Parts
<1>1. CASE looper # <<>> /\ Done
  <2> DEFINE at == [k \in DOMAIN looper' |-> k + 1]
  <2>1. \A k \in DOMAIN looper' : /\ at[k] \in DOMAIN looper /\ looper'[k] = looper[at[k]]
                                  /\ at[k] = k + 1 /\ k \in Nat \ {0}
    BY <1>p, <1>1, Handled
  <2> HIDE DEF at
  <2>2. \A j, k \in DOMAIN looper' : at[j] = at[k] => j = k
    BY <2>1
  <2>3. \A k \in DOMAIN looper' : /\ at[k] \in DOMAIN looper
                                  /\ looper'[k].kind = looper[at[k]].kind
                                  /\ at[k] = 1 => k = 1
    BY <2>1
  <2> QED  BY <2>2, <2>3, OneThingMoves
<1>2. CASE UNCHANGED looper
  <2> DEFINE at == [k \in DOMAIN looper' |-> k]
  <2>1. /\ \A k \in DOMAIN looper' : at[k] \in DOMAIN looper /\ looper'[k] = looper[at[k]] /\ at[k] = k
        /\ \A j, k \in DOMAIN looper' : at[j] = at[k] => j = k
    BY <1>2
  <2> HIDE DEF at
  <2> QED  BY <2>1, OneThingMoves
<1>3. ASSUME NEW m \in Message, Post(m), m.kind \notin Taps, m.kind \notin {"select", "picked"}
      PROVE  OneThing'
  <2> DEFINE at == [k \in DOMAIN looper' |-> k]
  <2>1. \A k \in DOMAIN looper' :
           looper'[k].kind \in Taps \/ looper'[k].kind \in {"select", "picked"} =>
              at[k] \in DOMAIN looper /\ looper'[k] = looper[at[k]]
    BY <1>p, <1>3, Posted
  <2>2. \A k \in DOMAIN looper' : at[k] = k
    OBVIOUS
  <2> HIDE DEF at
  <2> QED  BY <2>1, <2>2, OneThingMoves
<1> QED  BY <1>1, <1>2, <1>3

LEMMA KilledOneThing ==
    ASSUME Typed, OneThing, Killed, UNCHANGED picker
    PROVE  OneThing'
<1>1. Quiet' /\ dialogs' = <<>> /\ \A c \in Caller : calls'[c].pc = "free"
  BY DEF Killed, Quiet, Free
<1>2. picker'.n \in {0, 1}
  BY Parts DEF OneThing
<1> QED  BY <1>1, <1>2, QuietWindow

LEMMA HandleOneThing == Typed /\ ResetsOK /\ OneThing /\ Handle => OneThing'
<1> SUFFICES ASSUME Typed, ResetsOK, OneThing, Handle PROVE OneThing'
  OBVIOUS
<1> USE DEF others, Handling
<1>p. /\ looper \in Seq(Message) /\ calls \in [Caller -> Call] /\ picker.n \in Nat
      /\ picker = [n |-> picker.n, front |-> picker.front]
  BY Parts
<1>m. ASSUME ~ isABIKRunning PROVE \A c \in Caller : calls[c].pc = "free"
  BY <1>m DEF OneThing, Calling
<1>q. ASSUME looper # <<>>, Done,
             \A k \in DOMAIN looper : k # 1 =>
                 looper[k].kind \notin Taps /\ looper[k].kind \notin {"select", "picked"}
      PROVE  Quiet'
  BY <1>p, <1>q, Handled DEF Quiet
<1>k. ASSUME Killed, UNCHANGED picker PROVE OneThing'
  BY <1>k, KilledOneThing
<1>l. ASSUME NEW c \in Caller, NEW op, NEW dir, Launch(c, op, dir), ~ Calling,
             Quiet', picker'.n = 0, dialogs' = <<>>
      PROVE  OneThing'
  <2>1. /\ isABIKRunning' = TRUE /\ calls'[c].pc = "launched"
        /\ \A d \in Caller : d # c => calls'[d].pc = "free"
    <3>1. /\ isABIKRunning' = TRUE /\ calls'[c] = [pc |-> "launched", op |-> op, dir |-> dir]
          /\ \A d \in Caller : d # c => calls'[d] = calls[d]
      BY <1>l, Parts DEF Launch
    <3>2. \A d \in Caller : calls[d].pc = "free"
      BY <1>l DEF Calling
    <3> QED  BY <3>1, <3>2
  <2> QED  BY <1>l, <2>1, QuietCall
<1>1. CASE TapExtract
  <2>1. /\ looper # <<>> /\ Head(looper).kind \in Taps /\ Done
        /\ UNCHANGED <<calls, references>>
    BY <1>1 DEF TapExtract, Taps
  <2>2. CASE Refused
    BY <2>1, <2>2, OneThingKept DEF Refused
  <2>3. CASE ~ isABIKRunning /\ picker' = [picker EXCEPT !.n = @ + 1] /\ UNCHANGED dialogs
    <3>1. Quiet' /\ picker.n = 0 /\ dialogs' = <<>>
      BY <1>q, <2>1, <2>3, TapAlone
    <3>2. picker'.n = 1
      BY <1>p, <2>3, <3>1
    <3> QED  BY <1>m, <2>1, <2>3, <3>1, <3>2, QuietWindow
  <2> QED  BY <1>1, <2>2, <2>3 DEF TapExtract
<1>2. CASE TapBuild
  <2>1. /\ looper # <<>> /\ Head(looper).kind \in Taps
        /\ UNCHANGED <<dialogs, picker, calls, isABIKRunning, references>>
    BY <1>2 DEF TapBuild, Taps
  <2>2. CASE isABIKRunning
    BY <1>2, <2>1, <2>2, OneThingKept DEF TapBuild, Done
  <2>3. CASE ~ isABIKRunning
    <3> DEFINE m == [kind |-> "select", list |-> present, orphan |-> FALSE]
    <3>1. m \in Message /\ m.kind = "select"
      BY Parts DEF Message
    <3>2. looper' = Append(Tail(looper), m)
      BY <1>2, <2>3 DEF TapBuild
    <3> HIDE DEF m
    <3>3. \A k \in DOMAIN looper' : /\ looper'[k].kind \notin Taps
                                    /\ looper'[k].kind \in {"select", "picked"} => k = Len(looper)
      <4>1. \A k \in 1 .. Len(looper) - 1 : k + 1 \in DOMAIN looper /\ k + 1 # 1
        BY <1>p
      <4>2. /\ looper'[Len(looper)] = m
            /\ \A k \in DOMAIN looper' : k = Len(looper) \/ k \in 1 .. Len(looper) - 1
            /\ \A k \in 1 .. Len(looper) - 1 : looper'[k] = looper[k + 1]
        BY <1>p, <2>1, <3>1, <3>2, Exchanged
      <4> QED  BY <2>1, <3>1, <4>1, <4>2, TapAlone DEF Taps
    <3>4. dialogs' = <<>> /\ picker'.n = 0 /\ \A c \in Caller : calls'[c].pc = "free"
      BY <1>m, <2>1, <2>3, TapAlone
    <3>5. Len(dialogs') <= 1
      BY <3>4, EmptySeq
    <3> QED  BY <3>3, <3>4, <3>5 DEF OneThing, Pending, Calling
  <2> QED  BY <2>2, <2>3
<1>3. CASE TapClean
  <2>1. /\ looper # <<>> /\ Head(looper).kind \in Taps /\ Done
        /\ UNCHANGED <<picker, calls, references>>
    BY <1>3 DEF TapClean, Refused, Taps
  <2>2. CASE Refused
    BY <2>1, <2>2, OneThingKept DEF Refused
  <2>3. CASE ~ isABIKRunning /\ (UNCHANGED dialogs \/ Open([kind |-> "clean", list |-> present]))
    <3>1. Quiet' /\ picker'.n = 0 /\ dialogs = <<>>
      BY <1>q, <2>1, <2>3, TapAlone
    <3>2. dialogs' = <<>> \/ Len(dialogs') = 1
      BY <2>3, <3>1 DEF Open
    <3> QED  BY <1>m, <2>1, <2>3, <3>1, <3>2, QuietWindow
  <2> QED  BY <1>3, <2>2, <2>3 DEF TapClean
<1>4. CASE Select
  <2>1. /\ looper # <<>> /\ Head(looper).kind \in {"select", "picked"} /\ Done
        /\ UNCHANGED <<picker, references>>
    BY <1>4 DEF Select
  <2>2. Quiet' /\ picker'.n = 0 /\ dialogs = <<>> /\ ~ Calling
    BY <1>q, <2>1, PendingAlone
  <2>3. CASE UNCHANGED dialogs /\ \E c \in Caller : Launch(c, "build", Head(looper).list)
    BY <1>l, <2>2, <2>3
  <2>4. CASE UNCHANGED calls /\ (UNCHANGED dialogs \/ Open([kind |-> "project", list |-> Head(looper).list]))
    <3>1. dialogs' = <<>> \/ Len(dialogs') = 1
      BY <2>2, <2>4 DEF Open
    <3>2. \A c \in Caller : calls'[c].pc = "free"
      BY <2>2, <2>4 DEF Calling
    <3> QED  BY <2>2, <3>1, <3>2, QuietWindow
  <2> QED  BY <1>4, <2>3, <2>4 DEF Select
<1>5. CASE SelectOrphan
  BY <1>5, <1>k DEF SelectOrphan
<1>6. CASE Picked
  <2>1. /\ looper # <<>> /\ Head(looper).kind \in {"select", "picked"} /\ Done
        /\ UNCHANGED <<picker, references>>
    BY <1>6 DEF Picked
  <2>2. Quiet' /\ picker'.n = 0 /\ dialogs = <<>> /\ ~ Calling
    BY <1>q, <2>1, PendingAlone
  <2>3. CASE UNCHANGED dialogs /\ \E c \in Caller : Launch(c, "extract", {})
    BY <1>l, <2>2, <2>3
  <2>4. CASE UNCHANGED calls /\ (UNCHANGED dialogs \/ Open([kind |-> "problem"]))
    <3>1. dialogs' = <<>> \/ Len(dialogs') = 1
      BY <2>2, <2>4 DEF Open
    <3>2. \A c \in Caller : calls'[c].pc = "free"
      BY <2>2, <2>4 DEF Calling
    <3> QED  BY <2>2, <3>1, <3>2, QuietWindow
  <2> QED  BY <1>6, <2>3, <2>4 DEF Picked
<1>7. CASE Reset
  <2>1. /\ looper # <<>> /\ Done /\ looper[1].kind = "reset" /\ Head(looper) = looper[1]
        /\ 1 \in DOMAIN looper /\ looper[1] \in Message
    BY <1>7, <1>p, Handled DEF Reset
  <2>2. /\ looper[1].caller \in Caller /\ calls[looper[1].caller].pc = "returned"
        /\ calls' = [calls EXCEPT ![looper[1].caller] = Free]
        /\ UNCHANGED <<dialogs, picker>>
    BY <1>7, <2>1 DEF Reset, ResetsOK, Message
  <2>3. \A c \in Caller : calls'[c].pc = "free"
    BY <1>p, <2>2 DEF OneThing, Free
  <2>4. picker.n = 0 /\ ~ Pending /\ dialogs = <<>>
    BY <1>p, <2>2 DEF OneThing, Calling
  <2>5. \A k \in DOMAIN looper : k # 1 =>
           looper[k].kind \notin Taps /\ looper[k].kind \notin {"select", "picked"}
    BY <2>4 DEF OneThing, Pending
  <2>6. Quiet'
    BY <1>q, <2>1, <2>5
  <2> QED  BY <2>2, <2>3, <2>4, <2>6, QuietWindow
<1>8. CASE Dismiss
  <2>1. CASE Killed
    BY <1>8, <1>k, <2>1 DEF Dismiss
  <2>2. CASE ~ Killed
    <3>1. PICK i \in DOMAIN dialogs :
             dialogs' = SubSeq(dialogs, 1, i - 1) \o SubSeq(dialogs, i + 1, Len(dialogs))
      BY <1>8, <2>2 DEF Dismiss
    <3>2. looper # <<>> /\ Done /\ UNCHANGED <<isABIKRunning, picker, calls, references>>
      BY <1>8, <2>2 DEF Dismiss
    <3>3. dialogs # <<>> /\ Len(dialogs) <= 1
      BY <3>1, EmptySeq DEF OneThing
    <3>4. dialogs' = <<>>
      BY <3>1, <3>3, OneDialog
    <3>5. picker.n = 0 /\ ~ Pending /\ ~ Calling
      BY <1>p, <3>3 DEF OneThing
    <3>6. \A k \in DOMAIN looper : looper[k].kind \notin Taps /\ looper[k].kind \notin {"select", "picked"}
      BY <3>3, <3>5 DEF OneThing, Pending
    <3>7. Quiet'
      BY <1>q, <3>2, <3>6
    <3> QED  BY <3>2, <3>4, <3>5, <3>7, QuietWindow DEF Calling
  <2> QED  BY <2>1, <2>2
<1>9. CASE Recreate
  <2>1. PICK at \in [DOMAIN looper' -> DOMAIN looper] :
           /\ \A j, k \in DOMAIN looper' : at[j] = at[k] => j = k
           /\ \A k \in DOMAIN looper' :
                 looper'[k].kind = looper[at[k]].kind /\ looper[at[k]].kind \notin Taps
    BY <1>9, <1>p, Recreated
  <2>2. dialogs' = <<>> /\ UNCHANGED <<isABIKRunning, picker, calls, references>>
    BY <1>9 DEF Recreate
  <2>3. (Pending' => Pending) /\ (Calling' <=> Calling)
    BY <2>1, <2>2 DEF Pending, Calling
  <2>4. \A k \in DOMAIN looper' : looper'[k].kind \notin Taps
    BY <2>1
  <2>5. \A j, k \in DOMAIN looper' :
           looper'[j].kind \in {"select", "picked"} /\ looper'[k].kind \in {"select", "picked"}
           => j = k
    BY <2>1 DEF OneThing
  <2>6. Len(dialogs') <= 1
    BY <2>2, EmptySeq
  <2> QED  BY <2>2, <2>3, <2>4, <2>5, <2>6 DEF OneThing
<1> QED  BY <1>1, <1>2, <1>3, <1>4, <1>5, <1>6, <1>7, <1>8, <1>9 DEF Handle

\* The rest of the system: the user, the coroutines and Android.
LEMMA OtherOneThing == Typed /\ OneThing /\ Patient /\ [Next]_vars /\ ~ Handle => OneThing'
<1> SUFFICES ASSUME Typed, OneThing, Patient, [Next]_vars, ~ Handle PROVE OneThing'
  OBVIOUS
<1> USE DEF others
<1>p. /\ looper \in Seq(Message) /\ calls \in [Caller -> Call] /\ picker.n \in Nat
      /\ picker = [n |-> picker.n, front |-> picker.front] /\ (picker.front => picker.n > 0)
  BY Parts
<1>d. ASSUME dialogs # <<>>
      PROVE  Quiet /\ picker.n = 0 /\ ~ Calling
  BY <1>p, <1>d DEF OneThing, Quiet, Pending
<1>c. ASSUME NEW c \in Caller, calls[c].pc # "free"
      PROVE  /\ Calling /\ dialogs = <<>> /\ picker.n = 0 /\ ~ Pending /\ isABIKRunning = TRUE
             /\ \A d \in Caller : d # c => calls[d].pc = "free"
  <2>1. Calling
    BY <1>c DEF Calling
  <2>2. isABIKRunning = TRUE
    BY <2>1, Parts DEF OneThing
  <2> QED  BY <1>c, <1>p, <2>1, <2>2 DEF OneThing
<1>1. CASE Tap
  <2>1. PICK k \in {"tapExtract", "tapBuild", "tapClean"} : Post([kind |-> k])
    BY <1>1 DEF Tap
  <2>2. looper = <<>> /\ picker.n = 0 /\ dialogs = <<>>
    BY <1>1 DEF Tap, CanTap, Patient
  <2>3. /\ looper' = <<[kind |-> k]>> /\ DOMAIN looper' = {1} /\ looper'[1].kind = k
        /\ UNCHANGED <<picker, dialogs, calls, isABIKRunning, references>>
    BY <1>1, <2>1, <2>2 DEF Tap, Post
  <2>4. ~ Pending' /\ (Calling' <=> Calling)
    BY <2>3 DEF Pending, Calling
  <2> QED  BY <2>2, <2>3, <2>4 DEF OneThing
<1>2. CASE PickerOpens
  <2>1. picker'.n = picker.n
    BY <1>2, <1>p DEF PickerOpens
  <2> QED  BY <1>2, <2>1, OneThingKept DEF PickerOpens
<1>3. CASE PickerCloses
  <2>1. /\ picker'.n = 0 /\ picker.n = 1
        /\ UNCHANGED <<dialogs, calls, isABIKRunning, references>>
    BY <1>3, <1>p DEF PickerCloses, OneThing
  <2>2. Quiet /\ dialogs = <<>> /\ \A c \in Caller : calls[c].pc = "free"
    BY <2>1 DEF OneThing, Quiet, Pending, Calling
  <2>3. CASE UNCHANGED looper
    BY <2>1, <2>2, <2>3, QuietWindow DEF Quiet
  <2>4. CASE Post([kind |-> "picked"])
    <3>1. [kind |-> "picked"] \in Message
      BY DEF Message
    <3>2. \A k \in DOMAIN looper' : /\ looper'[k].kind \notin Taps
                                    /\ looper'[k].kind \in {"select", "picked"} => k = Len(looper) + 1
      <4>1. \A k \in DOMAIN looper' : k \in DOMAIN looper \/ k = Len(looper) + 1
        BY <1>p, <2>4, <3>1, Posted
      <4> QED  BY <1>p, <2>2, <2>4, <3>1, <4>1, Posted DEF Quiet, Taps
    <3>3. Len(dialogs') <= 1
      BY <2>1, <2>2, EmptySeq
    <3> QED  BY <2>1, <2>2, <3>2, <3>3 DEF OneThing, Pending, Calling
  <2> QED  BY <1>3, <2>3, <2>4 DEF PickerCloses
<1>4. CASE ConfigChange
  <2>1. /\ [kind |-> "recreate"] \in Message /\ Post([kind |-> "recreate"])
        /\ [kind |-> "recreate"].kind \notin Taps
    BY <1>4 DEF ConfigChange, Message, Taps
  <2> QED  BY <1>4, <2>1, OneThingKept DEF ConfigChange
<1>5. CASE Kill \/ ConfirmProblem
  BY <1>5, KilledOneThing DEF Kill, ConfirmProblem
<1>6. CASE Cancel \/ ChooseClean
  <2>1. /\ dialogs # <<>> /\ UNCHANGED <<looper, picker, calls>>
    BY <1>6 DEF Cancel, ChooseClean, Asking
  <2>2. Quiet' /\ picker'.n = 0 /\ \A c \in Caller : calls'[c].pc = "free"
    BY <1>d, <2>1 DEF Quiet, Calling
  <2>3. SubSeq(dialogs, 1, Len(dialogs) - 1) = <<>>
    BY <2>1, OneDialog DEF OneThing
  <2>4. dialogs' = <<>> \/ Len(dialogs') = 1
    <3>1. CASE Cancel
      BY <2>3, <3>1 DEF Cancel, CloseTop
    <3>2. CASE ChooseClean
      BY <2>3, <3>2 DEF ChooseClean
    <3> QED  BY <1>6, <3>1, <3>2
  <2> QED  BY <2>2, <2>4, QuietWindow
<1>7. CASE ChooseProject
  <2>1. /\ dialogs # <<>> /\ UNCHANGED <<looper, picker>>
        /\ dialogs' = SubSeq(dialogs, 1, Len(dialogs) - 1)
    BY <1>7 DEF ChooseProject, Asking, CloseTop
  <2>2. PICK p \in Top.list, c \in Caller : Launch(c, "build", {p})
    BY <1>7 DEF ChooseProject
  <2>3. Quiet' /\ picker'.n = 0 /\ dialogs' = <<>>
    <3>1. dialogs' = <<>>
      BY <2>1, OneDialog DEF OneThing
    <3> QED  BY <1>d, <2>1, <3>1 DEF Quiet
  <2>4. /\ isABIKRunning' = TRUE /\ calls'[c].pc = "launched"
        /\ \A d \in Caller : d # c => calls'[d].pc = "free"
    <3>1. \A d \in Caller : calls[d].pc = "free"
      BY <1>d, <2>1 DEF Calling
    <3>2. /\ isABIKRunning' = TRUE /\ calls'[c] = [pc |-> "launched", op |-> "build", dir |-> {p}]
          /\ \A d \in Caller : d # c => calls'[d] = calls[d]
      BY <2>2, Parts DEF Launch
    <3> QED  BY <3>1, <3>2
  <2> QED  BY <2>3, <2>4, QuietCall
<1>8. ASSUME NEW c \in Caller, Enter(c) PROVE OneThing'
  <2>1. calls[c].pc = "launched" /\ UNCHANGED <<isABIKRunning, looper, dialogs, picker>>
        /\ references' = {c}
    BY <1>8 DEF Enter, initializeJNIReferences
  <2>2. calls'[c].pc = "native" /\ \A d \in Caller : d # c => calls'[d] = calls[d]
    BY <1>8, <1>p DEF Enter, Call
  <2>3. /\ dialogs = <<>> /\ picker.n = 0 /\ ~ Pending /\ isABIKRunning = TRUE
        /\ \A d \in Caller : d # c => calls[d].pc = "free"
    BY <1>c, <2>1
  <2>4. \A d \in Caller : d # c => calls'[d].pc = "free"
    BY <2>2, <2>3
  <2>5. ~ Pending'
    BY <2>1, <2>3 DEF Pending
  <2>6. \A k \in DOMAIN looper' : looper'[k].kind \in Taps => k = 1
    BY <2>1 DEF OneThing
  <2>7. Len(dialogs') <= 1
    BY <2>1 DEF OneThing
  <2> QED  BY <2>1, <2>2, <2>3, <2>4, <2>5, <2>6, <2>7 DEF OneThing, Pending
<1>9. ASSUME NEW c \in Caller, Leave(c) PROVE OneThing'
  <2> DEFINE m == [kind |-> "reset", caller |-> c]
  <2>1. m \in Message /\ m.kind = "reset" /\ Post(m)
    BY <1>9 DEF Message, Leave
  <2> HIDE DEF m
  <2>2. calls[c].pc = "native" /\ UNCHANGED <<isABIKRunning, dialogs, picker>>
    BY <1>9 DEF Leave
  <2>3. calls'[c].pc = "returned" /\ \A d \in Caller : d # c => calls'[d] = calls[d]
    BY <1>9, <1>p DEF Leave, Call
  <2>4. /\ dialogs = <<>> /\ picker.n = 0 /\ ~ Pending /\ isABIKRunning = TRUE
        /\ \A d \in Caller : d # c => calls[d].pc = "free"
    BY <1>c, <2>2
  <2>5. \A d \in Caller : d # c => calls'[d].pc = "free"
    BY <2>3, <2>4
  <2>6. \A k \in DOMAIN looper' : \/ k \in DOMAIN looper /\ looper'[k] = looper[k]
                                  \/ looper'[k].kind = "reset"
    <3>1. \A k \in DOMAIN looper' : k \in DOMAIN looper \/ k = Len(looper) + 1
      BY <1>p, <2>1, Posted
    <3> QED  BY <1>p, <2>1, <3>1, Posted
  <2>7. \A k \in DOMAIN looper' : looper'[k].kind \in Taps => k = 1
    BY <2>6 DEF OneThing, Taps
  <2>8. ~ Pending'
    BY <2>4, <2>6 DEF Pending
  <2>9. Len(dialogs') <= 1
    BY <2>2 DEF OneThing
  <2> QED  BY <2>2, <2>3, <2>4, <2>5, <2>7, <2>8, <2>9 DEF OneThing, Pending
<1>10. ASSUME NEW c \in Cleaner, DeleteBegin(c) \/ DeleteEnd(c) \/ DeleteDone(c) PROVE OneThing'
  <2>1. /\ [kind |-> "dismiss", cleaner |-> c] \in Message
        /\ [kind |-> "dismiss", cleaner |-> c].kind \notin Taps
    BY DEF Message, Taps
  <2> QED  BY <1>10, <2>1, OneThingKept DEF DeleteBegin, DeleteEnd, DeleteDone
<1>11. CASE UNCHANGED vars
  BY <1>11, OneThingKept DEF vars
<1> QED  BY <1>1, <1>2, <1>3, <1>4, <1>5, <1>6, <1>7, <1>8, <1>9, <1>10, <1>11
        DEF Next, Answer, Work

-----------------------------------------------------------------------------
(* Nobody deletes what a patient user means to build. *)

\* A deletion in progress has the screen for itself.
LEMMA DeletionShown ==
    ASSUME Typed, OneThing, Undisturbed, NEW c \in Cleaner, deletions[c].on
    PROVE  /\ dialogs # <<>> /\ Quiet /\ ~ Calling
           /\ Top = [kind |-> "progress", cleaner |-> c]
           /\ \A k \in DOMAIN dialogs : dialogs[k] = [kind |-> "progress", cleaner |-> c]
<1>1. dialogs = <<[kind |-> "progress", cleaner |-> c]>>
  BY DEF Undisturbed
<1>2. dialogs # <<>> /\ picker.n \in Nat
  BY <1>1, Parts
<1> QED  BY <1>1, <1>2 DEF OneThing, Quiet, Pending, Top

\* What is queued stays good for what it asks.
LEMMA TargetsKept ==
    ASSUME Typed, Undisturbed, present \subseteq present',
           \/ looper # <<>> /\ Done
           \/ UNCHANGED looper
           \/ \E m \in Message : Post(m) /\ m.kind \notin {"recreate", "select"}
    PROVE  \A k \in DOMAIN looper' :
              /\ looper'[k].kind # "recreate"
              /\ looper'[k].kind = "select" => looper'[k].list \subseteq present'
<1>p. looper \in Seq(Message)
  BY Parts
<1>1. CASE looper # <<>> /\ Done
  BY <1>p, <1>1, Handled DEF Undisturbed
<1>2. CASE UNCHANGED looper
  BY <1>2 DEF Undisturbed
<1>3. ASSUME NEW m \in Message, Post(m), m.kind \notin {"recreate", "select"}
      PROVE  \A k \in DOMAIN looper' :
                /\ looper'[k].kind # "recreate"
                /\ looper'[k].kind = "select" => looper'[k].list \subseteq present'
  <2>1. \A k \in DOMAIN looper' : k \in DOMAIN looper \/ k = Len(looper) + 1
    BY <1>p, <1>3, Posted
  <2> QED  BY <1>p, <1>3, <2>1, Posted DEF Undisturbed
<1> QED  BY <1>1, <1>2, <1>3

\* The queue aside, nothing has changed but for projects that were added.
LEMMA UndisturbedKept ==
    ASSUME Typed, Undisturbed, present \subseteq present',
           \/ looper # <<>> /\ Done
           \/ UNCHANGED looper
           \/ \E m \in Message : Post(m) /\ m.kind \notin {"recreate", "select"},
           UNCHANGED dialogs,
           \A c \in Cleaner : deletions'[c].on => deletions[c].on,
           \A c \in Caller : calls'[c].pc = "launched" => calls'[c] = calls[c]
    PROVE  Undisturbed'
  BY TargetsKept DEF Undisturbed

LEMMA KilledUndisturbed == ASSUME Killed PROVE Undisturbed'
  BY DEF Killed, Undisturbed, Free, NoDeletion

\* A dialog is opened or closed, or a call launched, while nothing is deleted.
LEMMA UndisturbedOpened ==
    ASSUME Typed, Undisturbed, UNCHANGED <<deletions, present>>,
           \A c \in Cleaner : ~ deletions[c].on,
           \/ looper # <<>> /\ Done
           \/ UNCHANGED looper,
           \A k \in DOMAIN dialogs' :
               dialogs'[k].kind = "project" => dialogs'[k].list \subseteq present,
           \/ UNCHANGED calls
           \/ \E c \in Caller, op \in {"extract", "build"}, dir \in SUBSET Project :
                 Launch(c, op, dir) /\ (op = "build" => dir \subseteq present)
    PROVE  Undisturbed'
<1>1. \A k \in DOMAIN looper' :
         /\ looper'[k].kind # "recreate"
         /\ looper'[k].kind = "select" => looper'[k].list \subseteq present'
  BY TargetsKept
<1>2. \A c \in Caller : calls'[c].pc = "launched" /\ calls'[c].op = "build"
                        => calls'[c].dir \subseteq present
  <2>1. CASE UNCHANGED calls
    BY <2>1 DEF Undisturbed
  <2>2. ASSUME NEW c \in Caller, NEW op \in {"extract", "build"}, NEW dir \in SUBSET Project,
               Launch(c, op, dir), op = "build" => dir \subseteq present
        PROVE  \A d \in Caller : calls'[d].pc = "launched" /\ calls'[d].op = "build"
                                 => calls'[d].dir \subseteq present
    <3>1. /\ calls'[c] = [pc |-> "launched", op |-> op, dir |-> dir]
          /\ \A d \in Caller : d # c => calls'[d] = calls[d]
      BY <2>2, Parts DEF Launch
    <3> QED  BY <2>2, <3>1 DEF Undisturbed
  <2> QED  BY <2>1, <2>2
<1> QED  BY <1>1, <1>2 DEF Undisturbed

LEMMA HandleUndisturbed == Typed /\ OneThing /\ Undisturbed /\ Handle => Undisturbed'
<1> SUFFICES ASSUME Typed, OneThing, Undisturbed, Handle PROVE Undisturbed'
  OBVIOUS
<1> USE DEF others, Handling
<1>p. /\ looper \in Seq(Message) /\ calls \in [Caller -> Call]
      /\ deletions \in [Cleaner -> Deletion] /\ dialogs \in Seq(Dialog)
  BY Parts
<1>o. ASSUME dialogs = <<>> PROVE \A c \in Cleaner : ~ deletions[c].on
  BY <1>o, DeletionShown
<1>e. ASSUME dialogs = <<>>, NEW d, dialogs' = <<>> \/ Open(d)
      PROVE  \A k \in DOMAIN dialogs' : dialogs'[k] = d
  BY <1>e DEF Open
<1>1. CASE TapExtract
  BY <1>1, UndisturbedKept DEF TapExtract, Refused
<1>2. CASE TapBuild
  <2>1. looper # <<>> /\ UNCHANGED <<dialogs, calls, deletions, present>>
    BY <1>2 DEF TapBuild
  <2>2. CASE isABIKRunning
    BY <1>2, <2>1, <2>2, UndisturbedKept DEF TapBuild, Done
  <2>3. CASE ~ isABIKRunning
    <3> DEFINE m == [kind |-> "select", list |-> present, orphan |-> FALSE]
    <3>1. m \in Message /\ m.kind = "select" /\ m.list = present
      BY Parts DEF Message
    <3>2. looper' = Append(Tail(looper), m)
      BY <1>2, <2>3 DEF TapBuild
    <3> HIDE DEF m
    <3>3. \A k \in DOMAIN looper' : looper'[k] = m \/ \E j \in DOMAIN looper : looper'[k] = looper[j]
      <4>1. /\ looper'[Len(looper)] = m
            /\ \A k \in DOMAIN looper' : k = Len(looper) \/ k \in 1 .. Len(looper) - 1
            /\ \A k \in 1 .. Len(looper) - 1 : looper'[k] = looper[k + 1]
        BY <1>p, <2>1, <3>1, <3>2, Exchanged
      <4>2. \A k \in 1 .. Len(looper) - 1 : k + 1 \in DOMAIN looper
        BY <1>p
      <4> QED  BY <4>1, <4>2
    <3>4. \A k \in DOMAIN looper' :
             /\ looper'[k].kind # "recreate"
             /\ looper'[k].kind = "select" => looper'[k].list \subseteq present
      BY <3>1, <3>3 DEF Undisturbed
    <3> QED  BY <2>1, <3>4 DEF Undisturbed
  <2> QED  BY <2>2, <2>3
<1>3. CASE TapClean
  <2>1. looper # <<>> /\ Head(looper).kind \in Taps /\ Done /\ UNCHANGED <<calls, deletions, present>>
    BY <1>3 DEF TapClean, Taps
  <2>2. CASE UNCHANGED dialogs
    BY <2>1, <2>2, UndisturbedKept
  <2>3. CASE Open([kind |-> "clean", list |-> present])
    <3>1. dialogs = <<>>
      BY <2>1, TapAlone
    <3>2. \A k \in DOMAIN dialogs' : dialogs'[k].kind = "clean"
      BY <1>e, <2>3, <3>1
    <3> QED  BY <1>o, <2>1, <3>1, <3>2, UndisturbedOpened
  <2> QED  BY <1>3, <2>2, <2>3 DEF TapClean, Refused
<1>4. CASE Select
  <2> DEFINE list == Head(looper).list
  <2>1. /\ looper # <<>> /\ Head(looper).kind = "select" /\ Done
        /\ UNCHANGED <<deletions, present>>
    BY <1>4 DEF Select
  <2>2. list \subseteq present /\ list \in SUBSET Project
    <3>1. Head(looper) = looper[1] /\ 1 \in DOMAIN looper /\ looper[1] \in Message
      BY <1>p, <2>1, Handled
    <3>2. list \subseteq present
      BY <2>1, <3>1 DEF Undisturbed
    <3> QED  BY <3>2, Parts
  <2>3. dialogs = <<>>
    BY <2>1, PendingAlone
  <2>4. dialogs' = <<>> \/ Open([kind |-> "project", list |-> list])
    BY <1>4, <2>3 DEF Select
  <2>5. UNCHANGED calls \/ \E c \in Caller : Launch(c, "build", list)
    BY <1>4 DEF Select
  <2> HIDE DEF list
  <2>6. \A k \in DOMAIN dialogs' : dialogs'[k].list = list
    BY <1>e, <2>3, <2>4
  <2> QED  BY <1>o, <2>1, <2>2, <2>3, <2>5, <2>6, UndisturbedOpened
<1>5. CASE SelectOrphan
  BY <1>5, KilledUndisturbed DEF SelectOrphan
<1>6. CASE Picked
  <2>1. /\ looper # <<>> /\ Head(looper).kind \in {"select", "picked"} /\ Done
        /\ UNCHANGED <<deletions, present>>
        /\ UNCHANGED calls \/ \E c \in Caller : Launch(c, "extract", {})
    BY <1>6 DEF Picked
  <2>2. dialogs = <<>>
    BY <2>1, PendingAlone
  <2>3. dialogs' = <<>> \/ Open([kind |-> "problem"])
    BY <1>6, <2>2 DEF Picked
  <2>4. \A k \in DOMAIN dialogs' : dialogs'[k].kind = "problem"
    BY <1>e, <2>2, <2>3
  <2> QED  BY <1>o, <2>1, <2>2, <2>4, UndisturbedOpened
<1>7. CASE Reset
  <2>1. \A c \in Caller : calls'[c].pc = "launched" => calls'[c] = calls[c]
    BY <1>7, <1>p DEF Reset, Free
  <2> QED  BY <1>7, <2>1, UndisturbedKept DEF Reset
<1>8. CASE Dismiss
  <2>1. CASE Killed
    BY <2>1, KilledUndisturbed
  <2>2. CASE ~ Killed
    <3> DEFINE c == Head(looper).cleaner
    <3>1. PICK i \in DOMAIN dialogs :
             /\ dialogs[i] = [kind |-> "progress", cleaner |-> c]
             /\ dialogs' = SubSeq(dialogs, 1, i - 1) \o SubSeq(dialogs, i + 1, Len(dialogs))
      BY <1>8, <2>2 DEF Dismiss
    <3>2. /\ looper # <<>> /\ Done /\ UNCHANGED <<calls, present>>
          /\ deletions' = [deletions EXCEPT ![c] = NoDeletion]
      BY <1>8, <2>2 DEF Dismiss
    <3> HIDE DEF c
    <3>3. dialogs' = <<>>
      <4>1. dialogs # <<>> /\ Len(dialogs) <= 1
        BY <3>1, EmptySeq DEF OneThing
      <4> QED  BY <3>1, <4>1, OneDialog
    <3>4. \A d \in Cleaner : ~ deletions'[d].on
      <4>1. \A d \in Cleaner : d # c => ~ deletions[d].on
        BY <3>1, DeletionShown
      <4> QED  BY <1>p, <3>2, <4>1 DEF NoDeletion
    <3>5. \A k \in DOMAIN looper' :
             /\ looper'[k].kind # "recreate"
             /\ looper'[k].kind = "select" => looper'[k].list \subseteq present'
      BY <3>2, TargetsKept
    <3> QED  BY <3>2, <3>3, <3>4, <3>5 DEF Undisturbed
  <2> QED  BY <2>1, <2>2
<1>9. CASE Recreate
  BY <1>9, <1>p, Handled DEF Recreate, Undisturbed
<1> QED  BY <1>1, <1>2, <1>3, <1>4, <1>5, <1>6, <1>7, <1>8, <1>9 DEF Handle

LEMMA OtherUndisturbed ==
    Typed /\ DeletionsOK /\ OneThing /\ Undisturbed /\ Stays /\ [Next]_vars /\ ~ Handle
    => Undisturbed'
<1> SUFFICES ASSUME Typed, DeletionsOK, OneThing, Undisturbed, Stays, [Next]_vars, ~ Handle
             PROVE  Undisturbed'
  OBVIOUS
<1> USE DEF others
<1>p. /\ looper \in Seq(Message) /\ calls \in [Caller -> Call]
      /\ deletions \in [Cleaner -> Deletion] /\ dialogs \in Seq(Dialog)
      /\ present \in SUBSET Project
  BY Parts
<1>1. CASE Tap \/ PickerOpens \/ PickerCloses
  <2>1. /\ UNCHANGED <<dialogs, calls, deletions, present>>
        /\ \/ UNCHANGED looper
           \/ \E k \in {"tapExtract", "tapBuild", "tapClean", "picked"} : Post([kind |-> k])
    BY <1>1 DEF Tap, PickerOpens, PickerCloses
  <2>2. \A k \in {"tapExtract", "tapBuild", "tapClean", "picked"} :
           [kind |-> k] \in Message /\ [kind |-> k].kind \notin {"recreate", "select"}
    BY DEF Message
  <2>3. UNCHANGED looper \/ \E m \in Message : Post(m) /\ m.kind \notin {"recreate", "select"}
    BY <2>1, <2>2
  <2> QED  BY <2>1, <2>3, UndisturbedKept
<1>2. CASE ConfigChange
  BY <1>2 DEF ConfigChange, Stays
<1>3. CASE Kill \/ ConfirmProblem
  BY <1>3, KilledUndisturbed DEF Kill, ConfirmProblem
<1>a. ASSUME Asking("project") \/ Asking("clean")
      PROVE  /\ \A c \in Cleaner : ~ deletions[c].on
             /\ SubSeq(dialogs, 1, Len(dialogs) - 1) = <<>>
             /\ Top = dialogs[1] /\ 1 \in DOMAIN dialogs
  <2>1. dialogs # <<>> /\ Top.kind # "progress"
    BY <1>a DEF Asking
  <2>2. \A c \in Cleaner : ~ deletions[c].on
    BY <2>1, DeletionShown
  <2>3. SubSeq(dialogs, 1, Len(dialogs) - 1) = <<>> /\ Top = dialogs[1] /\ Len(dialogs) = 1
    BY <2>1, OneDialog DEF OneThing
  <2> QED  BY <1>p, <2>2, <2>3
<1>4. CASE Cancel
  BY <1>4, <1>a, UndisturbedOpened DEF Cancel, CloseTop
<1>5. CASE ChooseProject
  <2>1. PICK p \in Top.list, c \in Caller : Launch(c, "build", {p})
    BY <1>5 DEF ChooseProject
  <2>2. /\ Asking("project") /\ dialogs' = SubSeq(dialogs, 1, Len(dialogs) - 1)
        /\ UNCHANGED <<looper, deletions, present>>
    BY <1>5 DEF ChooseProject, CloseTop
  <2>3. {p} \subseteq present /\ {p} \in SUBSET Project
    <3>1. Top.kind = "project"
      BY <2>2 DEF Asking
    <3>2. Top.list \subseteq present
      BY <1>a, <2>2, <3>1 DEF Undisturbed
    <3> QED  BY <1>p, <2>1, <3>2
  <2> QED  BY <1>a, <2>1, <2>2, <2>3, UndisturbedOpened
<1>6. CASE ChooseClean
  <2>1. PICK c \in Cleaner, checked \in SUBSET Top.list :
           /\ deletions' = [deletions EXCEPT ![c] = [on |-> TRUE, todo |-> checked, cur |-> {}]]
           /\ dialogs' = Append(SubSeq(dialogs, 1, Len(dialogs) - 1),
                                [kind |-> "progress", cleaner |-> c])
    BY <1>6 DEF ChooseClean
  <2>2. dialogs' = <<[kind |-> "progress", cleaner |-> c]>>
    <3>1. SubSeq(dialogs, 1, Len(dialogs) - 1) = <<>>
      BY <1>6, <1>a DEF ChooseClean
    <3> DEFINE d == [kind |-> "progress", cleaner |-> c]
    <3>2. dialogs' = Append(<<>>, d)
      BY <2>1, <3>1
    <3> HIDE DEF d
    <3>3. dialogs' = <<d>>
      BY <3>2
    <3> QED  BY <3>3 DEF d
  <2>3. \A d \in Cleaner : d # c => ~ deletions'[d].on
    BY <1>6, <1>a, <1>p, <2>1 DEF ChooseClean
  <2>4. \A k \in DOMAIN dialogs' : dialogs'[k].kind = "progress"
    BY <2>2
  <2>5. \A d \in Cleaner :
           deletions'[d].on => dialogs' = <<[kind |-> "progress", cleaner |-> d]>>
    BY <2>2, <2>3
  <2>6. UNCHANGED <<looper, calls, present>>
    BY <1>6 DEF ChooseClean
  <2> QED  BY <2>4, <2>5, <2>6 DEF Undisturbed
<1>7. ASSUME NEW c \in Caller, Enter(c) PROVE Undisturbed'
  <2>1. calls'[c].pc = "native" /\ \A d \in Caller : d # c => calls'[d] = calls[d]
    BY <1>7, <1>p DEF Enter, Call
  <2>2. present \subseteq present'
    BY <1>7 DEF Enter
  <2> QED  BY <1>7, <2>1, <2>2, UndisturbedKept DEF Enter
<1>8. ASSUME NEW c \in Caller, Leave(c) PROVE Undisturbed'
  <2> DEFINE m == [kind |-> "reset", caller |-> c]
  <2>1. m \in Message /\ m.kind = "reset" /\ Post(m)
    BY <1>8 DEF Message, Leave
  <2> HIDE DEF m
  <2>2. calls[c].pc = "native" /\ UNCHANGED <<dialogs, deletions>>
    BY <1>8 DEF Leave
  <2>3. dialogs = <<>> /\ ~ Pending /\ \A d \in Caller : d # c => calls[d].pc = "free"
    BY <1>p, <2>2 DEF OneThing, Calling
  <2>4. calls'[c].pc = "returned" /\ \A d \in Caller : d # c => calls'[d].pc = "free"
    BY <1>8, <1>p, <2>3 DEF Leave, Call
  <2>5. \A k \in DOMAIN looper' : looper'[k].kind \notin {"recreate", "select"}
    <3>1. \A k \in DOMAIN looper' : k \in DOMAIN looper \/ k = Len(looper) + 1
      BY <1>p, <2>1, Posted
    <3>2. \A k \in DOMAIN looper : looper[k].kind \notin {"recreate", "select"}
      BY <2>3 DEF Undisturbed, Pending
    <3> QED  BY <1>p, <2>1, <3>1, <3>2, Posted
  <2> QED  BY <2>2, <2>3, <2>4, <2>5, DeletionShown DEF Undisturbed
<1>9. ASSUME NEW c \in Cleaner, DeleteBegin(c) PROVE Undisturbed'
  <2>1. \A d \in Cleaner : deletions'[d].on = deletions[d].on
    BY <1>9, <1>p DEF DeleteBegin, Deletion
  <2> QED  BY <1>9, <2>1, UndisturbedKept DEF DeleteBegin
<1>10. ASSUME NEW c \in Cleaner, DeleteEnd(c) PROVE Undisturbed'
  <2>1. deletions[c].on
    BY <1>10 DEF DeleteEnd, DeletionsOK, NoDeletion
  <2>2. /\ Quiet /\ ~ Calling
        /\ \A k \in DOMAIN dialogs : dialogs[k].kind = "progress"
    BY <2>1, DeletionShown
  <2>3. UNCHANGED <<looper, dialogs, calls>> /\ \A d \in Cleaner : deletions'[d].on = deletions[d].on
    BY <1>10, <1>p DEF DeleteEnd, Deletion
  <2> QED  BY <2>2, <2>3 DEF Undisturbed, Quiet, Calling
<1>11. ASSUME NEW c \in Cleaner, DeleteDone(c) PROVE Undisturbed'
  <2>1. /\ [kind |-> "dismiss", cleaner |-> c] \in Message
        /\ [kind |-> "dismiss", cleaner |-> c].kind \notin {"recreate", "select"}
    BY DEF Message
  <2> QED  BY <1>11, <2>1, UndisturbedKept DEF DeleteDone
<1>12. CASE UNCHANGED vars
  BY <1>12, UndisturbedKept DEF vars
<1> QED  BY <1>1, <1>2, <1>3, <1>4, <1>5, <1>6, <1>7, <1>8, <1>9, <1>10, <1>11, <1>12
        DEF Next, Answer, Work

-----------------------------------------------------------------------------
(***************************************************************************)
(* What follows for every user, every number of projects and coroutines.   *)
(***************************************************************************)

LEMMA WorldStays == [Next]_vars => UNCHANGED world
  BY DEF Next, vars, others, Tap, PickerOpens, PickerCloses, Handle, TapExtract, TapBuild, TapClean,
         Select, SelectOrphan, Picked, Reset, Dismiss, Recreate, Answer, Cancel, ChooseProject,
         ChooseClean, ConfirmProblem, Work, Enter, Leave, DeleteBegin, DeleteEnd, DeleteDone,
         ConfigChange, Kill, Killed

LEMMA AppInvStarts == Init => AppInv
<1> SUFFICES ASSUME Init PROVE AppInv
  OBVIOUS
<1>1. Queued(Asked) = 0
  <2>1. {k \in DOMAIN looper : looper[k].kind \in Asked} = {}
    BY DEF Init
  <2> QED  BY <2>1, FS_EmptySet DEF Queued
<1>2. PickersOK
  BY <1>1, AppAssumption DEF Init, PickersOK
<1>3. TypeOK
  <2>1. picker \in [n : 0 .. MaxPicker, front : BOOLEAN]
    BY AppAssumption DEF Init
  <2>2. calls \in [Caller -> Call] /\ deletions \in [Cleaner -> Deletion]
    BY DEF Init, Call, Free, Deletion, NoDeletion
  <2>3. references \in SUBSET Caller /\ Cardinality(references) <= 1
    BY FS_EmptySet DEF Init
  <2>4. looper \in Seq(Message) /\ dialogs \in Seq(Dialog)
    BY DEF Init
  <2> QED  BY <2>1, <2>2, <2>3, <2>4 DEF Init, TypeOK
<1>4. ResetsOK /\ DeletionsOK /\ Undisturbed
  BY DEF Init, ResetsOK, DeletionsOK, Undisturbed, NoDeletion, Free
<1>5. OneThing
  <2>1. Len(dialogs) = 0 /\ picker.n = 0
    BY DEF Init
  <2> QED  BY <2>1 DEF Init, OneThing, Pending, Calling, Free
<1> QED  BY <1>2, <1>3, <1>4, <1>5 DEF AppInv

LEMMA AppInvKept == AppInv /\ [Next]_vars => AppInv'
<1> SUFFICES ASSUME AppInv, [Next]_vars PROVE AppInv'
  OBVIOUS
<1>i. Typed /\ ResetsOK /\ DeletionsOK
  BY DEF AppInv, Typed
<1>1. Typed'
  <2>1. CASE UNCHANGED vars
    <3>1. Queued(Asked)' = Queued(Asked)
      BY <2>1 DEF Queued, vars
    <3> QED  BY <1>i, <2>1, <3>1 DEF vars, Typed, TypeOK, PickersOK
  <2>2. CASE Next
    BY <1>i, <2>2, HandleTypes, AnswerTypes, WorkTypes, OutsideTypes DEF Next
  <2> QED  BY <2>1, <2>2
<1>2. ResetsOK'
  BY <1>i, HandleResets, OtherResets
<1>3. DeletionsOK'
  BY <1>i, DeletionsStep
<1>4. (Patient' <=> Patient) /\ (Stays' <=> Stays)
  BY WorldStays DEF Patient, Stays
<1>5. ASSUME Patient PROVE OneThing'
  BY <1>5, <1>i, HandleOneThing, OtherOneThing DEF AppInv
<1>6. ASSUME Patient, Stays PROVE Undisturbed'
  BY <1>6, <1>i, HandleUndisturbed, OtherUndisturbed DEF AppInv
<1> QED  BY <1>1, <1>2, <1>3, <1>4, <1>5, <1>6 DEF AppInv, Typed

LEMMA AppInvHolds == Spec => []AppInv
  BY AppInvStarts, AppInvKept, PTL DEF Spec

\* The variables keep their types: in particular no more document pickers are on
\* their way than MaxPicker, and one call at most has set the JNI references.
THEOREM TypesKept == Spec => []TypeOK
<1>1. AppInv => TypeOK
  BY DEF AppInv
<1> QED  BY <1>1, AppInvHolds, PTL

\* While a native call is in progress isABIKRunning is set, for a user who
\* waits for the screen to answer: extract and build mark before they launch,
\* and the only reset is the call's own.
THEOREM CallsAreMarked == Spec => []MarkedWhileCalling
<1>1. AppInv => MarkedWhileCalling
  BY DEF AppInv, OneThing, MarkedWhileCalling
<1> QED  BY <1>1, AppInvHolds, PTL

\* The dialog of showActivitiesProblem, which ends in killProcess, never stands
\* over a native call of such a user.
THEOREM ProblemIsIdle == Spec => []KillHarmless
<1>1. AppInv => KillHarmless
  BY DEF AppInv, OneThing, KillHarmless
<1> QED  BY <1>1, AppInvHolds, PTL

\* A native call keeps the JNI references it set until it releases them, as
\* long as the activity stays: the line it logs goes through its own JNIEnv.
THEOREM OwnEnvOnly == Spec => []LogsThroughOwnEnv
<1>1. AppInv => LogsThroughOwnEnv
  BY DEF AppInv, OneThing, LogsThroughOwnEnv
<1> QED  BY <1>1, AppInvHolds, PTL

\* No call and no deletion begins next to another one, as long as the user
\* waits and the activity stays.
THEOREM OneAtATime == Spec => StartsAlone
<1>1. AppInv /\ [Next]_vars => [Patient /\ Stays => BeginsAlone]_vars
  <2> SUFFICES ASSUME AppInv, Next, Patient, Stays PROVE BeginsAlone
    BY DEF vars, BeginsAlone
  <2>i. Typed /\ OneThing /\ Undisturbed
    BY DEF AppInv, Typed
  <2>p. calls \in [Caller -> Call] /\ deletions \in [Cleaner -> Deletion] /\ looper \in Seq(Message)
    BY <2>i, Parts
  <2>d. ASSUME dialogs # <<>>, Top.kind # "progress" PROVE ~ Calling /\ ~ Deleting
    <3>1. ~ Deleting
      BY <2>i, <2>d, DeletionShown DEF Deleting
    <3>2. ~ Calling
      BY <2>i, <2>d DEF OneThing
    <3> QED  BY <3>1, <3>2
  <2>1. ASSUME NEW c \in Caller, calls[c].pc = "free", calls'[c].pc = "launched"
        PROVE  ~ Calling /\ ~ Deleting
    <3>1. Select \/ Picked \/ ChooseProject
      <4>1. \/ UNCHANGED calls \/ Killed \/ Reset \/ Select \/ Picked \/ ChooseProject
            \/ \E d \in Caller : Enter(d) \/ Leave(d)
        BY DEF Next, others, Tap, PickerOpens, PickerCloses, Handle, TapExtract, TapBuild, TapClean,
               SelectOrphan, Dismiss, Recreate, Answer, Cancel, ChooseClean, ConfirmProblem, Work,
               DeleteBegin, DeleteEnd, DeleteDone, ConfigChange, Kill
      <4>2. ~ Killed
        BY <2>1 DEF Killed, Free
      <4>3. ~ Reset
        BY <2>1, <2>p DEF Reset, Free
      <4>4. ASSUME NEW d \in Caller, Enter(d) \/ Leave(d) PROVE FALSE
        <5>1. calls[d].pc # "free" /\ calls'[c] = calls[c]
          <6>1. calls[d].pc # "free"
            BY <4>4 DEF Enter, Leave
          <6>2. c # d
            BY <2>1, <6>1
          <6> QED  BY <2>p, <4>4, <6>1, <6>2 DEF Enter, Leave
        <5> QED  BY <2>1, <5>1
      <4> QED  BY <2>1, <4>1, <4>2, <4>3, <4>4
    <3>2. CASE Select \/ Picked
      <4>1. dialogs = <<>> /\ ~ Calling
        BY <2>i, <3>2, PendingAlone DEF Select, Picked, Handling
      <4> QED  BY <2>i, <4>1, DeletionShown DEF Deleting
    <3>3. CASE ChooseProject
      BY <2>d, <3>3 DEF ChooseProject, Asking
    <3> QED  BY <3>1, <3>2, <3>3
  <2>2. ASSUME NEW c \in Cleaner, ~ deletions[c].on, deletions'[c].on
        PROVE  ~ Calling /\ ~ Deleting
    <3>1. ChooseClean
      <4>1. UNCHANGED deletions \/ Killed \/ Dismiss \/ ChooseClean
            \/ \E d \in Cleaner : DeleteBegin(d) \/ DeleteEnd(d)
        BY DEF Next, others, Tap, PickerOpens, PickerCloses, Handle, TapExtract, TapBuild, TapClean,
               Select, SelectOrphan, Picked, Reset, Recreate, Answer, Cancel, ChooseProject,
               ConfirmProblem, Work, Enter, Leave, DeleteDone, ConfigChange, Kill
      <4>2. ~ Killed
        BY <2>2 DEF Killed, NoDeletion
      <4>3. ASSUME Dismiss PROVE FALSE
        <5>1. deletions' = [deletions EXCEPT ![Head(looper).cleaner] = NoDeletion]
          BY <4>2, <4>3 DEF Dismiss
        <5>2. deletions'[c] = deletions[c] \/ deletions'[c] = NoDeletion
          BY <2>p, <5>1
        <5> QED  BY <2>2, <5>2 DEF NoDeletion
      <4>4. ASSUME NEW d \in Cleaner, DeleteBegin(d) \/ DeleteEnd(d) PROVE FALSE
        <5>1. deletions'[c].on = deletions[c].on
          <6>1. \E r : deletions' = [deletions EXCEPT ![d] = r] /\ r.on = deletions[d].on
            <7>1. deletions[d] \in Deletion
              BY <2>p
            <7>2. CASE DeleteBegin(d)
              <8>1. PICK p \in deletions[d].todo :
                       deletions' = [deletions EXCEPT ![d].cur = {p}, ![d].todo = @ \ {p}]
                BY <7>2 DEF DeleteBegin
              <8> DEFINE r == [deletions[d] EXCEPT !.cur = {p}, !.todo = @ \ {p}]
              <8>2. r.on = deletions[d].on
                BY <7>1 DEF Deletion
              <8>3. deletions' = [deletions EXCEPT ![d] = r]
                BY <8>1
              <8> QED  BY <8>2, <8>3
            <7>3. CASE DeleteEnd(d)
              <8> DEFINE r == [deletions[d] EXCEPT !.cur = {}]
              <8>1. r.on = deletions[d].on
                BY <7>1 DEF Deletion
              <8>2. deletions' = [deletions EXCEPT ![d] = r]
                BY <7>3 DEF DeleteEnd
              <8> QED  BY <8>1, <8>2
            <7> QED  BY <4>4, <7>2, <7>3
          <6> QED  BY <2>p, <6>1
        <5> QED  BY <2>2, <5>1
      <4> QED  BY <2>2, <4>1, <4>2, <4>3, <4>4
    <3> QED  BY <2>d, <3>1 DEF ChooseClean, Asking
  <2> QED  BY <2>1, <2>2 DEF BeginsAlone
<1> QED  BY <1>1, AppInvHolds, PTL DEF Spec, StartsAlone

\* The project a build was asked for is there when jniBuild begins, however
\* long ago its list was read, as long as the user waits and the activity stays.
THEOREM TargetIsThere == Spec => BuildHasTarget
<1>1. AppInv => (Patient /\ Stays =>
        \A c \in Caller : calls[c].pc = "launched" /\ calls'[c].pc = "native"
                          /\ calls[c].op = "build" => calls[c].dir \subseteq present)
  BY DEF AppInv, Undisturbed
<1> QED  BY <1>1, AppInvHolds, PTL DEF BuildHasTarget
=============================================================================
