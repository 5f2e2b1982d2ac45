------------------------------ MODULE Workload ------------------------------
(***************************************************************************)
(* The churn model and a filesystem that executes it open loop: the        *)
(* generator in web/src/lockstep.js applies each event to the model when   *)
(* the entry is made, a session executes the entry later (execRealEntry in *)
(* web/src/session-worker.js), nothing flows back, and the console writes, *)
(* deletes and formats behind the model's back.                            *)
(*                                                                         *)
(* Every session has its own chip and the same entries, so there is one.   *)
(* How far execution may trail is Lockstep's matter, here it is MaxAhead.  *)
(***************************************************************************)
EXTENDS Churn, SequencesExt

CONSTANTS
  Capacity,      \* bytes that surely fit the filesystem, old copies included
  MaxFiles,      \* files that surely fit it
  UserFiles,     \* bound: the random names of the console's writeFile()
  UserSizes,     \* what it draws for a size
  StumpSizes,    \* bound: how much of a refused write may be left
  MaxAhead,      \* bound: entries made and not executed
  MaxResets      \* bound: resets

ASSUME WorkloadAssumption ==
  /\ {Capacity, MaxFiles, MaxAhead, MaxResets} \subseteq Nat
  /\ UserFiles \subseteq Nat /\ IsFiniteSet(UserFiles)
  /\ UserSizes \cup StumpSizes \subseteq Nat

VARIABLES
  churn,      \* the coordinator's churn model
  queue,      \* entries on their way and entries not executed, in order
  fs,         \* the session's filesystem and its runner's tracked set
  thrown,     \* the entry at the head threw out of pump()
  resets,
  meddled     \* history: the console took or wiped a file of the churn since the last reset

vars == <<churn, queue, fs, thrown, resets, meddled>>

-----------------------------------------------------------------------------
(* The filesystem and its runner *)

\* The chip after device.reset(); the runner keeps its tracked set.
Blank(f) == [f EXCEPT !.mounted = FALSE, !.files = <<>>]

\* The console's own files: no churn slot has this number.
UserNames == {slotCount} \X UserFiles

\* A name that writeFile() may draw: it has not been drawn before.
FreshNames(f) == UserNames \ (f.tracked \cup DOMAIN f.files)

Bytes(files) == SumFunction(files)

Stored(f, name, size) ==
  [f EXCEPT !.files = Put(@, name, size), !.tracked = @ \cup {name}]

Removed(f, name) == [f EXCEPT !.files = Restrict(@, DOMAIN @ \ {name})]

\* With room for the new file next to the old one every driver writes it.
HasRoom(f, name, size) ==
  /\ Bytes(f.files) + size <= Capacity
  /\ Cardinality(DOMAIN f.files \cup {name}) <= MaxFiles

\* What write() may do.  Without that room some drivers refuse, and leave the old
\* file, none, or a stump; check() throws before the name is tracked.
WriteOutcomes(f, name, size) ==
  LET stored == [fs |-> Stored(f, name, size), ok |-> TRUE]
      stumps == {[f EXCEPT !.files = Put(@, name, n)] : n \in {m \in StumpSizes : m < size}}
      failed == {[fs |-> g, ok |-> FALSE] : g \in {f, Removed(f, name)} \cup stumps}
  IN  IF f.mounted /\ HasRoom(f, name, size) THEN {stored}
      ELSE IF f.mounted THEN {stored} \cup failed
      ELSE {[fs |-> f, ok |-> FALSE]}

\* (fault) a removed name stays tracked
StillTracked(f, name) == Removed(f, name)

\* remove() of a file that exists
Untracked(f, name) == [Removed(f, name) EXCEPT !.tracked = @ \ {name}]

RemoveOutcomes(f, name) ==
  IF name \in DOMAIN f.files THEN {[fs |-> Untracked(f, name), ok |-> TRUE]}
  ELSE {[fs |-> f, ok |-> FALSE]}

\* format() resets the device and clears the tracked set.
Format(f) == [mounted |-> FALSE, files |-> <<>>, tracked |-> {}]

Mount(f) == [f EXCEPT !.mounted = TRUE]

-----------------------------------------------------------------------------
(* Entries *)

ChurnEntry(event) == [by |-> "churn", event |-> event]
ConsoleOp(op)     == [by |-> "console", op |-> op]
BootOp(op)        == [by |-> "boot", op |-> op]
ResetMsg          == [by |-> "reset"]

\* bootSequence(): the one format of an epoch.
Boot == <<BootOp("format"), BootOp("mount")>>

\* A console line; deleteFile() picks among the tracked names when it runs.
Lines ==
  {<<ConsoleOp("write")>>, <<ConsoleOp("delete")>>,
   <<ConsoleOp("format"), ConsoleOp("mount")>>}

Pending == SelectSeq(queue, LAMBDA e : e.by # "reset")

-----------------------------------------------------------------------------
(* The coordinator *)

\* genStep() on heads: one gc step, which changes no file.
GenerateGc ==
  /\ Len(Pending) < MaxAhead
  /\ queue' = Append(queue, ChurnEntry([type |-> "gc"]))
  /\ UNCHANGED <<churn, fs, thrown, resets, meddled>>

\* genStep() on tails: next(), apply(), and the entry.
GenerateEvent ==
  /\ Len(Pending) < MaxAhead
  /\ \E next \in NextEvents(churn) :
       /\ churn' = Apply(next.churn, next.event)
       /\ queue' = Append(queue, ChurnEntry(next.event))
  /\ UNCHANGED <<fs, thrown, resets, meddled>>

Broadcast ==
  /\ Len(Pending) < MaxAhead
  /\ \E line \in Lines :
       /\ line = <<ConsoleOp("write")>> =>
            Cardinality({k \in DOMAIN queue : queue[k] = ConsoleOp("write")})
              < Cardinality(FreshNames(fs))
       /\ queue' = queue \o line
  /\ UNCHANGED <<churn, fs, thrown, resets, meddled>>

\* (fault) reset leaves the model where it was
Kept(c) == c

\* churn.reset()
Restart(c) == Pristine

\* coordinator.reset() and the boot sequence behind it (btnReset).
Reset ==
  /\ resets < MaxResets
  /\ resets' = resets + 1
  /\ churn' = Restart(churn)
  /\ queue' = (queue \o <<ResetMsg>>) \o Boot
  /\ UNCHANGED <<fs, thrown, meddled>>

-----------------------------------------------------------------------------
(* The session *)

\* Messages of a worker come in order: the head is not of a later epoch.
Executes(e) == queue # <<>> /\ Head(queue) = e

\* execRealEntry(): an operation that throws leaves the entry where it is.
ExecEntry ==
  /\ queue # <<>> /\ Head(queue).by = "churn"
  /\ LET event    == Head(queue).event
         outcomes == CASE event.type = "write"  -> WriteOutcomes(fs, event.name, event.size)
                       [] event.type = "delete" -> RemoveOutcomes(fs, event.name)
                       [] OTHER                 -> {[fs |-> fs, ok |-> TRUE]}
     IN  \E out \in outcomes :
           /\ fs' = out.fs
           /\ thrown' = ~out.ok
           /\ queue' = IF out.ok THEN Tail(queue) ELSE queue
  /\ UNCHANGED <<churn, resets, meddled>>

\* writeFile() draws a name and a size.  An error of a console line ends the line,
\* not the entry's turn.
ConsoleWrite ==
  /\ Executes(ConsoleOp("write"))
  /\ \E name \in FreshNames(fs), size \in UserSizes :
       \E out \in WriteOutcomes(fs, name, size) : fs' = out.fs
  /\ queue' = Tail(queue)
  /\ UNCHANGED <<churn, thrown, resets, meddled>>

\* pickExisting() throws when nothing is tracked.
ConsoleDelete ==
  /\ Executes(ConsoleOp("delete"))
  /\ \/ /\ fs.tracked = {}
        /\ UNCHANGED <<fs, meddled>>
     \/ \E name \in fs.tracked :
          /\ \E out \in RemoveOutcomes(fs, name) : fs' = out.fs
          /\ meddled' = (meddled \/ name \notin UserNames)
  /\ queue' = Tail(queue)
  /\ UNCHANGED <<churn, thrown, resets>>

FormatOp ==
  /\ \E by \in {"boot", "console"} :
       /\ Executes([by |-> by, op |-> "format"])
       /\ meddled' = (meddled \/ by = "console")
  /\ fs' = Format(fs)
  /\ queue' = Tail(queue)
  /\ UNCHANGED <<churn, thrown, resets>>

MountOp ==
  /\ \E by \in {"boot", "console"} : Executes([by |-> by, op |-> "mount"])
  /\ fs' = Mount(fs)
  /\ queue' = Tail(queue)
  /\ UNCHANGED <<churn, thrown, resets, meddled>>

\* handleReset(): a blank chip, whose runner still tracks the old names, and no
\* entry of the old epoch.  It does not wait for those to be executed.
HandleReset ==
  /\ \E k \in DOMAIN queue :
       /\ queue[k] = ResetMsg
       /\ \A j \in 1 .. k - 1 : queue[j] # ResetMsg
       /\ queue' = SubSeq(queue, k + 1, Len(queue))
  /\ fs' = Blank(fs)
  /\ thrown' = FALSE
  /\ meddled' = FALSE
  /\ UNCHANGED <<churn, resets>>

-----------------------------------------------------------------------------
Init ==
  /\ churn = Pristine
  /\ queue = Boot
  /\ fs = [mounted |-> FALSE, files |-> <<>>, tracked |-> {}]
  /\ thrown = FALSE
  /\ resets = 0
  /\ meddled = FALSE

Execute == ExecEntry \/ ConsoleWrite \/ ConsoleDelete \/ FormatOp \/ MountOp

Next == GenerateGc \/ GenerateEvent \/ Broadcast \/ Reset \/ Execute \/ HandleReset

Spec == Init /\ [][Next]_vars

\* The worker pumps at every grant and takes its messages; the frame timer makes
\* entries while the page runs, and the coin does not come up gc for ever.
FairSpec ==
  Spec /\ WF_vars(Execute) /\ WF_vars(HandleReset) /\ SF_vars(GenerateEvent)

-----------------------------------------------------------------------------
(* Properties *)

Ceiling == targetLiveBytes + targetSlackBytes

TypeOK ==
  /\ churn.totalWritten \in 0 .. U32 - 1
  /\ DOMAIN churn.slots \subseteq Slots
  /\ \A s \in DOMAIN churn.slots : churn.slots[s].name \in Slots \X (0 .. U32 - 1)
  /\ churn.pending \in Draws \cup {NoWrite, [large |-> TRUE, size |-> FORCED_LARGE_SIZE]}
  /\ {churn.pendingSlot, churn.protectedLargeSlot} \subseteq Slots \cup {NoSlot}
  /\ fs.mounted \in BOOLEAN
  /\ DOMAIN fs.files \cup fs.tracked \subseteq (Slots \X (0 .. U32 - 1)) \cup UserNames
  /\ {thrown, meddled} \subseteq BOOLEAN
  /\ resets \in 0 .. MaxResets

\* What an entry, once executed, makes of the churn's files.
Play(files, e) ==
  IF e.by = "reset" \/ e = BootOp("format") THEN <<>>
  ELSE IF e.by # "churn" \/ e.event.type \notin {"write", "delete"} THEN files
  ELSE IF e.event.type = "write" THEN Put(files, e.event.name, e.event.size)
  ELSE Restrict(files, DOMAIN files \ {e.event.name})

\* The churn's files on the chip, and once the entries under way are played.
ChurnFiles == Restrict(fs.files, DOMAIN fs.files \ UserNames)
Played     == FoldLeft(Play, ChurnFiles, queue)

\* adr/0010: the filesystem and the model stay in lockstep.  What the session
\* stores, and what is on its way to it, is what the model says exists, byte for
\* byte and in sum, across resets, as long as the console keeps off the churn's files.
AgreesWithOracle ==
  (ResetMsg \in Range(queue) \/ ~meddled) =>
    /\ Played = Files(churn)
    /\ churn.liveBytes = Bytes(Played)

\* What the churn may have on the chip at once, old copies included: target and
\* slack, or one file larger than both.
Needs == {Ceiling, FORCED_LARGE_SIZE} \cup {d.size : d \in Draws}

\* Next to the console's files the chip has less room than the churn may need; a chip
\* with fewer files than the table has slots never has it, console or not.
UserStock == Restrict(fs.files, DOMAIN fs.files \cap UserNames)
Crowded ==
  \/ \E need \in Needs : Bytes(UserStock) + need > Capacity
  \/ Cardinality(DOMAIN UserStock) + slotCount > MaxFiles

\* A churn operation throws out of pump(), which stalls the field, only after the console
\* took or wiped a file of the churn, or when next to the console's files the chip has no
\* room for what the churn may need; that makes a write throw and never a delete.
NothingThrows ==
  thrown => meddled \/ (Crowded /\ Head(queue).event.type = "write")

\* The model never asks for more than target and slack, except for one file that
\* is larger than both by itself.
CeilingHolds ==
  churn.liveBytes <= Ceiling \/ Cardinality(DOMAIN churn.slots) = 1

\* The file of the entry that threw
Unsettled == IF thrown THEN {Head(queue).event.name} ELSE {}

\* deleteFile() and readFile() pick among names that are really on the chip, whatever
\* was refused before; and what is on the chip is tracked, but for the stump of a
\* write of the console that was refused, which no pick will ever find.
TrackedIsTheChip ==
  fs.mounted =>
    /\ fs.tracked \subseteq DOMAIN fs.files \cup Unsettled
    /\ DOMAIN fs.files \subseteq fs.tracked \cup UserNames \cup Unsettled

\* Deletes make way for a write and never take its place for good: bytes written
\* keep growing until the target is reached or an entry throws.
WritesGoOn ==
  \/ []<><<churn'.totalWritten # churn.totalWritten>>_vars
  \/ []<>(Done(churn) \/ thrown)
=============================================================================
