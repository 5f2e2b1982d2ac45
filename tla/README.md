# FlashVis in TLA+

FlashVis runs several embedded flash filesystems side by side in the browser, each
compiled to WebAssembly, each in a worker of its own with an emulated NOR chip, and
plays back what they do to flash at a common pace. This directory models the part of
it that is a distributed program - the lockstep coordinator, the session proxies and
the session workers -, the generator of the workload they execute, and the whole of one
session's storage: FatFs behind its binding, and the wear-levelling layer below it.
Source paths below are relative to the repository.

## 1. The system

| part | state | operations | talks to |
|---|---|---|---|
| coordinator `web/src/lockstep.js` | epoch, mode, running, scale, canonical `sequence`, round, `sharedIndex`, baselines, cached grants, shipped counts | `frame` (16 ms timer), `step`, `setMode`, `setSpeed`, `start`, `stop`, `broadcast`, `reset`, `setSessions` | every proxy, by calls; the oracle |
| session proxy `web/src/session-proxy.js` | the merged acks of one session | `handle` (ACK, FRAME, TELEMETRY), sends | the coordinator, and one MessagePort |
| session worker `web/src/session-worker.js` | entries, cursor, grant limits, playback queue, counters, command in flight, prep flag | `handleInit/Entries/Grant/Pull/Reset`, `pump`, `drain`, command API, device events | one MessagePort, its runner |
| wire protocol `web/src/protocol.js` | none | message shapes | |
| rings `web/src/worker-rings.js` | journal and event rings with running ids | `push`, `since`, `clear` | the worker; pulled by the view |
| churn oracle `web/src/churn.js` | slots, budgets, PRNG | `next`, `apply`, `reset` | the coordinator |
| runner `web/src/runner.js`, device `web/src/device.js` | open handles; chip bytes, wear, energy | `exec`, file API, `program`, `erase`, `reset` | the WASM shim; the worker |
| bindings `bindings/*/shim.c` | pools of file and directory handles, mount flag | `ff_*` ABI | the filesystem, the HAL |
| FAT block layer `bindings/fatfs/wl_hal.cpp`, `fs/wear_levelling` | WL state sectors, dummy position | `config`, `init`, `read`, `write`, `erase_range` | the device |
| FatFs `fs/fatfs/src/ff.c` | sector window, FAT, directories, a buffer per open file, mount id | `f_open`, `f_read`, `f_write`, `f_sync`, `f_lseek`, `f_unlink`, `f_mkdir`, `f_readdir`, `f_mount`, `f_mkfs` | the FAT block layer |
| heat model, view, inspectors, tests, build | display or test code | | |

How they interact. The coordinator generates one canonical sequence of entries (churn
from the oracle, console commands from the user) and *prefetches* it to every worker.
Once per frame it *derives* a grant per session - how many entries may be executed and
how far the tape may be played - from what the sessions acknowledged, and posts it; the
worker executes (`pump`), plays (`drain`) and acknowledges. Every message carries the
epoch; a reset bumps it and voids what the other side still has in the air. A round is
released only when every session acknowledged the round before (the barrier).

What is hard here:

- a grant is derived from acknowledgements that are out of date when it arrives, in a
  field where acks, grants, entries and resets of several workers cross;
- Pace promises that nobody executes two entries ahead of anybody (the join) and Race
  that nobody plays further than a bound past anybody (the watermark); users switch
  mode and speed and single-step in the middle of a round;
- execution and playback are apart: backpressure, ceilings, steps cut in two and
  markers that close an entry only when its tape was played;
- a command is a chain of awaits that a reset may overtake; `format` and the prep
  bracket change the tape and the counters under the feet of everybody else;
- one sector window serves the FAT and every directory, each open file has a buffer of
  its own, and a long name is several entries tied by a checksum: what a call sees
  depends on what any earlier call left in them;
- several places wait for each other: the generator for the cursor, the leader for the
  slowest, the barrier for all.

What makes each part correct: the coordinator - barrier, join, lead cap, exact
rebases, one sequence for all, nothing starves; the proxy - it shows a past state of
its session in this epoch; the worker - tape, markers and credits are conserved, its
lead is bounded, an old epoch touches nothing; the rings - no id is delivered twice or
skipped unnoticed; the oracle - never over budget, never a slot that does not exist;
the shims - a handle is never served by two files, a pool never leaks; FatFs - every
cluster has one owner or is free, a lookup finds what was registered, a call changes what
it names and nothing else, the chip is current when nobody writes; the wear
leveller - no logical sector changes place unseen, whatever driver call fails.

## 2. The modules

| module | what it is |
|---|---|
| `BoundedLead` | abstract specification: positions that only grow, the next step of one bounded by the slowest plus a lead |
| `Lockstep` | coordinator, proxies, ports and workers of a field of sessions |
| `SessionWorker` | one worker in full detail, with its proxy, under any coordinator |
| `LockstepProofs` | theorems about `Lockstep`: types, acks, join, watermark, barrier |
| `LockstepTapeProofs` | theorems about `Lockstep`: what a worker holds and plays, and the field in one mode |
| `SessionWorkerProofs` | theorems about `SessionWorker`: epochs, order, bound and conservation of the tape, the boot bracket |
| `FieldWorkerProofs` | `SessionWorker` implements the worker of `Lockstep` |
| `Churn` | the workload generator, as operators on its state |
| `Workload` | the generator, the entries on their way, and a filesystem that executes them later |
| `FoldLemmas` | facts about sums and walks along sequences, for the proofs |
| `WorkloadProofs` | theorems about `Workload`, after what an event of `Churn` does to its own table |
| `FlatDisk` | abstract specification: an array of sectors that a write in progress may change, and nothing else |
| `WearLevel` | the wear-levelling layer and the block layer over the emulated chip |
| `WearLevelProofs` | `WearLevel` implements `FlatDisk`, for every chip |
| `FatTable` | FatFs, lower half: the window, and chains of clusters, as operators on the volume |
| `FatDirectory` | tables of entries: lookup, listing, registration and removal of short and long names |
| `FatDirectoryProofs` | theorems about the operators of `FatTable` and `FatDirectory`: window, chains, names in a table |
| `FatFile` | the calls of FatFs: paths, open, read, write, sync, seek, unlink, mkdir, opendir, readdir, mount, mkfs |
| `FileStore` | abstract specification: a tree of files of which a call changes the one it names |
| `FatVolume` | the calls of `bindings/fatfs/shim.c` on a volume, in any order, with their pools of handles |
| `MCLockstep`, `MCSessionWorker`, `MCWorkload`, `MCFatVolume` | workloads, costs, names, profiles and symmetry for TLC |

### Lockstep

`coordinator` is the state of `createLockstep` (`lockstep.js:127-148`), `acked` what
the proxies merged, `toWorker` and `toMain` the two directions of each port, and
`worker` the closure of `installWorkerHost`. One action per entry point: `Frame`,
`Step`, `SetMode`, `SetSpeed`, `Start`, `Stop`, `Broadcast`, `Reset`; `ReceiveAck`;
`HandleGrant`, `HandleEntries`, `HandleReset`, `RunnerReady`, `CommandOp`,
`CommandQuiesced`. `computeGrants` is an operator with the clauses of the source:
`PaceAdvance`, `RaceAdvance`, `BoundedMax`, `DerivedGrant`.

Time is counted in frames at scale 1, so `chunkNs()` is the scale. An entry carries,
for each session, where it ends on the tape: what an entry costs is a property of the
filesystem which the coordinator never sees and TLC chooses freely from `Costs`. The
worker's queue is therefore a pair of positions, and drained entries are those whose
end lies behind the playback position; `SessionWorker` shows that this is what the
queue of the code amounts to. A drain that runs out of `MAX_OPS_PER_FRAME` steps stops
anywhere short of the ceiling (`ExecBound`). `forceProduce`, `raceStepLimit` and
`frontier` are set and consumed within one task and are not variables. A grant records
the rule it was derived by; this is not on the wire, and only properties read it.

### SessionWorker

The closure is the record `w`, so that the functions of the code (`EnqueueBatch`,
`Pump`, `Drain`, `SetPrep`, `Backpressured`, `DeviceReset`, ...) are operators from one
state to the next and a handler composes them as the code does, re-pump inside a drain
included. A command is a *fiber* that performs one operation of its script at a time:
flash traffic, counted or not (`Counts`: `gc()` and the raw `fs.*` calls do not bump the
counter of file operations, nor does a gc entry), a throw, a `format()`, or the two ends of the
prep bracket. Fibers
outlive the reset that voids their worker state (`StaleOp`). The coordinator is an
envelope: it may ship the next entry at any time and grant any entry limit between the
acknowledged cursor and what it shipped and any ceiling from the acknowledged playback
on, which contains all that `lockstep.js` sends.

`ImplementsFieldWorker` instantiates `Lockstep` with a field of one session and the
refinement mapping from `w` to the worker variables there, and states that each step
of this worker is a step of that one or leaves it alone. It does so for workloads
without bracket, format and uncompilable source, which `Lockstep` does not have, and for
steps that leave room on the queue (`RoomInBacklog`): what is queued before the step and what
the entries it closes add to it, without what it plays in between, stay below `BACKLOG_CAP`, a guard of 100,000 steps in the code, which `Lockstep` does not
have either.

### Churn and Workload

`Churn` has the fields of `ChurnModel` in a record; `NextEvents` is `next()` as the set
of events that the draws of its generator may give, each with the state it leaves, and
`Apply` is `apply()`. The weights and the percentage of replacement only decide how often
a draw has an outcome, never whether it may, so a draw is any of its outcomes. The two
choices among live files have the same candidates, because the weight of a file is at
least one. A name is the slot and the bytes written so far, from which the code makes it.

`Workload` composes it with the way of an entry: `GenerateEvent` is `genStep()`, which
applies the event to the model at once; `ExecEntry` is `execRealEntry()`, which issues it
to the filesystem later and leaves the entry where it is when the filesystem refuses;
`Broadcast` with `ConsoleWrite`, `ConsoleDelete`, `FormatOp` and `MountOp` are the console;
`Reset` and `HandleReset` the two ends of a reset, between which the old epoch may go on
executing. The filesystem is external: it stores what surely fits, and refuses a removal of
what it does not have. `meddled` is a history of what the console took from the churn. A
session does not see the others, so one is modelled.

The console's `writeFile()` draws a name that it has not drawn before (`FreshNames`) and a
size, and nothing bounds how much of that accumulates. A write for which there is no room may
be refused, and then leaves the old file, none, or a stump (`WriteOutcomes`); `check()` throws
before `tracked.add()`, so what is left is on the chip and not in `names()`, until a churn entry
that threw is tried again. `Crowded` says that next to the console's files the chip lacks room
for what the churn may need.

### WearLevel

`page` and `saved` are the chip: the data pages and the two copies of the state sector,
`wl` is `WL_Flash::state`, and `pc` names the next call of the flash driver, so that
one step is one such call with the computation around it. `updateWL()` is `UpdateWL`,
`EraseDummy`, `CopyPage`, `RecordFirst`, `RecordSecond` and, when a round ends,
`WipeFirst` to `SaveSecond`, which are also what `initSections()` does to a new chip;
`init()` is `PowerUp` with the three `Mend` actions; `disk_write()` is `DiskWrite`
followed by `EraseSector` and `ProgramSector` for each sector, a possible move of the
dummy before each erase. A program only clears bits: over an erased page it is exact,
over its own content it changes nothing, over any other it leaves `Junk`.

`Fail` is a driver call that returns an error anywhere in a write, `PowerCut` the end
of power between any two calls, in the middle of the copy loop too. The emulated chip
(`device.js`) does neither, and lives in memory, so that in this program only a format
starts the layer anew and no restart ever meets a state half written: a restart is a
behaviour of `WL_Flash.cpp`, not a hazard of FlashVis. The error paths and the recovery are
modelled because the code has them. It does not survive everything, and the model names what
it leaves out. `FatalWindow`: while `init()` rewrites the first copy from the second,
and while the first copy is wiped at the end of a round if an earlier cut kept a record
out of the second. `failed`: a driver error in the second record or in the saving of
the state, followed by a cut before the state is next saved. In each of these the
flash no longer determines the map that was in force.

`ImplementsFlatDisk` instantiates `FlatDisk` with the sectors read through the map in
force - or, with the power off, the one the next start would find - and the write in
progress; an acknowledged write commits, a refused or interrupted one may have left
anything in the sectors it names and has touched no other.

### FatTable, FatDirectory, FatFile and FatVolume

`v` is the `FATFS` object with the disk under it: the window with its sector and dirty
flag, the allocation hint and the mount. The three lower modules are operators from the
volume before a call to the volume after it, composed as `ff.c` composes them:
`MoveWindow`, `RemoveChain`, `Stretch`, `DirFind`, `DirRegister`, `FollowPath`, `Open`,
`Write`, ... . Nothing is read from the disk but through the window, a file's buffer or a
transfer of whole sectors, so a lookup moves the window and thereby flushes it, as in the
code. `FatVolume` makes each call of the shim one action, which it is: the code has
one thread and no lock. `store` is a history: what the volume holds, read off it
after every call; `torn` records that the volume was taken away from a writer.

A directory is a sequence of entries with deleted and zero ones; a long name is its pieces
in reverse order, each with the checksum of the generated short name. Names are
abstracted to what tells them apart: a short name is a body and a number (the checksum
stands for it), pieces are compared whole. A name that loses its form has a numbered short
name for each of `Tries` tries (99 in the code): five counted ones, then hashes of the name and
the try, which may repeat one another and those of other names in any way. `Number` is the first
that `dir_find()` does not find, and a name that finds them all taken is denied, as `FR_DENIED`
is; `Searched` is what those lookups do to the window. Data is counted in units of a directory entry. Reads and writes are
cut at sector ends as in `f_read` and `f_write`, whole sectors past the buffer.

The configuration is the one `ff_format()` and `ffconf.h` give: FAT12, 4096-byte sectors,
one sector per cluster, two FATs that fit a sector each, a root table of one sector
(`n_root` 128), `FF_FS_TINY` 0, long names, `FF_FS_LOCK` 0, `FF_FS_RPATH` 0.
`free_clst` stays unknown on FAT12, `remove_chain()` is only called for whole chains, a
handle that writes cannot read. With `FF_FS_LOCK` 0 it is the caller's part never to
open a file twice when one of the two writes, nor to remove what is open; callers here
keep to it. Directories nest one level, and no name that a caller uses has the form of a
generated short name (a tilde and a number).

The disk does not fail and power is not cut here: `device.js` does neither, and
`WearLevel` has what the layer between does then. So the two models meet at the sectors
of `FlatDisk`: what `FatVolume` calls `disk` is what `WearLevel` shows.

`ImplementsFileStore` instantiates `FileStore` with `store` and the files open for
writing: a call that succeeds has done what it was asked and nothing else, one that
fails has done nothing or, when it ran out of room, has written a beginning of its data.

## 3. The runs

| run | question | size |
|---|---|---|
| `lockstep_pace` | Pace with run, stop, step, console: barrier, join, exact rebases, types | 2 sessions, 2 entries, 3 rounds |
| `lockstep_race` | Race with sessions that run out of steps, a reset and a runner still loading: lead cap, drained means played, epochs, the generator is never starved | 2 sessions, 3 entries, 1 reset |
| `lockstep_switch` | mode switches, speed changes, ungated steps: watermark and join survive | 2 sessions, 1 entry, 3 rounds |
| `lockstep_live` | Pace, running or paused, with a reset: every command is eventually drained by all | 2 sessions, 2 entries, 1 reset |
| `lockstep_pinned` | *violation*: paused Race does not drain a command | 2 sessions, 1 entry |
| `worker_tape` | tape order, conservation of credits, both caps, refinement of `Lockstep` | 4 workloads |
| `worker_boot` | boot bracket and the displayed counter past it, console brackets and formats, gc and raw operations, a reset over live fibers | 4 workloads, 2 epochs |
| `worker_slack` | *violation*: after boot the execution cap is off by what boot played | boot workload |
| `workload` | generator and filesystem agree, what makes an entry throw, the ceiling, tracked names, progress | 2 slots, files of 1, 3 and once 5 bytes, ceiling 4, 8-byte wrap, 2 console files of 1 or 2 bytes, room for 6 bytes and 3 files, 2 entries ahead, 1 reset |
| `wear_level` | flat disk under moves, failures, cuts and formats; the dummy takes every sector everywhere | 6 sectors of which 2 for data, a move every 2 erases, 2 contents |
| `fat_tree` | two long names with one short form in a directory, one of which may be denied a number, an iterator, refused mkdirs: chains, tables, chip, reads, listing, file store | 3 clusters, 4 entries to a sector, 2 directories |
| `fat_open` | a handle that reads, writes, appends and seeks, next to whole files: the same, and a write stops only when nothing is free | 2 clusters of 2 units, 2 files |

Bounds and why they are enough. Two sessions are the smallest field with a slowest and
a leader; all clauses of `computeGrants` compare one session with the minimum of the
others. `Costs` always has an entry dear for one and free (or cheap) for the other, in
both directions, which is what separates them. Two entries are needed for a join to be
broken, three plus the lookahead for a Race leader to meet the watermark with entries
to spare. `MaxRound` bounds how often grants are derived: two rounds ahead, the
shortest violation of the barrier, needs three. `MaxInFlight` of two lets a grant and
entries, a grant and an ack, or two grants share a port; a port with more mail holds
re-sent copies of the same round. `IdleRounds` drops, in the runs with a liveness property, rounds
that change no grant; they leave everything but the round number as it was. In
`SessionWorker` the caps are small enough that each is hit by some workload and large
enough that an entry can be executed ahead; in `worker_tape` the nine steps of
`BACKLOG_CAP` are reached by the workload with source that does not compile, and the others,
of which the refinement is asked, always keep `RoomInBacklog`; `MaxMail` of one still lets a reset and a
fiber, or a grant and an ack, cross. The worker runs allow deadlock because the
workload ends there; the field's runs do not. In `wear_level` two data sectors on three
pages are enough for the dummy to pass between, before and behind the sectors of one
write, for the move count to wrap and for both copies of the state to be in every
relation of age. The map does not depend on the number of sectors in any other way,
which the proof makes precise; three sectors were checked once (7.7 million states).
In `workload` two slots make eviction happen as well as free slots and replacement; of the
sizes, one small and one large file fill the ceiling, three do not fit it, and the forced
file is larger than the ceiling alone. The counter wraps once and the target can be hit or
jumped over. The chip takes the churn at its largest and one byte or one file more: with one small file of
the console everything fits, with a large one or two of them it is `Crowded`, in bytes or in
files, and both the console's and the churn's writes are refused. Two fresh names are
enough for both, and for a stump next to a file; stumps are empty or of one byte.

In `fat_tree` a directory's first cluster has room for two entries beside the dots, so
the first long name stretches it, the second makes a third cluster scarce, and with a file
each the volume is full; the name of the second directory fills the root, so that mkdir is refused
after it has taken a cluster. The two long names agree in their first piece and in their
short body, so both the comparison of pieces and the numbering matter. There are two tries, and
the hash of one of the two happens to be the first number again, so that next to the other with
that number it is denied. In `fat_open`
files of one and a half sectors make every write cross a sector end and a partial
sector, and two clusters cannot hold two of them; seeks go beyond the end and before the
start. Both files are written with the same value, which keeps the run small: that one
file's data does not appear in the other is `ChainsSound`, and `fat_tree` writes two.

Fairness. `WearIsLevelled` assumes none: it says that if the dummy keeps moving, and cuts
and formats cease, every sector comes to every page again and again. In the field,
`FairSpec` assumes weak fairness of the frame timer (`setInterval`), of the
delivery of each port in each direction, of the handlers of a worker, of the load of a
runner and of the settling of a command. The browser's event loop and the quiescence
poll justify these; nothing is assumed of the user. In `workload`, the worker executes
and takes its messages, and the generator makes an event again and again (strong fairness:
it is switched off while entries are under way, and its coin may say gc, but for a share
below one not for ever): the page is running.

Each property is paired with a fault in a mapped definition that TLC finds by it. The
faulty forms (`DrainedStep`, `UnboundedMax`, `OldEntries`, `MarkerWithoutCredit`, ...)
stand before the definition they distort, marked `(fault)`, and nothing uses them.

## 4. The proofs

`LockstepProofs` proves, for every set of sessions, every cost, bound and sequence of
user actions that `ConstantsAssumption` allows:

| theorem | of the specification |
|---|---|
| `TypeCorrect` | `[]TypeOK` |
| `AcksAreOfThePast` | `[]AckedIsPast` |
| `PaceIsJoined` | `[]PaceJoin` |
| `RaceIsBounded` | `[]RaceWatermark` |
| `RaceLeadIsBounded` | `RaceLead`, an action property |
| `FieldImplementsBarrier` | `BarrierSpec`, the refinement of `BoundedLead` |

None of the invariants is inductive alone. The inductive invariant `IInv` adds to the
types: on every port resets are in order of epoch and grants and acks in order of
round (`PortsInv`); every ack on the way is of the past of its session (`AcksArePast`);
the worker's own positions are in order (`WorkerInv`); the coordinator's round is at
most one ahead of what anybody acknowledged, so that every grant in force is of this
round or the last (`RoundInv`); in Pace, everybody drained the entries below
`sharedIndex` (`SharedIndexReached`); the baselines have a common origin
(`CommonOrigin`). The watermark follows since the minimum the coordinator takes is
over acknowledged playback, which is of the past and so below the true one, while what
a session has played never shrinks within an epoch; a reset starts an epoch at which
the old one's grants are no longer in force. The barrier follows from `RoundInv`.
Arithmetic of the bounded maximum and of sequences is in lemmas, cited by name.

`LockstepTapeProofs` stands on `IInv` and adds what the messages contain:

| theorem | of the specification | assuming |
|---|---|---|
| `PrefixIsCanonical` | `[]CanonicalPrefix` | |
| `DrainedIsPlayed` | `[]DrainedWasPlayed` | |
| `RebaseIsExact` | `RebaseExact`, an action property | `Modes = {"pace"}` |
| `FieldImplementsJoin` | `JoinSpec`, a refinement of `BoundedLead` | `Modes = {"pace"}` |
| `FieldImplementsLeadCap` | `LeadCapSpec`, a refinement of `BoundedLead` | `PlainRace` |

`TInv` says that for each session and each epoch there is one tape of which the session
holds a prefix and of which every `ENTRIES` message on the way to it is a piece
(`Canonical`; in the coordinator's epoch the tape is `sequence`), that the worker stands
on that tape (`Stands`: drained below the cursor, its end played, playback not past what
was executed, and what was executed the end of the cursor's last entry, or inside the
next for a command in flight), and that an ack never reports an entry as drained without
its tape (`AckedWasPlayed`). The tape of an epoch that is over must be remembered,
since entries of it are still on the way: hence the existential. `RebaseExact`, the join
and the lead cap say something of a field that stays in one mode, and are properties of the
runs that keep to it: `lockstep_pace` has `Modes = {"pace"}`, and `lockstep_race` is a `PlainRace` (Race only,
neither speed changes nor steps). With a mode switch
or an ungated step they are false, and the theorems of `LockstepProofs` are what is left.

`SessionWorkerProofs` and, of the last theorem, `FieldWorkerProofs` prove, for every plan, every cap and every bound that
`WorkerAssumption` and `PlansAssumption` allow:

| theorem | of the specification | assuming |
|---|---|---|
| `WInvariant` | `[]WInv` | |
| `TapeOfTheEpoch` | `[]TapeIsOfTheEpoch` | |
| `InOrderTape` | `[]TapeInOrder` | `MeteredPlans` |
| `BoundedTape` | `[]TapeIsBounded` | `MeteredPlans` |
| `ConservedOps` | `[]OpsConserved` | `MeteredPlans`, `MaxEpoch = 0` |
| `InstantBracket` | `[]BracketIsInstant` | `OneBracket` |
| `BootIsNeverAdded` | `BootIsNotAdded`, an action property | `BootFirst` |
| `FieldWorkerImplemented` | `ImplementsFieldWorker` | `MeteredPlans`, `TimedPlans` |

The handlers are compositions of functions from one state of the worker to another, and
the proofs follow them: each function has a lemma that says what it does to a state u
(`EnqueueIs`, `RoundIs`, `SpendIs`, `IoIs`, ...), in the terms the invariants need. `pump()`
and `drain()` are loops; what one round of them keeps within a set of states, they keep
(`PumpStays`, `DrainStays`), and each invariant is such a set. `Spend` chooses how many steps
a drain finishes by a maximum, and that there is one is part of `SpendIs`.

`WInv` is inductive for every plan. It needs that resets arrive in order and are never
ahead of the coordinator (`Rising`), that what a worker holds and what is shipped to it
are pieces of the plan (`Shipped`), and that of the bodies that have not settled only one
is of this epoch and is that of the entry at the cursor (`OneBody`): else an operation of an
abandoned command would go behind the tape of another entry. `MInv` adds that the queue is in
order (`InOrder`: markers of what is executed and not drained, each behind the tape of
its entry, what is in flight behind them all), that what is left of it is what was executed
and not played, and that what is older than the newest entry, or than the command in flight,
is below the caps (`Capped`). The command in flight matters: its operations are never held
back, so the bound must be known of what is before it when it starts. `MeteredPlans`, no bracket and
no format, is what the workloads of `worker_tape` have; with a bracket or a format the three
are false (`worker_slack`). `OpsConserved` stops with the first reset, since a fiber of the
old epoch counts an operation that is then refused (`StaleOp`); the run has `MaxEpoch` 0.

`BInv` says that the cursor is between the two ends of a bracket only with metering off,
that no step on the tape is of an entry from the one to the other, and that no body
that has not settled, of any epoch, switches metering. The last is `OneBracket`: a plan that has a
bracket has one at a time, and no command that switches metering itself, as in what the
playground sends at boot and in `worker_boot`; `setPrep()` asks nobody for the epoch, so
a stale one could open the bracket's inside to the tape.

`BootInv` adds to `BInv` where the counter stands around the bracket. `Boots` is about the
worker's: before the bracket's end nothing
is on the tape and a command is in flight only with metering off; past it the tape is in
order (`InOrder`, as in `MInv`), each marker on it credits one operation if its entry did
one that counts (`Priced`), and the counter is the number of the entries drained since that did.
`drain()` takes a piece off the queue, and what the piece credits is what the entries it
closes did (`CreditsOfPart`): that the markers come one entry after the other, none left
out, is what `InOrder` is needed for. `Reported` is about the acks: each says of its counter
what was true when it was sent, and none is behind another that left before it, so the proxy's
maximum moves only to a count that is true of the drained entries merged with it.
`BootFirst` is what the property is about: the bracket
opens the plan and what follows it is churn or an entry that does nothing. That the property is about moves,
and not about the value, is the code's doing: until the bracket is closed an ack may carry the count
of boot, and a maximum does not go back to zero (section 5).

`FieldWorkerImplemented` shows that the worker of `Lockstep` says what this one does with
no more than positions: it plays up to a time, and an entry is drained when its end lies
behind. `FInv` adds to `MInv` what makes the two alike. Between handlers the worker
*stands* (`Stands`): each marker on the queue is at the time at which its entry ends in the plan
(`Placed`), what is executed is where the entry before the cursor ends, unless a command is in
flight (`Settles`), and what is left of a command's body takes the tape to the end of its entry
(`Bodies`). The argument goes by function. `pump()` has rounds enough (`PumpWalks`): the model
runs it a fixed number of times, and it stops because an entry may not be executed or a command
starts, never because the rounds are over. The loop of `drain()` plays to a position by which
the entries whose markers it passed have ended, and those whose markers are left have not
ended before it (`SpendPlays`): `Lockstep`'s choice of a position and of what is drained.
`ServesIs` puts the two pumps of a grant and the drain between them together, and each handler
then is `Lockstep`'s handler, or a step that is not seen: of a stale fiber, of an operation that
leaves no tape. `TimedPlans` asks of the plans what those of `worker_tape` have: an operation's
flash traffic takes time, an operation that throws is the last and leaves no tape of its own, a
churn entry is one operation at most, source that does not compile does nothing, and an entry
ends where the durations up to it add up to (`PlanOf`).
Traffic that took no time would leave steps on the queue that no position shows.

`WorkloadProofs` proves, for every profile of the generator (slots, classes, sizes, target
and slack, counter width), capacity in bytes and in files, names and sizes of the console's files,
stumps and lookahead that `ChurnAssumption` and
`WorkloadAssumption` allow:

| theorem | of the specification |
|---|---|
| `WorkloadTypes` | `[]TypeOK` |
| `FilesystemAgrees` | `[]AgreesWithOracle` |
| `CeilingIsKept` | `[]CeilingHolds` |
| `WorkloadNeverThrows` | `[]NothingThrows` |
| `RunnerTracksTheChip` | `[]TrackedIsTheChip` |

The first three rest on `OracleInv`: the types, that the live bytes are the sum of
the table (`Balanced`), and that playing the entries on their way over the chip gives the
table (`Agrees`). The lemmas about `Churn` supply the step: an event that `next()` may give is
sound for the table it was drawn from (`NextFollows`) and `apply()` changes the table
as the file operation changes a chip (`ApplySound`, `ApplyFiles`). That nothing throws is
not a consequence of it: agreement at the end of the queue says nothing of the entries
in between. `RoomInv` says that the queue can be played entry by entry over what the churn
has on the chip, with every entry served on the way and never more on the chip than the churn
may ask for (`Stocked`), also over what a refused write has left of the file at the head of the
queue, which is tried again (`Tried`, `Stores`); that a slot has one file (`Single`, `Alone`), which
bounds the number of files; that a reset in the queue is followed by a format, and a format by a
mount (`Orderly`); and that a throw means the console took a file, or a write that did not fit,
which by `NoRoomIsCrowded` is the doing of the console's files. No theorem assumes that the chip
is large enough. `TrackInv` says that tracked and stored names differ by no more than the
console's stumps and the file of an entry that threw (`Tracks`): the retry of the entry mends the
latter, a format or a reset both.

Sums and walks are recursive definitions of the community modules. `FoldLemmas`
reduces an induction about one to a set of numbers with zero and successors
(`SetInduction`, from the well-foundedness of `<`), so that the induction's formula is a
set and never an operator, and from there shows that the recursion has a
solution (`FoldExists`) and what the models use of it.

`WearLevelProofs` proves, for every number of sectors that leaves one for data, every
update rate and every set of contents (`WLAssumption`, `NoCallAssumption`):

| theorem | of the specification |
|---|---|
| `WearTypeCorrect` | `[]TypeOK` |
| `WearIsInvisible` | `ImplementsFlatDisk`, the refinement of `FlatDisk` |

The heart of it is `MoveChangesOneAddress`: with the modulus of `calcAddr` unfolded
once (`AddressOf`), the map after a move differs from the map before in one sector,
the one on the page that was copied into the dummy, also where the position wraps and
the move count with it. The inductive invariant `IInv` says what the dummy holds
during a move (`MoveInv`), what the two copies of the state hold while they are
written (`SaveInv`), in the middle of a round (`RoundInv`: the records are exactly the
pages behind the dummy), while `init()` mends one (`MendInv`) and with the power off
(`Restartable`), and which sectors a write has erased and programmed so far
(`DataInv`). `CutIsUnseen` then says that at any cut the map `init()` would find shows
what the map in memory shows: it is the same map, or the one before or after a move
whose two pages hold the same. Each action is mapped to one of `FlatDisk` in a lemma.

`FatDirectoryProofs` proves what the operators of `FatTable` and `FatDirectory` do to any
volume that is sound, for every number of clusters, every sector size and every set of
names that `FatAssumption` and `NameAssumption` allow:

| theorem | of the call |
|---|---|
| `NewChainSound`, `StretchSound` | `create_chain()`: one free cluster begins or ends one chain, all others stay |
| `RemoveSound` | `remove_chain()`: one chain is free, all others stay |
| `NumberIs` | the search with `gen_numname()`: the first numbered name that no entry has, or none when all tries are taken |
| `DirFindIs` | `dir_find()` finds a name just when it is there |
| `DirReadIs` | `dir_read()` comes to the first name at or behind a place, skips none, and reads it by its own name when its pieces begin there or behind |
| `DirRegisterIs` | `dir_register()` adds the name, stretches the table if it must, or, without room or a number, changes nothing |
| `DirRemoveIs` | `dir_remove()` takes the name, its pieces, and no more |

Three notions carry them. An image is what the volume holds: `Show` is what FatFs sees
through its window, `Chip` what has come to the chip, and `VolOK` says on which sectors
the window may be; `Moved` is a volume whose window went elsewhere, flushing what was
dirty. `FatSound` says that the chains of a set of heads end and do not meet, and that no
other cluster is in use unless the FAT is `loose`, as it may be on the chip. `NamesOK` says of a table
that its live entries stand behind all of their pieces (`Behind`), that no two have one
name or short name (`Different`), that nothing follows a zero entry, and, unless it is loose,
that no piece is without its name (`Owned`). A name is stored unit by unit, last piece first, and
the window may flush after any of them: `RegisterIs` shows that what was stored
so far is a sound table of the same names but for pieces without a name, so `DirRegisterIs`
says of the chip that it holds the old table, the new one, or that. Nothing is assumed of how
many names collide, nor of the hash: a numbered name is any that no caller uses as a name of its
own (`NameAssumption`), and `SearchedIs` follows the window through the lookups, also to the end
of the tries.

Model-checked only: the calls of `FatFile` and all of `FatVolume`, which rest on those operators; and what needs fairness or ENABLED (`WearIsLevelled`, `BroadcastDrains`,
`RunGoesOn`, `WritesGoOn`), which is out of the prover's reach.

## 5. What the runs found

- `lockstep_pinned`: paused in Race, the leader is held at the watermark of a slowest
  session that has nothing left to play, so its part of the last command never drains,
  against ADR-0020 ("the consumer runs always"). Run, or Pace, releases it.
- `worker_slack`: `format()` zeroes `executedTapeNs` but not `playbackNs`, and the prep
  bracket adds to the latter only; backpressure compares the two, so after every boot
  execution may lead playback by what boot played on top of `TAPE_CAP`.
- `workload` passes, with a reservation in its properties: chip and generator agree until the
  console takes a file of the churn, and an entry throws only then or when the console's files
  crowd the chip. The latter takes a few clicks: each writes up to 32 KiB under a fresh name on a
  chip of 256 KiB, and a refused one may leave a stump that `names()` does not list. The
  next churn write then throws out of `pump()`. As to the former,
  `format()` and `deleteFile()` take such files, and the model restarts on
  `reset()` only, where ADR-0010 says that it "resets on every format/granule change". The
  next churn delete of a file that is gone then throws out of `pump()` in every session and
  the field waits until it is reset.
- `fat_tree`: when the parent of a new directory is full, `f_mkdir()` gives its cluster
  back in the window only (`ff.c:5164`). `dir_clear()` has flushed the FAT with the
  cluster in use before, so the chip shows it in use until the next call that syncs, and a
  mount in between loses it. `ChipIsCurrent` states the exception.
- The telemetry's walk is not silent: `shim.c:287` calls it "silent recursive walk", but
  `g_quiet` silences reads, and `move_window()` flushes a dirty window, which is a reported
  and timed erase and program. After a format without a mount the walk even mounts
  the volume (`Committed`).
- `ff_file_seek()` to before the start wraps to about 2^32; through a writing handle
  `f_lseek()` then extends the file over every cluster that is left (`Target`, `Beyond`).
- A churn name, `wNNNN-xxxxxxxx.bin`, takes three directory entries, so the root holds 42
  such files, where the generator has 256 slots and a ceiling of 112 KiB, which is 56 files of
  2 KiB. On this chip `Crowded` is always true, and `NothingThrows` does not exclude that a churn
  write throws with no help of the console.
- The counters on display are the proxy's maxima of what acks carried
  (`session-proxy.js:72-73`). `session-worker.js:414-416` and `playground.js:403,411` say that
  `prep(false)` zeroes them; it zeroes the worker's, and a maximum keeps what an ack of the open
  bracket reported until the later count passes it. Stated as an equality past the bracket,
  TLC refutes it; `BootIsNotAdded` is what the code does keep. `format()` and `mount()` count two
  operations, so what is seen is small.
- An iterator that was opened before a long-named file is created across its place may
  list that file under its short name; `ListingIsComplete` asks for the own names of
  the files that stayed.
- A command that outlives a reset is refused by `guard()`, but has counted its operation
  before, and `prep()` is not guarded at all and switches metering in the new epoch
  (`StaleOp` in `SessionWorker`); its traffic does not get there (`TapeIsOfTheEpoch`).

## 6. Not modelled, and the plan

Left out of the modelled parts: membership changes while running, display signals,
telemetry other than its walk of the volume, the pull path and the journal; in `Lockstep`
and `SessionWorker`, a churn operation that throws out of `pump()` (documented as fatal;
`Workload` has it); of the wear-levelling layer, the upgrade of version-1 layouts and the
configuration sector, which is written and never read; of FatFs, everything the shim
never calls (`f_rename`, `f_truncate`, `f_expand`, `f_getfree`, labels, string functions,
exFAT, FAT16 and FAT32), disk errors, time stamps and code pages.

Out of scope: drawing, heat (floating point, display only), the flash inspectors
(read-only), tests, build. The other four shims are thin layers over vendored filesystems
whose sources are not part of this tree; their pools of handles follow the same discipline
as the one in `FatVolume`.

Most of the C and C++ in the tree is not modelled, and most of that cannot be: of about
27,700 lines, 15,600 are the Unicode tables of `ffunicode.c`, and of the 7,100 lines of
`ff.c` less than half is compiled in this configuration.

Next, in order of weight:

1. Theorems: of `FatVolume` that `ChainsSound` and `DirectoriesSound` hold, from those of
   `FatDirectoryProofs`.
2. `Rings`: journal ids against the view's cursors, eviction, epochs, gap detection.
3. Signals (`holding`, `racePinned`, `csActive`) on top of `Lockstep`.
4. The pools of the other shims with the runner's handles above them.
