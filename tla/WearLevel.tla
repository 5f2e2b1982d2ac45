----------------------------- MODULE WearLevel ------------------------------
(***************************************************************************)
(* The wear-levelling layer under FatFs (fs/wear_levelling/src/            *)
(* WL_Flash.cpp) over the emulated NOR chip (web/src/device.js), with the  *)
(* block layer (bindings/fatfs/diskio.c) that drives it.                   *)
(*                                                                         *)
(* N logical sectors live on N + 1 physical pages; the page left over, the *)
(* dummy, travels: every RATE erases the page after it is copied into it.  *)
(* The map from sectors to pages is the dummy's position and the number of *)
(* rounds it made, kept in memory, and on flash in two copies of a state   *)
(* sector: a header, written once per round, and a record for each page    *)
(* the dummy has left behind in this round.                                *)
(*                                                                         *)
(* One step is one call of the Partition, the flash driver, with the       *)
(* computation around it; device.js makes each of them whole (the copy of  *)
(* a page, a loop of partial writes, is the exception).  Between two steps *)
(* the driver may fail or the power may go: device.js does neither, but    *)
(* the code is written for both, and its error paths and its recovery are  *)
(* modelled; see FatalWindow and "failed" for what it does not survive.    *)
(*                                                                         *)
(* A header is modelled by its move count: the code writes it with the    *)
(* position and the erase count at zero, and the rest of it is constant.   *)
(* The version-1 upgrade and the config sector, which is never read back,  *)
(* are left out.                                                           *)
(***************************************************************************)
EXTENDS Integers, Sequences

CONSTANTS
  SECTOR_COUNT,   \* sectors of the chip
  RATE,           \* wl_update_rate: erases per move of the dummy
  Value,          \* what FatFs writes into a sector
  Blank, Junk,    \* an erased page, a page programmed over or in part
  Bad,            \* a header whose CRC does not match
  NoCall

\* Two state sectors, the config sector and the dummy are not for data.
N == SECTOR_COUNT - 4

ASSUME WLAssumption ==
  /\ SECTOR_COUNT \in Nat /\ SECTOR_COUNT > 4
  /\ RATE \in Nat \ {0}
  /\ Bad \notin Nat

Sector  == 0..(N - 1)
Page    == 0..N
Content == Value \cup {Blank, Junk}

VARIABLES
  page,      \* data pages: page[p] is what physical page p holds
  saved,     \* the two copies of the state sector
  wl,        \* WL_Flash::state in memory
  pc,        \* the next call of the Partition, "idle" or "off"
  mend,      \* the copy of the state that init() is rewriting
  call,      \* the disk_write() in progress
  failed     \* the driver failed between the writes of the two copies

vars == <<page, saved, wl, pc, mend, call, failed>>

Write == {c \in [first : Sector, data : Seq(Content), done : Nat] :
            /\ c.data # <<>>
            /\ c.first + Len(c.data) <= N
            /\ c.done < Len(c.data)}

ASSUME NoCallAssumption == NoCall \notin Write

TypeOK ==
  /\ page \in [Page -> Content]
  /\ saved \in [1..2 -> [header : Sector \cup {Bad}, records : SUBSET Page]]
  /\ wl \in [pos : Page, moves : Sector, erases : 0..(RATE - 1)]
  /\ pc \in {"idle", "off", "updateWL", "eraseDummy", "copy", "record1", "record2",
             "wipe1", "save1", "wipe2", "save2", "erase", "program",
             "mendWipe", "mendSave", "mendRecords"}
  /\ mend \in 0..2
  /\ call \in Write \cup {NoCall}
  /\ failed \in BOOLEAN

-----------------------------------------------------------------------------
(* The chip *)

\* A program can only clear bits.
Program(old, new) ==
  CASE old = Blank -> new
    [] new = Blank -> old
    [] OTHER       -> IF old = new THEN old ELSE Junk

Erased == [header |-> Bad, records |-> {}]

-----------------------------------------------------------------------------
(* The address map *)

\* (fault) The comparison with the dummy is off by one.
CalcAddrOffByOne(m, s) ==
  LET result == (N - m.moves + s) % N
  IN  IF result <= m.pos THEN result ELSE result + 1

calcAddr(m, s) ==
  LET result == (N - m.moves + s) % N
  IN  IF result < m.pos THEN result ELSE result + 1

\* The page that the next move copies into the dummy.
Source(pos) == IF pos = N THEN 0 ELSE pos + 1

\* (fault) The move count wraps one round late.
MovedLate(m) ==
  IF m.pos < N
  THEN [pos |-> m.pos + 1, moves |-> m.moves]
  ELSE [pos |-> 0, moves |-> IF m.moves + 1 > N THEN 0 ELSE m.moves + 1]

\* (fault) The dummy stops at the end of its round.
MovedNoRound(m) == IF m.pos < N THEN [m EXCEPT !.pos = @ + 1] ELSE m

\* The map after a move: a round ends when the dummy has been everywhere.
Moved(m) ==
  IF m.pos < N
  THEN [pos |-> m.pos + 1, moves |-> m.moves]
  ELSE [pos |-> 0, moves |-> IF m.moves + 1 >= N THEN 0 ELSE m.moves + 1]

-----------------------------------------------------------------------------
(* What init() makes of the flash *)

Good(copy) == saved[copy].header # Bad

\* recoverPos(): the first page without a record, the last page if there is none.
RecoverPos(records) ==
  IF Page \subseteq records THEN N
  ELSE CHOOSE p \in Page \ records : \A q \in Page \ records : p <= q

\* The map init() starts with, and the copy of the state it rewrites first
\* (0: none).  A sound first copy that is not matched by the second is one
\* that a round has just begun with; a sound second copy alone is one whose
\* round was about to end.
Recovered ==
  CASE Good(1) /\ Good(2) -> [pos   |-> RecoverPos(saved[1].records),
                              moves |-> saved[1].header,
                              mend  |-> IF saved[1].header = saved[2].header THEN 0 ELSE 2]
    [] Good(1) /\ ~Good(2) -> [pos |-> 0, moves |-> saved[1].header, mend |-> 2]
    [] ~Good(1) /\ Good(2) -> [pos |-> N, moves |-> saved[2].header, mend |-> 1]
    [] OTHER -> [pos |-> 0, moves |-> 0, mend |-> 0]

-----------------------------------------------------------------------------
(* disk_write(): erase_range(), then write(), a sector at a time *)

DiskWrite(first, data) ==
  /\ pc = "idle"
  /\ call' = [first |-> first, data |-> data, done |-> 0]
  /\ pc' = "updateWL"
  /\ UNCHANGED <<page, saved, wl, mend, failed>>

Here == call.first + call.done

\* The call is through with this sector: on to the next, to the next pass
\* over all of them, or back to the caller.
Proceed(again, after) ==
  IF call.done + 1 < Len(call.data)
  THEN /\ call' = [call EXCEPT !.done = @ + 1]
       /\ pc' = again
  ELSE /\ call' = IF after = "idle" THEN NoCall ELSE [call EXCEPT !.done = 0]
       /\ pc' = after

EraseSector ==
  /\ pc = "erase"
  /\ page' = [page EXCEPT ![calcAddr(wl, Here)] = Blank]
  /\ Proceed("updateWL", "program")
  /\ UNCHANGED <<saved, wl, mend, failed>>

ProgramSector ==
  /\ pc = "program"
  /\ page' = [page EXCEPT ![calcAddr(wl, Here)] = Program(@, call.data[call.done + 1])]
  /\ Proceed("program", "idle")
  /\ UNCHANGED <<saved, wl, mend, failed>>

-----------------------------------------------------------------------------
(* updateWL(), before each erase *)

\* Every RATE erases the dummy moves.
UpdateWL ==
  /\ pc = "updateWL"
  /\ IF wl.erases + 1 < RATE
     THEN wl' = [wl EXCEPT !.erases = @ + 1] /\ pc' = "erase"
     ELSE wl' = [wl EXCEPT !.erases = 0]     /\ pc' = "eraseDummy"
  /\ UNCHANGED <<page, saved, mend, call, failed>>

EraseDummy ==
  /\ pc = "eraseDummy"
  /\ page' = [page EXCEPT ![wl.pos] = Blank]
  /\ pc' = "copy"
  /\ UNCHANGED <<saved, wl, mend, call, failed>>

CopyPage ==
  /\ pc = "copy"
  /\ page' = [page EXCEPT ![wl.pos] = Program(@, page[Source(wl.pos)])]
  /\ pc' = "record1"
  /\ UNCHANGED <<saved, wl, mend, call, failed>>

Recorded(copy) == [saved EXCEPT ![copy].records = @ \cup {wl.pos}]

RecordFirst ==
  /\ pc = "record1"
  /\ saved' = Recorded(1)
  /\ pc' = "record2"
  /\ UNCHANGED <<page, wl, mend, call, failed>>

RecordSecond ==
  /\ pc = "record2"
  /\ saved' = Recorded(2)
  /\ LET m == Moved([pos |-> wl.pos, moves |-> wl.moves])
     IN  wl' = [wl EXCEPT !.pos = m.pos, !.moves = m.moves]
  /\ pc' = IF wl.pos = N THEN "wipe1" ELSE "erase"
  /\ UNCHANGED <<page, mend, call, failed>>

\* A round is over, or the flash is new: both copies are written afresh.
WipeFirst ==
  /\ pc = "wipe1"
  /\ saved' = [saved EXCEPT ![1] = Erased]
  /\ pc' = "save1"
  /\ UNCHANGED <<page, wl, mend, call, failed>>

SaveFirst ==
  /\ pc = "save1"
  /\ saved' = [saved EXCEPT ![1].header = wl.moves]
  /\ pc' = "wipe2"
  /\ UNCHANGED <<page, wl, mend, call, failed>>

WipeSecond ==
  /\ pc = "wipe2"
  /\ saved' = [saved EXCEPT ![2] = Erased]
  /\ pc' = "save2"
  /\ UNCHANGED <<page, wl, mend, call, failed>>

SaveSecond ==
  /\ pc = "save2"
  /\ saved' = [saved EXCEPT ![2].header = wl.moves]
  /\ pc' = IF call = NoCall THEN "idle" ELSE "erase"
  /\ failed' = FALSE
  /\ UNCHANGED <<page, wl, mend, call>>

-----------------------------------------------------------------------------
(* init() *)

PowerUp ==
  /\ pc = "off"
  /\ wl' = [pos |-> Recovered.pos, moves |-> Recovered.moves, erases |-> 0]
  /\ mend' = Recovered.mend
  /\ \/ Recovered.mend # 0 /\ pc' = "mendWipe"
     \/ Recovered.mend = 0 /\ (Good(1) \/ Good(2)) /\ pc' = "idle"
     \/ ~Good(1) /\ ~Good(2) /\ pc' = "wipe1"
  /\ UNCHANGED <<page, saved, call, failed>>

MendWipe ==
  /\ pc = "mendWipe"
  /\ saved' = [saved EXCEPT ![mend] = Erased]
  /\ pc' = "mendSave"
  /\ UNCHANGED <<page, wl, mend, call, failed>>

MendSave ==
  /\ pc = "mendSave"
  /\ saved' = [saved EXCEPT ![mend].header = saved[3 - mend].header]
  /\ pc' = "mendRecords"
  /\ UNCHANGED <<page, wl, mend, call, failed>>

Missing == saved[3 - mend].records \ saved[mend].records

\* The records are copied one by one, in order.
MendRecord ==
  /\ pc = "mendRecords"
  /\ IF Missing # {}
     THEN /\ saved' = [saved EXCEPT ![mend].records = @ \cup
                         {CHOOSE p \in Missing : \A q \in Missing : p <= q}]
          /\ UNCHANGED <<pc, mend>>
     ELSE /\ pc' = "idle"
          /\ mend' = 0
          /\ UNCHANGED saved
  /\ UNCHANGED <<page, wl, call, failed>>

-----------------------------------------------------------------------------
(* The driver, the power and ff_format() *)

\* In the middle of a copy the dummy holds a part of it.
Torn == IF pc = "copy" THEN {page, [page EXCEPT ![wl.pos] = Junk]} ELSE {page}

\* The driver returns an error: the write is refused, and a move that had not
\* been recorded in both copies is put off to the next erase.  The map in
\* memory stays right, but from "record2" on the flash is out of step with it
\* until a round ends.
Fail ==
  /\ call # NoCall /\ pc # "updateWL"
  /\ page' \in Torn
  /\ wl' = IF pc \in {"eraseDummy", "copy", "record1", "record2"}
           THEN [wl EXCEPT !.erases = RATE - 1] ELSE wl
  /\ call' = NoCall
  /\ pc' = "idle"
  /\ failed' = (failed \/ pc \in {"record2", "wipe1", "save1", "wipe2", "save2"})
  /\ UNCHANGED <<saved, mend>>

\* The points at which the code does not survive an interruption.  While
\* init() rewrites the first copy from the second, the header is in place
\* before the records, and the next init() takes the first copy for whole.
\* And if an earlier interruption has kept a record out of the second copy,
\* that copy must not become the only one.
FatalWindow ==
  \/ pc = "mendRecords" /\ mend = 1
  \/ pc = "save1" /\ Good(2) /\ saved[2].records # Page

\* A driver error inside init() leaves the layer down just the same.
PowerCut ==
  /\ pc # "off"
  /\ ~failed
  /\ ~FatalWindow
  /\ page' \in Torn
  /\ pc' = "off"
  /\ mend' = 0
  /\ call' = NoCall
  /\ UNCHANGED <<saved, wl, failed>>

\* device.reset() and wlfat_up(): a blank chip, whatever was on it.
Format ==
  /\ pc \in {"idle", "off"}
  /\ page' = [p \in Page |-> Blank]
  /\ saved' = [copy \in 1..2 |-> Erased]
  /\ pc' = "off"
  /\ failed' = FALSE
  /\ UNCHANGED <<wl, mend, call>>

Init ==
  /\ page = [p \in Page |-> Blank]
  /\ saved = [copy \in 1..2 |-> Erased]
  /\ wl = [pos |-> 0, moves |-> 0, erases |-> 0]
  /\ pc = "off"
  /\ mend = 0
  /\ call = NoCall
  /\ failed = FALSE

Next ==
  \/ \E first \in Sector, length \in 1..N :
       /\ first + length <= N
       /\ \E data \in [1..length -> Value] : DiskWrite(first, data)
  \/ UpdateWL \/ EraseDummy \/ CopyPage \/ RecordFirst \/ RecordSecond
  \/ WipeFirst \/ SaveFirst \/ WipeSecond \/ SaveSecond
  \/ EraseSector \/ ProgramSector
  \/ PowerUp \/ MendWipe \/ MendSave \/ MendRecord
  \/ Fail \/ PowerCut \/ Format

Spec == Init /\ [][Next]_vars

-----------------------------------------------------------------------------
(* Properties *)

\* The map in force, or the one that the next start would find.
CurrentMap == IF pc = "off" THEN Recovered ELSE wl

View == [s \in Sector |-> page[calcAddr(CurrentMap, s)]]

Pending ==
  IF call = NoCall THEN [s \in {} |-> s]
  ELSE [s \in call.first..(call.first + Len(call.data) - 1) |->
          call.data[s - call.first + 1]]

Flat == INSTANCE FlatDisk WITH disk <- View, pending <- Pending

\* Wear levelling is invisible to FatFs: through all moves of the dummy, all
\* wraps of its rounds, failing driver calls and power cuts, a sector changes
\* only in a write that names it, and an acknowledged write is what is read.
ImplementsFlatDisk == Flat!Spec

\* What the layer is for: as long as the dummy moves and neither a cut nor a
\* format throws it back, every sector visits every page again and again.
WearIsLevelled ==
  /\ <>[][~PowerCut /\ ~Format]_vars
  /\ []<><<RecordSecond>>_vars
  => \A s \in Sector, p \in Page : []<>(calcAddr(wl, s) = p)
=============================================================================
