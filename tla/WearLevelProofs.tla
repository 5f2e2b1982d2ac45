-------------------------- MODULE WearLevelProofs ---------------------------
(***************************************************************************)
(* Wear levelling is invisible, for every size of the chip, every update   *)
(* rate and every content: WearLevel implements FlatDisk.                  *)
(*                                                                         *)
(* The argument has three parts.  Arithmetic: moving the dummy changes the *)
(* address of one sector only, the one whose page is copied into the dummy *)
(* (MoveChangesOneAddress), so that a move shows nowhere once the copy is  *)
(* complete (MoveIsUnseen).  Recovery: between any two calls of the flash  *)
(* driver the two copies of the state are such that init() finds a map     *)
(* that shows the same sectors (CutIsUnseen).  And the write: erase_range  *)
(* blanks the sectors one by one while the dummy may be moving under it,   *)
(* and write() then programs blank pages only (DataInv).  IInv puts the    *)
(* three together into an inductive invariant.                             *)
(***************************************************************************)
EXTENDS WearLevel, TLAPS

\* There is at least one sector.
LEMMA NPositive == N \in Nat /\ N > 0
BY WLAssumption DEF N

\* The modulus in calcAddr wraps at most once.
LEMMA ModOnce ==
  ASSUME NEW n \in Nat, n > 0, NEW x \in Int, 0 <= x, x < 2 * n
  PROVE  x % n = IF x < n THEN x ELSE x - n
<1>1. CASE x < n
  BY <1>1
<1>2. CASE x >= n
  BY <1>2
<1> QED BY <1>1, <1>2

\* The sector's distance from the start of the round, with the dummy left out.
Offset(m, s) == IF s < m.moves THEN N - m.moves + s ELSE s - m.moves

\* calcAddr without its modulus.
LEMMA AddressOf ==
  ASSUME NEW m, m.moves \in Sector, NEW s \in Sector
  PROVE  /\ Offset(m, s) \in Sector
         /\ calcAddr(m, s) = IF Offset(m, s) < m.pos THEN Offset(m, s) ELSE Offset(m, s) + 1
<1> DEFINE x == N - m.moves + s
<1>1. x \in Int /\ 0 <= x /\ x < 2 * N /\ N \in Nat /\ N > 0
  BY NPositive DEF Sector
<1>2. x % N = IF x < N THEN x ELSE x - N
  BY <1>1, ModOnce
<1>3. x % N = Offset(m, s)
  BY <1>1, <1>2 DEF Offset, Sector
<1>4. Offset(m, s) \in Sector
  BY NPositive DEF Offset, Sector
<1> QED BY <1>3, <1>4 DEF calcAddr

\* A sector is on a page, and never on the dummy.
LEMMA AddressIsAPage ==
  ASSUME NEW m, m.moves \in Sector, m.pos \in Page, NEW s \in Sector
  PROVE  calcAddr(m, s) \in Page \ {m.pos}
BY AddressOf, NPositive DEF Sector, Page

\* Two sectors are never on the same page.
LEMMA AddressesDiffer ==
  ASSUME NEW m, m.moves \in Sector, m.pos \in Page,
         NEW s \in Sector, NEW t \in Sector, s # t
  PROVE  calcAddr(m, s) # calcAddr(m, t)
<1>1. Offset(m, s) # Offset(m, t)
  BY NPositive DEF Offset, Sector
<1> QED BY <1>1, AddressOf, NPositive DEF Sector, Page

\* Moving the dummy takes the sector on the page after it (cyclically) to the
\* page the dummy leaves, and leaves every other sector where it is.
LEMMA MoveChangesOneAddress ==
  ASSUME NEW m, m.moves \in Sector, m.pos \in Page, NEW s \in Sector,
         NEW n, n.moves = Moved([pos |-> m.pos, moves |-> m.moves]).moves,
         n.pos = Moved([pos |-> m.pos, moves |-> m.moves]).pos
  PROVE  calcAddr(n, s) = IF calcAddr(m, s) = Source(m.pos) THEN m.pos ELSE calcAddr(m, s)
<1> DEFINE o == Offset(m, s)
           q == Offset(n, s)
<1>0. /\ o \in 0..(N - 1) /\ N \in Nat /\ N > 0 /\ m.pos \in 0..N
      /\ calcAddr(m, s) = IF o < m.pos THEN o ELSE o + 1
  BY AddressOf, NPositive DEF Sector, Page
<1>1. CASE m.pos < N
  <2>1. n.pos = m.pos + 1 /\ n.moves = m.moves
    BY <1>1 DEF Moved
  <2>2. q = o
    BY <2>1 DEF Offset
  <2>3. calcAddr(n, s) = IF q < n.pos THEN q ELSE q + 1
    BY <2>1, AddressOf
  <2>4. Source(m.pos) = m.pos + 1
    BY <1>0, <1>1 DEF Source
  <2> HIDE DEF o, q
  <2> QED BY <1>0, <1>1, <2>1, <2>2, <2>3, <2>4
<1>2. CASE m.pos = N
  <2>1. n.pos = 0 /\ n.moves = IF m.moves + 1 >= N THEN 0 ELSE m.moves + 1
    BY <1>2, NPositive DEF Moved
  <2>2. q = IF o = 0 THEN N - 1 ELSE o - 1
    BY <2>1, NPositive DEF Offset, Sector
  <2>3. n.moves \in Sector
    BY <2>1, NPositive DEF Sector
  <2>4. calcAddr(n, s) = IF q < n.pos THEN q ELSE q + 1
    BY <2>3, AddressOf
  <2>5. Source(m.pos) = 0
    BY <1>2 DEF Source
  <2> HIDE DEF o, q
  <2> QED BY <1>0, <1>2, <2>1, <2>2, <2>4, <2>5
<1> QED BY <1>0, <1>1, <1>2

-----------------------------------------------------------------------------
(* The inductive invariant *)

Starting == {"mendWipe", "mendSave", "mendRecords"}
Writing  == {"updateWL", "eraseDummy", "copy", "record1", "record2", "erase", "program"}
Saving   == {"wipe1", "save1", "wipe2", "save2"}

\* Who may be at which step.
CallInv ==
  /\ pc \in Writing => call # NoCall
  /\ pc \in Starting \cup {"off", "idle"} => call = NoCall
  /\ pc \in Starting => mend \in {1, 2}
  /\ call = NoCall /\ pc # "idle" => ~failed

\* What the dummy holds in the course of a move.
MoveInv ==
  /\ pc = "copy" => page[wl.pos] = Blank
  /\ pc \in {"record1", "record2"} => page[wl.pos] = page[Source(wl.pos)]
  /\ pc \in {"wipe1", "save1"} /\ call # NoCall => page[N] = page[0]
  /\ pc \in Saving => wl.pos = 0 /\ (call = NoCall => wl.moves = 0)

\* The copies of the state while they are written afresh.
Fresh(moves) == [header |-> moves, records |-> {}]

SaveInv ==
  /\ pc = "save1" => saved[1] = Erased
  /\ pc \in {"wipe2", "save2"} => saved[1] = Fresh(wl.moves)
  /\ pc = "save2" => saved[2] = Erased
  /\ pc \in {"wipe1", "save1"} /\ call = NoCall => ~Good(1) /\ ~Good(2)

\* The copies of the state in the middle of a round: they name the round, and
\* the first has a record of every page the dummy left.
RecordsReach(records, pos) ==
  records = 0..(pos - 1) \/ (pos = N /\ records = 0..N)

NextRound(moves) == IF moves + 1 >= N THEN 0 ELSE moves + 1

RoundInv ==
  /\ pc \in (Writing \cup {"idle"}) =>
       saved[1].header = wl.moves /\ saved[2].header = wl.moves
  /\ pc \in (Writing \cup {"idle"}) \ {"record2"} =>
       RecordsReach(saved[1].records, wl.pos)
  /\ pc = "record2" => saved[1].records = 0..wl.pos
  /\ pc = "wipe1" /\ call # NoCall =>
       /\ saved[1].header = saved[2].header /\ saved[1].header \in Sector
       /\ wl.moves = NextRound(saved[1].header)
       /\ saved[1].records = 0..N
  /\ pc = "save1" /\ call # NoCall =>
       saved[2].header \in Sector /\ wl.moves = NextRound(saved[2].header)

\* The copies of the state while init() makes them agree.
MendInv ==
  /\ pc \in Starting /\ mend = 2 => saved[1] = Fresh(wl.moves) /\ wl.pos = 0
  /\ pc \in Starting /\ mend = 1 =>
       saved[2] = [header |-> wl.moves, records |-> 0..N] /\ wl.pos = N
  /\ pc = "mendWipe" /\ mend = 1 => ~Good(1)
  /\ pc = "mendSave" => saved[mend] = Erased
  /\ pc = "mendRecords" => saved[mend].header = wl.moves
  /\ pc = "mendRecords" /\ mend = 1 =>
       \E k \in 0..(N + 1) : saved[1].records = 0..(k - 1)

\* What the copies may look like when the power comes back.
Restartable ==
  \/ /\ Good(1) /\ Good(2) /\ saved[1].header = saved[2].header
     /\ \E k \in 0..(N + 1) : saved[1].records = 0..(k - 1)
  \/ Good(1) /\ saved[1].records = {}
  \/ ~Good(1) /\ Good(2) /\ saved[2].records = 0..N
  \/ ~Good(1) /\ ~Good(2)

\* What a write has done so far to the sectors it names.
At(s) == page[calcAddr(wl, s)]

DataInv ==
  call # NoCall =>
    /\ pc # "program" => \A i \in 0..(call.done - 1) : At(call.first + i) = Blank
    /\ pc = "program" =>
         /\ \A i \in 0..(call.done - 1) : At(call.first + i) = call.data[i + 1]
         /\ \A i \in call.done..(Len(call.data) - 1) : At(call.first + i) = Blank

IInv ==
  /\ TypeOK /\ CallInv /\ MoveInv /\ SaveInv /\ MendInv /\ DataInv
  /\ ~failed => RoundInv
  /\ pc = "off" => Restartable
\* Only the position and the move count matter to the map.
LEMMA SameAddress ==
  ASSUME NEW m, NEW n, m.pos = n.pos, m.moves = n.moves, NEW s
  PROVE  calcAddr(m, s) = calcAddr(n, s)
BY DEF calcAddr

\* No sector is on the dummy.
LEMMA DummyUnseen ==
  ASSUME TypeOK, NEW s \in Sector
  PROVE  calcAddr(wl, s) \in Page \ {wl.pos}
BY AddressIsAPage DEF TypeOK

\* What a write in progress names are sectors and contents.
LEMMA CallType ==
  ASSUME TypeOK, call # NoCall
  PROVE  /\ call.first \in Nat /\ call.done \in Nat /\ Len(call.data) \in Nat
         /\ call.done < Len(call.data)
         /\ \A i \in 0..(Len(call.data) - 1) :
              call.first + i \in Sector /\ call.data[i + 1] \in Content
<1>1. call \in Write
  BY DEF TypeOK
<1>2. /\ call.first \in Sector /\ call.data \in Seq(Content) /\ call.done \in Nat
      /\ call.first + Len(call.data) <= N /\ call.done < Len(call.data)
  BY <1>1 DEF Write
<1>3. Len(call.data) \in Nat /\ \A j \in 1..Len(call.data) : call.data[j] \in Content
  BY <1>2
<1>4. ASSUME NEW i \in 0..(Len(call.data) - 1)
      PROVE  call.first + i \in Sector /\ call.data[i + 1] \in Content
  BY <1>2, <1>3, <1>4, NPositive DEF Sector
<1> QED BY <1>2, <1>3, <1>4, NPositive DEF Sector

\* An interrupted copy leaves contents in the pages.
LEMMA TornType ==
  ASSUME TypeOK
  PROVE  \A t \in Torn : t \in [Page -> Content]
BY DEF TypeOK, Torn, Content

\* The steps of a move and of saving the state.
MoveStep ==
  \/ UpdateWL \/ EraseDummy \/ CopyPage \/ RecordFirst \/ RecordSecond
  \/ WipeFirst \/ SaveFirst \/ WipeSecond \/ SaveSecond

\* A move is invisible: no sector reads differently after any of its steps.
LEMMA MoveIsUnseen ==
  ASSUME IInv, MoveStep, NEW s \in Sector
  PROVE  At(s)' = At(s)
<1> USE DEF IInv
<1>1. CASE UpdateWL
  BY <1>1, SameAddress DEF UpdateWL, At, TypeOK
<1>2. CASE EraseDummy
  BY <1>2, DummyUnseen DEF EraseDummy, At, TypeOK
<1>3. CASE CopyPage
  BY <1>3, DummyUnseen DEF CopyPage, At, TypeOK
<1>4. CASE RecordSecond
  <2> DEFINE m == Moved([pos |-> wl.pos, moves |-> wl.moves])
  <2>1. page' = page /\ wl'.pos = m.pos /\ wl'.moves = m.moves
    BY <1>4 DEF RecordSecond, TypeOK
  <2>2. calcAddr(wl', s) = IF calcAddr(wl, s) = Source(wl.pos) THEN wl.pos ELSE calcAddr(wl, s)
    BY <2>1, MoveChangesOneAddress DEF TypeOK
  <2>3. page[wl.pos] = page[Source(wl.pos)]
    BY <1>4 DEF RecordSecond, MoveInv
  <2> QED BY <2>1, <2>2, <2>3 DEF At
<1>5. CASE RecordFirst \/ WipeFirst \/ SaveFirst \/ WipeSecond \/ SaveSecond
  BY <1>5 DEF RecordFirst, WipeFirst, SaveFirst, WipeSecond, SaveSecond, At
<1> QED BY <1>1, <1>2, <1>3, <1>4, <1>5 DEF MoveStep

\* A step that shows nowhere keeps what the write has erased erased.
LEMMA DataKept ==
  ASSUME IInv, call' = call, pc # "program", pc' # "program",
         \A s \in Sector : At(s)' = At(s)
  PROVE  DataInv'
<1>1. SUFFICES ASSUME call # NoCall, NEW i \in 0..(call.done - 1)
               PROVE  At(call.first + i)' = Blank
  BY DEF DataInv
<1>2. call.first + i \in Sector
  BY <1>1, CallType DEF IInv
<1>3. At(call.first + i) = Blank
  BY <1>1 DEF IInv, DataInv
<1> QED BY <1>1, <1>2, <1>3

-----------------------------------------------------------------------------
(* Each action keeps the invariant *)

\* The steps of a move.
LEMMA UpdateWLKeeps == ASSUME IInv, UpdateWL PROVE IInv'
<1> USE DEF IInv
<1>1. TypeOK'
  BY WLAssumption DEF TypeOK, UpdateWL
<1>2. CallInv'
  BY DEF CallInv, UpdateWL, Starting, Writing
<1>3. MoveInv'
  BY DEF MoveInv, UpdateWL, Saving
<1>4. SaveInv'
  BY DEF SaveInv, UpdateWL
<1>5. MendInv'
  BY DEF MendInv, UpdateWL, Starting
<1>6. DataInv'
  BY MoveIsUnseen, DataKept DEF MoveStep, UpdateWL
<1>7. ~failed' => RoundInv'
  BY DEF RoundInv, UpdateWL, TypeOK, Writing
<1>8. pc' = "off" => Restartable'
  BY DEF UpdateWL
<1> QED BY <1>1, <1>2, <1>3, <1>4, <1>5, <1>6, <1>7, <1>8

LEMMA EraseDummyKeeps == ASSUME IInv, EraseDummy PROVE IInv'
<1> USE DEF IInv
<1>1. TypeOK'
  BY DEF TypeOK, EraseDummy, Content
<1>2. CallInv'
  BY DEF CallInv, EraseDummy, Starting, Writing
<1>3. MoveInv'
  BY DEF MoveInv, EraseDummy, TypeOK, Saving
<1>4. SaveInv'
  BY DEF SaveInv, EraseDummy
<1>5. MendInv'
  BY DEF MendInv, EraseDummy, Starting
<1>6. DataInv'
  BY MoveIsUnseen, DataKept DEF MoveStep, EraseDummy
<1>7. ~failed' => RoundInv'
  BY DEF RoundInv, EraseDummy, Writing
<1>8. pc' = "off" => Restartable'
  BY DEF EraseDummy
<1> QED BY <1>1, <1>2, <1>3, <1>4, <1>5, <1>6, <1>7, <1>8

LEMMA CopyPageKeeps == ASSUME IInv, CopyPage PROVE IInv'
<1> USE DEF IInv
<1>1. TypeOK'
  <2>1. Source(wl.pos) \in Page
    BY NPositive DEF TypeOK, Source, Page
  <2>2. page[wl.pos] \in Content /\ page[Source(wl.pos)] \in Content
    BY <2>1 DEF TypeOK
  <2>3. Program(page[wl.pos], page[Source(wl.pos)]) \in Content
    BY <2>2 DEF Program, Content
  <2>4. page' \in [Page -> Content]
    BY <2>3 DEF CopyPage, TypeOK
  <2> QED BY <2>4 DEF CopyPage, TypeOK
<1>2. CallInv'
  BY DEF CallInv, CopyPage, Starting, Writing
<1>3. MoveInv'
  BY DEF MoveInv, CopyPage, TypeOK, Saving, Program
<1>4. SaveInv'
  BY DEF SaveInv, CopyPage
<1>5. MendInv'
  BY DEF MendInv, CopyPage, Starting
<1>6. DataInv'
  BY MoveIsUnseen, DataKept DEF MoveStep, CopyPage
<1>7. ~failed' => RoundInv'
  BY DEF RoundInv, CopyPage, Writing
<1>8. pc' = "off" => Restartable'
  BY DEF CopyPage
<1> QED BY <1>1, <1>2, <1>3, <1>4, <1>5, <1>6, <1>7, <1>8

LEMMA RecordFirstKeeps == ASSUME IInv, RecordFirst PROVE IInv'
<1> USE DEF IInv
<1>1. TypeOK'
  BY DEF TypeOK, RecordFirst, Recorded
<1>2. CallInv'
  BY DEF CallInv, RecordFirst, Starting, Writing
<1>3. MoveInv'
  BY DEF MoveInv, RecordFirst, Saving
<1>4. SaveInv'
  BY DEF SaveInv, RecordFirst
<1>5. MendInv'
  BY DEF MendInv, RecordFirst, Starting
<1>6. DataInv'
  BY MoveIsUnseen, DataKept DEF MoveStep, RecordFirst
<1>7. ~failed' => RoundInv'
  BY DEF RoundInv, RecordFirst, TypeOK, Writing, RecordsReach, Page, Recorded
<1>8. pc' = "off" => Restartable'
  BY DEF RecordFirst
<1> QED BY <1>1, <1>2, <1>3, <1>4, <1>5, <1>6, <1>7, <1>8

LEMMA RecordSecondKeeps == ASSUME IInv, RecordSecond PROVE IInv'
<1> USE DEF IInv
<1>1. TypeOK'
  <2> DEFINE m == Moved([pos |-> wl.pos, moves |-> wl.moves])
  <2>1. m.pos \in Page /\ m.moves \in Sector
    BY NPositive DEF Moved, TypeOK, Page, Sector
  <2>2. wl' \in [pos : Page, moves : Sector, erases : 0..(RATE - 1)]
    BY <2>1 DEF RecordSecond, TypeOK
  <2>3. saved' \in [1..2 -> [header : Sector \cup {Bad}, records : SUBSET Page]]
    BY DEF RecordSecond, Recorded, TypeOK
  <2> QED BY <2>2, <2>3 DEF RecordSecond, TypeOK
<1>2. CallInv'
  BY DEF CallInv, RecordSecond, Starting, Writing
<1>3. MoveInv'
  BY DEF MoveInv, RecordSecond, TypeOK, CallInv, Writing, Saving, Source, Moved, Page
<1>4. SaveInv'
  BY DEF SaveInv, RecordSecond, CallInv, Writing
<1>5. MendInv'
  BY DEF MendInv, RecordSecond, Starting
<1>6. DataInv'
  BY MoveIsUnseen, DataKept DEF MoveStep, RecordSecond
<1>7. ~failed' => RoundInv'
  BY NPositive
     DEF RoundInv, RecordSecond, TypeOK, Writing, RecordsReach, NextRound, Page, Recorded, Moved
<1>8. pc' = "off" => Restartable'
  BY DEF RecordSecond
<1> QED BY <1>1, <1>2, <1>3, <1>4, <1>5, <1>6, <1>7, <1>8

\* The steps of saving the state.
LEMMA WipeFirstKeeps == ASSUME IInv, WipeFirst PROVE IInv'
<1> USE DEF IInv
<1>1. TypeOK'
  BY DEF TypeOK, WipeFirst, Erased
<1>2. CallInv'
  BY DEF CallInv, WipeFirst, Starting, Writing
<1>3. MoveInv'
  BY DEF MoveInv, WipeFirst, Saving
<1>4. SaveInv'
  BY DEF SaveInv, WipeFirst, TypeOK, Erased, Good
<1>5. MendInv'
  BY DEF MendInv, WipeFirst, Starting
<1>6. DataInv'
  BY MoveIsUnseen, DataKept DEF MoveStep, WipeFirst
<1>7. ~failed' => RoundInv'
  BY DEF RoundInv, WipeFirst, Writing
<1>8. pc' = "off" => Restartable'
  BY DEF WipeFirst
<1> QED BY <1>1, <1>2, <1>3, <1>4, <1>5, <1>6, <1>7, <1>8

LEMMA SaveFirstKeeps == ASSUME IInv, SaveFirst PROVE IInv'
<1> USE DEF IInv
<1>1. TypeOK'
  BY DEF TypeOK, SaveFirst
<1>2. CallInv'
  BY DEF CallInv, SaveFirst, Starting, Writing
<1>3. MoveInv'
  BY DEF MoveInv, SaveFirst, Saving
<1>4. SaveInv'
  BY WLAssumption DEF SaveInv, SaveFirst, TypeOK, CallInv, Writing, Erased, Fresh, Good, Sector
<1>5. MendInv'
  BY DEF MendInv, SaveFirst, Starting
<1>6. DataInv'
  BY MoveIsUnseen, DataKept DEF MoveStep, SaveFirst
<1>7. ~failed' => RoundInv'
  BY DEF RoundInv, SaveFirst, Writing
<1>8. pc' = "off" => Restartable'
  BY DEF SaveFirst
<1> QED BY <1>1, <1>2, <1>3, <1>4, <1>5, <1>6, <1>7, <1>8

LEMMA WipeSecondKeeps == ASSUME IInv, WipeSecond PROVE IInv'
<1> USE DEF IInv
<1>1. TypeOK'
  BY DEF TypeOK, WipeSecond, Erased
<1>2. CallInv'
  BY DEF CallInv, WipeSecond, Starting, Writing
<1>3. MoveInv'
  BY DEF MoveInv, WipeSecond, Saving
<1>4. SaveInv'
  BY DEF SaveInv, WipeSecond, TypeOK
<1>5. MendInv'
  BY DEF MendInv, WipeSecond, Starting
<1>6. DataInv'
  BY MoveIsUnseen, DataKept DEF MoveStep, WipeSecond
<1>7. ~failed' => RoundInv'
  BY DEF RoundInv, WipeSecond, Writing
<1>8. pc' = "off" => Restartable'
  BY DEF WipeSecond
<1> QED BY <1>1, <1>2, <1>3, <1>4, <1>5, <1>6, <1>7, <1>8

LEMMA SaveSecondKeeps == ASSUME IInv, SaveSecond PROVE IInv'
<1> USE DEF IInv
<1>1. TypeOK'
  BY DEF TypeOK, SaveSecond
<1>2. CallInv'
  BY DEF CallInv, SaveSecond, Starting, Writing
<1>3. MoveInv'
  BY DEF MoveInv, SaveSecond, Saving
<1>4. SaveInv'
  BY DEF SaveInv, SaveSecond
<1>5. MendInv'
  BY DEF MendInv, SaveSecond, Starting
<1>6. DataInv'
  BY MoveIsUnseen, DataKept DEF MoveStep, SaveSecond
<1>7. ~failed' => RoundInv'
  <2>1. saved[1] = Fresh(wl.moves) /\ saved[2] = Erased /\ wl.pos = 0
    BY DEF SaveSecond, SaveInv, MoveInv, Saving
  <2>2. saved'[1] = Fresh(wl.moves) /\ saved'[2] = Fresh(wl.moves)
    BY <2>1 DEF SaveSecond, TypeOK, Erased, Fresh
  <2>3. 0..(wl.pos - 1) = {}
    BY <2>1
  <2> QED BY <2>1, <2>2, <2>3 DEF SaveSecond, RoundInv, RecordsReach, Fresh, Writing
<1>8. pc' = "off" => Restartable'
  BY DEF SaveSecond
<1> QED BY <1>1, <1>2, <1>3, <1>4, <1>5, <1>6, <1>7, <1>8

\* Two of the steps of init(), a failing driver, and a format.
LEMMA MendWipeKeeps == ASSUME IInv, MendWipe PROVE IInv'
<1> USE DEF IInv
<1>1. TypeOK'
  BY DEF TypeOK, MendWipe, Erased
<1>2. CallInv'
  BY DEF CallInv, MendWipe, Starting, Writing
<1>3. MoveInv'
  BY DEF MoveInv, MendWipe, Saving
<1>4. SaveInv'
  BY DEF SaveInv, MendWipe
<1>5. MendInv'
  <2>1. mend \in {1, 2} /\ mend \in 1..2
    BY DEF MendWipe, CallInv, Starting
  <2>2. saved'[mend] = Erased /\ \A copy \in 1..2 : copy # mend => saved'[copy] = saved[copy]
    BY <2>1 DEF MendWipe, TypeOK
  <2> QED BY <2>1, <2>2 DEF MendWipe, MendInv, Starting
<1>6. DataInv'
  BY DEF DataInv, MendWipe, At
<1>7. ~failed' => RoundInv'
  BY DEF RoundInv, MendWipe, Writing
<1>8. pc' = "off" => Restartable'
  BY DEF MendWipe
<1> QED BY <1>1, <1>2, <1>3, <1>4, <1>5, <1>6, <1>7, <1>8

LEMMA MendSaveKeeps == ASSUME IInv, MendSave PROVE IInv'
<1> USE DEF IInv
<1>1. TypeOK'
  BY DEF TypeOK, MendSave, CallInv, Starting
<1>2. CallInv'
  BY DEF CallInv, MendSave, Starting, Writing
<1>3. MoveInv'
  BY DEF MoveInv, MendSave, Saving
<1>4. SaveInv'
  BY DEF SaveInv, MendSave
<1>5. MendInv'
  <2>1. mend \in {1, 2} /\ mend \in 1..2
    BY DEF MendSave, CallInv, Starting
  <2>2. \A copy \in 1..2 : copy # mend => saved'[copy] = saved[copy]
    BY <2>1 DEF MendSave, TypeOK
  <2>3. saved'[mend].header = saved[3 - mend].header
    BY <2>1 DEF MendSave, TypeOK
  <2>4. saved[3 - mend].header = wl.moves
    BY <2>1 DEF MendSave, MendInv, Starting, Fresh
  <2>5. mend = 1 => saved'[1].records = {}
    BY <2>1 DEF MendSave, MendInv, TypeOK, Erased
  <2>6. 0..(0 - 1) = {} /\ 0 \in 0..(N + 1)
    BY NPositive
  <2>7. mend = 1 => \E k \in 0..(N + 1) : saved'[1].records = 0..(k - 1)
    BY <2>5, <2>6
  <2> QED BY <2>1, <2>2, <2>3, <2>4, <2>7 DEF MendSave, MendInv, Starting
<1>6. DataInv'
  BY DEF DataInv, MendSave, At
<1>7. ~failed' => RoundInv'
  BY DEF RoundInv, MendSave, Writing
<1>8. pc' = "off" => Restartable'
  BY DEF MendSave
<1> QED BY <1>1, <1>2, <1>3, <1>4, <1>5, <1>6, <1>7, <1>8

LEMMA FailKeeps == ASSUME IInv, Fail PROVE IInv'
<1> USE DEF IInv
<1>1. TypeOK'
  <2>1. RATE - 1 \in 0..(RATE - 1)
    BY WLAssumption
  <2>2. wl' \in [pos : Page, moves : Sector, erases : 0..(RATE - 1)]
    BY <2>1 DEF Fail, TypeOK
  <2>3. page' \in [Page -> Content]
    BY TornType DEF Fail
  <2> QED BY <2>2, <2>3 DEF Fail, TypeOK
<1>2. CallInv'
  BY DEF CallInv, Fail, Starting, Writing
<1>3. MoveInv'
  BY DEF MoveInv, Fail, Saving
<1>4. SaveInv'
  BY DEF SaveInv, Fail
<1>5. MendInv'
  BY DEF MendInv, Fail, Starting
<1>6. DataInv'
  BY DEF DataInv, Fail
<1>7. ~failed' => RoundInv'
  <2>1. SUFFICES ASSUME ~failed' PROVE RoundInv'
    OBVIOUS
  <2>2. pc \in Writing \ {"record2"} /\ ~failed
    BY <2>1 DEF Fail, TypeOK, CallInv, Starting, Writing
  <2>3. wl'.pos = wl.pos /\ wl'.moves = wl.moves /\ UNCHANGED saved /\ pc' = "idle"
    BY DEF Fail, TypeOK
  <2> QED BY <2>2, <2>3 DEF RoundInv, Writing
<1>8. pc' = "off" => Restartable'
  BY DEF Fail
<1> QED BY <1>1, <1>2, <1>3, <1>4, <1>5, <1>6, <1>7, <1>8

LEMMA FormatKeeps == ASSUME IInv, Format PROVE IInv'
<1> USE DEF IInv
<1>1. TypeOK'
  BY DEF TypeOK, Format, Erased, Content
<1>2. CallInv'
  BY DEF CallInv, Format, Starting, Writing
<1>3. MoveInv'
  BY DEF MoveInv, Format, Saving
<1>4. SaveInv'
  BY DEF SaveInv, Format
<1>5. MendInv'
  BY DEF MendInv, Format, Starting
<1>6. DataInv'
  BY DEF DataInv, Format, CallInv
<1>7. ~failed' => RoundInv'
  BY DEF RoundInv, Format, Writing
<1>8. pc' = "off" => Restartable'
  BY DEF Restartable, Format, Erased, Good
<1> QED BY <1>1, <1>2, <1>3, <1>4, <1>5, <1>6, <1>7, <1>8

\* The steps of a write.
LEMMA DiskWriteKeeps ==
  ASSUME IInv, NEW first \in Sector, NEW length \in 1..N, first + length <= N,
         NEW data \in [1..length -> Value], DiskWrite(first, data)
  PROVE  IInv'
<1> USE DEF IInv
<1>1. data \in Seq(Content) /\ Len(data) = length /\ data # <<>>
  BY NPositive DEF Content
<1>2. /\ call' \in Write /\ call'.done = 0
  BY <1>1, NPositive DEF DiskWrite, Write
<1>3. call' # NoCall
  BY <1>2, NoCallAssumption
<1>4. pc = "idle" /\ pc' = "updateWL" /\ UNCHANGED <<page, saved, wl, mend, failed>>
  BY DEF DiskWrite
<1>5. TypeOK'
  BY <1>2, <1>4 DEF TypeOK
<1>6. CallInv' /\ MoveInv' /\ SaveInv' /\ MendInv'
  BY <1>3, <1>4 DEF CallInv, MoveInv, SaveInv, MendInv, Writing, Starting, Saving
<1>7. DataInv'
  BY <1>2, <1>4 DEF DataInv
<1>8. ~failed' => RoundInv'
  BY <1>4 DEF RoundInv, Writing
<1> QED BY <1>4, <1>5, <1>6, <1>7, <1>8

\* EraseSector and ProgramSector work on one sector of the write and go on.
LEMMA ProceedCases ==
  ASSUME IInv, call # NoCall, NEW again, NEW after,
         Proceed(again, after)
  PROVE  /\ Here \in Sector
         /\ call' \in Write \cup {NoCall}
         /\ \/ /\ call.done + 1 < Len(call.data)
               /\ call' = [call EXCEPT !.done = call.done + 1] /\ call' # NoCall /\ pc' = again
            \/ /\ call.done + 1 = Len(call.data) /\ after # "idle"
               /\ call' = [call EXCEPT !.done = 0] /\ call' # NoCall /\ pc' = after
            \/ /\ call.done + 1 = Len(call.data) /\ after = "idle"
               /\ call' = NoCall /\ pc' = "idle"
<1> USE DEF IInv
<1>1. /\ call \in Write /\ call.first \in Nat /\ call.done \in Nat
      /\ Len(call.data) \in Nat /\ call.done < Len(call.data)
      /\ Here \in Sector
  BY CallType DEF TypeOK, Here
<1>2. ASSUME NEW d \in 0..(Len(call.data) - 1)
      PROVE  [call EXCEPT !.done = d] \in Write /\ [call EXCEPT !.done = d] # NoCall
  <2>1. [call EXCEPT !.done = d] \in Write
    BY <1>1 DEF Write
  <2> QED BY <2>1, NoCallAssumption
<1>3. CASE call.done + 1 < Len(call.data)
  <2>1. call' = [call EXCEPT !.done = call.done + 1] /\ pc' = again
    BY <1>3 DEF Proceed
  <2>2. call.done + 1 \in 0..(Len(call.data) - 1)
    BY <1>1, <1>3
  <2>3. [call EXCEPT !.done = call.done + 1] \in Write
        /\ [call EXCEPT !.done = call.done + 1] # NoCall
    BY <1>2, <2>2
  <2> QED BY <1>1, <1>3, <2>1, <2>3
<1>4. CASE ~(call.done + 1 < Len(call.data))
  <2>1. /\ call' = IF after = "idle" THEN NoCall ELSE [call EXCEPT !.done = 0]
        /\ pc' = after
    BY <1>4 DEF Proceed
  <2>2. call.done + 1 = Len(call.data) /\ 0 \in 0..(Len(call.data) - 1)
    BY <1>1, <1>4
  <2>3. [call EXCEPT !.done = 0] \in Write /\ [call EXCEPT !.done = 0] # NoCall
    BY <1>2, <2>2
  <2> QED BY <1>1, <2>1, <2>2, <2>3
<1> QED BY <1>1, <1>3, <1>4

LEMMA EraseSectorKeeps == ASSUME IInv, EraseSector PROVE IInv'
<1> USE DEF IInv
<1> DEFINE here == calcAddr(wl, Here)
<1>1. /\ pc = "erase" /\ call # NoCall /\ UNCHANGED <<saved, wl, mend, failed>>
      /\ page' = [page EXCEPT ![here] = Blank]
      /\ Proceed("updateWL", "program")
  BY DEF EraseSector, CallInv, Writing
<1>2. /\ Here \in Sector /\ call' \in Write
      /\ \/ /\ call.done + 1 < Len(call.data)
            /\ call' = [call EXCEPT !.done = call.done + 1] /\ call' # NoCall
            /\ pc' = "updateWL"
         \/ /\ call.done + 1 = Len(call.data)
            /\ call' = [call EXCEPT !.done = 0] /\ call' # NoCall
            /\ pc' = "program"
  BY <1>1, ProceedCases
<1>3. here \in Page \ {wl.pos}
  BY <1>2, DummyUnseen
<1>4. page' \in [Page -> Content]
  BY <1>1, <1>3 DEF TypeOK, Content
<1>5. TypeOK'
  BY <1>1, <1>2, <1>4 DEF TypeOK
<1>6. CallInv' /\ MoveInv' /\ SaveInv' /\ MendInv'
  BY <1>1, <1>2 DEF CallInv, MoveInv, SaveInv, MendInv, Writing, Starting, Saving
<1>7. /\ call.first \in Nat /\ call.done \in Nat /\ Len(call.data) \in Nat
      /\ call.done < Len(call.data)
      /\ \A i \in 0..(Len(call.data) - 1) : call.first + i \in Sector
  BY <1>1, CallType
<1>8. ASSUME NEW i \in 0..call.done
      PROVE  page'[calcAddr(wl, call.first + i)] = Blank
  <2>1. i \in 0..(Len(call.data) - 1)
    BY <1>7, <1>8
  <2>2. calcAddr(wl, call.first + i) \in Page
    BY <1>7, <2>1, DummyUnseen
  <2>3. CASE i = call.done
    BY <1>1, <1>3, <2>2, <2>3 DEF Here, TypeOK
  <2>4. CASE i # call.done
    <3>1. i \in 0..(call.done - 1)
      BY <1>7, <1>8, <2>4
    <3>2. page[calcAddr(wl, call.first + i)] = Blank
      BY <1>1, <3>1 DEF DataInv, At
    <3> QED BY <1>1, <1>3, <2>2, <3>2 DEF TypeOK
  <2> QED BY <2>3, <2>4
<1>9. DataInv'
  <2>1. CASE call' = [call EXCEPT !.done = call.done + 1] /\ pc' = "updateWL"
    <3>1. call'.first = call.first /\ call'.done = call.done + 1
      BY <1>1, <2>1 DEF TypeOK, Write
    <3> QED BY <1>1, <1>7, <1>8, <2>1, <3>1 DEF DataInv, At
  <2>2. CASE call' = [call EXCEPT !.done = 0] /\ pc' = "program" /\ call.done + 1 = Len(call.data)
    <3>1. call'.first = call.first /\ call'.done = 0 /\ call'.data = call.data
      BY <1>1, <2>2 DEF TypeOK, Write
    <3> QED BY <1>1, <1>7, <1>8, <2>2, <3>1 DEF DataInv, At
  <2> QED BY <1>2, <2>1, <2>2
<1>10. ~failed' => RoundInv'
  BY <1>1, <1>2 DEF RoundInv, Writing
<1> QED BY <1>2, <1>5, <1>6, <1>9, <1>10

\* Programming the next sector of a write: it held nothing, now it holds the data.
LEMMA ProgramsTheData ==
  ASSUME IInv, ProgramSector, NEW i \in 0..(Len(call.data) - 1)
  PROVE  page'[calcAddr(wl, call.first + i)] =
           IF i <= call.done THEN call.data[i + 1] ELSE Blank
<1> USE DEF IInv
<1> DEFINE here == calcAddr(wl, Here)
<1>1. /\ pc = "program" /\ call # NoCall
      /\ page' = [page EXCEPT ![here] = Program(page[here], call.data[call.done + 1])]
  BY DEF ProgramSector, CallInv, Writing
<1>2. /\ call.first \in Nat /\ call.done \in Nat /\ Len(call.data) \in Nat
      /\ call.done < Len(call.data)
      /\ \A j \in 0..(Len(call.data) - 1) : call.first + j \in Sector
  BY <1>1, CallType
<1>3. Here \in Sector /\ here \in Page /\ calcAddr(wl, call.first + i) \in Page
  BY <1>2, DummyUnseen DEF Here
<1>4. /\ i < call.done => page[calcAddr(wl, call.first + i)] = call.data[i + 1]
      /\ i >= call.done => page[calcAddr(wl, call.first + i)] = Blank
  BY <1>1, <1>2 DEF DataInv, At
<1>5. CASE i = call.done
  <2>1. calcAddr(wl, call.first + i) = here
    BY <1>5 DEF Here
  <2>2. page'[here] = Program(page[here], call.data[call.done + 1])
    BY <1>1, <1>3 DEF TypeOK
  <2>3. page[here] = Blank
    BY <1>2, <1>4, <1>5, <2>1
  <2>4. Program(page[here], call.data[call.done + 1]) = call.data[call.done + 1]
    BY <2>3 DEF Program
  <2> QED BY <1>2, <1>5, <2>1, <2>2, <2>4
<1>6. CASE i # call.done
  <2>1. call.first + i # Here /\ call.first + i \in Sector
    BY <1>2, <1>6 DEF Here
  <2>2. calcAddr(wl, call.first + i) # here
    BY <1>3, <2>1, AddressesDiffer DEF TypeOK
  <2>3. page'[calcAddr(wl, call.first + i)] = page[calcAddr(wl, call.first + i)]
    BY <1>1, <1>3, <2>2 DEF TypeOK
  <2> QED BY <1>2, <1>4, <1>6, <2>3
<1> QED BY <1>5, <1>6

LEMMA ProgramSectorKeeps == ASSUME IInv, ProgramSector PROVE IInv'
<1> USE DEF IInv
<1> DEFINE here == calcAddr(wl, Here)
<1>1. /\ pc = "program" /\ call # NoCall /\ UNCHANGED <<saved, wl, mend, failed>>
      /\ page' = [page EXCEPT ![here] = Program(page[here], call.data[call.done + 1])]
      /\ Proceed("program", "idle")
  BY DEF ProgramSector, CallInv, Writing
<1>2. /\ Here \in Sector /\ call' \in Write \cup {NoCall}
      /\ \/ /\ call.done + 1 < Len(call.data)
            /\ call' = [call EXCEPT !.done = call.done + 1] /\ call' # NoCall
            /\ pc' = "program"
         \/ call' = NoCall /\ pc' = "idle"
  BY <1>1, ProceedCases
<1>3. /\ call.done \in Nat /\ Len(call.data) \in Nat /\ call.done < Len(call.data)
      /\ call.data[call.done + 1] \in Content
  BY <1>1, CallType
<1>4. page' \in [Page -> Content]
  <2>1. here \in Page
    BY <1>2, DummyUnseen
  <2>2. Program(page[here], call.data[call.done + 1]) \in Content
    BY <1>3, <2>1 DEF Program, Content, TypeOK
  <2> QED BY <1>1, <2>1, <2>2 DEF TypeOK
<1>5. TypeOK'
  BY <1>1, <1>2, <1>4 DEF TypeOK
<1>6. CallInv' /\ MoveInv' /\ SaveInv' /\ MendInv'
  BY <1>1, <1>2 DEF CallInv, MoveInv, SaveInv, MendInv, Writing, Starting, Saving
<1>7. DataInv'
  <2>1. SUFFICES ASSUME call' = [call EXCEPT !.done = call.done + 1], pc' = "program",
                        call.done + 1 < Len(call.data)
                 PROVE  DataInv'
    BY <1>2 DEF DataInv
  <2>2. call'.first = call.first /\ call'.done = call.done + 1 /\ call'.data = call.data
    BY <1>1, <2>1 DEF TypeOK, Write
  <2>3. \A i \in 0..(Len(call.data) - 1) :
          page'[calcAddr(wl, call.first + i)] =
            IF i <= call.done THEN call.data[i + 1] ELSE Blank
    BY <1>1, ProgramsTheData
  <2>4. ASSUME NEW i \in 0..call.done
        PROVE  page'[calcAddr(wl, call.first + i)] = call.data[i + 1]
    BY <1>3, <2>3, <2>4
  <2>5. ASSUME NEW i \in (call.done + 1)..(Len(call.data) - 1)
        PROVE  page'[calcAddr(wl, call.first + i)] = Blank
    BY <1>3, <2>3, <2>5
  <2>6. (call.done + 1) - 1 = call.done /\ wl' = wl
    BY <1>1, <1>3
  <2> HIDE DEF here
  <2> QED BY <2>1, <2>2, <2>4, <2>5, <2>6 DEF DataInv, At
<1>8. ~failed' => RoundInv'
  BY <1>1, <1>2 DEF RoundInv, Writing
<1> QED BY <1>2, <1>5, <1>6, <1>7, <1>8

-----------------------------------------------------------------------------
(* Power cuts and starts *)

\* recoverPos() on an initial segment of the records finds its end.
LEMMA RecoverSegment ==
  ASSUME NEW k \in 0..(N + 1)
  PROVE  RecoverPos(0..(k - 1)) = IF k = N + 1 THEN N ELSE k
<1> DEFINE rest == Page \ (0..(k - 1))
<1>1. CASE k = N + 1
  <2>1. Page \subseteq 0..(k - 1)
    BY <1>1, NPositive DEF Page
  <2> QED BY <1>1, <2>1 DEF RecoverPos
<1>2. CASE k <= N
  <2>1. k \in rest /\ \A q \in rest : k <= q /\ q \in Nat
    BY <1>2, NPositive DEF Page
  <2>2. ~(Page \subseteq 0..(k - 1))
    BY <2>1
  <2>3. \A p \in rest : (\A q \in rest : p <= q) => p = k
    BY <2>1
  <2>4. (CHOOSE p \in rest : \A q \in rest : p <= q) = k
    <3> HIDE DEF rest
    <3>1. \E p \in rest : \A q \in rest : p <= q
      BY <2>1
    <3>2. /\ (CHOOSE p \in rest : \A q \in rest : p <= q) \in rest
          /\ \A q \in rest : (CHOOSE p \in rest : \A t \in rest : p <= t) <= q
      BY <3>1, Zenon
    <3> QED BY <2>3, <3>2, Zenon
  <2>5. RecoverPos(0..(k - 1)) = CHOOSE p \in rest : \A q \in rest : p <= q
    BY <2>2, Zenon DEF RecoverPos
  <2>6. RecoverPos(0..(k - 1)) = k
    BY <2>4, <2>5, Zenon
  <2> QED BY <1>2, <2>6, NPositive
<1> QED BY <1>1, <1>2, NPositive

\* recoverPos() finds the position that the records were written for.
LEMMA RecordsReached ==
  ASSUME NEW pos \in Page, NEW records, RecordsReach(records, pos)
  PROVE  /\ RecoverPos(records) = pos
         /\ \E k \in 0..(N + 1) : records = 0..(k - 1)
<1>1. CASE records = 0..(pos - 1)
  BY <1>1, RecoverSegment, NPositive DEF Page
<1>2. CASE pos = N /\ records = 0..N
  <2>1. 0..N = 0..((N + 1) - 1) /\ N + 1 \in 0..(N + 1)
    BY NPositive
  <2> QED BY <1>2, <2>1, RecoverSegment
<1> QED BY <1>1, <1>2 DEF RecordsReach

\* The cases of init(): both copies agree, one of them is to be mended, or the
\* flash is new.
LEMMA RecoveredCases ==
  ASSUME TypeOK, Restartable
  PROVE  /\ Recovered.pos \in Page /\ Recovered.moves \in Sector /\ Recovered.mend \in 0..2
         /\ Recovered.mend = 0 =>
              \/ ~Good(1) /\ ~Good(2) /\ Recovered.pos = 0 /\ Recovered.moves = 0
              \/ /\ Good(1) /\ Good(2)
                 /\ saved[1].header = Recovered.moves /\ saved[2].header = Recovered.moves
                 /\ RecordsReach(saved[1].records, Recovered.pos)
         /\ Recovered.mend = 2 => saved[1] = Fresh(Recovered.moves) /\ Recovered.pos = 0
         /\ Recovered.mend = 1 =>
              /\ saved[2] = [header |-> Recovered.moves, records |-> 0..N]
              /\ Recovered.pos = N /\ ~Good(1)
<1>1. /\ 0 \in Page /\ N \in Page /\ 0 \in Sector
      /\ saved[1] = [header |-> saved[1].header, records |-> saved[1].records]
      /\ saved[2] = [header |-> saved[2].header, records |-> saved[2].records]
      /\ Good(1) => saved[1].header \in Sector
      /\ Good(2) => saved[2].header \in Sector
  BY NPositive DEF TypeOK, Good, Page, Sector
<1>2. 0..(0 - 1) = {} /\ 0 \in 0..(N + 1)
  BY NPositive
<1>3. CASE ~Good(1) /\ ~Good(2)
  BY <1>1, <1>3 DEF Recovered
<1>4. CASE ~Good(1) /\ Good(2)
  <2>1. saved[2].records = 0..N
    BY <1>4 DEF Restartable
  <2>2. Recovered = [pos |-> N, moves |-> saved[2].header, mend |-> 1]
    BY <1>4 DEF Recovered
  <2> QED BY <1>1, <1>4, <2>1, <2>2
<1>5. CASE Good(1) /\ ~Good(2)
  <2>1. saved[1].records = {}
    BY <1>5 DEF Restartable
  <2>2. Recovered = [pos |-> 0, moves |-> saved[1].header, mend |-> 2]
    BY <1>5 DEF Recovered
  <2> QED BY <1>1, <1>5, <2>1, <2>2 DEF Fresh
<1>6. CASE Good(1) /\ Good(2) /\ saved[1].header # saved[2].header
  <2>1. saved[1].records = {}
    BY <1>6 DEF Restartable
  <2>2. RecoverPos({}) = 0
    BY <1>2, RecoverSegment, NPositive
  <2>3. Recovered = [pos |-> 0, moves |-> saved[1].header, mend |-> 2]
    BY <1>6, <2>1, <2>2 DEF Recovered
  <2>4. saved[1] = Fresh(saved[1].header)
    BY <1>1, <2>1 DEF Fresh
  <2> QED BY <1>1, <1>6, <2>3, <2>4
<1>7. CASE Good(1) /\ Good(2) /\ saved[1].header = saved[2].header
  <2>1. PICK k \in 0..(N + 1) : saved[1].records = 0..(k - 1)
    BY <1>2, <1>7 DEF Restartable
  <2>2. RecoverPos(saved[1].records) = IF k = N + 1 THEN N ELSE k
    BY <2>1, RecoverSegment
  <2>3. Recovered = [pos |-> RecoverPos(saved[1].records), moves |-> saved[1].header, mend |-> 0]
    BY <1>7 DEF Recovered
  <2>4. RecoverPos(saved[1].records) \in Page
    BY <2>2, NPositive DEF Page
  <2>5. RecordsReach(saved[1].records, RecoverPos(saved[1].records))
    BY <2>1, <2>2, NPositive DEF RecordsReach
  <2> QED BY <1>1, <1>7, <2>3, <2>4, <2>5
<1> QED BY <1>3, <1>4, <1>5, <1>6, <1>7

\* A start finds every sector where it was when the power went.
LEMMA CutIsUnseen ==
  ASSUME IInv, pc # "off", ~failed, ~FatalWindow
  PROVE  /\ Restartable
         /\ \A s \in Sector : page[calcAddr(Recovered, s)] = At(s)
         /\ pc = "copy" => Recovered.pos = wl.pos /\ Recovered.moves = wl.moves
<1> USE DEF IInv
<1>1. /\ wl.pos \in Page /\ wl.moves \in Sector /\ Bad \notin Sector
      /\ saved[1].header \in Sector \cup {Bad} /\ saved[2].header \in Sector \cup {Bad}
      /\ \A h \in Sector : h # Bad
  BY WLAssumption, NPositive DEF TypeOK, Sector
<1>2. 0..(0 - 1) = {} /\ 0 \in 0..(N + 1)
  BY NPositive
<1>3. ASSUME Recovered.pos = wl.pos, Recovered.moves = wl.moves
      PROVE  \A s \in Sector : page[calcAddr(Recovered, s)] = At(s)
  BY <1>3, SameAddress DEF At
<1>4. ASSUME Recovered.pos \in Page, Recovered.moves \in Sector,
             page[Recovered.pos] = page[Source(Recovered.pos)],
             wl.pos = Moved([pos |-> Recovered.pos, moves |-> Recovered.moves]).pos,
             wl.moves = Moved([pos |-> Recovered.pos, moves |-> Recovered.moves]).moves
      PROVE  \A s \in Sector : page[calcAddr(Recovered, s)] = At(s)
  <2>1. SUFFICES ASSUME NEW s \in Sector
                 PROVE  page[calcAddr(Recovered, s)] = page[calcAddr(wl, s)]
    BY DEF At
  <2>2. calcAddr(wl, s) = IF calcAddr(Recovered, s) = Source(Recovered.pos)
                          THEN Recovered.pos ELSE calcAddr(Recovered, s)
    BY <1>4, MoveChangesOneAddress
  <2> QED BY <1>4, <2>2
<1>5. CASE pc \in (Writing \cup {"idle"}) \ {"record2"}
  <2>1. /\ saved[1].header = wl.moves /\ saved[2].header = wl.moves
        /\ RecordsReach(saved[1].records, wl.pos)
    BY <1>5 DEF RoundInv
  <2>2. Good(1) /\ Good(2)
    BY <1>1, <2>1 DEF Good
  <2>3. RecoverPos(saved[1].records) = wl.pos /\ Restartable
    BY <1>1, <2>1, <2>2, RecordsReached DEF Restartable
  <2>4. Recovered.pos = wl.pos /\ Recovered.moves = wl.moves
    BY <2>1, <2>2, <2>3 DEF Recovered
  <2> QED BY <1>3, <2>3, <2>4
<1>6. CASE pc = "record2"
  <2>1. /\ saved[1].header = wl.moves /\ saved[2].header = wl.moves
        /\ saved[1].records = 0..wl.pos
    BY <1>6 DEF RoundInv, Writing
  <2>2. Good(1) /\ Good(2)
    BY <1>1, <2>1 DEF Good
  <2>3. wl.pos + 1 \in 0..(N + 1) /\ 0..wl.pos = 0..((wl.pos + 1) - 1)
    BY <1>1, NPositive DEF Page
  <2>4. RecoverPos(saved[1].records) = (IF wl.pos + 1 = N + 1 THEN N ELSE wl.pos + 1)
    BY <2>1, <2>3, RecoverSegment
  <2>5. Restartable
    BY <2>1, <2>2, <2>3 DEF Restartable
  <2>6. /\ Recovered.moves = wl.moves
        /\ Recovered.pos = IF wl.pos = N THEN N ELSE wl.pos + 1
    BY <1>1, <2>1, <2>2, <2>4, NPositive DEF Recovered, Page
  <2>7. CASE wl.pos = N
    BY <1>3, <1>6, <2>5, <2>6, <2>7
  <2>8. CASE wl.pos # N
    <3>1. /\ Recovered.pos = Moved([pos |-> wl.pos, moves |-> wl.moves]).pos
          /\ Recovered.moves = Moved([pos |-> wl.pos, moves |-> wl.moves]).moves
      BY <1>1, <2>6, <2>8, NPositive DEF Moved, Page
    <3>2. page[wl.pos] = page[Source(wl.pos)]
      BY <1>6 DEF MoveInv
    <3>3. \A s \in Sector : page[calcAddr(Recovered, s)] = At(s)
      BY <1>1, <3>1, <3>2, MoveChangesOneAddress DEF At
    <3> QED BY <1>6, <2>5, <3>3
  <2> QED BY <2>7, <2>8
<1>7. CASE pc \in {"wipe1", "save1"} /\ call = NoCall
  <2>1. ~Good(1) /\ ~Good(2) /\ wl.pos = 0 /\ wl.moves = 0
    BY <1>7 DEF SaveInv, MoveInv, Saving
  <2>2. Recovered.pos = wl.pos /\ Recovered.moves = wl.moves
    BY <2>1 DEF Recovered
  <2> QED BY <1>3, <1>7, <2>1, <2>2 DEF Restartable
<1>8. CASE pc \in {"wipe1", "save1"} /\ call # NoCall
  <2>1. PICK old \in Sector :
          /\ wl.moves = NextRound(old) /\ saved[2].header = old
          /\ pc = "wipe1" => saved[1].header = old /\ saved[1].records = 0..N
    BY <1>8 DEF RoundInv
  <2>2. Good(2) /\ (pc = "wipe1" => Good(1))
    BY <1>1, <2>1 DEF Good
  <2>3. N \in Page /\ N + 1 \in 0..(N + 1) /\ 0..N = 0..((N + 1) - 1)
    BY NPositive DEF Page
  <2>4. Recovered.pos = N /\ Recovered.moves = old /\ Restartable
    <3>1. CASE pc = "wipe1"
      <4>1. RecoverPos(saved[1].records) = N
        BY <2>1, <2>3, <3>1, RecoverSegment
      <4> QED BY <2>1, <2>2, <2>3, <3>1, <4>1 DEF Recovered, Restartable
    <3>2. CASE pc = "save1"
      <4>1. ~Good(1) /\ saved[2].records = 0..N
        BY <2>2, <3>2 DEF SaveInv, Erased, Good, FatalWindow, Page
      <4> QED BY <2>1, <2>2, <4>1 DEF Recovered, Restartable
    <3> QED BY <1>8, <3>1, <3>2
  <2>5. /\ wl.pos = 0 /\ page[N] = page[0] /\ Source(N) = 0
        /\ Moved([pos |-> N, moves |-> old]) = [pos |-> 0, moves |-> NextRound(old)]
    BY <1>8, NPositive DEF MoveInv, Saving, Source, Moved, NextRound
  <2> QED BY <1>4, <1>8, <2>1, <2>3, <2>4, <2>5
<1>9. CASE pc \in {"wipe2", "save2"} \/ (pc \in Starting /\ mend = 2)
  <2>1. saved[1] = Fresh(wl.moves) /\ wl.pos = 0
    BY <1>9 DEF SaveInv, MoveInv, MendInv, Saving
  <2>2. Good(1) /\ saved[1].records = {} /\ saved[1].header = wl.moves
    BY <1>1, <2>1 DEF Good, Fresh
  <2>3. RecoverPos({}) = 0
    BY <1>2, RecoverSegment, NPositive
  <2>4. Recovered.pos = 0 /\ Recovered.moves = wl.moves
    BY <2>2, <2>3 DEF Recovered
  <2>5. Restartable
    BY <2>2 DEF Restartable
  <2> QED BY <1>3, <1>9, <2>1, <2>4, <2>5 DEF Starting
<1>10. CASE pc \in Starting /\ mend = 1
  <2>1. ~Good(1)
    BY <1>10 DEF MendInv, Starting, Good, Erased, FatalWindow
  <2>2. saved[2].header = wl.moves /\ saved[2].records = 0..N /\ wl.pos = N
    BY <1>10 DEF MendInv
  <2>3. Good(2)
    BY <1>1, <2>2 DEF Good
  <2>4. Recovered.pos = N /\ Recovered.moves = wl.moves
    BY <2>1, <2>2, <2>3 DEF Recovered
  <2> QED BY <1>3, <1>10, <2>1, <2>2, <2>3, <2>4 DEF Restartable, Starting
<1>11. \/ pc \in Writing \cup {"idle"} \/ pc \in {"wipe1", "save1", "wipe2", "save2"}
       \/ pc \in Starting /\ mend \in {1, 2}
  BY DEF TypeOK, CallInv, Writing, Starting
<1> QED BY <1>5, <1>6, <1>7, <1>8, <1>9, <1>10, <1>11

\* init() starts from what any cut may have left.
LEMMA PowerUpKeeps == ASSUME IInv, PowerUp PROVE IInv'
<1> USE DEF IInv
<1>1. /\ pc = "off" /\ call = NoCall /\ ~failed /\ UNCHANGED <<page, saved, call, failed>>
      /\ wl' = [pos |-> Recovered.pos, moves |-> Recovered.moves, erases |-> 0]
      /\ mend' = Recovered.mend
  BY DEF PowerUp, CallInv
<1>2. /\ Recovered.pos \in Page /\ Recovered.moves \in Sector /\ Recovered.mend \in 0..2
      /\ Recovered.mend = 0 =>
           \/ ~Good(1) /\ ~Good(2) /\ Recovered.pos = 0 /\ Recovered.moves = 0
           \/ /\ Good(1) /\ Good(2)
              /\ saved[1].header = Recovered.moves /\ saved[2].header = Recovered.moves
              /\ RecordsReach(saved[1].records, Recovered.pos)
      /\ Recovered.mend = 2 => saved[1] = Fresh(Recovered.moves) /\ Recovered.pos = 0
      /\ Recovered.mend = 1 =>
           /\ saved[2] = [header |-> Recovered.moves, records |-> 0..N]
           /\ Recovered.pos = N /\ ~Good(1)
  BY <1>1, RecoveredCases
<1>3. /\ Recovered.mend # 0 => pc' = "mendWipe"
      /\ Recovered.mend = 0 /\ ~Good(1) /\ ~Good(2) => pc' = "wipe1"
      /\ Recovered.mend = 0 /\ (Good(1) \/ Good(2)) => pc' = "idle"
  <2>1. Recovered.mend # 0 => Good(1) \/ Good(2)
    BY DEF Recovered
  <2> QED BY <2>1 DEF PowerUp
<1>4. wl'.pos = Recovered.pos /\ wl'.moves = Recovered.moves
      /\ (\A copy \in 1..2 : Good(copy)' <=> Good(copy))
  BY <1>1 DEF Good
<1>5. pc' \in {"mendWipe", "wipe1", "idle"}
  BY <1>2, <1>3
<1>6. wl' \in [pos : Page, moves : Sector, erases : 0..(RATE - 1)]
  BY <1>1, <1>2, WLAssumption
<1>7. TypeOK'
  BY <1>1, <1>2, <1>5, <1>6 DEF TypeOK
<1>8. CallInv' /\ SaveInv' /\ DataInv' /\ (pc' = "off" => Restartable')
  BY <1>1, <1>2, <1>3, <1>4, <1>5 DEF CallInv, SaveInv, DataInv, Writing, Starting
<1>9. MoveInv'
  BY <1>1, <1>2, <1>3, <1>4, <1>5 DEF MoveInv, Saving
<1>10. MendInv'
  <2> HIDE DEF IInv
  <2> QED BY <1>1, <1>2, <1>3, <1>4, <1>5 DEF MendInv, Starting
<1>11. RoundInv'
  <2> HIDE DEF IInv
  <2>1. CASE pc' = "idle"
    BY <1>1, <1>2, <1>3, <1>4, <2>1 DEF RoundInv, Writing
  <2>2. CASE pc' # "idle"
    BY <1>1, <1>5, <2>2 DEF RoundInv, Writing
  <2> QED BY <2>1, <2>2
<1> QED BY <1>7, <1>8, <1>9, <1>10, <1>11

\* The records come back one by one, in order.
LEMMA MendRecordKeeps == ASSUME IInv, MendRecord PROVE IInv'
<1> USE DEF IInv
<1>1. /\ pc = "mendRecords" /\ mend \in {1, 2} /\ call = NoCall
      /\ UNCHANGED <<page, wl, call, failed>>
  BY DEF MendRecord, CallInv, Starting
<1>2. /\ saved[mend].header = wl.moves
      /\ mend = 2 => saved[1] = Fresh(wl.moves) /\ wl.pos = 0
      /\ mend = 1 => saved[2] = [header |-> wl.moves, records |-> 0..N] /\ wl.pos = N
  BY <1>1 DEF MendInv, Starting
<1>3. mend = 1 => \E k \in 0..(N + 1) : saved[1].records = 0..(k - 1)
  BY <1>1 DEF MendInv
<1>4. CASE Missing # {}
  <2>1. mend = 1
    BY <1>1, <1>2, <1>4 DEF Missing, Fresh
  <2>2. PICK k \in 0..(N + 1) : saved[1].records = 0..(k - 1)
    BY <1>3, <2>1
  <2>3. Missing = k..N
    BY <1>2, <2>1, <2>2, NPositive DEF Missing
  <2>4. k \in Page /\ k + 1 \in 0..(N + 1)
    BY <1>4, <2>3, NPositive DEF Page
  <2>5. (CHOOSE p \in Missing : \A q \in Missing : p <= q) = k
    <3>1. (CHOOSE p \in k..N : \A q \in k..N : p <= q) = k
      <4>1. k \in k..N /\ \A q \in k..N : k <= q
        BY <2>4, NPositive DEF Page
      <4>2. \A p \in k..N : (\A q \in k..N : p <= q) => p = k
        BY <2>4, NPositive DEF Page
      <4> QED BY <4>1, <4>2
    <3> QED BY <2>3, <3>1
  <2>6. /\ saved' = [saved EXCEPT ![1].records = saved[1].records \cup {k}]
        /\ pc' = pc /\ mend' = mend
    BY <1>4, <2>1, <2>5 DEF MendRecord
  <2>7. /\ saved'[1].records = 0..((k + 1) - 1) /\ saved'[1].header = saved[1].header
        /\ saved'[2] = saved[2]
    BY <2>2, <2>4, <2>6, NPositive DEF TypeOK, Page
  <2>8. TypeOK'
    BY <1>1, <2>4, <2>6 DEF TypeOK
  <2>9. MendInv'
    BY <1>1, <1>2, <2>1, <2>4, <2>6, <2>7 DEF MendInv
  <2> QED BY <1>1, <2>6, <2>8, <2>9
          DEF CallInv, MoveInv, SaveInv, DataInv, RoundInv, Starting, Writing, Saving
<1>5. CASE Missing = {}
  <2>1. pc' = "idle" /\ mend' = 0 /\ saved' = saved
    BY <1>5 DEF MendRecord
  <2>2. saved[1].header = wl.moves /\ saved[2].header = wl.moves
    BY <1>1, <1>2 DEF Fresh
  <2>3. RecordsReach(saved[1].records, wl.pos)
    <3>1. CASE mend = 2
      <4>1. 0..(0 - 1) = {}
        OBVIOUS
      <4>2. saved[1].records = {} /\ wl.pos = 0
        BY <1>2, <3>1 DEF Fresh
      <4> QED BY <4>1, <4>2 DEF RecordsReach
    <3>2. CASE mend = 1
      <4>1. 0..N \subseteq saved[1].records
        <5>1. Missing = saved[2].records \ saved[1].records /\ saved[2].records = 0..N
          BY <1>2, <3>2 DEF Missing
        <5> QED BY <1>5, <5>1
      <4>2. saved[1].records \subseteq 0..N
        BY DEF TypeOK, Page
      <4> QED BY <1>2, <3>2, <4>1, <4>2 DEF RecordsReach
    <3> QED BY <1>1, <3>1, <3>2
  <2>4. RoundInv'
    BY <1>1, <2>1, <2>2, <2>3 DEF RoundInv, Writing
  <2>5. TypeOK'
    BY <1>1, <2>1 DEF TypeOK
  <2> QED BY <1>1, <2>1, <2>4, <2>5
          DEF CallInv, MoveInv, SaveInv, MendInv, DataInv, Starting, Writing, Saving
<1> QED BY <1>4, <1>5

\* A cut leaves something init() can start from.
LEMMA PowerCutKeeps == ASSUME IInv, PowerCut PROVE IInv'
<1> USE DEF IInv
<1>1. /\ pc' = "off" /\ mend' = 0 /\ call' = NoCall /\ ~failed
      /\ UNCHANGED <<saved, wl, failed>> /\ page' \in Torn
  BY DEF PowerCut
<1>2. TypeOK'
  <2>1. page' \in [Page -> Content]
    BY <1>1, TornType
  <2> QED BY <1>1, <2>1 DEF TypeOK
<1>3. Restartable'
  <2>1. Restartable
    BY CutIsUnseen DEF PowerCut
  <2> QED BY <1>1, <2>1 DEF Restartable, Good
<1> QED BY <1>1, <1>2, <1>3
        DEF CallInv, MoveInv, SaveInv, MendInv, DataInv, RoundInv, Starting, Writing, Saving

\* The chip is blank, and the power is off.
LEMMA InitInv == Init => IInv
<1> SUFFICES ASSUME Init PROVE IInv
  OBVIOUS
<1>1. TypeOK
  <2>1. page \in [Page -> Content]
    BY DEF Init, Content
  <2>2. saved \in [1..2 -> [header : Sector \cup {Bad}, records : SUBSET Page]]
    BY DEF Init, Erased
  <2>3. wl \in [pos : Page, moves : Sector, erases : 0..(RATE - 1)]
    BY NPositive, WLAssumption DEF Init, Page, Sector
  <2>4. pc = "off" /\ mend \in 0..2 /\ call = NoCall
    BY DEF Init
  <2>5. failed \in BOOLEAN
    BY DEF Init
  <2> QED BY <2>1, <2>2, <2>3, <2>4, <2>5, Zenon DEF TypeOK
<1>2. Restartable
  BY DEF Init, Restartable, Good, Erased
<1> QED BY <1>1, <1>2
        DEF IInv, Init, CallInv, MoveInv, SaveInv, MendInv, DataInv, RoundInv,
            Starting, Writing, Saving

\* Stuttering steps.
LEMMA StutterKeeps == ASSUME IInv, UNCHANGED vars PROVE IInv'
<1> USE DEF vars
<1>1. TypeOK' /\ CallInv'
  BY DEF IInv, TypeOK, CallInv
<1>2. MoveInv' /\ SaveInv'
  BY DEF IInv, MoveInv, SaveInv, Good
<1>3. MendInv' /\ DataInv'
  BY DEF IInv, MendInv, DataInv, Good, At
<1>4. ~failed' => RoundInv'
  BY DEF IInv, RoundInv
<1>5. pc' = "off" => Restartable'
  BY DEF IInv, Restartable, Good
<1> QED BY <1>1, <1>2, <1>3, <1>4, <1>5 DEF IInv

\* IInv is inductive.
LEMMA StepKeeps == IInv /\ [Next]_vars => IInv'
<1>1. SUFFICES ASSUME IInv, [Next]_vars PROVE IInv'
  OBVIOUS
<1>2. ASSUME NEW first \in Sector, NEW length \in 1..N, first + length <= N,
             NEW data \in [1..length -> Value], DiskWrite(first, data)
      PROVE  IInv'
  BY <1>1, <1>2, DiskWriteKeeps
<1>3. CASE MoveStep
  BY <1>1, <1>3, UpdateWLKeeps, EraseDummyKeeps, CopyPageKeeps, RecordFirstKeeps,
     RecordSecondKeeps, WipeFirstKeeps, SaveFirstKeeps, WipeSecondKeeps, SaveSecondKeeps
     DEF MoveStep
<1>4. CASE EraseSector \/ ProgramSector
  BY <1>1, <1>4, EraseSectorKeeps, ProgramSectorKeeps
<1>5. CASE PowerUp \/ MendWipe \/ MendSave \/ MendRecord
  BY <1>1, <1>5, PowerUpKeeps, MendWipeKeeps, MendSaveKeeps, MendRecordKeeps
<1>6. CASE Fail \/ PowerCut \/ Format
  BY <1>1, <1>6, FailKeeps, PowerCutKeeps, FormatKeeps
<1>7. CASE UNCHANGED vars
  BY <1>1, <1>7, StutterKeeps
<1> QED BY <1>1, <1>2, <1>3, <1>4, <1>5, <1>6, <1>7 DEF Next, MoveStep

\* Every variable of the layer keeps its type: in particular the position and
\* the move count that WL_Flash.cpp computes with never leave their ranges.
THEOREM WearTypeCorrect == Spec => []TypeOK
<1>1. IInv => TypeOK
  BY DEF IInv
<1> QED BY <1>1, InitInv, StepKeeps, PTL DEF Spec

-----------------------------------------------------------------------------
(* The flat disk *)

\* The write in progress names the sectors first .. first + length - 1.
LEMMA PendingDomain ==
  ASSUME TypeOK, call # NoCall
  PROVE  /\ DOMAIN Pending = call.first..(call.first + Len(call.data) - 1)
         /\ Pending # Flat!NoWrite
<1>1. Pending = [s \in call.first..(call.first + Len(call.data) - 1) |->
                   call.data[s - call.first + 1]]
  BY DEF Pending
<1>2. DOMAIN Pending = call.first..(call.first + Len(call.data) - 1)
  BY <1>1
<1>3. call.first \in DOMAIN Pending
  BY <1>2, CallType
<1>4. DOMAIN Flat!NoWrite = {}
  BY DEF Flat!NoWrite
<1> QED BY <1>2, <1>3, <1>4

\* Every sector reads as some content.
LEMMA ViewType == ASSUME IInv PROVE View \in [Sector -> Content]
<1>1. CurrentMap.pos \in Page /\ CurrentMap.moves \in Sector
  BY RecoveredCases DEF CurrentMap, IInv, TypeOK
<1>2. \A s \in Sector : calcAddr(CurrentMap, s) \in Page
  BY <1>1, AddressIsAPage
<1> QED BY <1>2 DEF View, IInv, TypeOK

\* The same after a step.
LEMMA ViewTypeNext ==
  ASSUME IInv', pc' # "off"
  PROVE  View' \in [Sector -> Content]
<1>1. View' = [s \in Sector |-> page'[calcAddr(wl', s)]]
  BY DEF View, CurrentMap
<1>2. \A s \in Sector : calcAddr(wl', s) \in Page
  BY AddressIsAPage DEF IInv, TypeOK
<1> QED BY <1>1, <1>2 DEF IInv, TypeOK

\* With the power on, sectors are seen through the map in memory.
LEMMA PoweredView == pc # "off" => View = [s \in Sector |-> At(s)]
BY DEF View, CurrentMap, At

\* With the power off, through the map that the next start would find.
LEMMA CutView == pc = "off" => View = [s \in Sector |-> page[calcAddr(Recovered, s)]]
BY DEF View, CurrentMap

\* Nothing in the dummy is seen.
LEMMA TornIsUnseen ==
  ASSUME TypeOK, NEW torn \in Torn, NEW m, m.pos = wl.pos \/ pc # "copy",
         m.pos \in Page, m.moves \in Sector, NEW s \in Sector
  PROVE  torn[calcAddr(m, s)] = page[calcAddr(m, s)]
<1>1. calcAddr(m, s) \in Page \ {m.pos}
  BY AddressIsAPage
<1> QED BY <1>1 DEF Torn, TypeOK

\* A step on one sector of a write leaves all the sectors the write does not
\* name alone.
LEMMA OthersKept ==
  ASSUME IInv, EraseSector \/ ProgramSector,
         NEW s \in Sector, s \notin DOMAIN Pending
  PROVE  At(s)' = At(s)
<1> DEFINE here == calcAddr(wl, Here)
<1>1. call # NoCall /\ TypeOK
  BY DEF IInv, CallInv, EraseSector, ProgramSector, Writing
<1>2. Here \in Sector /\ Here \in DOMAIN Pending
  BY <1>1, CallType, PendingDomain DEF Here
<1>3. calcAddr(wl, s) # here
  BY <1>1, <1>2, AddressesDiffer DEF TypeOK
<1>4. wl' = wl /\ \E c : page' = [page EXCEPT ![here] = c]
  BY DEF EraseSector, ProgramSector
<1>5. calcAddr(wl, s) \in Page
  BY <1>1, DummyUnseen
<1> QED BY <1>1, <1>3, <1>4, <1>5 DEF At, TypeOK

\* How far a write has got does not show in what it names.
LEMMA SameCallSamePending ==
  ASSUME \/ call' = call
         \/ call # NoCall /\ call' # NoCall /\ call'.first = call.first /\ call'.data = call.data
  PROVE  Pending' = Pending
BY DEF Pending

\* Each action is a step of the flat disk, or shows nowhere.
LEMMA DiskWriteMaps ==
  ASSUME IInv, NEW first \in Sector, NEW length \in 1..N, first + length <= N,
         NEW data \in [1..length -> Value], DiskWrite(first, data)
  PROVE  Flat!Begin
<1> DEFINE S == first..(first + length - 1)
<1>1. /\ pc # "off" /\ pc' # "off" /\ UNCHANGED <<page, wl>>
      /\ call = NoCall /\ call' = [first |-> first, data |-> data, done |-> 0]
  BY DEF DiskWrite, IInv, CallInv
<1>2. View' = View
  BY <1>1 DEF View, CurrentMap
<1>3. Pending = Flat!NoWrite
  BY <1>1 DEF Pending, Flat!NoWrite
<1>4. call' # NoCall /\ TypeOK'
  <2>1. IInv'
    BY DiskWriteKeeps
  <2> QED BY <2>1 DEF IInv, CallInv, DiskWrite, Writing
<1>5. Len(data) = length
  BY NPositive
<1>6. Pending' = [s \in S |-> data[s - first + 1]]
  BY <1>1, <1>4, <1>5 DEF Pending
<1>7. S \in (SUBSET Sector) \ {{}}
  BY NPositive DEF Sector
<1>8. Pending' \in [S -> Content]
  <2>1. \A s \in S : data[s - first + 1] \in Content
    BY NPositive DEF Sector, Content
  <2> QED BY <1>6, <2>1
<1> QED BY <1>2, <1>3, <1>7, <1>8 DEF Flat!Begin

LEMMA MoveMaps ==
  ASSUME IInv, MoveStep
  PROVE  UNCHANGED <<View, Pending>>
<1>1. pc # "off" /\ pc' # "off" /\ call' = call
  BY DEF MoveStep, UpdateWL, EraseDummy, CopyPage, RecordFirst, RecordSecond, WipeFirst,
         SaveFirst, WipeSecond, SaveSecond
<1>2. \A s \in Sector : At(s)' = At(s)
  BY MoveIsUnseen
<1>3. View' = [s \in Sector |-> At(s)']
  BY <1>1 DEF View, CurrentMap, At
<1> QED BY <1>1, <1>2, <1>3, PoweredView, SameCallSamePending

LEMMA EraseSectorMaps == ASSUME IInv, EraseSector PROVE Flat!Work
<1>1. pc # "off" /\ call # NoCall
  BY DEF EraseSector, IInv, CallInv, Writing
<1>2. /\ pc' # "off" /\ call' # NoCall
      /\ call' = [call EXCEPT !.done = call.done + 1] \/ call' = [call EXCEPT !.done = 0]
  BY <1>1, ProceedCases DEF EraseSector
<1>3. call'.first = call.first /\ call'.data = call.data
  BY <1>1, <1>2 DEF IInv, TypeOK, Write
<1>4. Pending' = Pending
  BY <1>1, <1>2, <1>3, SameCallSamePending
<1>5. View' \in [Sector -> Content]
  BY <1>2, EraseSectorKeeps, ViewTypeNext
<1>6. \A s \in Sector \ DOMAIN Pending : View'[s] = View[s]
  <2>1. View' = [s \in Sector |-> At(s)']
    BY <1>2 DEF View, CurrentMap, At
  <2> QED BY <1>1, <2>1, PoweredView, OthersKept
<1> QED BY <1>4, <1>5, <1>6 DEF Flat!Work, Flat!UntouchedKept

LEMMA ProgramSectorMaps == ASSUME IInv, ProgramSector PROVE Flat!Work \/ Flat!Commit
<1>1. pc # "off" /\ pc = "program" /\ call # NoCall /\ wl' = wl
  BY DEF ProgramSector, IInv, CallInv, Writing
<1>2. \/ /\ pc' = "program" /\ call' = [call EXCEPT !.done = call.done + 1] /\ call' # NoCall
      \/ /\ pc' = "idle" /\ call' = NoCall /\ call.done + 1 = Len(call.data)
  BY <1>1, ProceedCases DEF ProgramSector
<1>3. View' \in [Sector -> Content]
  BY <1>2, ProgramSectorKeeps, ViewTypeNext
<1>4. View' = [s \in Sector |-> At(s)']
  BY <1>2 DEF View, CurrentMap, At
<1>5. \A s \in Sector \ DOMAIN Pending : View'[s] = View[s]
  BY <1>1, <1>4, PoweredView, OthersKept
<1>6. CASE pc' = "program" /\ call' = [call EXCEPT !.done = call.done + 1] /\ call' # NoCall
  <2>1. call'.first = call.first /\ call'.data = call.data
    BY <1>1, <1>6 DEF IInv, TypeOK, Write
  <2>2. Pending' = Pending
    BY <1>1, <1>6, <2>1, SameCallSamePending
  <2> QED BY <1>3, <1>5, <2>2 DEF Flat!Work, Flat!UntouchedKept
<1>7. CASE pc' = "idle" /\ call' = NoCall /\ call.done + 1 = Len(call.data)
  <2>1. Pending' = Flat!NoWrite
    BY <1>7 DEF Pending, Flat!NoWrite
  <2>2. ASSUME NEW s \in DOMAIN Pending
        PROVE  View'[s] = Pending[s]
    <3>1. /\ call.first \in Nat /\ call.done \in Nat /\ Len(call.data) \in Nat
          /\ \A i \in 0..(Len(call.data) - 1) : call.first + i \in Sector
      BY <1>1, CallType DEF IInv
    <3>2. s \in call.first..(call.first + Len(call.data) - 1)
      BY <1>1, PendingDomain DEF IInv
    <3>3. Pending[s] = call.data[s - call.first + 1]
      BY <1>1, <3>2 DEF Pending
    <3>4. /\ s - call.first \in 0..(Len(call.data) - 1) /\ s - call.first <= call.done
          /\ call.first + (s - call.first) = s
      BY <1>7, <3>1, <3>2
    <3>5. s \in Sector
      BY <3>1, <3>4
    <3>6. page'[calcAddr(wl, s)] = call.data[s - call.first + 1]
      BY <3>4, ProgramsTheData
    <3>7. At(s)' = call.data[s - call.first + 1]
      BY <1>1, <3>6 DEF At
    <3> QED BY <1>4, <3>3, <3>5, <3>7
  <2> QED BY <1>3, <1>5, <2>1, <2>2 DEF Flat!Commit, Flat!UntouchedKept
<1> QED BY <1>2, <1>6, <1>7

\* An interruption leaves the view as it is, and drops the write, if any.
LEMMA InterruptionMaps ==
  ASSUME IInv, View' = View, call' = NoCall
  PROVE  Flat!Abort \/ UNCHANGED <<View, Pending>>
<1>1. Pending' = Flat!NoWrite
  BY DEF Pending, Flat!NoWrite
<1>2. CASE call = NoCall
  BY <1>1, <1>2 DEF Pending, Flat!NoWrite
<1>3. CASE call # NoCall
  <2>1. Pending # Flat!NoWrite
    BY <1>3, PendingDomain DEF IInv
  <2> QED BY <1>1, <2>1, ViewType DEF Flat!Abort, Flat!UntouchedKept
<1> QED BY <1>2, <1>3

LEMMA FailMaps == ASSUME IInv, Fail PROVE Flat!Abort \/ UNCHANGED <<View, Pending>>
<1>1. /\ pc # "off" /\ pc' # "off" /\ call' = NoCall /\ page' \in Torn
      /\ wl'.pos = wl.pos /\ wl'.moves = wl.moves
  BY DEF Fail, IInv, CallInv, TypeOK
<1>2. ASSUME NEW s \in Sector
      PROVE  At(s)' = At(s)
  <2>1. page'[calcAddr(wl, s)] = page[calcAddr(wl, s)]
    BY <1>1, TornIsUnseen DEF IInv, TypeOK
  <2>2. calcAddr(wl', s) = calcAddr(wl, s)
    BY <1>1, SameAddress
  <2> QED BY <2>1, <2>2 DEF At
<1>3. View' = [s \in Sector |-> At(s)']
  BY <1>1 DEF View, CurrentMap, At
<1>4. View' = View
  BY <1>1, <1>2, <1>3, PoweredView
<1> QED BY <1>1, <1>4, InterruptionMaps

LEMMA PowerCutMaps == ASSUME IInv, PowerCut PROVE Flat!Abort \/ UNCHANGED <<View, Pending>>
<1>1. /\ pc # "off" /\ ~failed /\ ~FatalWindow
      /\ pc' = "off" /\ call' = NoCall /\ page' \in Torn /\ saved' = saved
  BY DEF PowerCut
<1>2. /\ Restartable
      /\ \A s \in Sector : page[calcAddr(Recovered, s)] = At(s)
      /\ pc = "copy" => Recovered.pos = wl.pos
  BY <1>1, CutIsUnseen
<1>3. Recovered.pos \in Page /\ Recovered.moves \in Sector
  BY <1>2, RecoveredCases DEF IInv
<1>4. Recovered' = Recovered
  BY <1>1 DEF Recovered, Good
<1>5. \A s \in Sector : page'[calcAddr(Recovered, s)] = At(s)
  BY <1>1, <1>2, <1>3, TornIsUnseen DEF IInv
<1>6. View' = [s \in Sector |-> page'[calcAddr(Recovered', s)]]
  BY <1>1 DEF View, CurrentMap
<1>7. View' = View
  BY <1>1, <1>4, <1>5, <1>6, PoweredView
<1> QED BY <1>1, <1>7, InterruptionMaps

LEMMA PowerUpMaps == ASSUME IInv, PowerUp PROVE UNCHANGED <<View, Pending>>
<1>1. /\ pc = "off" /\ pc' # "off" /\ call' = call /\ page' = page
      /\ wl'.pos = Recovered.pos /\ wl'.moves = Recovered.moves
  BY DEF PowerUp
<1>2. \A s \in Sector : At(s)' = page[calcAddr(Recovered, s)]
  BY <1>1, SameAddress DEF At
<1>3. View' = [s \in Sector |-> At(s)']
  BY <1>1 DEF View, CurrentMap, At
<1> QED BY <1>1, <1>2, <1>3, CutView, SameCallSamePending

LEMMA MendMaps ==
  ASSUME IInv, MendWipe \/ MendSave \/ MendRecord
  PROVE  UNCHANGED <<View, Pending>>
<1>1. pc # "off" /\ pc' # "off" /\ UNCHANGED <<page, wl, call>>
  BY DEF MendWipe, MendSave, MendRecord
<1> QED BY <1>1, SameCallSamePending DEF View, CurrentMap

LEMMA FormatMaps == ASSUME IInv, Format PROVE Flat!Format
<1>1. /\ call' = NoCall /\ page' = [p \in Page |-> Blank] /\ pc' = "off"
      /\ saved' = [copy \in 1..2 |-> Erased]
  BY DEF Format, IInv, CallInv
<1>2. Pending' = Flat!NoWrite
  BY <1>1 DEF Pending, Flat!NoWrite
<1>3. ~Good(1)' /\ ~Good(2)'
  BY <1>1 DEF Good, Erased
<1>4. Recovered' = [pos |-> 0, moves |-> 0, mend |-> 0]
  BY <1>3 DEF Recovered
<1>5. View' = [s \in Sector |-> page'[calcAddr(Recovered', s)]]
  BY <1>1 DEF View, CurrentMap
<1>6. \A s \in Sector : calcAddr(Recovered', s) \in Page
  BY <1>4, AddressIsAPage, NPositive DEF Page, Sector
<1> QED BY <1>1, <1>2, <1>5, <1>6 DEF Flat!Format

\* The layer starts as a flat disk does.
LEMMA InitMaps == Init => Flat!Init
<1>1. SUFFICES ASSUME Init PROVE Flat!Init
  OBVIOUS
<1>2. View \in [Sector -> Content]
  BY <1>1, InitInv, ViewType
<1>3. Pending = Flat!NoWrite
  BY <1>1 DEF Init, Pending, Flat!NoWrite
<1> QED BY <1>2, <1>3 DEF Flat!Init

\* Every step of the layer is a step of the flat disk or shows nowhere.
LEMMA StepMaps == IInv /\ [Next]_vars => [Flat!Next]_<<View, Pending>>
<1>1. SUFFICES ASSUME IInv, [Next]_vars PROVE Flat!Next \/ UNCHANGED <<View, Pending>>
  OBVIOUS
<1>2. ASSUME NEW first \in Sector, NEW length \in 1..N, first + length <= N,
             NEW data \in [1..length -> Value], DiskWrite(first, data)
      PROVE  Flat!Next
  BY <1>1, <1>2, DiskWriteMaps DEF Flat!Next
<1>3. CASE MoveStep
  BY <1>1, <1>3, MoveMaps
<1>4. CASE EraseSector \/ ProgramSector
  BY <1>1, <1>4, EraseSectorMaps, ProgramSectorMaps DEF Flat!Next
<1>5. CASE PowerUp \/ MendWipe \/ MendSave \/ MendRecord
  BY <1>1, <1>5, PowerUpMaps, MendMaps
<1>6. CASE Fail \/ PowerCut
  BY <1>1, <1>6, FailMaps, PowerCutMaps DEF Flat!Next
<1>7. CASE Format
  BY <1>1, <1>7, FormatMaps DEF Flat!Next
<1>8. CASE UNCHANGED vars
  BY <1>8 DEF vars, View, CurrentMap, Recovered, Good, Pending
<1> QED BY <1>1, <1>2, <1>3, <1>4, <1>5, <1>6, <1>7, <1>8 DEF Next, MoveStep

\* Wear levelling is invisible to FatFs: through all moves of the dummy, all
\* wraps of its rounds, failing driver calls and power cuts outside the fatal
\* windows, WL_Flash.cpp under disk_write() behaves as a linear array of
\* sectors, in which a sector changes only in a write that names it.
THEOREM WearIsInvisible == Spec => ImplementsFlatDisk
<1>1. Init => Flat!Init
  BY InitMaps
<1>2. IInv /\ [Next]_vars => [Flat!Next]_<<View, Pending>>
  BY StepMaps
<1> QED BY <1>1, <1>2, InitInv, StepKeeps, PTL DEF Spec, ImplementsFlatDisk, Flat!Spec
=============================================================================
