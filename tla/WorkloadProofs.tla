--------------------------- MODULE WorkloadProofs ---------------------------
(***************************************************************************)
(* The churn model and the filesystem that executes its events later agree *)
(* at all times, for every profile and size, however far execution trails  *)
(* and whatever writes fail: nothing flows back, and nothing needs to.     *)
(*                                                                         *)
(* What one step of the churn model does to its own table comes first:     *)
(* next() and apply() keep the model sound, never ask for more than the    *)
(* ceiling, and change the files by exactly the event they give.           *)
(***************************************************************************)
EXTENDS Workload, FoldLemmas

Limit == targetLiveBytes + targetSlackBytes

-----------------------------------------------------------------------------
(* The types of the churn model *)

Names  == Slots \X (0 .. U32 - 1)
Records == [name : Names, size : Nat]
Tables == UNION {[S -> Records] : S \in SUBSET Slots}
Writes == Draws \cup {NoWrite, [large |-> TRUE, size |-> FORCED_LARGE_SIZE]}
Sizes  == {w.size : w \in Writes}

ChurnStates ==
  [totalWritten : 0 .. U32 - 1, liveBytes : Int, slots : Tables,
   forcedLargeWritten : BOOLEAN, pending : Writes, optionalDeleteChecked : BOOLEAN,
   pendingSlot : Slots \cup {NoSlot}, protectedLargeSlot : Slots \cup {NoSlot}]

DeleteEvents == [type : {"delete"}, slot : Slots, name : Names]
WriteEvents  == [type : {"write"}, slot : Slots, large : BOOLEAN, size : Nat,
                 replacing : BOOLEAN, name : Names]
Events == {[type |-> "done"]} \cup DeleteEvents \cup WriteEvents

\* Sets of files under names of N: sizes by name.
MapsOn(N) == UNION {[M -> Nat] : M \in SUBSET N}
FileMaps  == MapsOn(Names)

\* The constants are numbers.
LEMMA Constants ==
  /\ slotCount \in Nat /\ U32 \in Nat /\ U32 > 0
  /\ FORCED_LARGE_SIZE \in Nat /\ FORCED_LARGE_SIZE > 0
  /\ targetLiveBytes \in Nat /\ targetSlackBytes \in Nat /\ Limit \in Nat
  /\ targetWrittenBytes \in Nat /\ forceLargeAfterBytes \in Nat
  /\ protectFirstLarge \in BOOLEAN
  /\ Slots \subseteq Nat /\ NoSlot \notin Slots
BY ChurnAssumption DEF Limit, Slots, NoSlot

\* g is f with the value v at x, and g is f without x.
IsPut(g, f, x, v) == /\ DOMAIN g = DOMAIN f \cup {x} /\ g[x] = v
                     /\ \A y \in DOMAIN f \ {x} : g[y] = f[y]
IsRest(g, f, x)   == /\ DOMAIN g = DOMAIN f \ {x}
                     /\ \A y \in DOMAIN f \ {x} : g[y] = f[y]

LEMMA PutIsPut ==
  ASSUME NEW f, NEW x, NEW v
  PROVE  IsPut(Put(f, x, v), f, x, v)
BY DEF IsPut, Put

LEMMA RestrictIsRest ==
  ASSUME NEW f, NEW x
  PROVE  IsRest(Restrict(f, DOMAIN f \ {x}), f, x)
BY DEF IsRest, Restrict

\* The members of MapsOn(N), and when two of them are the same.
LEMMA MapsAre ==
  ASSUME NEW N
  PROVE  /\ \A f \in MapsOn(N) : /\ DOMAIN f \subseteq N
                               /\ \A x \in DOMAIN f : f[x] \in Nat
                               /\ f = [y \in DOMAIN f |-> f[y]]
         /\ \A M \in SUBSET N : \A f \in [M -> Nat] : f \in MapsOn(N)
BY DEF MapsOn

LEMMA SameMaps ==
  ASSUME NEW N, NEW f \in MapsOn(N), NEW g \in MapsOn(N), DOMAIN f = DOMAIN g,
         \A x \in DOMAIN f : f[x] = g[x]
  PROVE  f = g
<1>1. PICK M \in SUBSET N : f \in [M -> Nat]
  BY DEF MapsOn
<1>2. PICK L \in SUBSET N : g \in [L -> Nat]
  BY DEF MapsOn
<1>3. DOMAIN f = M /\ DOMAIN g = L
  BY <1>1, <1>2
<1>4. g \in [M -> Nat] /\ \A x \in M : f[x] = g[x]
  BY <1>2, <1>3
<1> QED BY ONLY <1>1, <1>4

\* Putting a file and removing some.
LEMMA PutIn ==
  ASSUME NEW N, NEW f \in MapsOn(N), NEW x \in N, NEW v \in Nat
  PROVE  /\ Put(f, x, v) \in MapsOn(N)
         /\ DOMAIN Put(f, x, v) = DOMAIN f \cup {x}
         /\ Put(f, x, v)[x] = v
         /\ \A y \in DOMAIN f \ {x} : Put(f, x, v)[y] = f[y]
<1>1. DOMAIN f \cup {x} \in SUBSET N
  BY MapsAre
<1>2. Put(f, x, v) \in [DOMAIN f \cup {x} -> Nat]
  BY MapsAre DEF Put
<1> QED BY <1>1, <1>2, MapsAre DEF Put

LEMMA RestrictIn ==
  ASSUME NEW N, NEW f \in MapsOn(N), NEW M, M \subseteq DOMAIN f
  PROVE  /\ Restrict(f, M) \in MapsOn(N)
         /\ DOMAIN Restrict(f, M) = M
         /\ \A y \in M : Restrict(f, M)[y] = f[y]
<1>1. M \in SUBSET N
  BY MapsAre
<1>2. Restrict(f, M) \in [M -> Nat]
  BY MapsAre DEF Restrict
<1> QED BY <1>1, <1>2, MapsAre DEF Restrict

\* No file at all.
LEMMA NoneIn ==
  ASSUME NEW N
  PROVE  /\ <<>> \in MapsOn(N)
         /\ DOMAIN <<>> = {}
         /\ \A f \in MapsOn(N) : DOMAIN f = {} => f = <<>>
<1>1. <<>> \in [{} -> Nat] /\ DOMAIN <<>> = {} /\ {} \in SUBSET N
  OBVIOUS
<1>2. <<>> \in MapsOn(N)
  BY <1>1, MapsAre
<1> QED BY <1>1, <1>2, SameMaps

\* Sets of files under finitely many names can be summed up.
LEMMA MapsSummable ==
  ASSUME NEW N, IsFiniteSet(N), NEW f \in MapsOn(N)
  PROVE  Summable(f)
BY MapsAre, FS_Subset DEF Summable

\* The same of the churn's files.
LEMMA FileMapsAre ==
  /\ \A f \in FileMaps : /\ DOMAIN f \subseteq Names
                         /\ \A x \in DOMAIN f : f[x] \in Nat
  /\ \A N \in SUBSET Names : \A f \in [N -> Nat] : f \in FileMaps
BY MapsAre DEF FileMaps

LEMMA SameFiles ==
  ASSUME NEW f \in FileMaps, NEW g \in FileMaps, DOMAIN f = DOMAIN g,
         \A x \in DOMAIN f : f[x] = g[x]
  PROVE  f = g
BY SameMaps DEF FileMaps

LEMMA PutFile ==
  ASSUME NEW f \in FileMaps, NEW x \in Names, NEW v \in Nat
  PROVE  /\ Put(f, x, v) \in FileMaps
         /\ DOMAIN Put(f, x, v) = DOMAIN f \cup {x}
         /\ Put(f, x, v)[x] = v
         /\ \A y \in DOMAIN f \ {x} : Put(f, x, v)[y] = f[y]
BY PutIn DEF FileMaps

LEMMA RestrictFiles ==
  ASSUME NEW f \in FileMaps, NEW N, N \subseteq DOMAIN f
  PROVE  /\ Restrict(f, N) \in FileMaps
         /\ DOMAIN Restrict(f, N) = N
         /\ \A y \in N : Restrict(f, N)[y] = f[y]
BY RestrictIn DEF FileMaps

LEMMA NoFiles ==
  /\ <<>> \in FileMaps
  /\ DOMAIN <<>> = {}
  /\ \A f \in FileMaps : DOMAIN f = {} => f = <<>>
BY NoneIn DEF FileMaps

LEMMA NamesFinite == IsFiniteSet(Names)
<1>1. IsFiniteSet(Slots) /\ IsFiniteSet(0 .. U32 - 1)
  BY Constants, FS_Interval DEF Slots
<1> QED BY <1>1, FS_Product DEF Names

LEMMA FilesSummable == \A f \in FileMaps : Summable(f)
BY NamesFinite, MapsSummable DEF FileMaps

\* The tables of the model.
LEMMA TablesAre ==
  /\ \A t \in Tables : /\ DOMAIN t \subseteq Slots
                       /\ \A s \in DOMAIN t : t[s] \in Records
                       /\ t = [s \in DOMAIN t |-> t[s]]
  /\ \A S \in SUBSET Slots : \A t \in [S -> Records] : t \in Tables
BY DEF Tables

-----------------------------------------------------------------------------
(* next() *)

\* A file is named for its slot.
Named(c) == \A s \in DOMAIN c.slots : c.slots[s].name[1] = s

\* The model is at or below its ceiling, or it holds one file only and without
\* that file it would be.
UnderCeiling(c) ==
  \/ c.liveBytes <= Limit
  \/ \E s : DOMAIN c.slots = {s} /\ c.liveBytes - c.slots[s].size <= Limit

\* A sound model between two calls; the slot kept for the pending write is free.
ChurnOK(c) ==
  c \in ChurnStates /\ Named(c) /\ UnderCeiling(c) /\ c.pendingSlot \notin DOMAIN c.slots

\* The event o.event fits the table of c: a delete is of a live file; a write either
\* replaces a live file under its name or takes a free slot under a new one, and
\* stays under the ceiling unless nothing is live; it is of a size that can be drawn.
Fits(e, c) ==
  /\ e \in Events
  /\ e.type = "delete" => e.slot \in DOMAIN c.slots /\ e.name = c.slots[e.slot].name
  /\ e.type = "write" =>
       /\ e.replacing => e.slot \in DOMAIN c.slots /\ e.name = c.slots[e.slot].name
       /\ ~e.replacing => e.slot \notin DOMAIN c.slots /\ e.name[1] = e.slot
       /\ DOMAIN c.slots = {} \/ c.liveBytes + e.size <= Limit
       /\ e.size \in Sizes

\* The model o.churn is c but for what has been drawn; a slot it now keeps for the
\* pending write is free, or the delete under way frees it.
SameFilesAs(d, c) == d \in ChurnStates /\ d.slots = c.slots /\ d.liveBytes = c.liveBytes
Frees(e, d)       == d.pendingSlot \in DOMAIN d.slots => e.type = "delete" /\ e.slot = d.pendingSlot
Follows(o, c)     == SameFilesAs(o.churn, c) /\ Fits(o.event, c) /\ Frees(o.event, o.churn)

\* The model's fields.
LEMMA Fields ==
  ASSUME NEW c \in ChurnStates
  PROVE  /\ c.totalWritten \in 0 .. U32 - 1 /\ c.liveBytes \in Int /\ c.slots \in Tables
         /\ c.forcedLargeWritten \in BOOLEAN /\ c.pending \in Writes
         /\ c.optionalDeleteChecked \in BOOLEAN
         /\ c.pendingSlot \in Slots \cup {NoSlot} /\ c.protectedLargeSlot \in Slots \cup {NoSlot}
         /\ DOMAIN c.slots \subseteq Slots
         /\ \A s \in DOMAIN c.slots : c.slots[s].name \in Names /\ c.slots[s].size \in Nat
<1>1. c.slots \in Tables
  BY DEF ChurnStates
<1>2. \A s \in DOMAIN c.slots : c.slots[s].name \in Names /\ c.slots[s].size \in Nat
  BY <1>1, TablesAre DEF Records
<1> QED BY <1>1, <1>2, TablesAre DEF ChurnStates

\* What a pending write asks for.
LEMMA WritesAre ==
  \A w \in Writes : w.large \in BOOLEAN /\ w.size \in Nat
<1>1. Draws \subseteq [large : BOOLEAN, size : Nat]
  BY ChurnAssumption
<1>2. NoWrite \in [large : BOOLEAN, size : Nat]
  BY DEF NoWrite
<1>3. [large |-> TRUE, size |-> FORCED_LARGE_SIZE] \in [large : BOOLEAN, size : Nat]
  BY Constants
<1>4. Writes \subseteq [large : BOOLEAN, size : Nat]
  BY <1>1, <1>2, <1>3 DEF Writes
<1> QED BY <1>4

LEMMA CandidatesAreLive ==
  ASSUME NEW c
  PROVE  Candidates(c) \subseteq DOMAIN c.slots
BY DEF Candidates

\* Drawing a write changes no file and keeps the slot that is held free.
LEMMA DrawnKeeps ==
  ASSUME NEW c, ChurnOK(c), NEW d \in Drawn(c)
  PROVE  SameFilesAs(d, c) /\ d.pendingSlot \notin DOMAIN d.slots
<1>1. c \in ChurnStates /\ c.pendingSlot \notin DOMAIN c.slots /\ NoSlot \notin DOMAIN c.slots
  BY Fields, Constants DEF ChurnOK
<1> DEFINE pend(w) == [c EXCEPT !.pending = w, !.optionalDeleteChecked = FALSE,
                               !.pendingSlot = NoSlot]
<1>2. ASSUME NEW w \in Writes
      PROVE  /\ pend(w) \in ChurnStates /\ pend(w).slots = c.slots
             /\ pend(w).liveBytes = c.liveBytes /\ pend(w).pendingSlot = NoSlot
             /\ [pend(w) EXCEPT !.forcedLargeWritten = TRUE] \in ChurnStates
             /\ [pend(w) EXCEPT !.forcedLargeWritten = TRUE].slots = c.slots
             /\ [pend(w) EXCEPT !.forcedLargeWritten = TRUE].liveBytes = c.liveBytes
             /\ [pend(w) EXCEPT !.forcedLargeWritten = TRUE].pendingSlot = NoSlot
  BY <1>1 DEF ChurnStates
<1>3. \/ d = c
      \/ d = [pend([large |-> TRUE, size |-> FORCED_LARGE_SIZE]) EXCEPT !.forcedLargeWritten = TRUE]
      \/ \E w \in Draws : d = pend(w)
  BY DEF Drawn
<1>4. [large |-> TRUE, size |-> FORCED_LARGE_SIZE] \in Writes /\ Draws \subseteq Writes
  BY DEF Writes
<1> HIDE DEF pend
<1>5. CASE d = c
  BY <1>1, <1>5 DEF SameFilesAs
<1>6. CASE d = [pend([large |-> TRUE, size |-> FORCED_LARGE_SIZE]) EXCEPT !.forcedLargeWritten = TRUE]
  BY <1>1, <1>2, <1>4, <1>6 DEF SameFilesAs
<1>7. CASE \E w \in Draws : d = pend(w)
  BY <1>1, <1>2, <1>4, <1>7 DEF SameFilesAs
<1> QED BY <1>3, <1>5, <1>6, <1>7

\* A delete of a candidate fits.
LEMMA DeleteFits ==
  ASSUME NEW c \in ChurnStates, NEW s \in Candidates(c)
  PROVE  Fits(Delete(c, s), c) /\ Delete(c, s).type = "delete" /\ Delete(c, s).slot = s
<1>1. s \in DOMAIN c.slots
  BY CandidatesAreLive
<1>2. s \in Slots /\ c.slots[s].name \in Names
  BY <1>1, Fields
<1>3. Delete(c, s) \in DeleteEvents
  BY <1>2 DEF Delete, DeleteEvents
<1> QED BY <1>1, <1>3 DEF Fits, Delete, Events

\* A write into a live slot or a free one fits when it respects the ceiling.
LEMMA WriteFits ==
  ASSUME NEW c \in ChurnStates, NEW s \in Slots, NEW r \in BOOLEAN,
         r <=> s \in DOMAIN c.slots,
         DOMAIN c.slots = {} \/ c.liveBytes + c.pending.size <= Limit
  PROVE  Fits(Write(c, s, r), c)
<1> DEFINE name == NameFor(c, s, r)
<1>1. name \in Names /\ (r => name = c.slots[s].name) /\ (~r => name[1] = s)
  BY Fields DEF NameFor, NewName, Names
<1>2. c.pending.large \in BOOLEAN /\ c.pending.size \in Nat /\ c.pending.size \in Sizes
  BY Fields, WritesAre DEF Sizes
<1> DEFINE e == Write(c, s, r)
<1>3. /\ e.type = "write" /\ e.slot = s /\ e.size = c.pending.size
      /\ e.replacing = r /\ e.name = name
  BY DEF Write
<1>4. e \in WriteEvents
  BY <1>1, <1>2 DEF Write, WriteEvents
<1>5. e \in Events
  BY <1>4 DEF Events
<1> SUFFICES Fits(e, c)
  OBVIOUS
<1> HIDE DEF e, name
<1> QED BY <1>1, <1>2, <1>3, <1>5 DEF Fits

\* The smallest free slot is free.
LEMMA SmallestFree ==
  ASSUME NEW F \in SUBSET Slots, F # {}
  PROVE  Min(F) \in F
<1> DEFINE Rev == {slotCount - s : s \in F}
<1>1. Rev \in SUBSET (1 .. slotCount) /\ Rev # {}
  <2>1. ASSUME NEW s \in F PROVE slotCount - s \in 1 .. slotCount
    <3>1. s \in 0 .. slotCount - 1
      BY DEF Slots
    <3> QED BY <3>1, Constants
  <2>2. Rev # {}
    OBVIOUS
  <2> QED BY <2>1, <2>2
<1>2. Max(Rev) \in Rev /\ \A y \in Rev : Max(Rev) >= y
  BY <1>1, Constants, LastPosition
<1>3. PICK s \in F : Max(Rev) = slotCount - s
  BY <1>2
<1>4. \A y \in F : s <= y
  <2> SUFFICES ASSUME NEW y \in F PROVE s <= y
    OBVIOUS
  <2>1. slotCount - y \in Rev
    OBVIOUS
  <2>2. slotCount - s >= slotCount - y
    BY <1>2, <1>3, <2>1
  <2> QED BY <2>2, Constants DEF Slots
<1> QED BY <1>4 DEF Min

\* A write that has been placed fits, and the slot kept for it is free or being freed.
LEMMA PlacedFollows ==
  ASSUME NEW c \in ChurnStates, c.pendingSlot \notin DOMAIN c.slots,
         DOMAIN c.slots = {} \/ c.liveBytes + c.pending.size <= Limit,
         NEW o \in Placed(c)
  PROVE  Follows(o, c)
<1> DEFINE free == Slots \ DOMAIN c.slots
<1>0. SameFilesAs(c, c)
  BY DEF SameFilesAs
<1>1. ASSUME NEW s \in Slots, NEW r \in BOOLEAN, r <=> s \in DOMAIN c.slots,
             o = Outcome(Write(c, s, r), c)
      PROVE  Follows(o, c)
  <2>1. o.event = Write(c, s, r) /\ o.churn = c
    BY <1>1 DEF Outcome
  <2>2. Fits(Write(c, s, r), c)
    BY <1>1, WriteFits
  <2> QED BY <1>0, <2>1, <2>2 DEF Follows, Frees
<1>2. CASE \E s \in Candidates(c) : o = Outcome(Write(c, s, TRUE), c)
  <2>1. PICK s \in Candidates(c) : o = Outcome(Write(c, s, TRUE), c)
    BY <1>2
  <2>2. s \in DOMAIN c.slots /\ s \in Slots
    BY CandidatesAreLive, Fields
  <2> QED BY <1>1, <2>1, <2>2
<1>3. CASE c.pendingSlot # NoSlot /\ o = Outcome(Write(c, c.pendingSlot, FALSE), c)
  <2>1. c.pendingSlot \in Slots
    BY <1>3, Fields
  <2> QED BY <1>1, <1>3, <2>1
<1>4. CASE free # {} /\ o = Outcome(Write(c, Min(free), FALSE), c)
  <2>1. Min(free) \in free
    BY <1>4, SmallestFree
  <2>2. Min(free) \in Slots /\ Min(free) \notin DOMAIN c.slots
    BY <2>1
  <2> HIDE DEF free
  <2> QED BY <1>1, <1>4, <2>2
<1>5. CASE o \in Evicted(c)
  <2>1. PICK s \in Candidates(c) : o = Outcome(Delete(c, s), [c EXCEPT !.pendingSlot = s])
    BY <1>5 DEF Evicted
  <2>2. s \in Slots /\ s \in DOMAIN c.slots
    BY CandidatesAreLive, Fields
  <2> DEFINE d == [c EXCEPT !.pendingSlot = s]
  <2>3. SameFilesAs(d, c) /\ d.pendingSlot = s
    BY <2>2 DEF SameFilesAs, ChurnStates
  <2>4. o.event = Delete(c, s) /\ o.churn = d
    BY <2>1 DEF Outcome
  <2>5. Fits(Delete(c, s), c) /\ Delete(c, s).type = "delete" /\ Delete(c, s).slot = s
    BY DeleteFits
  <2> HIDE DEF d
  <2> QED BY <2>3, <2>4, <2>5 DEF Follows, Frees
<1>6. \/ \E s \in Candidates(c) : o = Outcome(Write(c, s, TRUE), c)
      \/ c.pendingSlot # NoSlot /\ o = Outcome(Write(c, c.pendingSlot, FALSE), c)
      \/ free # {} /\ o = Outcome(Write(c, Min(free), FALSE), c)
      \/ o \in Evicted(c)
  BY DEF Placed
<1> QED BY <1>2, <1>3, <1>4, <1>5, <1>6

\* A choice of next() with a write pending follows the model.
LEMMA ChoiceFollows ==
  ASSUME NEW c \in ChurnStates, c.pendingSlot \notin DOMAIN c.slots, NEW o \in NextFor(c)
  PROVE  Follows(o, c)
<1> DEFINE checked == [c EXCEPT !.optionalDeleteChecked = TRUE]
<1>1. /\ checked \in ChurnStates /\ checked.slots = c.slots /\ checked.liveBytes = c.liveBytes
      /\ checked.pendingSlot = c.pendingSlot /\ checked.pending = c.pending
  BY DEF ChurnStates
<1>2. SameFilesAs(checked, c) /\ SameFilesAs(c, c)
  BY <1>1 DEF SameFilesAs
<1>3. ASSUME NEW d, d \in {c, checked}, NEW s \in Candidates(c), o = Outcome(Delete(c, s), d)
      PROVE  Follows(o, c)
  <2>1. o.event = Delete(c, s) /\ o.churn = d
    BY <1>3 DEF Outcome
  <2>2. Fits(Delete(c, s), c)
    BY DeleteFits
  <2>3. SameFilesAs(d, c) /\ d.pendingSlot \notin DOMAIN d.slots
    BY <1>1, <1>2, <1>3
  <2> HIDE DEF checked
  <2> QED BY <2>1, <2>2, <2>3 DEF Follows, Frees
<1>4. CASE ~Sheds(c) /\ o \in Placed(checked)
  <2>1. DOMAIN c.slots = {} \/ c.liveBytes + c.pending.size <= Limit
    <3>1. c.liveBytes \in Int /\ c.pending.size \in Int
      BY Fields, WritesAre
    <3> QED BY <1>4, <3>1, Constants DEF Sheds, OverCeiling, Limit
  <2>2. Follows(o, checked)
    <3> HIDE DEF checked
    <3> QED BY <1>1, <1>4, <2>1, PlacedFollows
  <2> HIDE DEF checked
  <2> QED BY <1>1, <2>2 DEF Follows, Fits, SameFilesAs
<1>5. \/ \E s \in Candidates(c) : o = Outcome(Delete(c, s), c)
      \/ ~Sheds(c) /\ o \in Placed(checked)
      \/ \E s \in Candidates(c) : o = Outcome(Delete(c, s), checked)
  BY DEF NextFor
<1> HIDE DEF checked
<1> QED BY <1>3, <1>4, <1>5

\* Whatever next() gives follows the model.
LEMMA NextFollows ==
  ASSUME NEW c, ChurnOK(c), NEW o \in NextEvents(c)
  PROVE  Follows(o, c)
<1>0. c \in ChurnStates /\ c.pendingSlot \notin DOMAIN c.slots
  BY DEF ChurnOK
<1>1. CASE o = Outcome([type |-> "done"], c)
  <2>1. o.event = [type |-> "done"] /\ o.churn = c
    BY <1>1 DEF Outcome
  <2>2. Fits([type |-> "done"], c)
    BY DEF Fits, Events
  <2> QED BY <1>0, <2>1, <2>2 DEF Follows, Frees, SameFilesAs
<1>2. ASSUME NEW d \in Drawn(c), o \in NextFor(d)
      PROVE  Follows(o, c)
  <2>1. SameFilesAs(d, c) /\ d.pendingSlot \notin DOMAIN d.slots
    BY DrawnKeeps
  <2>2. Follows(o, d)
    BY <1>2, <2>1, ChoiceFollows DEF SameFilesAs
  <2> QED BY <2>1, <2>2 DEF Follows, Fits, SameFilesAs
<1> QED BY <1>1, <1>2 DEF NextEvents

-----------------------------------------------------------------------------
(* apply() *)

\* A table after a write into a slot, and after a delete.
LEMMA TableWithWrite ==
  ASSUME NEW t \in Tables, NEW s \in Slots, NEW f \in Records
  PROVE  /\ Put(t, s, f) \in Tables /\ DOMAIN Put(t, s, f) = DOMAIN t \cup {s}
         /\ Put(t, s, f)[s] = f /\ \A r \in DOMAIN t \ {s} : Put(t, s, f)[r] = t[r]
<1>1. DOMAIN t \cup {s} \in SUBSET Slots
  BY TablesAre
<1>2. Put(t, s, f) \in [DOMAIN t \cup {s} -> Records]
  BY TablesAre DEF Put
<1> QED BY <1>1, <1>2, TablesAre DEF Put

LEMMA TableWithDelete ==
  ASSUME NEW t \in Tables, NEW s
  PROVE  /\ Restrict(t, DOMAIN t \ {s}) \in Tables
         /\ DOMAIN Restrict(t, DOMAIN t \ {s}) = DOMAIN t \ {s}
         /\ \A r \in DOMAIN t \ {s} : Restrict(t, DOMAIN t \ {s})[r] = t[r]
<1>1. DOMAIN t \ {s} \in SUBSET Slots
  BY TablesAre
<1>2. Restrict(t, DOMAIN t \ {s}) \in [DOMAIN t \ {s} -> Records]
  BY TablesAre DEF Restrict
<1> QED BY <1>1, <1>2, TablesAre DEF Restrict

\* The three kinds of events.
LEMMA EventsAre ==
  ASSUME NEW e \in Events
  PROVE  /\ e.type \in {"done", "delete", "write"}
         /\ e.type = "delete" => e.slot \in Slots /\ e.name \in Names
         /\ e.type = "write"  => /\ e.slot \in Slots /\ e.name \in Names /\ e.size \in Nat
                                 /\ e.large \in BOOLEAN /\ e.replacing \in BOOLEAN
BY DEF Events, DeleteEvents, WriteEvents

\* apply() of a delete.
LEMMA DeleteApplied ==
  ASSUME NEW d \in ChurnStates, NEW e \in Events, e.type = "delete", Fits(e, d)
  PROVE  LET n == Apply(d, e)
         IN  /\ n \in ChurnStates /\ n.pendingSlot = d.pendingSlot
             /\ n.slots = Restrict(d.slots, DOMAIN d.slots \ {e.slot})
             /\ n.liveBytes = d.liveBytes - d.slots[e.slot].size
<1> DEFINE n == [d EXCEPT !.liveBytes = @ - d.slots[e.slot].size,
                          !.slots     = Restrict(@, DOMAIN @ \ {e.slot})]
<1>1. Apply(d, e) = n
  BY DEF Apply
<1>2. e.slot \in DOMAIN d.slots
  BY DEF Fits
<1>3. d.slots \in Tables /\ d.liveBytes \in Int /\ d.slots[e.slot].size \in Nat
  BY <1>2, Fields
<1>4. Restrict(d.slots, DOMAIN d.slots \ {e.slot}) \in Tables
  BY <1>3, TableWithDelete
<1>5. n.slots = Restrict(d.slots, DOMAIN d.slots \ {e.slot}) /\ n.pendingSlot = d.pendingSlot
  BY DEF ChurnStates
<1>6. n.liveBytes = d.liveBytes - d.slots[e.slot].size
  BY DEF ChurnStates
<1>7. n \in ChurnStates
  <2> DEFINE t == Restrict(d.slots, DOMAIN d.slots \ {e.slot})
             b == d.liveBytes - d.slots[e.slot].size
  <2>1. b \in Int
    BY <1>3
  <2>2. n = [d EXCEPT !.liveBytes = b, !.slots = t]
    BY DEF ChurnStates
  <2> HIDE DEF n, t, b
  <2>3. t \in Tables
    BY <1>4 DEF t
  <2> QED BY <2>1, <2>2, <2>3 DEF ChurnStates
<1> HIDE DEF n
<1> QED BY <1>1, <1>5, <1>6, <1>7

\* apply() of a write.
LEMMA WriteApplied ==
  ASSUME NEW d \in ChurnStates, NEW e \in Events, e.type = "write", Fits(e, d)
  PROVE  LET n == Apply(d, e)
         IN  /\ n \in ChurnStates /\ n.pendingSlot = NoSlot
             /\ n.slots = Put(d.slots, e.slot, [name |-> e.name, size |-> e.size])
             /\ n.liveBytes = d.liveBytes - (IF e.slot \in DOMAIN d.slots THEN d.slots[e.slot].size
                                             ELSE 0) + e.size
<1> DEFINE t == Put(d.slots, e.slot, [name |-> e.name, size |-> e.size])
           b == d.liveBytes - Freed(d, e) + e.size
           w == Advanced(d.totalWritten, e.size)
           p == IF protectFirstLarge /\ e.large /\ d.protectedLargeSlot = NoSlot
                THEN e.slot ELSE d.protectedLargeSlot
           n == [d EXCEPT !.liveBytes = b, !.slots = t, !.totalWritten = w, !.pending = NoWrite,
                          !.pendingSlot = NoSlot, !.protectedLargeSlot = p]
<1>0. /\ e.slot \in Slots /\ e.name \in Names /\ e.size \in Nat
      /\ e.replacing \in BOOLEAN
  BY EventsAre
<1>1. Apply(d, e) = n
  BY DEF Apply, ChurnStates
<1>2. d.slots \in Tables /\ d.liveBytes \in Int /\ d.totalWritten \in Nat
      /\ d.protectedLargeSlot \in Slots \cup {NoSlot}
  BY Fields
<1>3. t \in Tables
  <2>1. [name |-> e.name, size |-> e.size] \in Records
    BY <1>0 DEF Records
  <2> QED BY <1>0, <1>2, <2>1, TableWithWrite
<1>4. Freed(d, e) = IF e.slot \in DOMAIN d.slots THEN d.slots[e.slot].size ELSE 0
  BY <1>0 DEF Fits, Freed
<1>5. b \in Int
  <2>1. Freed(d, e) \in Int
    BY <1>4, Fields
  <2> QED BY <1>0, <1>2, <2>1
<1>6. w \in 0 .. U32 - 1
  BY <1>0, <1>2, Constants DEF Advanced
<1>7. p \in Slots \cup {NoSlot}
  BY <1>0, <1>2
<1>8. NoWrite \in Writes /\ NoSlot \in Slots \cup {NoSlot}
  BY DEF Writes
<1>9. n \in ChurnStates /\ n.slots = t /\ n.liveBytes = b /\ n.pendingSlot = NoSlot
  <2> HIDE DEF t, b, w, p
  <2> QED BY <1>3, <1>5, <1>6, <1>7, <1>8 DEF ChurnStates
<1> HIDE DEF n
<1> QED BY <1>1, <1>4, <1>9

\* apply() of what next() gives leaves a sound model, at or below its ceiling.
LEMMA ApplySound ==
  ASSUME NEW c, ChurnOK(c), NEW o, Follows(o, c)
  PROVE  ChurnOK(Apply(o.churn, o.event))
<1> DEFINE d == o.churn
           e == o.event
           n == Apply(d, e)
<1>0. /\ c \in ChurnStates /\ Named(c) /\ UnderCeiling(c)
      /\ d \in ChurnStates /\ d.slots = c.slots /\ d.liveBytes = c.liveBytes
      /\ e \in Events /\ Fits(e, d) /\ Fits(e, c) /\ Frees(e, d)
  BY DEF Follows, ChurnOK, SameFilesAs, Fits
<1> HIDE DEF d, e
<1>1. e.type \in {"done", "delete", "write"}
  BY <1>0, EventsAre
<1>2. CASE e.type = "done"
  <2>1. n = d
    BY <1>2 DEF Apply
  <2>2. d.pendingSlot \notin DOMAIN d.slots
    BY <1>0, <1>2 DEF Frees
  <2>3. Named(d) /\ UnderCeiling(d)
    BY <1>0 DEF Named, UnderCeiling
  <2> QED BY <1>0, <2>1, <2>2, <2>3 DEF ChurnOK, d, e
<1>3. CASE e.type = "delete"
  <2>1. /\ n \in ChurnStates /\ n.pendingSlot = d.pendingSlot
        /\ n.slots = Restrict(d.slots, DOMAIN d.slots \ {e.slot})
        /\ n.liveBytes = d.liveBytes - d.slots[e.slot].size
    BY <1>0, <1>3, DeleteApplied
  <2> HIDE DEF n
  <2>2. /\ DOMAIN n.slots = DOMAIN d.slots \ {e.slot}
        /\ \A r \in DOMAIN d.slots \ {e.slot} : n.slots[r] = d.slots[r]
    <3> DEFINE t == Restrict(d.slots, DOMAIN d.slots \ {e.slot})
    <3>1. d.slots \in Tables
      BY <1>0, Fields
    <3>2. /\ DOMAIN t = DOMAIN d.slots \ {e.slot}
          /\ \A r \in DOMAIN d.slots \ {e.slot} : t[r] = d.slots[r]
      BY <3>1, TableWithDelete
    <3>3. n.slots = t
      BY <2>1
    <3> HIDE DEF t
    <3> QED BY <3>2, <3>3
  <2>3. Named(n)
    BY <1>0, <2>2 DEF Named
  <2>4. n.pendingSlot \notin DOMAIN n.slots
    BY <1>0, <1>3, <2>1, <2>2 DEF Frees
  <2>5. n.liveBytes <= Limit
    <3>1. e.slot \in DOMAIN d.slots
      BY <1>0, <1>3 DEF Fits
    <3>2. d.slots[e.slot].size \in Nat /\ d.liveBytes \in Int
      BY <1>0, <3>1, Fields
    <3>3. CASE c.liveBytes <= Limit
      BY <1>0, <2>1, <3>2, <3>3, Constants
    <3>4. CASE \E s : DOMAIN c.slots = {s} /\ c.liveBytes - c.slots[s].size <= Limit
      BY <1>0, <2>1, <3>1, <3>4
    <3> QED BY <1>0, <3>3, <3>4 DEF UnderCeiling
  <2> QED BY <2>1, <2>3, <2>4, <2>5 DEF ChurnOK, UnderCeiling, n, d, e
<1>4. CASE e.type = "write"
  <2>1. /\ n \in ChurnStates /\ n.pendingSlot = NoSlot
        /\ n.slots = Put(d.slots, e.slot, [name |-> e.name, size |-> e.size])
        /\ n.liveBytes = d.liveBytes - (IF e.slot \in DOMAIN d.slots THEN d.slots[e.slot].size
                                        ELSE 0) + e.size
    BY <1>0, <1>4, WriteApplied
  <2>2. e.slot \in Slots /\ e.name \in Names /\ e.size \in Nat /\ e.replacing \in BOOLEAN
    BY <1>0, <1>4, EventsAre
  <2> HIDE DEF n
  <2>3. /\ DOMAIN n.slots = DOMAIN d.slots \cup {e.slot}
        /\ n.slots[e.slot] = [name |-> e.name, size |-> e.size]
        /\ \A r \in DOMAIN d.slots \ {e.slot} : n.slots[r] = d.slots[r]
    <3> DEFINE f == [name |-> e.name, size |-> e.size]
               t == Put(d.slots, e.slot, f)
    <3>1. d.slots \in Tables /\ f \in Records
      BY <1>0, <2>2, Fields DEF Records
    <3>2. n.slots = t
      BY <2>1
    <3> HIDE DEF f
    <3>3. /\ DOMAIN t = DOMAIN d.slots \cup {e.slot} /\ t[e.slot] = f
          /\ \A r \in DOMAIN d.slots \ {e.slot} : t[r] = d.slots[r]
      <4>1. PICK x \in Slots : x = e.slot
        BY <2>2
      <4>2. PICK y \in Tables : y = d.slots
        BY <3>1
      <4>3. PICK z \in Records : z = f
        BY <3>1
      <4>4. /\ DOMAIN Put(y, x, z) = DOMAIN y \cup {x} /\ Put(y, x, z)[x] = z
            /\ \A r \in DOMAIN y \ {x} : Put(y, x, z)[r] = y[r]
        BY TableWithWrite, ZenonT(60)
      <4>5. t = Put(y, x, z)
        BY <4>1, <4>2, <4>3
      <4> HIDE DEF t
      <4> QED BY <4>1, <4>2, <4>3, <4>4, <4>5
    <3> HIDE DEF t
    <3> QED BY <3>2, <3>3 DEF f
  <2>4. e.name[1] = e.slot
    <3>1. CASE e.replacing
      BY <1>0, <1>4, <3>1 DEF Fits, Named
    <3>2. CASE ~e.replacing
      BY <1>0, <1>4, <3>2 DEF Fits
    <3> QED BY <3>1, <3>2
  <2>5. Named(n)
    <3>1. n.slots[e.slot].name = e.name
      BY <2>3
    <3>2. ASSUME NEW s \in DOMAIN n.slots PROVE n.slots[s].name[1] = s
      <4>1. CASE s = e.slot
        BY <2>4, <3>1, <4>1
      <4>2. CASE s # e.slot
        BY <1>0, <2>3, <4>2 DEF Named
      <4> QED BY <4>1, <4>2
    <3> QED BY <3>2 DEF Named
  <2>6. n.pendingSlot \notin DOMAIN n.slots
    BY <2>1, Fields, Constants
  <2>7. UnderCeiling(n)
    <3>0. d.liveBytes \in Int /\ \A s \in DOMAIN d.slots : d.slots[s].size \in Nat
      BY <1>0, Fields
    <3>1. CASE c.liveBytes + e.size <= Limit
      <4>1. n.liveBytes <= d.liveBytes + e.size
        BY <2>1, <2>2, <3>0
      <4>2. n.liveBytes <= Limit
        BY <1>0, <2>1, <2>2, <3>0, <3>1, <4>1, Constants
      <4> QED BY <4>2 DEF UnderCeiling
    <3>2. CASE DOMAIN c.slots = {}
      <4>1. DOMAIN n.slots = {e.slot} /\ n.slots[e.slot].size = e.size
        BY <1>0, <2>3, <3>2
      <4>2. n.liveBytes = c.liveBytes + e.size /\ c.liveBytes <= Limit
        BY <1>0, <2>1, <2>2, <3>0, <3>2 DEF UnderCeiling
      <4>3. n.liveBytes - n.slots[e.slot].size <= Limit
        BY <1>0, <2>2, <3>0, <4>1, <4>2
      <4> QED BY <4>1, <4>3 DEF UnderCeiling
    <3> QED BY <1>0, <1>4, <3>1, <3>2 DEF Fits
  <2> QED BY <2>1, <2>5, <2>6, <2>7 DEF ChurnOK, n, d, e
<1> QED BY <1>1, <1>2, <1>3, <1>4

-----------------------------------------------------------------------------
(* The files of the model *)

\* The files of the model by their slots.
LEMMA FilesAre ==
  ASSUME NEW c \in ChurnStates, Named(c)
  PROVE  /\ Files(c) \in FileMaps
         /\ DOMAIN Files(c) = {c.slots[s].name : s \in DOMAIN c.slots}
         /\ \A s \in DOMAIN c.slots : Files(c)[c.slots[s].name] = c.slots[s].size
<1> DEFINE N == {c.slots[s].name : s \in DOMAIN c.slots}
           slotOf(x) == CHOOSE s \in DOMAIN c.slots : c.slots[s].name = x
<1>1. N \in SUBSET Names
  BY Fields
<1>2. \A x \in N : slotOf(x) \in DOMAIN c.slots /\ c.slots[slotOf(x)].name = x
  OBVIOUS
<1>3. \A s \in DOMAIN c.slots : slotOf(c.slots[s].name) = s
  <2> SUFFICES ASSUME NEW s \in DOMAIN c.slots PROVE slotOf(c.slots[s].name) = s
    OBVIOUS
  <2> DEFINE r == slotOf(c.slots[s].name)
  <2>1. c.slots[s].name \in N
    OBVIOUS
  <2>2. r \in DOMAIN c.slots /\ c.slots[r].name = c.slots[s].name
    BY <1>2, <2>1
  <2> HIDE DEF r
  <2>3. r = s
    BY <2>2 DEF Named
  <2> QED BY <2>3 DEF r
<1>4. Files(c) = [x \in N |-> c.slots[slotOf(x)].size]
  BY DEF Files
<1> HIDE DEF slotOf
<1>5. Files(c) \in [N -> Nat]
  BY <1>2, <1>4, Fields
<1>6. Files(c) \in FileMaps
  BY <1>1, <1>5, FileMapsAre
<1>7. ASSUME NEW s \in DOMAIN c.slots PROVE Files(c)[c.slots[s].name] = c.slots[s].size
  <2>1. c.slots[s].name \in N
    OBVIOUS
  <2> HIDE DEF N
  <2> QED BY <1>3, <1>4, <2>1
<1> QED BY <1>5, <1>6, <1>7

\* What an event makes of a set of files.
Effect(files, e) ==
  CASE e.type = "write"  -> Put(files, e.name, e.size)
    [] e.type = "delete" -> Restrict(files, DOMAIN files \ {e.name})
    [] OTHER             -> files

\* The files that go on.
Balanced(c) == c.liveBytes = SumFunction(Files(c))

\* The event given is exactly what happens to the files of the model, and the model's
\* count of bytes follows their sum.
LEMMA ApplyFiles ==
  ASSUME NEW c, ChurnOK(c), NEW o, Follows(o, c)
  PROVE  /\ Files(Apply(o.churn, o.event)) = Effect(Files(c), o.event)
         /\ Balanced(c) => Balanced(Apply(o.churn, o.event))
<1> DEFINE d == o.churn
           e == o.event
           n == Apply(d, e)
<1>0. /\ c \in ChurnStates /\ Named(c)
      /\ d \in ChurnStates /\ d.slots = c.slots /\ d.liveBytes = c.liveBytes
      /\ e \in Events /\ Fits(e, d) /\ Fits(e, c)
  BY DEF Follows, ChurnOK, SameFilesAs, Fits
<1>s. ChurnOK(n)
  BY ApplySound
<1>n. n \in ChurnStates /\ Named(n)
  BY <1>s DEF ChurnOK
<1> SUFFICES Files(n) = Effect(Files(c), e) /\ (Balanced(c) => Balanced(n))
  OBVIOUS
<1> HIDE DEF d, e
<1>1. e.type \in {"done", "delete", "write"}
  BY <1>0, EventsAre
<1>f. /\ Files(c) \in FileMaps /\ Summable(Files(c))
      /\ DOMAIN Files(c) = {c.slots[s].name : s \in DOMAIN c.slots}
      /\ \A s \in DOMAIN c.slots : Files(c)[c.slots[s].name] = c.slots[s].size
  BY <1>0, FilesAre, FilesSummable
<1>g. /\ Files(n) \in FileMaps
      /\ DOMAIN Files(n) = {n.slots[s].name : s \in DOMAIN n.slots}
      /\ \A s \in DOMAIN n.slots : Files(n)[n.slots[s].name] = n.slots[s].size
  <2> HIDE DEF n
  <2> QED BY <1>n, FilesAre
<1>i. \A r, s \in DOMAIN c.slots : c.slots[r].name = c.slots[s].name => r = s
  BY <1>0 DEF Named
<1>2. CASE e.type = "done"
  <2>1. n = d
    BY <1>2 DEF Apply
  <2>2. n.slots = c.slots /\ n.liveBytes = c.liveBytes
    BY <1>0, <2>1
  <2>3. Files(n) = Files(c)
    <3> HIDE DEF n
    <3> QED BY <2>2 DEF Files
  <2> HIDE DEF n
  <2> QED BY <1>2, <2>2, <2>3 DEF Effect, Balanced
<1>3. CASE e.type = "delete"
  <2>1. /\ n.slots = Restrict(d.slots, DOMAIN d.slots \ {e.slot})
        /\ n.liveBytes = d.liveBytes - d.slots[e.slot].size
    BY <1>0, <1>3, DeleteApplied
  <2>2. e.slot \in DOMAIN c.slots /\ e.name = c.slots[e.slot].name
    BY <1>0, <1>3 DEF Fits
  <2>3. d.slots \in Tables
    BY <1>0, Fields
  <2>4. /\ DOMAIN n.slots = DOMAIN c.slots \ {e.slot}
        /\ \A r \in DOMAIN c.slots \ {e.slot} : n.slots[r] = c.slots[r]
    <3> DEFINE t == Restrict(d.slots, DOMAIN d.slots \ {e.slot})
    <3>1. /\ DOMAIN t = DOMAIN d.slots \ {e.slot}
          /\ \A r \in DOMAIN d.slots \ {e.slot} : t[r] = d.slots[r]
      BY <2>3, TableWithDelete
    <3> HIDE DEF t, n
    <3> QED BY <1>0, <2>1, <3>1 DEF t
  <2> DEFINE g == Restrict(Files(c), DOMAIN Files(c) \ {e.name})
  <2>5. /\ g \in FileMaps /\ DOMAIN g = DOMAIN Files(c) \ {e.name}
        /\ \A y \in DOMAIN g : g[y] = Files(c)[y]
    <3>1. DOMAIN Files(c) \ {e.name} \subseteq DOMAIN Files(c)
      OBVIOUS
    <3> QED BY <1>f, <3>1, RestrictFiles
  <2> HIDE DEF g, n
  <2>6. DOMAIN Files(n) = DOMAIN g
    <3>1. ASSUME NEW x \in DOMAIN Files(n) PROVE x \in DOMAIN g
      <4>1. PICK s \in DOMAIN n.slots : x = n.slots[s].name
        BY <1>g
      <4>2. s \in DOMAIN c.slots /\ s # e.slot /\ x = c.slots[s].name
        BY <2>4, <4>1
      <4>3. x \in DOMAIN Files(c) /\ x # e.name
        BY <1>f, <1>i, <2>2, <4>2
      <4> QED BY <2>5, <4>3
    <3>2. ASSUME NEW x \in DOMAIN g PROVE x \in DOMAIN Files(n)
      <4>1. PICK s \in DOMAIN c.slots : x = c.slots[s].name
        BY <1>f, <2>5
      <4>2. s # e.slot
        BY <2>2, <2>5, <4>1
      <4> QED BY <1>g, <2>4, <4>1, <4>2
    <3> QED BY <3>1, <3>2
  <2>7. ASSUME NEW x \in DOMAIN Files(n) PROVE Files(n)[x] = g[x]
    <3>1. PICK s \in DOMAIN n.slots : x = n.slots[s].name
      BY <1>g
    <3>2. Files(n)[x] = n.slots[s].size /\ n.slots[s] = c.slots[s] /\ s \in DOMAIN c.slots
      BY <1>g, <2>4, <3>1
    <3>3. Files(c)[x] = c.slots[s].size
      BY <1>f, <3>1, <3>2
    <3> QED BY <2>5, <2>6, <3>2, <3>3
  <2>8. Files(n) = g
    BY <1>g, <2>5, <2>6, <2>7, SameFiles
  <2>9. Effect(Files(c), e) = g
    BY <1>3 DEF Effect, g
  <2>10. SumFunction(g) = SumFunction(Files(c)) - Files(c)[e.name]
    <3>1. e.name \in DOMAIN Files(c)
      BY <1>f, <2>2
    <3> QED BY <1>f, <2>5, <3>1, SumWithout, ZenonT(60)
  <2>11. Files(c)[e.name] = d.slots[e.slot].size
    BY <1>0, <1>f, <2>2
  <2>12. n.liveBytes = c.liveBytes - d.slots[e.slot].size
    BY <1>0, <2>1
  <2> QED BY <2>8, <2>9, <2>10, <2>11, <2>12 DEF Balanced
<1>4. CASE e.type = "write"
  <2>1. /\ n.slots = Put(d.slots, e.slot, [name |-> e.name, size |-> e.size])
        /\ n.liveBytes = d.liveBytes - (IF e.slot \in DOMAIN d.slots THEN d.slots[e.slot].size
                                        ELSE 0) + e.size
    BY <1>0, <1>4, WriteApplied
  <2>2. e.slot \in Slots /\ e.name \in Names /\ e.size \in Nat /\ e.replacing \in BOOLEAN
    BY <1>0, <1>4, EventsAre
  <2>3. /\ DOMAIN n.slots = DOMAIN c.slots \cup {e.slot}
        /\ n.slots[e.slot].name = e.name /\ n.slots[e.slot].size = e.size
        /\ \A r \in DOMAIN c.slots \ {e.slot} : n.slots[r] = c.slots[r]
    <3> DEFINE f == [name |-> e.name, size |-> e.size]
               t == Put(d.slots, e.slot, f)
    <3>1. d.slots \in Tables /\ f \in Records
      BY <1>0, <2>2, Fields DEF Records
    <3>2. n.slots = t
      BY <2>1
    <3> HIDE DEF f
    <3>3. /\ DOMAIN t = DOMAIN d.slots \cup {e.slot} /\ t[e.slot] = f
          /\ \A r \in DOMAIN d.slots \ {e.slot} : t[r] = d.slots[r]
      <4>1. PICK x \in Slots : x = e.slot
        BY <2>2
      <4>2. PICK y \in Tables : y = d.slots
        BY <3>1
      <4>3. PICK z \in Records : z = f
        BY <3>1
      <4>4. /\ DOMAIN Put(y, x, z) = DOMAIN y \cup {x} /\ Put(y, x, z)[x] = z
            /\ \A r \in DOMAIN y \ {x} : Put(y, x, z)[r] = y[r]
        BY TableWithWrite, ZenonT(60)
      <4>5. t = Put(y, x, z)
        BY <4>1, <4>2, <4>3
      <4> HIDE DEF t
      <4> QED BY <4>1, <4>2, <4>3, <4>4, <4>5
    <3> HIDE DEF t, n
    <3> QED BY <1>0, <3>2, <3>3 DEF f
  <2>4. e.slot \in DOMAIN c.slots => e.name = c.slots[e.slot].name
    BY <1>0, <1>4, <2>2 DEF Fits
  <2>5. e.slot \notin DOMAIN c.slots => e.name \notin DOMAIN Files(c)
    <3> SUFFICES ASSUME e.slot \notin DOMAIN c.slots, e.name \in DOMAIN Files(c) PROVE FALSE
      OBVIOUS
    <3>1. PICK s \in DOMAIN c.slots : e.name = c.slots[s].name
      BY <1>f
    <3>2. e.name[1] = e.slot
      BY <1>0, <1>4, <2>2 DEF Fits
    <3> QED BY <1>0, <3>1, <3>2 DEF Named
  <2> DEFINE g == Put(Files(c), e.name, e.size)
  <2>6. /\ g \in FileMaps /\ DOMAIN g = DOMAIN Files(c) \cup {e.name} /\ g[e.name] = e.size
        /\ \A y \in DOMAIN Files(c) \ {e.name} : g[y] = Files(c)[y]
    <3>1. e.name \in Names /\ e.size \in Nat /\ Files(c) \in FileMaps
      BY <1>f, <2>2
    <3> HIDE DEF g
    <3> QED BY ONLY <3>1, PutFile DEF g
  <2> HIDE DEF g, n
  <2>7. DOMAIN Files(n) = DOMAIN g
    <3>1. ASSUME NEW x \in DOMAIN Files(n) PROVE x \in DOMAIN g
      <4>1. PICK s \in DOMAIN n.slots : x = n.slots[s].name
        BY <1>g
      <4>2. CASE s = e.slot
        BY <2>3, <2>6, <4>1, <4>2
      <4>3. CASE s # e.slot
        BY <1>f, <2>3, <2>6, <4>1, <4>3
      <4> QED BY <4>2, <4>3
    <3>2. ASSUME NEW x \in DOMAIN g PROVE x \in DOMAIN Files(n)
      <4>1. CASE x = e.name
        BY <1>g, <2>3, <4>1
      <4>2. CASE x # e.name
        <5>1. PICK s \in DOMAIN c.slots : x = c.slots[s].name
          BY <1>f, <2>6, <4>2
        <5>2. s # e.slot
          BY <2>4, <4>2, <5>1
        <5> QED BY <1>g, <2>3, <5>1, <5>2
      <4> QED BY <4>1, <4>2
    <3> QED BY <3>1, <3>2
  <2>8. ASSUME NEW x \in DOMAIN Files(n) PROVE Files(n)[x] = g[x]
    <3>1. PICK s \in DOMAIN n.slots : x = n.slots[s].name
      BY <1>g
    <3>2. CASE s = e.slot
      BY <1>g, <2>3, <2>6, <3>1, <3>2
    <3>3. CASE s # e.slot
      <4>1. s \in DOMAIN c.slots /\ n.slots[s] = c.slots[s]
        BY <2>3, <3>3
      <4>2. x # e.name
        <5> SUFFICES ASSUME x = e.name PROVE FALSE
          OBVIOUS
        <5>1. e.name \in DOMAIN Files(c)
          BY <1>f, <3>1, <4>1
        <5> QED BY <1>i, <2>4, <2>5, <3>1, <3>3, <4>1, <5>1
      <4>3. Files(c)[x] = c.slots[s].size /\ x \in DOMAIN Files(c)
        BY <1>f, <3>1, <4>1
      <4> QED BY <1>g, <2>6, <3>1, <4>1, <4>2, <4>3
    <3> QED BY <3>2, <3>3
  <2>9. Files(n) = g
    BY <1>g, <2>6, <2>7, <2>8, SameFiles
  <2>10. Effect(Files(c), e) = g
    BY <1>4 DEF Effect, g
  <2>11. SumFunction(g) = SumFunction(Files(c))
                            - (IF e.name \in DOMAIN Files(c) THEN Files(c)[e.name] ELSE 0) + e.size
    <3>1. /\ Summable(Files(c)) /\ e.size \in Nat
          /\ DOMAIN g = DOMAIN Files(c) \cup {e.name} /\ g[e.name] = e.size
          /\ \A y \in DOMAIN Files(c) \ {e.name} : g[y] = Files(c)[y]
      BY <1>f, <2>2, <2>6
    <3> QED BY ONLY <3>1, SumWith
  <2>12. (IF e.name \in DOMAIN Files(c) THEN Files(c)[e.name] ELSE 0)
           = (IF e.slot \in DOMAIN d.slots THEN d.slots[e.slot].size ELSE 0)
    <3>1. CASE e.slot \in DOMAIN c.slots
      BY <1>0, <1>f, <2>4, <3>1
    <3>2. CASE e.slot \notin DOMAIN c.slots
      BY <1>0, <2>5, <3>2
    <3> QED BY <3>1, <3>2
  <2>13. Balanced(c) => Balanced(n)
    <3>1. n.liveBytes = c.liveBytes - (IF e.slot \in DOMAIN d.slots THEN d.slots[e.slot].size
                                       ELSE 0) + e.size
      BY <1>0, <2>1
    <3> QED BY <2>9, <2>11, <2>12, <3>1 DEF Balanced
  <2> QED BY <2>9, <2>10, <2>13
<1> QED BY <1>1, <1>2, <1>3, <1>4

-----------------------------------------------------------------------------
(* The types of an entry *)

ChipNames == Names \cup UserNames
Chips     == [mounted : BOOLEAN, files : MapsOn(ChipNames), tracked : SUBSET ChipNames]

ChurnEntries == {ChurnEntry([type |-> "gc"])} \cup {ChurnEntry(e) : e \in Events}
OtherEntries ==
  {ConsoleOp("write"), ConsoleOp("delete"), ConsoleOp("format"), ConsoleOp("mount"),
   BootOp("format"), BootOp("mount"), ResetMsg}
Entries == ChurnEntries \cup OtherEntries

\* A file of the console is no file of the churn.
LEMMA UserIsNotChurn == \A n \in Names : n \notin UserNames
BY Constants DEF UserNames, Names, Slots

LEMMA ChipNamesFinite == IsFiniteSet(ChipNames) /\ IsFiniteSet(UserNames)
<1>1. IsFiniteSet({slotCount} \X UserFiles)
  BY FS_Singleton, FS_Product, WorkloadAssumption
<1> QED BY <1>1, NamesFinite, FS_Union DEF ChipNames, UserNames

\* What an entry may be.
LEMMA EntriesAre ==
  ASSUME NEW e \in Entries
  PROVE  /\ e.by \in {"churn", "console", "boot", "reset"}
         /\ e.by = "churn" => /\ e.event.type \in {"gc", "done", "delete", "write"}
                              /\ e.event.type # "gc" => e.event \in Events
         /\ e.by \in {"console", "boot"} => e.op \in {"write", "delete", "format", "mount"}
         /\ e.by = "reset" <=> e = ResetMsg
         /\ \A op : e = BootOp(op) <=> e.by = "boot" /\ e.op = op
<1>1. CASE e = ChurnEntry([type |-> "gc"])
  BY <1>1 DEF ChurnEntry, ResetMsg, BootOp
<1>2. CASE \E v \in Events : e = ChurnEntry(v)
  <2>1. PICK v \in Events : e = ChurnEntry(v)
    BY <1>2
  <2>2. e.by = "churn" /\ e.event = v
    BY <2>1 DEF ChurnEntry
  <2>3. v.type \in {"done", "delete", "write"}
    BY EventsAre
  <2> QED BY <2>1, <2>2, <2>3 DEF ChurnEntry, ResetMsg, BootOp
<1>3. CASE e \in OtherEntries
  BY <1>3 DEF OtherEntries, ConsoleOp, BootOp, ResetMsg
<1> QED BY <1>1, <1>2, <1>3 DEF Entries, ChurnEntries

-----------------------------------------------------------------------------
(* Playing entries *)

After(b, q) == FoldLeft(Play, b, q)

\* P[i] is what the first i entries of q make of the files b.
IsPlay(P, b, q) ==
  /\ P \in [0 .. Len(q) -> FileMaps]
  /\ P[0] = b
  /\ \A i \in 1 .. Len(q) : P[i] = Play(P[i - 1], q[i])

\* What Play does by the kind of the entry.
LEMMA PlayCases ==
  ASSUME NEW f, NEW e \in Entries
  PROVE  /\ e = ResetMsg => Play(f, e) = <<>>
         /\ e = BootOp("format") => Play(f, e) = <<>>
         /\ e.by = "console" => Play(f, e) = f
         /\ e = BootOp("mount") => Play(f, e) = f
         /\ e.by = "churn" => Play(f, e) = Effect(f, e.event)
BY EntriesAre DEF Play, Effect, ResetMsg, BootOp

\* Playing an entry gives files again.
LEMMA PlayType ==
  ASSUME NEW f \in FileMaps, NEW e \in Entries
  PROVE  Play(f, e) \in FileMaps
<1>1. <<>> \in FileMaps
  BY NoFiles
<1>2. CASE e.by = "churn"
  <2>1. Play(f, e) = Effect(f, e.event)
    BY <1>2, PlayCases
  <2>2. CASE e.event.type = "write"
    <3>1. e.event.name \in Names /\ e.event.size \in Nat
      BY <1>2, <2>2, EntriesAre, EventsAre
    <3>2. Put(f, e.event.name, e.event.size) \in FileMaps
      BY <3>1, PutFile
    <3> QED BY <2>1, <2>2, <3>2 DEF Effect
  <2>3. CASE e.event.type = "delete"
    <3>1. DOMAIN f \ {e.event.name} \subseteq DOMAIN f
      OBVIOUS
    <3>2. Restrict(f, DOMAIN f \ {e.event.name}) \in FileMaps
      BY <3>1, RestrictFiles
    <3> QED BY <2>1, <2>3, <3>2 DEF Effect
  <2>4. CASE e.event.type \notin {"write", "delete"}
    BY <2>1, <2>4 DEF Effect
  <2> QED BY <2>2, <2>3, <2>4
<1>3. CASE e.by # "churn"
  BY <1>1, <1>3, EntriesAre DEF Play
<1> QED BY <1>2, <1>3

\* Playing the entries one after the other is the fold.
LEMMA PlayExists ==
  ASSUME NEW q \in Seq(Entries), NEW b \in FileMaps
  PROVE  \E P : IsPlay(P, b, q) /\ After(b, q) = P[Len(q)]
<1> DEFINE n == Len(q)
           F == [p \in (1 .. n) \X FileMaps |-> Play(p[2], q[p[1]])]
           Eq(g) == g = [s \in SUBSET (1 .. n) |->
                           IF s = {} THEN b ELSE Play(g[s \ {Max(s)}], q[Max(s)])]
           it == CHOOSE g : Eq(g)
<1>0. n \in Nat /\ DOMAIN q = 1 .. n /\ \A i \in 1 .. n : q[i] \in Entries
  OBVIOUS
<1> HIDE DEF n
<1>1. Adds(F, 1 .. n, FileMaps)
  <2> SUFFICES ASSUME NEW i \in 1 .. n, NEW v \in FileMaps PROVE F[<<i, v>>] \in FileMaps
    BY DEF Adds
  <2>1. F[<<i, v>>] = Play(v, q[i])
    OBVIOUS
  <2> QED BY <1>0, <2>1, PlayType
<1>2. PICK g \in [SUBSET (1 .. n) -> FileMaps] : IsWalk(g, n, b, F)
  <2> HIDE DEF F
  <2> QED BY <1>0, <1>1, WalkExists
<1>3. Eq(g)
  <2>1. ASSUME NEW s \in SUBSET (1 .. n), s # {}
        PROVE  F[<<Max(s), g[s \ {Max(s)}]>>] = Play(g[s \ {Max(s)}], q[Max(s)])
    <3>1. Max(s) \in 1 .. n
      BY <1>0, <2>1, LastPosition
    <3>2. g[s \ {Max(s)}] \in FileMaps
      OBVIOUS
    <3> QED BY <3>1, <3>2
  <2>2. \A s \in SUBSET (1 .. n) :
          g[s] = IF s = {} THEN b ELSE Play(g[s \ {Max(s)}], q[Max(s)])
    <3> HIDE DEF F
    <3> QED BY <1>2, <2>1 DEF IsWalk
  <2> QED BY <2>2
<1>4. Eq(it)
  <2> HIDE DEF Eq
  <2> QED BY <1>3
<1>5. After(b, q) = it[1 .. n]
  BY <1>0 DEF After, FoldLeft, MapThenFoldSet
<1> HIDE DEF it
<1> DEFINE P == [i \in 0 .. n |-> it[1 .. i]]
<1>6. P[0] = b
  <2>1. 1 .. 0 = {}
    OBVIOUS
  <2>2. it[{}] = b
    BY <1>4
  <2> QED BY <1>0, <2>1, <2>2
<1>7. ASSUME NEW i \in 1 .. n PROVE P[i] = Play(P[i - 1], q[i])
  <2>1. 1 .. i \in SUBSET (1 .. n) /\ 1 .. i # {}
    <3>1. i \in 1 .. i /\ i \in Nat /\ i <= n
      BY <1>0
    <3>2. \A j \in 1 .. i : j \in 1 .. n
      BY <1>0, <3>1
    <3>3. 1 .. i # {}
      BY ONLY <3>1
    <3> QED BY <3>2, <3>3
  <2>2. Max(1 .. i) = i
    BY <1>0, LastOfInterval
  <2>3. (1 .. i) \ {i} = 1 .. i - 1
    BY <1>0
  <2>4. it[1 .. i] = Play(it[1 .. i - 1], q[i])
    BY <1>4, <2>1, <2>2, <2>3
  <2>5. P[i] = it[1 .. i] /\ P[i - 1] = it[1 .. i - 1]
    BY <1>0
  <2> QED BY <2>4, <2>5
<1>8. P \in [0 .. n -> FileMaps]
  <2> DEFINE T == {i \in Nat : i \in 0 .. n => P[i] \in FileMaps}
  <2>1. 0 \in T
    <3> HIDE DEF P
    <3> QED BY <1>6
  <2>2. \A i \in Nat : i \in T => i + 1 \in T
    <3> SUFFICES ASSUME NEW i \in Nat, i \in T, i + 1 \in 0 .. n PROVE P[i + 1] \in FileMaps
      OBVIOUS
    <3>1. i + 1 \in 1 .. n /\ i \in 0 .. n /\ i + 1 - 1 = i
      BY <1>0
    <3>2. P[i] \in FileMaps
      BY <3>1
    <3>3. P[i + 1] = Play(P[i], q[i + 1])
      <4> HIDE DEF P
      <4> QED BY <1>7, <3>1
    <3> HIDE DEF P
    <3> QED BY <1>0, <3>1, <3>2, <3>3, PlayType
  <2>3. Nat \subseteq T
    <3> HIDE DEF T
    <3> QED BY <2>1, <2>2, SetInduction
  <2>4. \A i \in 0 .. n : P[i] \in FileMaps
    <3> HIDE DEF P
    <3> QED BY <1>0, <2>3
  <2> QED BY <2>4
<1>9. IsPlay(P, b, q)
  <2> HIDE DEF P
  <2> QED BY <1>6, <1>7, <1>8 DEF IsPlay, n
<1>10. P[n] = it[1 .. n]
  BY <1>0
<1> HIDE DEF P
<1> QED BY <1>5, <1>9, <1>10 DEF n

\* There is one way to play a sequence.
LEMMA PlayUnique ==
  ASSUME NEW q \in Seq(Entries), NEW b, NEW P, IsPlay(P, b, q), NEW R, IsPlay(R, b, q)
  PROVE  \A i \in 0 .. Len(q) : P[i] = R[i]
<1> DEFINE T == {i \in Nat : i \in 0 .. Len(q) => P[i] = R[i]}
<1>0. Len(q) \in Nat
  OBVIOUS
<1>1. 0 \in T
  BY DEF IsPlay
<1>2. \A i \in Nat : i \in T => i + 1 \in T
  <2> SUFFICES ASSUME NEW i \in Nat, i \in T, i + 1 \in 0 .. Len(q) PROVE P[i + 1] = R[i + 1]
    OBVIOUS
  <2>1. i + 1 \in 1 .. Len(q) /\ i \in 0 .. Len(q) /\ i + 1 - 1 = i
    BY <1>0
  <2>2. P[i] = R[i]
    BY <2>1
  <2>3. P[i + 1] = Play(P[i], q[i + 1]) /\ R[i + 1] = Play(R[i], q[i + 1])
    BY <2>1 DEF IsPlay
  <2> QED BY <2>2, <2>3
<1>3. Nat \subseteq T
  <2> HIDE DEF T
  <2> QED BY <1>1, <1>2, SetInduction
<1> QED BY <1>0, <1>3

\* A play of the sequence ends in what the fold gives.
LEMMA PlayEnds ==
  ASSUME NEW q \in Seq(Entries), NEW b \in FileMaps, NEW P, IsPlay(P, b, q)
  PROVE  After(b, q) = P[Len(q)]
<1>1. PICK R : IsPlay(R, b, q) /\ After(b, q) = R[Len(q)]
  BY PlayExists
<1>2. Len(q) \in 0 .. Len(q)
  OBVIOUS
<1>3. \A i \in 0 .. Len(q) : P[i] = R[i]
  BY <1>1, PlayUnique
<1> QED BY <1>1, <1>2, <1>3

\* A play is of files, and so is its end.
LEMMA AfterType ==
  ASSUME NEW q \in Seq(Entries), NEW b \in FileMaps
  PROVE  After(b, q) \in FileMaps
<1>1. PICK R : IsPlay(R, b, q) /\ After(b, q) = R[Len(q)]
  BY PlayExists
<1>2. Len(q) \in 0 .. Len(q)
  OBVIOUS
<1> QED BY <1>1, <1>2 DEF IsPlay

\* Nothing to play.
LEMMA PlayNothing ==
  ASSUME NEW b \in FileMaps
  PROVE  After(b, <<>>) = b
<1>1. <<>> \in Seq(Entries) /\ Len(<<>>) = 0
  OBVIOUS
<1>2. PICK R : IsPlay(R, b, <<>>) /\ After(b, <<>>) = R[Len(<<>>)]
  BY <1>1, PlayExists
<1> QED BY <1>1, <1>2 DEF IsPlay

\* A play goes on with one entry more, and R is the play P so far.
Extends(R, P, n) == \A i \in 0 .. n : R[i] = P[i]

LEMMA PlayLonger ==
  ASSUME NEW q \in Seq(Entries), NEW b \in FileMaps, NEW P, IsPlay(P, b, q), NEW e \in Entries
  PROVE  \E R : /\ IsPlay(R, b, Append(q, e)) /\ Extends(R, P, Len(q))
                /\ R[Len(q) + 1] = Play(P[Len(q)], e)
<1> DEFINE n == Len(q)
           r == Append(q, e)
           v == Play(P[n], e)
           R == [i \in 0 .. n + 1 |-> IF i = n + 1 THEN v ELSE P[i]]
<1>2. r \in Seq(Entries) /\ Len(r) = n + 1 /\ n \in Nat /\ r[n + 1] = e
      /\ \A i \in 1 .. n : r[i] = q[i]
  OBVIOUS
<1>3. P \in [0 .. n -> FileMaps] /\ P[0] = b /\ \A i \in 1 .. n : P[i] = Play(P[i - 1], q[i])
  BY DEF IsPlay
<1>4. v \in FileMaps
  <2>1. P[n] \in FileMaps
    BY <1>2, <1>3
  <2> QED BY <2>1, PlayType
<1> HIDE DEF n, r, v
<1>5. R \in [0 .. n + 1 -> FileMaps]
  BY <1>2, <1>3, <1>4
<1>6. R[0] = b
  BY <1>2, <1>3
<1>7. ASSUME NEW i \in 1 .. n + 1 PROVE R[i] = Play(R[i - 1], r[i])
  <2>1. CASE i = n + 1
    <3>1. R[i] = v /\ R[i - 1] = P[n] /\ r[i] = e
      BY <1>2, <2>1
    <3> QED BY <3>1 DEF v
  <2>2. CASE i # n + 1
    <3>1. i \in 1 .. n /\ i - 1 \in 0 .. n
      BY <1>2, <2>2
    <3>2. R[i] = P[i] /\ R[i - 1] = P[i - 1] /\ r[i] = q[i]
      BY <1>2, <2>2, <3>1
    <3> QED BY <1>3, <3>1, <3>2
  <2> QED BY <2>1, <2>2
<1>8. IsPlay(R, b, r)
  <2> HIDE DEF R
  <2> QED BY <1>2, <1>5, <1>6, <1>7 DEF IsPlay
<1>9. Extends(R, P, n) /\ R[n + 1] = v
  BY <1>2 DEF Extends
<1> HIDE DEF R
<1> QED BY <1>8, <1>9 DEF n, r, v

\* A play can be taken up after its first k entries.
TakesUp(R, P, k, n) == \A i \in 0 .. n - k : R[i] = P[i + k]

LEMMA PlayLater ==
  ASSUME NEW q \in Seq(Entries), NEW b \in FileMaps, NEW P, IsPlay(P, b, q),
         NEW k \in 0 .. Len(q)
  PROVE  /\ SubSeq(q, k + 1, Len(q)) \in Seq(Entries)
         /\ Len(SubSeq(q, k + 1, Len(q))) = Len(q) - k
         /\ \A i \in 1 .. Len(q) - k : SubSeq(q, k + 1, Len(q))[i] = q[i + k]
         /\ P[k] \in FileMaps
         /\ \E R : IsPlay(R, P[k], SubSeq(q, k + 1, Len(q))) /\ TakesUp(R, P, k, Len(q))
<1> DEFINE n == Len(q)
           r == SubSeq(q, k + 1, n)
           R == [i \in 0 .. n - k |-> P[i + k]]
<1>2. /\ n \in Nat /\ k \in 0 .. n
      /\ r \in Seq(Entries) /\ Len(r) = n - k
      /\ \A i \in 1 .. n - k : r[i] = q[i + k]
  <2>1. n \in Nat /\ k \in 0 .. n
    OBVIOUS
  <2>2. \A i \in k + 1 .. n : q[i] \in Entries
    BY <2>1
  <2>3. r = [i \in 1 .. n - k |-> q[i + k]]
    BY <2>1
  <2>4. r \in Seq(Entries) /\ Len(r) = n - k
    BY <2>1, <2>2
  <2> HIDE DEF r
  <2> QED BY <2>1, <2>3, <2>4
<1>3. P \in [0 .. n -> FileMaps] /\ P[0] = b /\ \A i \in 1 .. n : P[i] = Play(P[i - 1], q[i])
  BY DEF IsPlay
<1> HIDE DEF n, r
<1>4. R \in [0 .. n - k -> FileMaps]
  BY <1>2, <1>3
<1>5. R[0] = P[k] /\ P[k] \in FileMaps
  BY <1>2, <1>3
<1>6. ASSUME NEW i \in 1 .. n - k PROVE R[i] = Play(R[i - 1], r[i])
  <2>1. R[i] = P[i + k] /\ R[i - 1] = P[i + k - 1] /\ r[i] = q[i + k]
    BY <1>2
  <2>2. i + k \in 1 .. n
    BY <1>2
  <2>3. P[i + k] = Play(P[i + k - 1], q[i + k])
    BY <1>3, <2>2
  <2> QED BY <2>1, <2>3
<1>7. IsPlay(R, P[k], r)
  <2> HIDE DEF R
  <2> QED BY <1>2, <1>4, <1>5, <1>6 DEF IsPlay
<1>8. TakesUp(R, P, k, n)
  BY <1>2 DEF TakesUp
<1> HIDE DEF R
<1> QED BY <1>2, <1>5, <1>7, <1>8 DEF n, r

\* An entry more at the end is played last.
LEMMA PlayLast ==
  ASSUME NEW q \in Seq(Entries), NEW b \in FileMaps, NEW e \in Entries
  PROVE  After(b, Append(q, e)) = Play(After(b, q), e)
<1>1. PICK P : IsPlay(P, b, q) /\ After(b, q) = P[Len(q)]
  BY PlayExists
<1>2. PICK R : IsPlay(R, b, Append(q, e)) /\ R[Len(q) + 1] = Play(P[Len(q)], e)
  BY <1>1, PlayLonger
<1>3. Append(q, e) \in Seq(Entries) /\ Len(Append(q, e)) = Len(q) + 1
  OBVIOUS
<1>4. After(b, Append(q, e)) = R[Len(q) + 1]
  BY <1>2, <1>3, PlayEnds
<1> QED BY <1>1, <1>2, <1>4

\* What comes after the first k entries is played on what they made.
LEMMA PlayRest ==
  ASSUME NEW q \in Seq(Entries), NEW b \in FileMaps, NEW P, IsPlay(P, b, q),
         NEW k \in 0 .. Len(q)
  PROVE  After(b, q) = After(P[k], SubSeq(q, k + 1, Len(q)))
<1> DEFINE r == SubSeq(q, k + 1, Len(q))
<1>1. r \in Seq(Entries) /\ Len(r) = Len(q) - k /\ P[k] \in FileMaps
  BY PlayLater
<1>2. PICK R : IsPlay(R, P[k], r) /\ TakesUp(R, P, k, Len(q))
  BY PlayLater
<1> HIDE DEF r
<1>3. After(P[k], r) = R[Len(q) - k]
  BY <1>1, <1>2, PlayEnds
<1>4. R[Len(q) - k] = P[Len(q)]
  <2>1. Len(q) - k \in 0 .. Len(q) - k /\ Len(q) - k + k = Len(q)
    OBVIOUS
  <2> QED BY <1>2, <2>1 DEF TakesUp
<1>5. After(b, q) = P[Len(q)]
  BY PlayEnds
<1> QED BY <1>3, <1>4, <1>5 DEF r

\* The first entry is played first.
LEMMA PlayFirst ==
  ASSUME NEW q \in Seq(Entries), q # <<>>, NEW b \in FileMaps
  PROVE  /\ Head(q) \in Entries /\ Tail(q) \in Seq(Entries)
         /\ After(b, q) = After(Play(b, Head(q)), Tail(q))
<1>1. PICK P : IsPlay(P, b, q) /\ After(b, q) = P[Len(q)]
  BY PlayExists
<1>2. /\ Len(q) \in Nat /\ 1 \in 0 .. Len(q) /\ 1 \in 1 .. Len(q) /\ 1 + 1 = 2 /\ 1 - 1 = 0
      /\ Head(q) = q[1] /\ Head(q) \in Entries /\ Tail(q) \in Seq(Entries)
      /\ Tail(q) = SubSeq(q, 1 + 1, Len(q))
  OBVIOUS
<1>3. After(b, q) = After(P[1], Tail(q))
  <2>1. After(b, q) = After(P[1], SubSeq(q, 1 + 1, Len(q)))
    BY <1>1, <1>2, PlayRest
  <2> QED BY <1>2, <2>1
<1>4. P[1] = Play(b, Head(q))
  BY <1>1, <1>2 DEF IsPlay
<1> QED BY <1>2, <1>3, <1>4

\* What comes before a reset does not matter.
LEMMA PlayFromReset ==
  ASSUME NEW q \in Seq(Entries), NEW b \in FileMaps,
         NEW k \in DOMAIN q, q[k] = ResetMsg
  PROVE  /\ SubSeq(q, k + 1, Len(q)) \in Seq(Entries)
         /\ After(b, q) = After(<<>>, SubSeq(q, k + 1, Len(q)))
<1>1. PICK P : IsPlay(P, b, q) /\ After(b, q) = P[Len(q)]
  BY PlayExists
<1>2. k \in 0 .. Len(q) /\ k \in 1 .. Len(q)
  OBVIOUS
<1>3. P[k] = <<>>
  <2>1. ResetMsg \in Entries
    BY DEF Entries, OtherEntries
  <2>2. P[k] = Play(P[k - 1], ResetMsg)
    BY <1>1, <1>2 DEF IsPlay
  <2> QED BY <2>1, <2>2, PlayCases
<1>4. After(b, q) = After(P[k], SubSeq(q, k + 1, Len(q)))
  BY <1>1, <1>2, PlayRest
<1>5. SubSeq(q, k + 1, Len(q)) \in Seq(Entries)
  BY <1>1, <1>2, PlayLater
<1> QED BY <1>3, <1>4, <1>5

\* After a reset, it does not matter what the chip held before.
LEMMA ResetForgets ==
  ASSUME NEW q \in Seq(Entries), ResetMsg \in Range(q), NEW b \in FileMaps, NEW c \in FileMaps
  PROVE  After(b, q) = After(c, q)
<1>1. PICK k \in DOMAIN q : q[k] = ResetMsg
  BY DEF Range
<1>2. After(b, q) = After(<<>>, SubSeq(q, k + 1, Len(q)))
  BY <1>1, PlayFromReset
<1>3. After(c, q) = After(<<>>, SubSeq(q, k + 1, Len(q)))
  BY <1>1, PlayFromReset
<1> QED BY <1>2, <1>3

-----------------------------------------------------------------------------
(* The filesystem *)

\* The files that are not the console's.
ChurnOf(files) == Restrict(files, DOMAIN files \ UserNames)

\* The two differ at most in the file n.
SameBut(f, g, n) == /\ DOMAIN g \ {n} = DOMAIN f \ {n}
                    /\ \A x \in DOMAIN f \ {n} : g[x] = f[x]

LEMMA ChurnOfType ==
  ASSUME NEW f \in MapsOn(ChipNames)
  PROVE  /\ ChurnOf(f) \in FileMaps
         /\ DOMAIN ChurnOf(f) = DOMAIN f \ UserNames
         /\ \A x \in DOMAIN f \ UserNames : ChurnOf(f)[x] = f[x]
<1> DEFINE M == DOMAIN f \ UserNames
<1>1. M \subseteq DOMAIN f
  OBVIOUS
<1>2. /\ Restrict(f, M) \in MapsOn(ChipNames) /\ DOMAIN Restrict(f, M) = M
      /\ \A x \in M : Restrict(f, M)[x] = f[x]
  BY <1>1, RestrictIn
<1>3. M \subseteq Names
  BY MapsAre DEF ChipNames
<1>4. Restrict(f, M) \in [M -> Nat]
  BY <1>1, MapsAre DEF Restrict
<1>5. Restrict(f, M) \in FileMaps
  BY <1>3, <1>4, FileMapsAre
<1> QED BY <1>2, <1>5 DEF ChurnOf

\* What differs in a file of the console only has the same files of the churn.
LEMMA UserFileOnly ==
  ASSUME NEW f \in MapsOn(ChipNames), NEW g \in MapsOn(ChipNames),
         NEW u \in UserNames, SameBut(f, g, u)
  PROVE  ChurnOf(g) = ChurnOf(f)
<1>1. ChurnOf(f) \in FileMaps /\ ChurnOf(g) \in FileMaps
  BY ChurnOfType
<1>2. DOMAIN ChurnOf(g) = DOMAIN ChurnOf(f)
  BY ChurnOfType DEF SameBut
<1>3. \A x \in DOMAIN ChurnOf(g) : ChurnOf(g)[x] = ChurnOf(f)[x]
  BY ChurnOfType DEF SameBut
<1> QED BY <1>1, <1>2, <1>3, SameFiles

\* Writing and removing a file of the churn.
LEMMA ChurnOfPut ==
  ASSUME NEW f \in MapsOn(ChipNames), NEW n \in Names, NEW v \in Nat
  PROVE  ChurnOf(Put(f, n, v)) = Put(ChurnOf(f), n, v)
<1> DEFINE p == Put(f, n, v)
           c == ChurnOf(f)
           g == ChurnOf(p)
           h == Put(c, n, v)
<1>1. n \in ChipNames /\ n \notin UserNames
  BY UserIsNotChurn DEF ChipNames
<1>2. /\ p \in MapsOn(ChipNames) /\ DOMAIN p = DOMAIN f \cup {n} /\ p[n] = v
      /\ \A x \in DOMAIN f \ {n} : p[x] = f[x]
  <2>1. IsPut(p, f, n, v)
    BY PutIsPut
  <2>2. p \in MapsOn(ChipNames)
    BY <1>1, PutIn
  <2> HIDE DEF p
  <2> QED BY <2>1, <2>2 DEF IsPut
<1>3. /\ c \in FileMaps /\ DOMAIN c = DOMAIN f \ UserNames
      /\ \A x \in DOMAIN f \ UserNames : c[x] = f[x]
  BY ChurnOfType
<1> HIDE DEF p, c
<1>4. /\ g \in FileMaps /\ DOMAIN g = DOMAIN p \ UserNames
      /\ \A x \in DOMAIN p \ UserNames : g[x] = p[x]
  BY <1>2, ChurnOfType
<1>5. /\ h \in FileMaps /\ DOMAIN h = DOMAIN c \cup {n} /\ h[n] = v
      /\ \A x \in DOMAIN c \ {n} : h[x] = c[x]
  BY <1>3, PutFile, ZenonT(60)
<1> HIDE DEF g, h
<1>6. DOMAIN g = DOMAIN h
  BY <1>1, <1>2, <1>3, <1>4, <1>5
<1>7. \A x \in DOMAIN g : g[x] = h[x]
  BY <1>1, <1>2, <1>3, <1>4, <1>5
<1>8. g = h
  BY <1>4, <1>5, <1>6, <1>7, SameFiles
<1> QED BY <1>8 DEF p, c, g, h

LEMMA ChurnOfRestrict ==
  ASSUME NEW f \in MapsOn(ChipNames), NEW n \in Names
  PROVE  ChurnOf(Restrict(f, DOMAIN f \ {n})) = Restrict(ChurnOf(f), DOMAIN ChurnOf(f) \ {n})
<1> DEFINE p == Restrict(f, DOMAIN f \ {n})
           c == ChurnOf(f)
           g == ChurnOf(p)
           h == Restrict(c, DOMAIN c \ {n})
<1>2. /\ p \in MapsOn(ChipNames) /\ DOMAIN p = DOMAIN f \ {n}
      /\ \A x \in DOMAIN f \ {n} : p[x] = f[x]
  <2>1. DOMAIN f \ {n} \subseteq DOMAIN f
    OBVIOUS
  <2> QED BY <2>1, RestrictIn
<1>3. /\ c \in FileMaps /\ DOMAIN c = DOMAIN f \ UserNames
      /\ \A x \in DOMAIN f \ UserNames : c[x] = f[x]
  BY ChurnOfType
<1> HIDE DEF p, c
<1>4. /\ g \in FileMaps /\ DOMAIN g = DOMAIN p \ UserNames
      /\ \A x \in DOMAIN p \ UserNames : g[x] = p[x]
  BY <1>2, ChurnOfType
<1>5. /\ h \in FileMaps /\ DOMAIN h = DOMAIN c \ {n}
      /\ \A x \in DOMAIN c \ {n} : h[x] = c[x]
  <2>1. DOMAIN c \ {n} \subseteq DOMAIN c
    OBVIOUS
  <2> QED BY <1>3, <2>1, RestrictFiles
<1> HIDE DEF g, h
<1>6. DOMAIN g = DOMAIN h
  BY <1>2, <1>3, <1>4, <1>5
<1>7. \A x \in DOMAIN g : g[x] = h[x]
  BY <1>2, <1>3, <1>4, <1>5
<1>8. g = h
  BY <1>4, <1>5, <1>6, <1>7, SameFiles
<1> QED BY <1>8 DEF p, c, g, h

\* Once the file is written, it does not matter what it was.
LEMMA PutForgets ==
  ASSUME NEW f \in MapsOn(ChipNames), NEW g \in MapsOn(ChipNames),
         NEW n \in Names, NEW v \in Nat, SameBut(f, g, n)
  PROVE  Put(ChurnOf(g), n, v) = Put(ChurnOf(f), n, v)
<1> DEFINE a == Put(ChurnOf(f), n, v)
           b == Put(ChurnOf(g), n, v)
<1>1. /\ a \in FileMaps /\ DOMAIN a = DOMAIN ChurnOf(f) \cup {n} /\ a[n] = v
      /\ \A x \in DOMAIN ChurnOf(f) \ {n} : a[x] = ChurnOf(f)[x]
  <2>1. IsPut(a, ChurnOf(f), n, v)
    BY PutIsPut
  <2>2. ChurnOf(f) \in FileMaps
    BY ChurnOfType
  <2>3. a \in FileMaps
    BY <2>2, PutFile
  <2> HIDE DEF a
  <2> QED BY <2>1, <2>3 DEF IsPut
<1>2. /\ b \in FileMaps /\ DOMAIN b = DOMAIN ChurnOf(g) \cup {n} /\ b[n] = v
      /\ \A x \in DOMAIN ChurnOf(g) \ {n} : b[x] = ChurnOf(g)[x]
  <2>1. IsPut(b, ChurnOf(g), n, v)
    BY PutIsPut
  <2>2. ChurnOf(g) \in FileMaps
    BY ChurnOfType
  <2>3. b \in FileMaps
    BY <2>2, PutFile
  <2> HIDE DEF b
  <2> QED BY <2>1, <2>3 DEF IsPut
<1>3. /\ DOMAIN ChurnOf(f) = DOMAIN f \ UserNames /\ DOMAIN ChurnOf(g) = DOMAIN g \ UserNames
      /\ \A x \in DOMAIN f \ UserNames : ChurnOf(f)[x] = f[x]
      /\ \A x \in DOMAIN g \ UserNames : ChurnOf(g)[x] = g[x]
  BY ChurnOfType
<1> HIDE DEF a, b
<1>4. DOMAIN a = DOMAIN b
  BY <1>1, <1>2, <1>3 DEF SameBut
<1>5. ASSUME NEW x \in DOMAIN a PROVE a[x] = b[x]
  BY <1>1, <1>2, <1>3, <1>4 DEF SameBut
<1>6. a = b
  BY <1>1, <1>2, <1>4, <1>5, SameFiles
<1> QED BY <1>6 DEF a, b

\* A chip's fields.
LEMMA ChipFields ==
  ASSUME NEW f \in Chips
  PROVE  f.mounted \in BOOLEAN /\ f.files \in MapsOn(ChipNames) /\ f.tracked \in SUBSET ChipNames
BY DEF Chips

\* A write touches no other file, whatever comes of it, and tracks the name if it is done.
LEMMA WriteOutcome ==
  ASSUME NEW f \in Chips, NEW n \in ChipNames, NEW v \in Nat,
         NEW o \in WriteOutcomes(f, n, v)
  PROVE  /\ o.fs \in Chips /\ o.ok \in BOOLEAN /\ o.fs.mounted = f.mounted
         /\ SameBut(f.files, o.fs.files, n)
         /\ o.ok => o.fs.files = Put(f.files, n, v) /\ o.fs.tracked = f.tracked \cup {n}
         /\ ~o.ok => o.fs.tracked = f.tracked
         /\ (f.mounted /\ HasRoom(f, n, v)) => o.ok
<1> DEFINE p == Put(f.files, n, v)
           r == Restrict(f.files, DOMAIN f.files \ {n})
           t == f.tracked \cup {n}
           Stump == {m \in StumpSizes : m < v}
<1>0. f.mounted \in BOOLEAN /\ f.files \in MapsOn(ChipNames) /\ f.tracked \in SUBSET ChipNames
  BY ChipFields
<1>1. p \in MapsOn(ChipNames) /\ SameBut(f.files, p, n)
  <2>1. p \in MapsOn(ChipNames)
    BY <1>0, PutIn
  <2>2. IsPut(p, f.files, n, v)
    BY PutIsPut
  <2> HIDE DEF p
  <2> QED BY <2>1, <2>2 DEF IsPut, SameBut
<1>2. ASSUME NEW w \in Stump
      PROVE  Put(f.files, n, w) \in MapsOn(ChipNames) /\ SameBut(f.files, Put(f.files, n, w), n)
  <2> DEFINE z == Put(f.files, n, w)
  <2>0. w \in Nat
    BY WorkloadAssumption
  <2>1. z \in MapsOn(ChipNames)
    BY <1>0, <2>0, PutIn
  <2>2. IsPut(z, f.files, n, w)
    BY PutIsPut
  <2>3. SameBut(f.files, z, n)
    <3> HIDE DEF z
    <3> QED BY <2>2 DEF IsPut, SameBut
  <2> QED BY <2>1, <2>3
<1>3. r \in MapsOn(ChipNames) /\ SameBut(f.files, r, n)
  <2>1. r \in MapsOn(ChipNames)
    <3>1. DOMAIN f.files \ {n} \subseteq DOMAIN f.files
      OBVIOUS
    <3> QED BY <1>0, <3>1, RestrictIn
  <2>2. IsRest(r, f.files, n)
    BY RestrictIsRest
  <2> HIDE DEF r
  <2> QED BY <2>1, <2>2 DEF IsRest, SameBut
<1>4. t \in SUBSET ChipNames
  BY <1>0
<1>5. SameBut(f.files, f.files, n)
  BY DEF SameBut
<1>6. \/ f.mounted /\ o = [fs |-> [f EXCEPT !.files = p, !.tracked = t], ok |-> TRUE]
      \/ /\ ~(f.mounted /\ HasRoom(f, n, v))
         /\ \/ o = [fs |-> f, ok |-> FALSE]
            \/ o = [fs |-> [f EXCEPT !.files = r], ok |-> FALSE]
            \/ \E w \in Stump : o = [fs |-> [f EXCEPT !.files = Put(f.files, n, w)], ok |-> FALSE]
  BY DEF WriteOutcomes, Stored, Removed
<1> SUFFICES /\ o.fs \in Chips /\ o.ok \in BOOLEAN /\ o.fs.mounted = f.mounted
             /\ SameBut(f.files, o.fs.files, n)
             /\ o.ok => o.fs.files = p /\ o.fs.tracked = t
             /\ ~o.ok => o.fs.tracked = f.tracked
             /\ (f.mounted /\ HasRoom(f, n, v)) => o.ok
  OBVIOUS
<1>7. CASE f.mounted /\ o = [fs |-> [f EXCEPT !.files = p, !.tracked = t], ok |-> TRUE]
  <2> HIDE DEF p, r, t, Stump
  <2>1. o.fs = [f EXCEPT !.files = p, !.tracked = t] /\ o.ok = TRUE
    BY <1>7
  <2>2. /\ o.fs \in Chips /\ o.fs.files = p /\ o.fs.tracked = t /\ o.fs.mounted = f.mounted
    BY <1>0, <1>1, <1>4, <2>1 DEF Chips
  <2> QED BY <1>1, <2>1, <2>2
<1>8. CASE ~(f.mounted /\ HasRoom(f, n, v)) /\ o = [fs |-> f, ok |-> FALSE]
  <2>1. o.fs = f /\ o.ok = FALSE
    BY <1>8
  <2> QED BY <1>5, <1>8, <2>1
<1>9. ASSUME NEW m \in MapsOn(ChipNames), SameBut(f.files, m, n),
             ~(f.mounted /\ HasRoom(f, n, v)), o = [fs |-> [f EXCEPT !.files = m], ok |-> FALSE]
      PROVE  /\ o.fs \in Chips /\ o.ok \in BOOLEAN /\ o.fs.mounted = f.mounted
             /\ SameBut(f.files, o.fs.files, n)
             /\ o.ok => o.fs.files = p /\ o.fs.tracked = t
             /\ ~o.ok => o.fs.tracked = f.tracked
             /\ (f.mounted /\ HasRoom(f, n, v)) => o.ok
  <2>1. o.fs = [f EXCEPT !.files = m] /\ o.ok = FALSE
    BY <1>9
  <2>2. /\ o.fs \in Chips /\ o.fs.files = m /\ o.fs.mounted = f.mounted
        /\ o.fs.tracked = f.tracked
    BY <1>0, <1>9, <2>1 DEF Chips
  <2> QED BY <1>9, <2>1, <2>2
<1>10. CASE ~(f.mounted /\ HasRoom(f, n, v)) /\ o = [fs |-> [f EXCEPT !.files = r], ok |-> FALSE]
  <2> HIDE DEF p, r, t
  <2> QED BY <1>3, <1>9, <1>10
<1>11. CASE ~(f.mounted /\ HasRoom(f, n, v)) /\ \E w \in Stump :
              o = [fs |-> [f EXCEPT !.files = Put(f.files, n, w)], ok |-> FALSE]
  <2>1. PICK w \in Stump : o = [fs |-> [f EXCEPT !.files = Put(f.files, n, w)], ok |-> FALSE]
    BY <1>11
  <2>2. PICK m : m = Put(f.files, n, w)
    OBVIOUS
  <2>3. m \in MapsOn(ChipNames) /\ SameBut(f.files, m, n)
    BY <1>2, <2>2
  <2>4. o = [fs |-> [f EXCEPT !.files = m], ok |-> FALSE]
    BY <2>1, <2>2
  <2> HIDE DEF p, r, t, Stump
  <2> QED BY <1>9, <1>11, <2>3, <2>4
<1> HIDE DEF p, r, t, Stump
<1> QED BY <1>6, <1>7, <1>8, <1>10, <1>11

\* Removing a file that is there leaves the others; of one that is not, everything.
LEMMA RemoveOutcome ==
  ASSUME NEW f \in Chips, NEW n \in ChipNames, NEW o \in RemoveOutcomes(f, n)
  PROVE  /\ o.fs \in Chips /\ o.fs.mounted = f.mounted
         /\ SameBut(f.files, o.fs.files, n)
         /\ n \in DOMAIN f.files =>
              /\ o.ok = TRUE /\ o.fs.files = Restrict(f.files, DOMAIN f.files \ {n})
              /\ o.fs.tracked = f.tracked \ {n}
         /\ n \notin DOMAIN f.files => o.ok = FALSE /\ o.fs = f
<1> DEFINE r == Restrict(f.files, DOMAIN f.files \ {n})
           t == f.tracked \ {n}
<1>0. f.mounted \in BOOLEAN /\ f.files \in MapsOn(ChipNames) /\ f.tracked \in SUBSET ChipNames
  BY ChipFields
<1>1. r \in MapsOn(ChipNames) /\ SameBut(f.files, r, n)
  <2>1. r \in MapsOn(ChipNames)
    <3>1. DOMAIN f.files \ {n} \subseteq DOMAIN f.files
      OBVIOUS
    <3> QED BY <1>0, <3>1, RestrictIn
  <2>2. IsRest(r, f.files, n)
    BY RestrictIsRest
  <2> HIDE DEF r
  <2> QED BY <2>1, <2>2 DEF IsRest, SameBut
<1>2. t \in SUBSET ChipNames
  BY <1>0
<1>3. CASE n \in DOMAIN f.files
  <2>1. o = [fs |-> [[f EXCEPT !.files = r] EXCEPT !.tracked = @ \ {n}], ok |-> TRUE]
    BY <1>3 DEF RemoveOutcomes, Untracked, Removed
  <2>2. [[f EXCEPT !.files = r] EXCEPT !.tracked = @ \ {n}] = [f EXCEPT !.files = r, !.tracked = t]
    <3> HIDE DEF r
    <3> QED BY DEF Chips
  <2>3. o.fs = [f EXCEPT !.files = r, !.tracked = t] /\ o.ok = TRUE
    BY <2>1, <2>2
  <2> SUFFICES /\ o.fs \in Chips /\ o.fs.mounted = f.mounted /\ SameBut(f.files, o.fs.files, n)
               /\ o.ok = TRUE /\ o.fs.files = r /\ o.fs.tracked = t
    BY <1>3
  <2> HIDE DEF r, t
  <2>4. o.fs \in Chips /\ o.fs.files = r /\ o.fs.tracked = t /\ o.fs.mounted = f.mounted
    BY <1>0, <1>1, <1>2, <2>3 DEF Chips
  <2> QED BY <1>1, <2>3, <2>4
<1>4. CASE n \notin DOMAIN f.files
  <2>1. o.fs = f /\ o.ok = FALSE
    BY <1>4 DEF RemoveOutcomes
  <2> QED BY <1>4, <2>1 DEF SameBut
<1> QED BY <1>3, <1>4

\* Whatever remove() does, it is to that file.
LEMMA RemoveKeeps ==
  ASSUME NEW f \in Chips, NEW n \in ChipNames, NEW o \in RemoveOutcomes(f, n)
  PROVE  o.fs \in Chips /\ o.fs.mounted = f.mounted /\ SameBut(f.files, o.fs.files, n)
<1>1. o.fs \in Chips
  BY RemoveOutcome
<1>2. SameBut(f.files, o.fs.files, n)
  BY RemoveOutcome
<1>3. o.fs.mounted = f.mounted
  <2>1. \/ o.fs = f
        \/ o.fs = [[f EXCEPT !.files = Restrict(f.files, DOMAIN f.files \ {n})]
                     EXCEPT !.tracked = @ \ {n}]
    BY DEF RemoveOutcomes, Untracked, Removed
  <2> QED BY <2>1 DEF Chips
<1> QED BY <1>1, <1>2, <1>3

-----------------------------------------------------------------------------
(* Queues *)

Holds(q, e) == e \in Range(q)

\* What a longer and a shorter queue hold.
LEMMA Longer ==
  ASSUME NEW q \in Seq(Entries), NEW e \in Entries
  PROVE  /\ Append(q, e) \in Seq(Entries)
         /\ \A x : Holds(Append(q, e), x) <=> Holds(q, x) \/ x = e
<1>1. /\ Append(q, e) \in Seq(Entries) /\ Len(q) \in Nat /\ DOMAIN q = 1 .. Len(q)
      /\ DOMAIN Append(q, e) = 1 .. Len(q) + 1 /\ Append(q, e)[Len(q) + 1] = e
      /\ \A i \in 1 .. Len(q) : Append(q, e)[i] = q[i]
  OBVIOUS
<1>2. ASSUME NEW x, Holds(Append(q, e), x) PROVE Holds(q, x) \/ x = e
  <2>1. PICK i \in 1 .. Len(q) + 1 : Append(q, e)[i] = x
    BY <1>1, <1>2 DEF Holds, Range
  <2>2. i = Len(q) + 1 \/ i \in 1 .. Len(q)
    BY <1>1
  <2> QED BY <1>1, <2>1, <2>2 DEF Holds, Range
<1>3. ASSUME NEW x, Holds(q, x) PROVE Holds(Append(q, e), x)
  <2>1. PICK i \in 1 .. Len(q) : q[i] = x
    BY <1>1, <1>3 DEF Holds, Range
  <2>2. i \in 1 .. Len(q) + 1
    BY <1>1
  <2> QED BY <1>1, <2>1, <2>2 DEF Holds, Range
<1>4. Holds(Append(q, e), e)
  <2>1. Len(q) + 1 \in 1 .. Len(q) + 1
    BY <1>1
  <2> QED BY <1>1, <2>1 DEF Holds, Range
<1> QED BY <1>1, <1>2, <1>3, <1>4

LEMMA Shorter ==
  ASSUME NEW q \in Seq(Entries), q # <<>>
  PROVE  /\ Head(q) \in Entries /\ Tail(q) \in Seq(Entries)
         /\ \A x : Holds(Tail(q), x) => Holds(q, x)
<1>1. /\ Head(q) \in Entries /\ Tail(q) \in Seq(Entries) /\ Len(q) \in Nat
      /\ DOMAIN Tail(q) = 1 .. Len(q) - 1 /\ DOMAIN q = 1 .. Len(q)
      /\ \A i \in 1 .. Len(q) - 1 : Tail(q)[i] = q[i + 1]
  OBVIOUS
<1>2. ASSUME NEW x, Holds(Tail(q), x) PROVE Holds(q, x)
  <2>1. PICK i \in 1 .. Len(q) - 1 : Tail(q)[i] = x
    BY <1>1, <1>2 DEF Holds, Range
  <2>2. i + 1 \in 1 .. Len(q) /\ q[i + 1] = x
    BY <1>1, <2>1
  <2> QED BY <1>1, <2>2 DEF Holds, Range
<1> QED BY <1>1, <1>2

\* The entries that are made without the model: no reset among them, and no boot format.
LEMMA OneMore ==
  ASSUME NEW q \in Seq(Entries), NEW b \in FileMaps, NEW e \in Entries,
         e \in OtherEntries, e # ResetMsg, e # BootOp("format")
  PROVE  /\ Append(q, e) \in Seq(Entries) /\ After(b, Append(q, e)) = After(b, q)
         /\ Holds(Append(q, e), ResetMsg) <=> Holds(q, ResetMsg)
<1>1. Play(After(b, q), e) = After(b, q)
  BY PlayCases DEF OtherEntries, ConsoleOp, BootOp, ResetMsg
<1> QED BY <1>1, PlayLast, Longer

\* A console line leaves the files of the churn, as long as it has not been executed.
LEMMA LinePlayed ==
  ASSUME NEW q \in Seq(Entries), NEW b \in FileMaps, NEW line \in Lines
  PROVE  /\ q \o line \in Seq(Entries) /\ After(b, q \o line) = After(b, q)
         /\ Holds(q \o line, ResetMsg) <=> Holds(q, ResetMsg)
<1> DEFINE Ops == {ConsoleOp("write"), ConsoleOp("delete"), ConsoleOp("format"), ConsoleOp("mount")}
<1>1. \A e \in Ops : e \in Entries /\ e \in OtherEntries /\ e # ResetMsg /\ e # BootOp("format")
  BY DEF Entries, OtherEntries, ConsoleOp, BootOp, ResetMsg
<1>2. ASSUME NEW e \in Ops, line = <<e>>
      PROVE  /\ q \o line \in Seq(Entries) /\ After(b, q \o line) = After(b, q)
             /\ Holds(q \o line, ResetMsg) <=> Holds(q, ResetMsg)
  <2>1. q \o line = Append(q, e)
    BY <1>2
  <2> QED BY <1>1, <2>1, OneMore
<1>3. ASSUME line = <<ConsoleOp("format"), ConsoleOp("mount")>>
      PROVE  /\ q \o line \in Seq(Entries) /\ After(b, q \o line) = After(b, q)
             /\ Holds(q \o line, ResetMsg) <=> Holds(q, ResetMsg)
  <2>0. PICK e1 \in Ops, e2 \in Ops : line = <<e1, e2>>
    BY <1>3
  <2> HIDE DEF Ops
  <2>1. e1 \in Entries /\ e2 \in Entries
    BY <1>1
  <2>2. q \o line = Append(Append(q, e1), e2)
    BY <2>0, <2>1
  <2>3. /\ Append(q, e1) \in Seq(Entries) /\ After(b, Append(q, e1)) = After(b, q)
        /\ Holds(Append(q, e1), ResetMsg) <=> Holds(q, ResetMsg)
    BY <1>1, OneMore
  <2> QED BY <1>1, <2>2, <2>3, OneMore, ZenonT(60)
<1>4. \/ \E e \in Ops : line = <<e>>
      \/ line = <<ConsoleOp("format"), ConsoleOp("mount")>>
  BY DEF Lines
<1> HIDE DEF Ops
<1> QED BY <1>2, <1>3, <1>4

\* The boot sequence leaves no file.
LEMMA BootPlayed ==
  ASSUME NEW q \in Seq(Entries), NEW b \in FileMaps
  PROVE  /\ q \o Boot \in Seq(Entries) /\ After(b, q \o Boot) = <<>>
         /\ \A x : Holds(q, x) => Holds(q \o Boot, x)
<1> DEFINE e1 == BootOp("format")
           e2 == BootOp("mount")
<1>1. e1 \in Entries /\ e2 \in Entries /\ e2 \in OtherEntries /\ e2 # ResetMsg /\ e2 # BootOp("format")
  BY DEF Entries, OtherEntries, BootOp, ResetMsg
<1>2. q \o Boot = Append(Append(q, e1), e2)
  <2>1. Boot = <<e1, e2>>
    BY DEF Boot
  <2> HIDE DEF e1, e2
  <2> QED BY <1>1, <2>1
<1>3. /\ Append(q, e1) \in Seq(Entries) /\ After(b, Append(q, e1)) = Play(After(b, q), e1)
      /\ \A x : Holds(q, x) => Holds(Append(q, e1), x)
  BY <1>1, PlayLast, Longer
<1>4. Play(After(b, q), e1) = <<>>
  BY <1>1, PlayCases
<1> HIDE DEF e1, e2
<1>5. After(b, Append(Append(q, e1), e2)) = <<>>
  BY <1>1, <1>3, <1>4, OneMore
<1>6. /\ Append(Append(q, e1), e2) \in Seq(Entries)
      /\ \A x : Holds(q, x) => Holds(Append(Append(q, e1), e2), x)
  BY <1>1, <1>3, Longer
<1> QED BY <1>2, <1>5, <1>6

\* Executing the head of the queue makes of the files what playing it does, or a reset
\* is on its way that makes it all void.
LEMMA HeadPlayed ==
  ASSUME NEW q \in Seq(Entries), q # <<>>, NEW b \in FileMaps, NEW c \in FileMaps,
         Holds(Tail(q), ResetMsg) \/ c = Play(b, Head(q))
  PROVE  After(c, Tail(q)) = After(b, q)
<1>1. /\ Head(q) \in Entries /\ Tail(q) \in Seq(Entries)
      /\ After(b, q) = After(Play(b, Head(q)), Tail(q))
  BY PlayFirst
<1>2. Play(b, Head(q)) \in FileMaps
  BY <1>1, PlayType
<1>3. CASE Holds(Tail(q), ResetMsg)
  <2>1. ResetMsg \in Range(Tail(q))
    BY <1>3 DEF Holds
  <2>2. After(c, Tail(q)) = After(Play(b, Head(q)), Tail(q))
    BY <1>1, <1>2, <2>1, ResetForgets
  <2> QED BY <1>1, <2>2
<1> QED BY <1>1, <1>3

-----------------------------------------------------------------------------
(* The inductive invariant *)

TypeInv ==
  /\ ChurnOK(churn)
  /\ queue \in Seq(Entries)
  /\ fs \in Chips
  /\ thrown \in BOOLEAN /\ meddled \in BOOLEAN
  /\ resets \in 0 .. MaxResets

\* The filesystem, once it has executed what is under way, holds the files of the model.
Agrees == (Holds(queue, ResetMsg) \/ ~meddled) => Played = Files(churn)

OracleInv == TypeInv /\ Balanced(churn) /\ Agrees

\* The files played are those of the chip and the entries.
LEMMA PlayedIs == Played = After(ChurnOf(fs.files), queue)
BY DEF Played, After, ChurnFiles, ChurnOf

\* The model after reset(): sound, and without a file.
LEMMA PristineIs ==
  ChurnOK(Pristine) /\ Balanced(Pristine) /\ Files(Pristine) = <<>>
<1>1. /\ Pristine.totalWritten = 0 /\ Pristine.liveBytes = 0 /\ Pristine.slots = <<>>
      /\ Pristine.forcedLargeWritten = FALSE /\ Pristine.pending = NoWrite
      /\ Pristine.optionalDeleteChecked = FALSE /\ Pristine.pendingSlot = NoSlot
      /\ Pristine.protectedLargeSlot = NoSlot
  BY DEF Pristine
<1>2. <<>> \in Tables /\ DOMAIN <<>> = {}
  <2>1. <<>> = [x \in {} |-> <<>>[x]]
    OBVIOUS
  <2>2. <<>> \in [{} -> Records]
    BY <2>1
  <2> QED BY <2>2, TablesAre
<1>3. Pristine \in ChurnStates
  <2>1. 0 \in 0 .. U32 - 1 /\ 0 \in Int
    BY Constants
  <2>2. NoWrite \in Writes
    BY DEF Writes
  <2> QED BY <1>2, <2>1, <2>2 DEF Pristine, ChurnStates
<1>4. ChurnOK(Pristine)
  <2>1. 0 <= Limit /\ NoSlot \notin {}
    BY Constants
  <2> HIDE DEF Pristine
  <2> QED BY <1>1, <1>2, <1>3, <2>1 DEF ChurnOK, Named, UnderCeiling
<1>5. Files(Pristine) \in FileMaps /\ DOMAIN Files(Pristine) = {}
  <2>1. Named(Pristine)
    BY <1>4 DEF ChurnOK
  <2>2. DOMAIN Files(Pristine) = {Pristine.slots[s].name : s \in DOMAIN Pristine.slots}
    BY <1>3, <2>1, FilesAre
  <2>3. Files(Pristine) \in FileMaps
    BY <1>3, <2>1, FilesAre
  <2> HIDE DEF Pristine
  <2> QED BY <1>1, <1>2, <2>2, <2>3
<1>6. Files(Pristine) = <<>>
  BY <1>5, NoFiles
<1>7. SumFunction(Files(Pristine)) = 0
  BY <1>5, SumOfNothing
<1> QED BY <1>1, <1>4, <1>6, <1>7 DEF Balanced

\* A blank chip has no file of the churn.
LEMMA NoChurnFile == ChurnOf(<<>>) = <<>> /\ <<>> \in MapsOn(ChipNames)
<1>1. <<>> \in MapsOn(ChipNames)
  BY NoneIn
<1>2. ChurnOf(<<>>) \in FileMaps /\ DOMAIN ChurnOf(<<>>) = DOMAIN <<>> \ UserNames
  BY <1>1, ChurnOfType
<1>3. DOMAIN <<>> = {}
  BY NoFiles
<1> QED BY <1>1, <1>2, <1>3, NoFiles

LEMMA OracleInit == Init => OracleInv
<1> SUFFICES ASSUME Init PROVE OracleInv
  OBVIOUS
<1>1. ChurnOK(churn) /\ Balanced(churn) /\ Files(churn) = <<>>
  BY PristineIs DEF Init
<1>2. fs \in Chips /\ fs.files = <<>>
  <2>1. {} \in SUBSET ChipNames
    OBVIOUS
  <2> QED BY <2>1, NoChurnFile DEF Init, Chips
<1>3. queue \in Seq(Entries) /\ After(ChurnOf(fs.files), queue) = <<>>
  <2>1. <<>> \in Seq(Entries) /\ <<>> \o Boot = Boot
    BY DEF Boot
  <2>2. ChurnOf(fs.files) \in FileMaps
    BY <1>2, NoChurnFile, NoFiles
  <2>3. <<>> \o Boot \in Seq(Entries) /\ After(ChurnOf(fs.files), <<>> \o Boot) = <<>>
    BY <2>1, <2>2, BootPlayed
  <2> QED BY <2>1, <2>3 DEF Init
<1>4. thrown \in BOOLEAN /\ meddled \in BOOLEAN /\ resets \in 0 .. MaxResets
  <2>1. MaxResets \in Nat
    BY WorkloadAssumption
  <2>2. resets \in 0 .. MaxResets
    BY <2>1 DEF Init
  <2>3. thrown \in BOOLEAN /\ meddled \in BOOLEAN
    BY DEF Init
  <2> QED BY <2>2, <2>3
<1> QED BY <1>1, <1>2, <1>3, <1>4, PlayedIs DEF OracleInv, TypeInv, Agrees

\* The churn's part of the chip.
LEMMA ChipChurn ==
  ASSUME TypeInv
  PROVE  fs.files \in MapsOn(ChipNames) /\ ChurnOf(fs.files) \in FileMaps
BY ChipFields, ChurnOfType DEF TypeInv

\* One entry of the coordinator more.
LEMMA GcAgrees ==
  ASSUME OracleInv, GenerateGc
  PROVE  OracleInv'
<1> DEFINE e == ChurnEntry([type |-> "gc"])
<1>1. queue' = Append(queue, e) /\ UNCHANGED <<churn, fs, thrown, resets, meddled>>
  BY DEF GenerateGc
<1>2. queue \in Seq(Entries) /\ TypeInv
  BY DEF OracleInv, TypeInv
<1>3. e \in Entries /\ e # ResetMsg /\ e.by = "churn" /\ e.event.type = "gc"
  BY DEF ChurnEntry, ResetMsg, Entries, ChurnEntries
<1> HIDE DEF e
<1>4. queue' \in Seq(Entries) /\ (Holds(queue', ResetMsg) <=> Holds(queue, ResetMsg))
  BY <1>1, <1>2, <1>3, Longer
<1>5. After(ChurnOf(fs.files), queue') = After(ChurnOf(fs.files), queue)
  <2>1. After(ChurnOf(fs.files), queue') = Play(After(ChurnOf(fs.files), queue), e)
    BY <1>1, <1>2, <1>3, ChipChurn, PlayLast
  <2>2. Play(After(ChurnOf(fs.files), queue), e) = After(ChurnOf(fs.files), queue)
    BY <1>3, PlayCases DEF Effect
  <2> QED BY <2>1, <2>2
<1>6. Played' = Played
  <2>1. Played' = After(ChurnOf(fs'.files), queue')
    BY DEF Played, After, ChurnFiles, ChurnOf
  <2> QED BY <1>1, <1>5, <2>1, PlayedIs
<1> QED BY <1>1, <1>2, <1>4, <1>6 DEF OracleInv, TypeInv, Agrees

LEMMA EventAgrees ==
  ASSUME OracleInv, GenerateEvent
  PROVE  OracleInv'
<1>1. UNCHANGED <<fs, thrown, resets, meddled>>
  BY DEF GenerateEvent
<1>2. PICK o \in NextEvents(churn) :
        churn' = Apply(o.churn, o.event) /\ queue' = Append(queue, ChurnEntry(o.event))
  BY DEF GenerateEvent
<1>3. queue \in Seq(Entries) /\ TypeInv /\ ChurnOK(churn) /\ Balanced(churn)
  BY DEF OracleInv, TypeInv
<1>4. Follows(o, churn)
  BY <1>3, NextFollows
<1>5. ChurnOK(churn') /\ Balanced(churn') /\ Files(churn') = Effect(Files(churn), o.event)
  BY <1>2, <1>3, <1>4, ApplySound, ApplyFiles
<1> DEFINE e == ChurnEntry(o.event)
<1>6. e \in Entries /\ e # ResetMsg /\ e.by = "churn" /\ e.event = o.event
  <2>1. o.event \in Events
    BY <1>4 DEF Follows, Fits
  <2> QED BY <2>1 DEF ChurnEntry, ResetMsg, Entries, ChurnEntries
<1> HIDE DEF e
<1>7. queue' \in Seq(Entries) /\ (Holds(queue', ResetMsg) <=> Holds(queue, ResetMsg))
  BY <1>2, <1>3, <1>6, Longer DEF e
<1>8. Played' = Effect(Played, o.event)
  <2>1. Played' = After(ChurnOf(fs'.files), queue')
    BY DEF Played, After, ChurnFiles, ChurnOf
  <2>2. After(ChurnOf(fs.files), queue') = Play(After(ChurnOf(fs.files), queue), e)
    BY <1>2, <1>3, <1>6, ChipChurn, PlayLast DEF e
  <2>3. Play(After(ChurnOf(fs.files), queue), e) = Effect(After(ChurnOf(fs.files), queue), e.event)
    BY <1>6, PlayCases
  <2> QED BY <1>1, <1>6, <2>1, <2>2, <2>3, PlayedIs
<1>9. Agrees'
  BY <1>1, <1>5, <1>7, <1>8 DEF OracleInv, Agrees
<1> QED BY <1>1, <1>3, <1>5, <1>7, <1>9 DEF OracleInv, TypeInv

LEMMA BroadcastAgrees ==
  ASSUME OracleInv, Broadcast
  PROVE  OracleInv'
<1>1. UNCHANGED <<churn, fs, thrown, resets, meddled>>
  BY DEF Broadcast
<1>2. PICK line \in Lines : queue' = queue \o line
  BY DEF Broadcast
<1>3. queue \in Seq(Entries) /\ TypeInv
  BY DEF OracleInv, TypeInv
<1>4. /\ queue' \in Seq(Entries) /\ (Holds(queue', ResetMsg) <=> Holds(queue, ResetMsg))
      /\ After(ChurnOf(fs.files), queue') = After(ChurnOf(fs.files), queue)
  BY <1>2, <1>3, ChipChurn, LinePlayed
<1>5. Played' = Played
  <2>1. Played' = After(ChurnOf(fs'.files), queue')
    BY DEF Played, After, ChurnFiles, ChurnOf
  <2> QED BY <1>1, <1>4, <2>1, PlayedIs
<1> QED BY <1>1, <1>3, <1>4, <1>5 DEF OracleInv, TypeInv, Agrees

LEMMA ResetAgrees ==
  ASSUME OracleInv, Reset
  PROVE  OracleInv'
<1>1. /\ UNCHANGED <<fs, thrown, meddled>> /\ churn' = Pristine
      /\ queue' = (queue \o <<ResetMsg>>) \o Boot /\ resets' = resets + 1 /\ resets < MaxResets
  BY DEF Reset, Restart
<1>2. queue \in Seq(Entries) /\ TypeInv
  BY DEF OracleInv, TypeInv
<1>3. ChurnOf(fs.files) \in FileMaps
  BY <1>2, ChipChurn
<1>4. queue \o <<ResetMsg>> \in Seq(Entries)
  <2>1. ResetMsg \in Entries
    BY DEF Entries, OtherEntries
  <2> QED BY <1>2, <2>1
<1>5. queue' \in Seq(Entries) /\ After(ChurnOf(fs.files), queue') = <<>>
  <2> HIDE DEF Boot
  <2> QED BY <1>1, <1>3, <1>4, BootPlayed
<1>6. Played' = Files(churn')
  <2>1. Played' = After(ChurnOf(fs'.files), queue')
    BY DEF Played, After, ChurnFiles, ChurnOf
  <2> QED BY <1>1, <1>5, <2>1, PristineIs
<1>7. resets' \in 0 .. MaxResets
  BY <1>1, <1>2, WorkloadAssumption DEF TypeInv
<1> QED BY <1>1, <1>2, <1>5, <1>6, <1>7, PristineIs DEF OracleInv, TypeInv, Agrees

\* The chip after an action, when what it holds of the churn is what playing the head of
\* the queue makes of it, or when that does not matter.
LEMMA HeadAgrees ==
  ASSUME OracleInv, queue # <<>>, queue' = Tail(queue), UNCHANGED <<churn, resets>>,
         fs' \in Chips, thrown' \in BOOLEAN, meddled' \in BOOLEAN, meddled => meddled',
         meddled' \/ ChurnOf(fs'.files) = Play(ChurnOf(fs.files), Head(queue))
  PROVE  OracleInv'
<1>1. queue \in Seq(Entries) /\ TypeInv
  BY DEF OracleInv, TypeInv
<1>2. /\ queue' \in Seq(Entries)
      /\ Holds(queue', ResetMsg) => Holds(queue, ResetMsg)
  BY <1>1, Shorter
<1>3. ChurnOf(fs'.files) \in FileMaps /\ ChurnOf(fs.files) \in FileMaps
  <2>1. fs'.files \in MapsOn(ChipNames)
    BY ChipFields
  <2> QED BY <1>1, <2>1, ChipChurn, ChurnOfType
<1>4. Played' = After(ChurnOf(fs'.files), queue')
  BY DEF Played, After, ChurnFiles, ChurnOf
<1>5. ASSUME Holds(queue', ResetMsg) \/ ~meddled' PROVE Played' = Files(churn')
  <2>1. Holds(Tail(queue), ResetMsg) \/ ChurnOf(fs'.files) = Play(ChurnOf(fs.files), Head(queue))
    BY <1>5
  <2>2. After(ChurnOf(fs'.files), Tail(queue)) = After(ChurnOf(fs.files), queue)
    BY <1>1, <1>3, <2>1, HeadPlayed
  <2>3. Holds(queue, ResetMsg) \/ ~meddled
    BY <1>2, <1>5
  <2>4. Played = Files(churn)
    BY <2>3 DEF OracleInv, Agrees
  <2> QED BY <1>4, <2>2, <2>4, PlayedIs
<1> QED BY <1>1, <1>2, <1>5 DEF OracleInv, TypeInv, Agrees

\* Executing a churn entry.  A write that throws leaves anything of the old file, which
\* does not matter: it is still to be written.
LEMMA ExecAgrees ==
  ASSUME OracleInv, ExecEntry
  PROVE  OracleInv'
<1> DEFINE e == Head(queue)
           b == ChurnOf(fs.files)
<1>1. queue # <<>> /\ e.by = "churn" /\ UNCHANGED <<churn, resets, meddled>>
  BY DEF ExecEntry
<1>2. queue \in Seq(Entries) /\ TypeInv /\ fs \in Chips /\ thrown \in BOOLEAN /\ meddled \in BOOLEAN
  BY DEF OracleInv, TypeInv
<1>3. fs.files \in MapsOn(ChipNames) /\ b \in FileMaps
  BY <1>2, ChipChurn
<1>4. e \in Entries
  BY <1>1, <1>2, Shorter
<1>5. Play(b, e) = Effect(b, e.event)
  BY <1>1, <1>4, PlayCases
<1> HIDE DEF b
<1>6. CASE e.event.type = "write"
  <2>1. PICK out \in WriteOutcomes(fs, e.event.name, e.event.size) :
          fs' = out.fs /\ thrown' = ~out.ok /\ queue' = IF out.ok THEN Tail(queue) ELSE queue
    BY <1>6 DEF ExecEntry
  <2>2. PICK n \in Names : n = e.event.name
    BY <1>1, <1>4, <1>6, EntriesAre, EventsAre
  <2>3. PICK v \in Nat : v = e.event.size
    BY <1>1, <1>4, <1>6, EntriesAre, EventsAre
  <2>4. n \in ChipNames
    BY DEF ChipNames
  <2>5. out \in WriteOutcomes(fs, n, v)
    BY <2>2, <2>3
  <2>6. /\ out.fs \in Chips /\ out.ok \in BOOLEAN
        /\ SameBut(fs.files, out.fs.files, n)
        /\ out.ok => out.fs.files = Put(fs.files, n, v)
    BY <1>2, <2>4, <2>5, WriteOutcome
  <2>7. Play(b, e) = Put(b, n, v)
    BY <1>5, <1>6, <2>2, <2>3 DEF Effect
  <2>8. fs' \in Chips /\ fs'.files \in MapsOn(ChipNames)
    BY <2>1, <2>6, ChipFields
  <2>9. CASE out.ok = TRUE
    <3>1. ChurnOf(fs'.files) = Put(b, n, v)
      BY <1>3, <2>1, <2>6, <2>9, ChurnOfPut DEF b
    <3>2. queue' = Tail(queue) /\ thrown' \in BOOLEAN /\ meddled' \in BOOLEAN /\ (meddled => meddled')
      BY <1>1, <1>2, <2>1, <2>9
    <3>3. meddled' \/ ChurnOf(fs'.files) = Play(ChurnOf(fs.files), Head(queue))
      BY <2>7, <3>1 DEF b
    <3> QED BY <1>1, <2>8, <3>2, <3>3, HeadAgrees
  <2>10. CASE out.ok = FALSE
    <3>1. queue' = queue /\ thrown' \in BOOLEAN
      BY <2>1, <2>10
    <3>2. Played' = Played
      <4>1. Played' = After(ChurnOf(fs'.files), queue')
        BY DEF Played, After, ChurnFiles, ChurnOf
      <4>2. After(ChurnOf(fs'.files), queue) = After(Play(ChurnOf(fs'.files), e), Tail(queue))
        BY <1>1, <1>2, <2>8, ChurnOfType, PlayFirst
      <4>3. After(b, queue) = After(Play(b, e), Tail(queue))
        BY <1>1, <1>2, <1>3, PlayFirst
      <4>4. Play(ChurnOf(fs'.files), e) = Put(ChurnOf(fs'.files), n, v)
        BY <1>1, <1>4, <1>6, <2>2, <2>3, PlayCases DEF Effect
      <4>5. Put(ChurnOf(fs'.files), n, v) = Put(b, n, v)
        BY <1>3, <2>1, <2>6, <2>8, PutForgets DEF b
      <4> QED BY <2>7, <3>1, <4>1, <4>2, <4>3, <4>4, <4>5, PlayedIs DEF b
    <3> QED BY <1>1, <1>2, <2>8, <3>1, <3>2 DEF OracleInv, TypeInv, Agrees
  <2> QED BY <2>6, <2>9, <2>10
<1>7. CASE e.event.type = "delete"
  <2>1. PICK out \in RemoveOutcomes(fs, e.event.name) :
          fs' = out.fs /\ thrown' = ~out.ok /\ queue' = IF out.ok THEN Tail(queue) ELSE queue
    BY <1>7 DEF ExecEntry
  <2>2. PICK n \in Names : n = e.event.name
    BY <1>1, <1>4, <1>7, EntriesAre, EventsAre
  <2>4. n \in ChipNames
    BY DEF ChipNames
  <2>5. out \in RemoveOutcomes(fs, n)
    BY <2>2
  <2>6. /\ out.fs \in Chips
        /\ n \in DOMAIN fs.files =>
              out.ok = TRUE /\ out.fs.files = Restrict(fs.files, DOMAIN fs.files \ {n})
        /\ n \notin DOMAIN fs.files => out.ok = FALSE /\ out.fs = fs
    BY <1>2, <2>4, <2>5, RemoveOutcome, ZenonT(60)
  <2>7. Play(b, e) = Restrict(b, DOMAIN b \ {n})
    BY <1>5, <1>7, <2>2 DEF Effect
  <2>9. CASE n \in DOMAIN fs.files
    <3>1. ChurnOf(fs'.files) = Restrict(b, DOMAIN b \ {n})
      BY <1>3, <2>1, <2>6, <2>9, ChurnOfRestrict DEF b
    <3>2. queue' = Tail(queue) /\ thrown' \in BOOLEAN /\ meddled' \in BOOLEAN /\ (meddled => meddled')
      BY <1>1, <1>2, <2>1, <2>6, <2>9
    <3>3. meddled' \/ ChurnOf(fs'.files) = Play(ChurnOf(fs.files), Head(queue))
      BY <2>7, <3>1 DEF b
    <3>4. fs' \in Chips
      BY <2>1, <2>6
    <3> QED BY <1>1, <3>2, <3>3, <3>4, HeadAgrees
  <2>10. CASE n \notin DOMAIN fs.files
    <3>1. queue' = queue /\ thrown' \in BOOLEAN /\ fs' = fs
      BY <2>1, <2>6, <2>10
    <3>2. Played' = Played
      BY <3>1 DEF Played, ChurnFiles
    <3> QED BY <1>1, <1>2, <3>1, <3>2 DEF OracleInv, TypeInv, Agrees
  <2> QED BY <2>9, <2>10
<1>8. CASE e.event.type \notin {"write", "delete"}
  <2>0. PICK out \in {[fs |-> fs, ok |-> TRUE]} :
          fs' = out.fs /\ thrown' = ~out.ok /\ queue' = IF out.ok THEN Tail(queue) ELSE queue
    BY <1>8 DEF ExecEntry
  <2>1. fs' = fs /\ thrown' \in BOOLEAN /\ queue' = Tail(queue)
    <3>1. out.fs = fs /\ out.ok = TRUE
      OBVIOUS
    <3> QED BY <2>0, <3>1
  <2>2. Play(b, e) = b
    BY <1>5, <1>8 DEF Effect
  <2>3. meddled' \in BOOLEAN /\ (meddled => meddled')
    BY <1>1, <1>2
  <2>4. meddled' \/ ChurnOf(fs'.files) = Play(ChurnOf(fs.files), Head(queue))
    BY <2>1, <2>2 DEF b
  <2> QED BY <1>1, <1>2, <2>1, <2>3, <2>4, HeadAgrees
<1> QED BY <1>6, <1>7, <1>8

\* What the operations that are not the churn's and wipe nothing of the churn play.
LEMMA OpsPlay ==
  /\ \A f : Play(f, ConsoleOp("write")) = f /\ Play(f, ConsoleOp("delete")) = f
  /\ \A f : \A by \in {"boot", "console"} : Play(f, [by |-> by, op |-> "mount"]) = f
BY DEF Play, ConsoleOp, BootOp

\* The console writes a file of its own.
LEMMA ConsoleWriteAgrees ==
  ASSUME OracleInv, ConsoleWrite
  PROVE  OracleInv'
<1>1. /\ queue # <<>> /\ Head(queue) = ConsoleOp("write") /\ queue' = Tail(queue)
      /\ UNCHANGED <<churn, thrown, resets, meddled>>
  BY DEF ConsoleWrite, Executes
<1>2. PICK name \in FreshNames(fs), size \in UserSizes :
        \E out \in WriteOutcomes(fs, name, size) : fs' = out.fs
  BY DEF ConsoleWrite
<1>a. PICK out \in WriteOutcomes(fs, name, size) : fs' = out.fs
  BY <1>2
<1>3. TypeInv /\ fs \in Chips /\ thrown \in BOOLEAN /\ meddled \in BOOLEAN /\ queue \in Seq(Entries)
  BY DEF OracleInv, TypeInv
<1>4. name \in UserNames /\ name \in ChipNames /\ size \in Nat
  BY WorkloadAssumption DEF ChipNames, FreshNames
<1>5. fs' \in Chips /\ SameBut(fs.files, fs'.files, name)
  BY <1>a, <1>3, <1>4, WriteOutcome
<1>6. ChurnOf(fs'.files) = ChurnOf(fs.files)
  BY <1>3, <1>4, <1>5, ChipFields, UserFileOnly
<1>7. Play(ChurnOf(fs.files), Head(queue)) = ChurnOf(fs.files)
  BY <1>1, OpsPlay
<1> QED BY <1>1, <1>3, <1>5, <1>6, <1>7, HeadAgrees

\* The console deletes a file: its own, or it has meddled.
LEMMA ConsoleDeleteAgrees ==
  ASSUME OracleInv, ConsoleDelete
  PROVE  OracleInv'
<1>1. /\ queue # <<>> /\ Head(queue) = ConsoleOp("delete") /\ queue' = Tail(queue)
      /\ UNCHANGED <<churn, thrown, resets>>
  BY DEF ConsoleDelete, Executes
<1>3. TypeInv /\ fs \in Chips /\ thrown \in BOOLEAN /\ meddled \in BOOLEAN
  BY DEF OracleInv, TypeInv
<1>4. Play(ChurnOf(fs.files), Head(queue)) = ChurnOf(fs.files)
  BY <1>1, OpsPlay
<1>5. CASE UNCHANGED <<fs, meddled>>
  BY <1>1, <1>3, <1>4, <1>5, HeadAgrees
<1>6. CASE \E name \in fs.tracked :
             /\ \E out \in RemoveOutcomes(fs, name) : fs' = out.fs
             /\ meddled' = (meddled \/ name \notin UserNames)
  <2>0. PICK name \in fs.tracked :
          /\ \E out \in RemoveOutcomes(fs, name) : fs' = out.fs
          /\ meddled' = (meddled \/ name \notin UserNames)
    BY <1>6
  <2>1. PICK out \in RemoveOutcomes(fs, name) :
          fs' = out.fs /\ meddled' = (meddled \/ name \notin UserNames)
    BY <2>0
  <2>2. name \in ChipNames
    BY <1>3, ChipFields
  <2>3. fs' \in Chips /\ SameBut(fs.files, fs'.files, name)
    BY <1>3, <2>1, <2>2, RemoveOutcome
  <2>4. meddled' \in BOOLEAN /\ (meddled => meddled')
    BY <1>3, <2>1
  <2>5. meddled' \/ ChurnOf(fs'.files) = ChurnOf(fs.files)
    <3>1. CASE name \in UserNames
      BY <1>3, <2>3, <3>1, ChipFields, UserFileOnly
    <3>2. CASE name \notin UserNames
      BY <2>1, <3>2
    <3> QED BY <3>1, <3>2
  <2> QED BY <1>1, <1>3, <1>4, <2>3, <2>4, <2>5, HeadAgrees
<1> QED BY <1>5, <1>6 DEF ConsoleDelete

\* A format takes every file: the boot's is played, the console's has meddled.
LEMMA FormatAgrees ==
  ASSUME OracleInv, FormatOp
  PROVE  OracleInv'
<1>1. PICK by \in {"boot", "console"} :
        /\ queue # <<>> /\ Head(queue) = [by |-> by, op |-> "format"]
        /\ meddled' = (meddled \/ by = "console")
  BY DEF FormatOp, Executes
<1>2. fs' = Format(fs) /\ queue' = Tail(queue) /\ UNCHANGED <<churn, thrown, resets>>
  BY DEF FormatOp
<1>3. TypeInv /\ thrown \in BOOLEAN /\ meddled \in BOOLEAN
  BY DEF OracleInv, TypeInv
<1>4. fs' \in Chips /\ fs'.files = <<>>
  BY <1>2, NoChurnFile DEF Format, Chips
<1>5. meddled' \in BOOLEAN /\ (meddled => meddled')
  BY <1>1, <1>3
<1>6. meddled' \/ ChurnOf(fs'.files) = Play(ChurnOf(fs.files), Head(queue))
  <2>1. CASE by = "boot"
    <3>1. Head(queue) = BootOp("format") /\ BootOp("format") \in Entries
      BY <1>1, <2>1 DEF BootOp, Entries, OtherEntries
    <3> QED BY <1>4, <3>1, NoChurnFile, PlayCases
  <2>2. CASE by = "console"
    BY <1>1, <2>2
  <2> QED BY <2>1, <2>2
<1> QED BY <1>1, <1>2, <1>3, <1>4, <1>5, <1>6, HeadAgrees

LEMMA MountAgrees ==
  ASSUME OracleInv, MountOp
  PROVE  OracleInv'
<1>1. PICK by \in {"boot", "console"} :
        queue # <<>> /\ Head(queue) = [by |-> by, op |-> "mount"]
  BY DEF MountOp, Executes
<1>2. fs' = Mount(fs) /\ queue' = Tail(queue) /\ UNCHANGED <<churn, thrown, resets, meddled>>
  BY DEF MountOp
<1>3. TypeInv /\ fs \in Chips /\ thrown \in BOOLEAN /\ meddled \in BOOLEAN
  BY DEF OracleInv, TypeInv
<1>4. fs' \in Chips /\ fs'.files = fs.files
  BY <1>2, <1>3 DEF Mount, Chips
<1>5. Play(ChurnOf(fs.files), Head(queue)) = ChurnOf(fs.files)
  BY <1>1, OpsPlay
<1> QED BY <1>1, <1>2, <1>3, <1>4, <1>5, HeadAgrees

\* A reset leaves a blank chip, and of the entries those made behind it.
LEMMA HandleResetAgrees ==
  ASSUME OracleInv, HandleReset
  PROVE  OracleInv'
<1>1. /\ fs' = Blank(fs) /\ thrown' = FALSE /\ meddled' = FALSE /\ UNCHANGED <<churn, resets>>
  BY DEF HandleReset
<1>2. PICK k \in DOMAIN queue : queue[k] = ResetMsg /\ queue' = SubSeq(queue, k + 1, Len(queue))
  BY DEF HandleReset
<1>3. TypeInv /\ fs \in Chips /\ queue \in Seq(Entries)
  BY DEF OracleInv, TypeInv
<1>4. fs' \in Chips /\ fs'.files = <<>>
  BY <1>1, <1>3, NoChurnFile DEF Blank, Chips
<1>5. /\ queue' \in Seq(Entries)
      /\ After(ChurnOf(fs.files), queue) = After(<<>>, queue')
  BY <1>2, <1>3, ChipChurn, PlayFromReset
<1>6. Played' = Played
  <2>1. Played' = After(ChurnOf(fs'.files), queue')
    BY DEF Played, After, ChurnFiles, ChurnOf
  <2> QED BY <1>4, <1>5, <2>1, NoChurnFile, PlayedIs
<1>7. Played = Files(churn)
  <2>1. Holds(queue, ResetMsg)
    BY <1>2 DEF Holds, Range
  <2> QED BY <2>1 DEF OracleInv, Agrees
<1> QED BY <1>1, <1>3, <1>4, <1>5, <1>6, <1>7 DEF OracleInv, TypeInv, Agrees

-----------------------------------------------------------------------------
(* The theorems that need no room *)

LEMMA OracleNext == OracleInv /\ [Next]_vars => OracleInv'
<1> SUFFICES ASSUME OracleInv, [Next]_vars PROVE OracleInv'
  OBVIOUS
<1>1. CASE GenerateGc
  BY <1>1, GcAgrees
<1>2. CASE GenerateEvent
  BY <1>2, EventAgrees
<1>3. CASE Broadcast
  BY <1>3, BroadcastAgrees
<1>4. CASE Reset
  BY <1>4, ResetAgrees
<1>5. CASE ExecEntry
  BY <1>5, ExecAgrees
<1>6. CASE ConsoleWrite
  BY <1>6, ConsoleWriteAgrees
<1>7. CASE ConsoleDelete
  BY <1>7, ConsoleDeleteAgrees
<1>8. CASE FormatOp
  BY <1>8, FormatAgrees
<1>9. CASE MountOp
  BY <1>9, MountAgrees
<1>10. CASE HandleReset
  BY <1>10, HandleResetAgrees
<1>11. CASE UNCHANGED vars
  BY <1>11 DEF vars, OracleInv, TypeInv, Agrees, Played, ChurnFiles
<1> QED BY <1>1, <1>2, <1>3, <1>4, <1>5, <1>6, <1>7, <1>8, <1>9, <1>10, <1>11
        DEF Next, Execute

\* The invariant behind the theorems on the oracle: the model is sound, below its ceiling
\* and counts its bytes right, and chip and entries together hold its files.
THEOREM OracleInvariance == Spec => []OracleInv
<1>1. Init => OracleInv
  BY OracleInit
<1>2. OracleInv /\ [Next]_vars => OracleInv'
  BY OracleNext
<1> QED BY <1>1, <1>2, PTL DEF Spec

\* Names, sizes and slots keep their widths: the seed in a name wraps with totalWritten.
THEOREM WorkloadTypes == Spec => []TypeOK
<1>1. OracleInv => TypeOK
  <2> SUFFICES ASSUME OracleInv PROVE TypeOK
    OBVIOUS
  <2>1. TypeInv /\ churn \in ChurnStates
    BY DEF OracleInv, TypeInv, ChurnOK
  <2>2. /\ churn.totalWritten \in 0 .. U32 - 1
        /\ DOMAIN churn.slots \subseteq Slots
        /\ \A s \in DOMAIN churn.slots : churn.slots[s].name \in Slots \X (0 .. U32 - 1)
        /\ {churn.pendingSlot, churn.protectedLargeSlot} \subseteq Slots \cup {NoSlot}
    BY <2>1, Fields DEF Names
  <2>3. churn.pending \in Draws \cup {NoWrite, [large |-> TRUE, size |-> FORCED_LARGE_SIZE]}
    BY <2>1, Fields DEF Writes
  <2>4. /\ fs.mounted \in BOOLEAN
        /\ DOMAIN fs.files \cup fs.tracked \subseteq (Slots \X (0 .. U32 - 1)) \cup UserNames
    <3>1. fs.mounted \in BOOLEAN /\ fs.files \in MapsOn(ChipNames) /\ fs.tracked \subseteq ChipNames
      BY <2>1, ChipFields DEF TypeInv
    <3>2. DOMAIN fs.files \subseteq ChipNames
      BY <3>1, MapsAre
    <3> QED BY <3>1, <3>2 DEF ChipNames, Names
  <2>5. {thrown, meddled} \subseteq BOOLEAN /\ resets \in 0 .. MaxResets
    BY <2>1 DEF TypeInv
  <2> QED BY <2>2, <2>3, <2>4, <2>5 DEF TypeOK
<1> QED BY <1>1, OracleInvariance, PTL

\* However long execution trails, whatever writes fail in between, and however often the
\* run is reset: what the chip holds of the churn, once the entries under way are played,
\* is what the model says exists, in name, size and sum (lockstep.js's open loop).
THEOREM FilesystemAgrees == Spec => []AgreesWithOracle
<1>1. OracleInv => AgreesWithOracle
  <2> SUFFICES ASSUME OracleInv, ResetMsg \in Range(queue) \/ ~meddled
               PROVE  Played = Files(churn) /\ churn.liveBytes = Bytes(Played)
    BY DEF AgreesWithOracle
  <2>1. Played = Files(churn)
    BY DEF OracleInv, Agrees, Holds
  <2> QED BY <2>1 DEF OracleInv, Balanced, Bytes
<1> QED BY <1>1, OracleInvariance, PTL

\* next() never asks for more than target and slack, but for one file larger than both.
THEOREM CeilingIsKept == Spec => []CeilingHolds
<1>1. OracleInv => CeilingHolds
  <2> SUFFICES ASSUME OracleInv PROVE CeilingHolds
    OBVIOUS
  <2>1. UnderCeiling(churn)
    BY DEF OracleInv, TypeInv, ChurnOK
  <2>2. CASE churn.liveBytes <= Limit
    BY <2>2 DEF CeilingHolds, Ceiling, Limit
  <2>3. CASE \E s : DOMAIN churn.slots = {s}
    <3>1. PICK s : DOMAIN churn.slots = {s}
      BY <2>3
    <3>2. Cardinality({s}) = 1
      BY FS_Singleton
    <3> QED BY <3>1, <3>2 DEF CeilingHolds
  <2> QED BY <2>1, <2>2, <2>3 DEF UnderCeiling
<1> QED BY <1>1, OracleInvariance, PTL

-----------------------------------------------------------------------------
(* Room on the chip *)

\* What the model may ask for: target and slack, or one file larger than both.
Asked == (0 .. Limit) \cup Sizes

Within(b) == \E n \in Asked : b <= n

\* No two files of a slot, and none of the slot of n but n itself.
Single(f)   == \A x, y \in DOMAIN f : x[1] = y[1] => x = y
Alone(f, n) == \A x \in DOMAIN f : x[1] = n[1] => x = n

\* The entry can be executed on a chip that holds the files f of the churn.
Served(f, e) ==
  e.by = "churn" =>
    /\ e.event.type = "write"  => Within(Bytes(f) + e.event.size) /\ Alone(f, e.event.name)
    /\ e.event.type = "delete" => e.event.name \in DOMAIN f

Serves(P, q) == \A i \in 1 .. Len(q) : Served(P[i - 1], q[i])

LEMMA AskedAre == Asked \subseteq Nat /\ 0 \in Asked /\ Limit \in Asked /\ Sizes \subseteq Nat
BY Constants, WritesAre DEF Asked, Sizes

LEMMA BytesOf ==
  ASSUME NEW f \in FileMaps
  PROVE  Summable(f) /\ Bytes(f) \in Nat
BY FilesSummable, SumType DEF Bytes

\* An entry that can be executed leaves what the model may ask for.
LEMMA ServedStays ==
  ASSUME NEW f \in FileMaps, NEW e \in Entries, Within(Bytes(f)), Served(f, e)
  PROVE  Within(Bytes(Play(f, e)))
<1>0. Summable(f) /\ Bytes(f) \in Nat
  BY BytesOf
<1>1. Within(Bytes(<<>>))
  <2>1. Bytes(<<>>) = 0
    BY NoFiles, SumOfNothing DEF Bytes
  <2> QED BY <2>1, AskedAre DEF Within
<1>2. CASE e.by = "churn"
  <2>1. Play(f, e) = Effect(f, e.event)
    BY <1>2, PlayCases
  <2>2. CASE e.event.type = "write"
    <3>1. PICK n \in Names : n = e.event.name
      BY <1>2, <2>2, EntriesAre, EventsAre
    <3>2. PICK v \in Nat : v = e.event.size
      BY <1>2, <2>2, EntriesAre, EventsAre
    <3> DEFINE g == Put(f, n, v)
    <3>3. Play(f, e) = g
      BY <2>1, <2>2, <3>1, <3>2 DEF Effect
    <3>4. IsPut(g, f, n, v)
      BY PutIsPut
    <3> HIDE DEF g
    <3>5. Bytes(g) = Bytes(f) - (IF n \in DOMAIN f THEN f[n] ELSE 0) + v
      <4>1. DOMAIN g = DOMAIN f \cup {n} /\ g[n] = v /\ \A y \in DOMAIN f \ {n} : g[y] = f[y]
        BY <3>4 DEF IsPut
      <4>2. Summable(f) /\ v \in Nat
        BY <1>0
      <4>3. SumFunction(g) = SumFunction(f) - (IF n \in DOMAIN f THEN f[n] ELSE 0) + v
        BY ONLY <4>1, <4>2, SumWith
      <4> QED BY <4>3 DEF Bytes
    <3>6. Bytes(g) <= Bytes(f) + v
      <4>1. n \in DOMAIN f => f[n] \in Nat
        BY FileMapsAre
      <4> QED BY <1>0, <3>5, <4>1
    <3>7. PICK m \in Asked : Bytes(f) + v <= m
      BY <1>2, <2>2, <3>2 DEF Served, Within
    <3>8. Bytes(g) \in Nat
      BY <3>1, <3>2, <3>3, PlayType, BytesOf
    <3>9. Bytes(g) <= m
      BY <1>0, <3>6, <3>7, <3>8, AskedAre
    <3> QED BY <3>3, <3>9 DEF Within
  <2>3. CASE e.event.type = "delete"
    <3>1. PICK n \in DOMAIN f : n = e.event.name
      BY <1>2, <2>3 DEF Served
    <3> DEFINE g == Restrict(f, DOMAIN f \ {n})
    <3>2. Play(f, e) = g
      BY <2>1, <2>3, <3>1 DEF Effect
    <3>3. IsRest(g, f, n)
      BY RestrictIsRest
    <3> HIDE DEF g
    <3>4. Bytes(g) = Bytes(f) - f[n]
      BY <1>0, <3>3, SumWithout DEF IsRest, Bytes
    <3>5. f[n] \in Nat
      BY FileMapsAre
    <3>6. PICK m \in Asked : Bytes(f) <= m
      BY DEF Within
    <3>7. Bytes(g) <= m
      BY <1>0, <3>4, <3>5, <3>6, AskedAre
    <3> QED BY <3>2, <3>7 DEF Within
  <2>4. CASE e.event.type \notin {"write", "delete"}
    BY <2>1, <2>4 DEF Effect
  <2> QED BY <2>2, <2>3, <2>4
<1>3. CASE e.by # "churn"
  BY <1>1, <1>3, EntriesAre DEF Play
<1> QED BY <1>2, <1>3

LEMMA ServedSingle ==
  ASSUME NEW f \in FileMaps, NEW e \in Entries, Single(f), Served(f, e)
  PROVE  Single(Play(f, e))
<1>1. Single(<<>>)
  BY NoFiles DEF Single
<1>2. CASE e.by = "churn"
  <2>1. Play(f, e) = Effect(f, e.event)
    BY <1>2, PlayCases
  <2>2. CASE e.event.type = "write"
    <3> DEFINE g == Put(f, e.event.name, e.event.size)
    <3>1. Play(f, e) = g /\ Alone(f, e.event.name)
      BY <1>2, <2>1, <2>2 DEF Effect, Served
    <3>0. IsPut(g, f, e.event.name, e.event.size)
      BY PutIsPut
    <3> HIDE DEF g
    <3>2. DOMAIN g = DOMAIN f \cup {e.event.name}
      BY <3>0 DEF IsPut
    <3>3. Single(g)
      BY <3>1, <3>2 DEF Single, Alone
    <3> QED BY <3>1, <3>3
  <2>3. CASE e.event.type = "delete"
    <3> DEFINE g == Restrict(f, DOMAIN f \ {e.event.name})
    <3>1. Play(f, e) = g
      BY <2>1, <2>3 DEF Effect
    <3>2. DOMAIN g = DOMAIN f \ {e.event.name}
      BY RestrictIsRest DEF IsRest
    <3> HIDE DEF g
    <3> QED BY <3>1, <3>2 DEF Single
  <2>4. CASE e.event.type \notin {"write", "delete"}
    BY <2>1, <2>4 DEF Effect
  <2> QED BY <2>2, <2>3, <2>4
<1>3. CASE e.by # "churn"
  BY <1>1, <1>3, EntriesAre DEF Play
<1> QED BY <1>2, <1>3

\* A play that serves goes on with an entry that is served, and is taken up later.
LEMMA ServesLonger ==
  ASSUME NEW q \in Seq(Entries), NEW b \in FileMaps, NEW P, IsPlay(P, b, q), Serves(P, q),
         NEW e \in Entries, Served(P[Len(q)], e)
  PROVE  /\ Len(Append(q, e)) = Len(q) + 1 /\ Append(q, e) \in Seq(Entries)
         /\ \E R : /\ IsPlay(R, b, Append(q, e)) /\ Serves(R, Append(q, e))
                   /\ R[Len(q) + 1] = Play(P[Len(q)], e)
<1>1. PICK R : /\ IsPlay(R, b, Append(q, e)) /\ Extends(R, P, Len(q))
               /\ R[Len(q) + 1] = Play(P[Len(q)], e)
  BY PlayLonger
<1>2. /\ Len(q) \in Nat /\ Len(Append(q, e)) = Len(q) + 1 /\ Append(q, e)[Len(q) + 1] = e
      /\ Append(q, e) \in Seq(Entries)
      /\ \A i \in 1 .. Len(q) : Append(q, e)[i] = q[i]
  OBVIOUS
<1>3. ASSUME NEW i \in 1 .. Len(q) + 1 PROVE Served(R[i - 1], Append(q, e)[i])
  <2>1. i - 1 \in 0 .. Len(q)
    BY <1>2
  <2>2. R[i - 1] = P[i - 1]
    BY <1>1, <2>1 DEF Extends
  <2>3. CASE i = Len(q) + 1
    <3>1. i - 1 = Len(q)
      BY <1>2, <2>3
    <3> QED BY <1>2, <2>2, <2>3, <3>1
  <2>4. CASE i # Len(q) + 1
    <3>1. i \in 1 .. Len(q)
      BY <1>2, <2>4
    <3> QED BY <1>2, <2>2, <3>1 DEF Serves
  <2> QED BY <2>3, <2>4
<1>4. Serves(R, Append(q, e))
  BY <1>2, <1>3 DEF Serves
<1> QED BY <1>1, <1>2, <1>4

LEMMA ServesLater ==
  ASSUME NEW q \in Seq(Entries), NEW b \in FileMaps, NEW P, IsPlay(P, b, q), Serves(P, q),
         NEW k \in 0 .. Len(q)
  PROVE  \E R : /\ IsPlay(R, P[k], SubSeq(q, k + 1, Len(q)))
                /\ Serves(R, SubSeq(q, k + 1, Len(q)))
                /\ R[Len(q) - k] = P[Len(q)]
<1> DEFINE n == Len(q)
           r == SubSeq(q, k + 1, n)
<1>1. Len(r) = n - k /\ \A i \in 1 .. n - k : r[i] = q[i + k]
  BY PlayLater
<1>2. PICK R : IsPlay(R, P[k], r) /\ TakesUp(R, P, k, n)
  BY PlayLater
<1>3. n \in Nat /\ k \in 0 .. n
  OBVIOUS
<1>4. \A i \in 1 .. n : Served(P[i - 1], q[i])
  BY DEF Serves
<1> HIDE DEF n, r
<1>5. ASSUME NEW i \in 1 .. n - k PROVE Served(R[i - 1], r[i])
  <2>1. i - 1 \in 0 .. n - k /\ i + k \in 1 .. n /\ i - 1 + k = i + k - 1
    BY <1>3
  <2>2. R[i - 1] = P[i + k - 1]
    BY <1>2, <2>1 DEF TakesUp
  <2> QED BY <1>1, <1>4, <2>1, <2>2
<1>6. Serves(R, r)
  BY <1>1, <1>5 DEF Serves
<1>7. R[n - k] = P[n]
  <2>1. n - k \in 0 .. n - k /\ n - k + k = n
    BY <1>3
  <2> QED BY <1>2, <2>1 DEF TakesUp
<1> QED BY <1>2, <1>6, <1>7 DEF n, r

-----------------------------------------------------------------------------
(* Every format is followed by its mount *)

IsOp(e, op) == e.by \in {"boot", "console"} /\ e.op = op

Follow(e, f) == /\ e = ResetMsg => IsOp(f, "format")
                /\ IsOp(e, "format") => IsOp(f, "mount")

Leads(e) == e = ResetMsg \/ IsOp(e, "format")

Orderly(q) == \A i \in 1 .. Len(q) : Leads(q[i]) => i < Len(q) /\ Follow(q[i], q[i + 1])

\* What is left of an orderly queue is orderly, and a closed line keeps it so.
LEMMA OrderlyLater ==
  ASSUME NEW q \in Seq(Entries), Orderly(q), NEW k \in 0 .. Len(q)
  PROVE  Orderly(SubSeq(q, k + 1, Len(q)))
<1>1. PICK P : IsPlay(P, <<>>, q)
  BY NoFiles, PlayExists
<1> DEFINE n == Len(q)
           r == SubSeq(q, k + 1, n)
<1>2. Len(r) = n - k /\ \A i \in 1 .. n - k : r[i] = q[i + k]
  BY <1>1, NoFiles, PlayLater
<1>3. n \in Nat /\ k \in 0 .. n
  OBVIOUS
<1>4. \A i \in 1 .. n : Leads(q[i]) => i < n /\ Follow(q[i], q[i + 1])
  BY DEF Orderly
<1> HIDE DEF n, r
<1>5. ASSUME NEW i \in 1 .. n - k, Leads(r[i]) PROVE i < n - k /\ Follow(r[i], r[i + 1])
  <2>1. i + k \in 1 .. n /\ i + k + 1 = i + 1 + k
    BY <1>3
  <2>2. r[i] = q[i + k]
    BY <1>2
  <2>3. i + k < n /\ Follow(q[i + k], q[i + k + 1])
    BY <1>4, <1>5, <2>1, <2>2
  <2>4. i + 1 \in 1 .. n - k /\ i < n - k
    BY <1>3, <2>3
  <2> QED BY <1>2, <2>1, <2>2, <2>3, <2>4
<1> QED BY <1>2, <1>5 DEF Orderly, n, r

LEMMA OrderlyLonger ==
  ASSUME NEW q \in Seq(Entries), Orderly(q), NEW line \in Seq(Entries), Orderly(line)
  PROVE  /\ Orderly(q \o line) /\ Len(q \o line) = Len(q) + Len(line)
         /\ \A i \in 1 .. Len(q) : (q \o line)[i] = q[i]
<1> DEFINE n == Len(q)
           m == Len(line)
           r == q \o line
<1>1. /\ n \in Nat /\ m \in Nat /\ Len(r) = n + m
      /\ \A i \in 1 .. n : r[i] = q[i]
      /\ \A i \in n + 1 .. n + m : r[i] = line[i - n]
  OBVIOUS
<1>2. /\ \A i \in 1 .. n : Leads(q[i]) => i < n /\ Follow(q[i], q[i + 1])
      /\ \A i \in 1 .. m : Leads(line[i]) => i < m /\ Follow(line[i], line[i + 1])
  BY DEF Orderly
<1> HIDE DEF n, m, r
<1>3. ASSUME NEW i \in 1 .. n + m, Leads(r[i]) PROVE i < n + m /\ Follow(r[i], r[i + 1])
  <2>1. CASE i \in 1 .. n
    <3>1. i < n /\ Follow(q[i], q[i + 1])
      BY <1>1, <1>2, <1>3, <2>1
    <3>2. i + 1 \in 1 .. n
      BY <1>1, <2>1, <3>1
    <3> QED BY <1>1, <2>1, <3>1, <3>2
  <2>2. CASE i \notin 1 .. n
    <3>1. i - n \in 1 .. m /\ i \in n + 1 .. n + m
      BY <1>1, <2>2
    <3>2. r[i] = line[i - n]
      BY <1>1, <3>1
    <3>3. i - n < m /\ Follow(line[i - n], line[i - n + 1])
      BY <1>2, <1>3, <3>1, <3>2
    <3>4. i + 1 \in n + 1 .. n + m /\ i + 1 - n = i - n + 1
      BY <1>1, <3>1, <3>3, SMTT(30)
    <3>5. r[i + 1] = line[i - n + 1]
      BY <1>1, <3>4
    <3> QED BY <1>1, <3>1, <3>2, <3>3, <3>5
  <2> QED BY <2>1, <2>2
<1> QED BY <1>1, <1>3 DEF Orderly, n, m, r

\* What is ever appended: closed lines.
LEMMA LinesOrderly ==
  /\ \A e \in Entries : ~Leads(e) => <<e>> \in Seq(Entries) /\ Orderly(<<e>>)
  /\ \A line \in Lines : line \in Seq(Entries) /\ Orderly(line)
  /\ Boot \in Seq(Entries) /\ Orderly(Boot)
  /\ <<ResetMsg>> \o Boot \in Seq(Entries) /\ Orderly(<<ResetMsg>> \o Boot)
<1>1. ASSUME NEW e \in Entries, ~Leads(e) PROVE <<e>> \in Seq(Entries) /\ Orderly(<<e>>)
  BY <1>1 DEF Orderly
<1>2. ASSUME NEW e \in Entries, NEW f \in Entries, IsOp(e, "format"), IsOp(f, "mount")
      PROVE  <<e, f>> \in Seq(Entries) /\ Orderly(<<e, f>>)
  <2>1. e # ResetMsg /\ ~Leads(f)
    BY <1>2 DEF IsOp, Leads, ResetMsg
  <2>2. Follow(e, f)
    BY <1>2, <2>1 DEF Follow
  <2> QED BY <2>1, <2>2 DEF Orderly
<1>3. ASSUME NEW r \in Entries, r = ResetMsg,
             NEW e \in Entries, NEW f \in Entries, IsOp(e, "format"), IsOp(f, "mount"),
             NEW s \in Seq(Entries), Len(s) = 3, s[1] = r, s[2] = e, s[3] = f
      PROVE  Orderly(s)
  <2>1. e # ResetMsg /\ ~Leads(f) /\ ~IsOp(r, "format")
    BY <1>3 DEF IsOp, Leads, ResetMsg
  <2>2. Follow(e, f) /\ Follow(r, e)
    BY <1>3, <2>1 DEF Follow
  <2>3. \A i \in 1 .. 3 : i = 1 \/ i = 2 \/ i = 3
    OBVIOUS
  <2> QED BY <1>3, <2>1, <2>2, <2>3 DEF Orderly
<1>4. /\ {ConsoleOp("write"), ConsoleOp("delete"), ConsoleOp("format"), ConsoleOp("mount"),
          BootOp("format"), BootOp("mount"), ResetMsg} \subseteq Entries
      /\ ~Leads(ConsoleOp("write")) /\ ~Leads(ConsoleOp("delete"))
      /\ IsOp(ConsoleOp("format"), "format") /\ IsOp(ConsoleOp("mount"), "mount")
      /\ IsOp(BootOp("format"), "format") /\ IsOp(BootOp("mount"), "mount")
  BY DEF Entries, OtherEntries, ConsoleOp, BootOp, ResetMsg, Leads, IsOp
<1>5. ASSUME NEW line \in Lines PROVE line \in Seq(Entries) /\ Orderly(line)
  <2>1. \/ line = <<ConsoleOp("write")>> \/ line = <<ConsoleOp("delete")>>
        \/ line = <<ConsoleOp("format"), ConsoleOp("mount")>>
    BY DEF Lines
  <2> QED BY <1>1, <1>2, <1>4, <2>1
<1>6. Boot \in Seq(Entries) /\ Orderly(Boot)
  BY <1>2, <1>4 DEF Boot
<1>7. <<ResetMsg>> \o Boot \in Seq(Entries) /\ Orderly(<<ResetMsg>> \o Boot)
  <2>1. PICK r \in Entries, e \in Entries, f \in Entries :
          r = ResetMsg /\ e = BootOp("format") /\ f = BootOp("mount")
    BY <1>4
  <2>2. PICK s : s = <<ResetMsg>> \o Boot
    OBVIOUS
  <2>3. s = <<r>> \o <<e, f>> /\ <<r>> \in Seq(Entries) /\ <<e, f>> \in Seq(Entries)
    BY <2>1, <2>2 DEF Boot
  <2>4. s \in Seq(Entries) /\ Len(s) = 3 /\ s[1] = r /\ s[2] = e /\ s[3] = f
    BY <2>3
  <2>5. IsOp(e, "format") /\ IsOp(f, "mount")
    BY <1>4, <2>1
  <2>6. Orderly(s)
    BY <1>3, <2>1, <2>4, <2>5
  <2> QED BY <2>2, <2>4, <2>6
<1> QED BY <1>1, <1>5, <1>6, <1>7

-----------------------------------------------------------------------------
(* The invariant behind the theorems about the chip *)

\* P[0] is what the churn would have on the chip if the console kept off it: playing the
\* entries from there serves every one of them, and ends with the files of the model.
StockOf(P, q, files) ==
  /\ P[0] \in FileMaps /\ IsPlay(P, P[0], q) /\ Serves(P, q)
  /\ P[Len(q)] = files
  /\ Within(Bytes(P[0])) /\ Single(P[0])

Stocked(P) == StockOf(P, queue, Files(churn))

\* The files that the chip held before the entry at the head was first tried: a write that
\* was refused may have left its file, none, or a stump.
Tried(old) ==
  /\ old \in MapsOn(ChipNames)
  /\ \/ old = fs.files
     \/ /\ thrown /\ Head(queue).event.type = "write"
        /\ SameBut(old, fs.files, Head(queue).event.name)

\* The chip has no file that the churn would not have, and all of them but for meddling.
Stores(b, files, m) ==
  /\ DOMAIN ChurnOf(files) \subseteq DOMAIN b
  /\ \A x \in DOMAIN ChurnOf(files) : ChurnOf(files)[x] = b[x]
  /\ ~m => ChurnOf(files) = b

\* Only a format takes the filesystem down, and its mount is the next entry.
Ready(q, mounted) == ~mounted => Len(q) > 0 /\ (IsOp(q[1], "format") \/ IsOp(q[1], "mount"))

\* Only an entry of the churn throws out of pump(), and stays at the head.
Stuck == thrown => /\ queue # <<>> /\ Head(queue).by = "churn"
                   /\ Head(queue).event.type \in {"write", "delete"}

RoomInv ==
  /\ \E P, old : Stocked(P) /\ Tried(old) /\ Stores(P[0], old, meddled)
  /\ Orderly(queue) /\ Ready(queue, fs.mounted)
  /\ Stuck /\ NothingThrows

-----------------------------------------------------------------------------
(* A chip without room for a write of the churn is crowded by the console *)

Users(files) == Restrict(files, DOMAIN files \cap UserNames)

LEMMA UsersAre ==
  ASSUME NEW f \in MapsOn(ChipNames)
  PROVE  /\ Users(f) \in MapsOn(ChipNames) /\ DOMAIN Users(f) = DOMAIN f \cap UserNames
         /\ \A x \in DOMAIN f \cap UserNames : Users(f)[x] = f[x]
<1>1. DOMAIN f \cap UserNames \subseteq DOMAIN f
  OBVIOUS
<1> QED BY <1>1, RestrictIn DEF Users

\* The bytes on a chip: those of the churn, and those of the console.
LEMMA ChipBytes ==
  ASSUME NEW f \in MapsOn(ChipNames)
  PROVE  /\ Bytes(f) \in Nat /\ Bytes(ChurnOf(f)) \in Nat /\ Bytes(Users(f)) \in Nat
         /\ Bytes(f) = Bytes(Users(f)) + Bytes(ChurnOf(f))
<1>1. Summable(f) /\ Summable(Users(f))
  BY ChipNamesFinite, UsersAre, MapsSummable
<1>2. ChurnOf(f) \in FileMaps /\ Summable(ChurnOf(f))
  BY ChurnOfType, BytesOf
<1>3. DOMAIN f \cap UserNames \in SUBSET DOMAIN f
  OBVIOUS
<1>4. DOMAIN ChurnOf(f) = DOMAIN f \ (DOMAIN f \cap UserNames)
      /\ \A x \in DOMAIN f \ (DOMAIN f \cap UserNames) : ChurnOf(f)[x] = f[x]
  BY ChurnOfType
<1>5. /\ DOMAIN Users(f) = DOMAIN f \cap UserNames
      /\ \A x \in DOMAIN f \cap UserNames : Users(f)[x] = f[x]
  BY UsersAre
<1>6. SumFunction(f) = SumFunction(Users(f)) + SumFunction(ChurnOf(f))
  <2> DEFINE S == DOMAIN f \cap UserNames
             g == Users(f)
             h == ChurnOf(f)
  <2>1. /\ S \in SUBSET DOMAIN f /\ DOMAIN g = S /\ (\A y \in S : g[y] = f[y])
        /\ DOMAIN h = DOMAIN f \ S /\ \A y \in DOMAIN f \ S : h[y] = f[y]
    BY <1>3, <1>4, <1>5
  <2> HIDE DEF S, g, h
  <2>2. SumFunction(f) = SumFunction(g) + SumFunction(h)
    BY <1>1, <2>1, SumOfParts
  <2> QED BY <2>2 DEF g, h
<1> QED BY <1>1, <1>2, <1>6, SumType DEF Bytes

\* The churn never has two files in a slot, nor makes a second one.
LEMMA ChurnCount ==
  ASSUME NEW b \in FileMaps, Single(b), NEW n \in Names, Alone(b, n)
  PROVE  /\ IsFiniteSet(DOMAIN b \cup {n}) /\ Cardinality(DOMAIN b \cup {n}) \in Nat
         /\ Cardinality(DOMAIN b \cup {n}) <= slotCount
<1> DEFINE D == DOMAIN b \cup {n}
           slot == [x \in D |-> x[1]]
<1>1. D \subseteq Names
  BY FileMapsAre
<1>2. IsFiniteSet(D)
  BY <1>1, NamesFinite, FS_Subset
<1>3. slot \in Injection(D, Slots)
  <2>1. slot \in [D -> Slots]
    BY <1>1 DEF Names
  <2>2. \A x, y \in D : x[1] = y[1] => x = y
    BY DEF Single, Alone
  <2> HIDE DEF D
  <2>3. \A x, y \in D : slot[x] = slot[y] => x = y
    BY <2>2
  <2> QED BY <2>1, <2>3 DEF Injection, IsInjective
<1>4. IsFiniteSet(Slots) /\ Cardinality(Slots) = slotCount
  <2>1. slotCount \in Nat /\ slotCount # 0
    BY ChurnAssumption
  <2> QED BY <2>1, FS_Interval DEF Slots
<1> HIDE DEF D, slot
<1>5. Cardinality(D) <= Cardinality(Slots)
  BY <1>3, <1>4, FS_Injection
<1> QED BY <1>2, <1>4, <1>5, FS_CardinalityType DEF D

LEMMA NeedsAre ==
  /\ \A need \in Needs : need \in Nat
  /\ \A k \in Asked : \E need \in Needs : k <= need
<1>1. Ceiling = Limit /\ Limit \in Nat /\ Limit \in Needs /\ FORCED_LARGE_SIZE \in Needs
  BY Constants DEF Needs, Ceiling, Limit
<1>2. \A d \in Draws : d.size \in Needs /\ d.size \in Nat
  <2>1. Draws \subseteq [large : BOOLEAN, size : Nat \ {0}]
    BY ChurnAssumption
  <2> QED BY <2>1 DEF Needs
<1>3. \A need \in Needs : need \in Nat
  BY <1>1, <1>2, Constants DEF Needs
<1>4. \A w \in Writes : w \in Draws \/ w.size = 0 \/ w.size = FORCED_LARGE_SIZE
  BY DEF Writes, NoWrite
<1>5. ASSUME NEW k \in Asked PROVE \E need \in Needs : k <= need
  <2>1. CASE k \in 0 .. Limit
    BY <1>1, <2>1
  <2>2. CASE k \in Sizes
    <3>1. PICK w \in Writes : k = w.size
      BY <2>2 DEF Sizes
    <3>2. k = 0 \/ k \in Needs
      BY <1>1, <1>2, <1>4, <3>1
    <3>3. CASE k = 0
      BY <1>1, <3>3
    <3>4. CASE k \in Needs
      <4>1. k \in Nat
        BY <1>3, <3>4
      <4>2. k <= k
        BY <4>1
      <4> QED BY <3>4, <4>2
    <3> QED BY <3>2, <3>3, <3>4
  <2> QED BY <2>1, <2>2 DEF Asked
<1> QED BY <1>3, <1>5

LEMMA NoRoomIsCrowded ==
  ASSUME fs \in Chips, NEW b \in FileMaps, Single(b), NEW m, Stores(b, fs.files, m),
         NEW n \in Names, NEW v \in Nat, Alone(b, n), Within(Bytes(b) + v), ~HasRoom(fs, n, v)
  PROVE  Crowded
<1>0. fs.files \in MapsOn(ChipNames) /\ UserStock = Users(fs.files)
  BY ChipFields DEF UserStock, Users
<1> DEFINE f == fs.files
           c == ChurnOf(fs.files)
           u == Users(fs.files)
<1>1. c \in FileMaps /\ DOMAIN c = DOMAIN f \ UserNames /\ DOMAIN u = DOMAIN f \cap UserNames
  BY <1>0, ChurnOfType, UsersAre
<1>2. DOMAIN c \subseteq DOMAIN b /\ \A x \in DOMAIN c : c[x] = b[x]
  BY DEF Stores
<1>3. /\ Bytes(f) \in Nat /\ Bytes(c) \in Nat /\ Bytes(u) \in Nat
      /\ Bytes(f) = Bytes(u) + Bytes(c)
  BY <1>0, ChipBytes
<1>4. Bytes(b) \in Nat /\ Bytes(c) <= Bytes(b)
  <2>1. Summable(c) /\ Summable(b) /\ Bytes(b) \in Nat
    BY <1>1, BytesOf
  <2>2. \A x \in DOMAIN c : c[x] \in Nat
    BY <1>1, FileMapsAre
  <2> HIDE DEF c
  <2>3. \A x \in DOMAIN c : c[x] <= b[x]
    BY <1>2, <2>2
  <2> QED BY <1>2, <2>1, <2>3, SumMonotone DEF Bytes
<1>5. PICK need \in Needs : Bytes(b) + v <= need
  <2>1. PICK k \in Asked : Bytes(b) + v <= k
    BY DEF Within
  <2>2. PICK need \in Needs : k <= need
    BY NeedsAre
  <2> QED BY <1>4, <2>1, <2>2, AskedAre, NeedsAre
<1>6. Capacity \in Nat /\ MaxFiles \in Nat /\ need \in Nat /\ slotCount \in Nat
  BY WorkloadAssumption, NeedsAre, Constants
<1> HIDE DEF f, c, u
<1>7. CASE Bytes(f) + v > Capacity
  <2>1. Bytes(u) + need > Capacity
    BY <1>3, <1>4, <1>5, <1>6, <1>7
  <2> QED BY <1>0, <2>1 DEF Crowded, u
<1>8. CASE Cardinality(DOMAIN f \cup {n}) > MaxFiles
  <2>1. DOMAIN f \cup {n} \subseteq (DOMAIN b \cup {n}) \cup DOMAIN u
    BY <1>1, <1>2
  <2>2. IsFiniteSet(DOMAIN b \cup {n}) /\ Cardinality(DOMAIN b \cup {n}) \in Nat
        /\ Cardinality(DOMAIN b \cup {n}) <= slotCount
    BY ChurnCount
  <2>3. IsFiniteSet(DOMAIN u)
    BY <1>1, ChipNamesFinite, FS_Subset
  <2>4. /\ IsFiniteSet((DOMAIN b \cup {n}) \cup DOMAIN u)
        /\ Cardinality((DOMAIN b \cup {n}) \cup DOMAIN u)
             = Cardinality(DOMAIN b \cup {n}) + Cardinality(DOMAIN u)
               - Cardinality((DOMAIN b \cup {n}) \cap DOMAIN u)
    BY <2>2, <2>3, FS_Union
  <2>5. Cardinality(DOMAIN f \cup {n}) <= Cardinality((DOMAIN b \cup {n}) \cup DOMAIN u)
        /\ Cardinality(DOMAIN f \cup {n}) \in Nat
    BY <2>1, <2>4, FS_Subset, FS_CardinalityType
  <2>6. Cardinality((DOMAIN b \cup {n}) \cap DOMAIN u) \in Nat /\ Cardinality(DOMAIN u) \in Nat
    <3>1. IsFiniteSet((DOMAIN b \cup {n}) \cap DOMAIN u)
      BY <2>3, FS_Subset
    <3> QED BY <2>3, <3>1, FS_CardinalityType
  <2>7. Cardinality(DOMAIN u) + slotCount > MaxFiles
    BY <1>6, <1>8, <2>2, <2>4, <2>5, <2>6
  <2> QED BY <1>0, <2>7 DEF Crowded, u
<1>9. Bytes(f) + v > Capacity \/ Cardinality(DOMAIN f \cup {n}) > MaxFiles
  <2>1. Cardinality(DOMAIN f \cup {n}) \in Nat
    <3>1. DOMAIN f \cup {n} \subseteq ChipNames
      BY <1>0, MapsAre DEF f, ChipNames
    <3> QED BY <3>1, ChipNamesFinite, FS_Subset, FS_CardinalityType
  <2>2. ~(Bytes(f) + v <= Capacity /\ Cardinality(DOMAIN f \cup {n}) <= MaxFiles)
    BY DEF HasRoom, f
  <2> QED BY <1>3, <1>6, <2>1, <2>2
<1> QED BY <1>7, <1>8, <1>9

\* A file of the churn is no matter of the console's.
LEMMA CrowdedStays ==
  ASSUME fs \in Chips, fs' \in Chips, NEW n \in Names, SameBut(fs.files, fs'.files, n)
  PROVE  Crowded' = Crowded
<1> DEFINE f == fs.files
           g == fs'.files
<1>1. f \in MapsOn(ChipNames) /\ g \in MapsOn(ChipNames) /\ n \notin UserNames
  BY ChipFields, UserIsNotChurn
<1>2. DOMAIN g \ {n} = DOMAIN f \ {n} /\ \A x \in DOMAIN f \ {n} : g[x] = f[x]
  BY DEF SameBut
<1>3. /\ Users(f) \in MapsOn(ChipNames) /\ DOMAIN Users(f) = DOMAIN f \cap UserNames
      /\ \A x \in DOMAIN f \cap UserNames : Users(f)[x] = f[x]
      /\ Users(g) \in MapsOn(ChipNames) /\ DOMAIN Users(g) = DOMAIN g \cap UserNames
      /\ \A x \in DOMAIN g \cap UserNames : Users(g)[x] = g[x]
  BY <1>1, UsersAre
<1>4. UserStock = Users(f) /\ UserStock' = Users(g)
  BY DEF UserStock, Users
<1> HIDE DEF f, g
<1>5. DOMAIN Users(f) = DOMAIN Users(g) /\ \A x \in DOMAIN Users(f) : Users(f)[x] = Users(g)[x]
  BY <1>1, <1>2, <1>3
<1>6. UserStock' = UserStock
  BY <1>3, <1>4, <1>5, SameMaps
<1> QED BY <1>6 DEF Crowded

-----------------------------------------------------------------------------
(* Steps *)

\* The ends of a play, and its first entry.
LEMMA StockedIs ==
  ASSUME TypeInv, NEW P, Stocked(P)
  PROVE  /\ queue \in Seq(Entries) /\ Len(queue) \in Nat
         /\ P[0] \in FileMaps /\ IsPlay(P, P[0], queue) /\ Serves(P, queue)
         /\ P[Len(queue)] = Files(churn) /\ P[Len(queue)] \in FileMaps /\ Within(Bytes(P[0]))
         /\ Single(P[0])
         /\ queue # <<>> =>
              /\ 1 \in 1 .. Len(queue) /\ 1 \in 0 .. Len(queue) /\ Head(queue) = queue[1]
              /\ Head(queue) \in Entries /\ P[1] = Play(P[0], Head(queue))
              /\ Served(P[0], Head(queue))
<1>1. queue \in Seq(Entries) /\ Len(queue) \in Nat
  BY DEF TypeInv
<1>2. /\ P[0] \in FileMaps /\ IsPlay(P, P[0], queue) /\ Serves(P, queue)
      /\ P[Len(queue)] = Files(churn) /\ Within(Bytes(P[0])) /\ Single(P[0])
  BY DEF Stocked, StockOf
<1>3. P[Len(queue)] \in FileMaps
  BY <1>1, <1>2 DEF IsPlay
<1>4. ASSUME queue # <<>>
      PROVE  /\ 1 \in 1 .. Len(queue) /\ 1 \in 0 .. Len(queue) /\ Head(queue) = queue[1]
             /\ Head(queue) \in Entries /\ P[1] = Play(P[0], Head(queue))
             /\ Served(P[0], Head(queue))
  <2>1. /\ 1 \in 1 .. Len(queue) /\ 1 \in 0 .. Len(queue) /\ Head(queue) = queue[1]
        /\ Head(queue) \in Entries /\ 1 - 1 = 0
    BY <1>1, <1>4
  <2>2. P[1] = Play(P[1 - 1], queue[1]) /\ Served(P[1 - 1], queue[1])
    BY <1>2, <2>1 DEF IsPlay, Serves
  <2> QED BY <2>1, <2>2
<1> QED BY <1>1, <1>2, <1>3, <1>4

\* One entry more that is served and makes the model's files of the model's files.
LEMMA StockedLonger ==
  ASSUME TypeInv, NEW P, Stocked(P), NEW e \in Entries, Served(Files(churn), e),
         queue' = Append(queue, e), Files(churn') = Play(Files(churn), e)
  PROVE  \E R : Stocked(R)' /\ R[0] = P[0]
<1>1. /\ queue \in Seq(Entries) /\ Len(queue) \in Nat
      /\ P[0] \in FileMaps /\ IsPlay(P, P[0], queue) /\ Serves(P, queue)
      /\ P[Len(queue)] = Files(churn) /\ Within(Bytes(P[0])) /\ Single(P[0])
  BY StockedIs
<1>2. PICK b \in FileMaps : b = P[0]
  BY <1>1
<1>3. Served(P[Len(queue)], e) /\ IsPlay(P, b, queue)
  BY <1>1, <1>2
<1>4. PICK R : /\ IsPlay(R, b, Append(queue, e)) /\ Serves(R, Append(queue, e))
               /\ R[Len(queue) + 1] = Play(P[Len(queue)], e)
  BY <1>1, <1>3, ServesLonger
<1>5. Len(queue') = Len(queue) + 1
  BY <1>1
<1>6. R[0] = b
  BY <1>4 DEF IsPlay
<1>7. R[0] \in FileMaps /\ IsPlay(R, R[0], queue') /\ Serves(R, queue')
      /\ R[Len(queue')] = Files(churn') /\ Within(Bytes(R[0])) /\ Single(R[0])
  BY <1>1, <1>2, <1>4, <1>5, <1>6
<1>8. Stocked(R)'
  BY <1>7 DEF Stocked, StockOf
<1> QED BY <1>2, <1>6, <1>8

\* The head of the queue is done.
LEMMA StockedTail ==
  ASSUME TypeInv, NEW P, Stocked(P), queue # <<>>, queue' = Tail(queue), churn' = churn
  PROVE  \E R : Stocked(R)' /\ R[0] = Play(P[0], Head(queue))
<1>1. /\ queue \in Seq(Entries) /\ Len(queue) \in Nat
      /\ P[0] \in FileMaps /\ IsPlay(P, P[0], queue) /\ Serves(P, queue)
      /\ P[Len(queue)] = Files(churn) /\ Within(Bytes(P[0])) /\ Single(P[0])
  BY StockedIs
<1>2. /\ 1 \in 0 .. Len(queue) /\ Head(queue) \in Entries /\ P[1] = Play(P[0], Head(queue))
      /\ Served(P[0], Head(queue))
  BY StockedIs
<1>3. PICK b \in FileMaps : b = P[0]
  BY <1>1
<1>4. PICK R : /\ IsPlay(R, P[1], SubSeq(queue, 1 + 1, Len(queue)))
               /\ Serves(R, SubSeq(queue, 1 + 1, Len(queue)))
               /\ R[Len(queue) - 1] = P[Len(queue)]
  <2>1. IsPlay(P, b, queue)
    BY <1>1, <1>3
  <2> QED BY <1>1, <1>2, <2>1, ServesLater
<1>5. queue' = SubSeq(queue, 1 + 1, Len(queue)) /\ Len(queue') = Len(queue) - 1
  BY <1>1
<1>6. P[1] \in FileMaps /\ Within(Bytes(P[1])) /\ Single(P[1])
  BY <1>1, <1>2, PlayType, ServedStays, ServedSingle
<1>7. R[0] = P[1]
  BY <1>4 DEF IsPlay
<1>8. R[0] \in FileMaps /\ IsPlay(R, R[0], queue') /\ Serves(R, queue')
      /\ R[Len(queue')] = Files(churn') /\ Within(Bytes(R[0])) /\ Single(R[0])
  BY <1>1, <1>4, <1>5, <1>6, <1>7
<1>9. Stocked(R)'
  BY <1>8 DEF Stocked, StockOf
<1> QED BY <1>2, <1>7, <1>9

\* What the queue keeps.
LEMMA QueueKeeps ==
  ASSUME TypeInv, RoomInv
  PROVE  /\ \A line : line \in Seq(Entries) /\ Orderly(line) /\ queue' = queue \o line
                        /\ fs'.mounted = fs.mounted =>
                        Orderly(queue') /\ Ready(queue', fs'.mounted)
         /\ queue # <<>> /\ queue' = Tail(queue) =>
              /\ Orderly(queue')
              /\ IsOp(Head(queue), "format") => Ready(queue', FALSE)
              /\ ~IsOp(Head(queue), "format") /\ ~IsOp(Head(queue), "mount") => fs.mounted = TRUE
<1>1. /\ queue \in Seq(Entries) /\ Len(queue) \in Nat /\ Orderly(queue) /\ fs \in Chips
      /\ Ready(queue, fs.mounted)
  BY DEF TypeInv, RoomInv
<1>2. fs.mounted \in BOOLEAN
  BY <1>1, ChipFields
<1>3. ASSUME NEW line \in Seq(Entries), Orderly(line), queue' = queue \o line,
             fs'.mounted = fs.mounted
      PROVE  Orderly(queue') /\ Ready(queue', fs'.mounted)
  <2>1. /\ Orderly(queue') /\ Len(queue') = Len(queue) + Len(line)
        /\ \A i \in 1 .. Len(queue) : queue'[i] = queue[i]
    BY <1>1, <1>3, OrderlyLonger
  <2>2. ASSUME ~fs'.mounted
        PROVE  Len(queue') > 0 /\ (IsOp(queue'[1], "format") \/ IsOp(queue'[1], "mount"))
    <3>1. Len(queue) > 0 /\ (IsOp(queue[1], "format") \/ IsOp(queue[1], "mount"))
      BY <1>1, <1>3, <2>2 DEF Ready
    <3>2. 1 \in 1 .. Len(queue) /\ Len(line) \in Nat
      BY <1>1, <1>3, <3>1
    <3>3. queue'[1] = queue[1] /\ Len(queue') > 0
      BY <1>1, <2>1, <3>1, <3>2
    <3> QED BY <3>1, <3>3
  <2> QED BY <2>1, <2>2 DEF Ready
<1>4. ASSUME queue # <<>>, queue' = Tail(queue)
      PROVE  /\ Orderly(queue')
             /\ IsOp(Head(queue), "format") => Ready(queue', FALSE)
             /\ ~IsOp(Head(queue), "format") /\ ~IsOp(Head(queue), "mount") => fs.mounted = TRUE
  <2>1. /\ 1 \in 0 .. Len(queue) /\ 1 \in 1 .. Len(queue) /\ Head(queue) = queue[1]
        /\ queue' = SubSeq(queue, 1 + 1, Len(queue)) /\ Len(queue') = Len(queue) - 1
    BY <1>1, <1>4
  <2>2. Orderly(queue')
    BY <1>1, <2>1, OrderlyLater
  <2>3. ASSUME IsOp(Head(queue), "format") PROVE Ready(queue', FALSE)
    <3>1. 1 < Len(queue) /\ Follow(queue[1], queue[1 + 1])
      BY <1>1, <2>1, <2>3 DEF Orderly, Leads
    <3>2. IsOp(queue[1 + 1], "mount")
      BY <2>1, <2>3, <3>1 DEF Follow
    <3>3. queue'[1] = queue[1 + 1]
      BY <1>1, <1>4, <3>1
    <3> QED BY <1>1, <2>1, <3>1, <3>2, <3>3 DEF Ready
  <2>4. ASSUME ~IsOp(Head(queue), "format"), ~IsOp(Head(queue), "mount") PROVE fs.mounted = TRUE
    BY <1>1, <1>2, <2>1, <2>4 DEF Ready
  <2> QED BY <2>2, <2>3, <2>4
<1> QED BY <1>3, <1>4

\* What the coordinator appends does not change what the head was tried on.
LEMMA HeadStays ==
  ASSUME TypeInv, RoomInv, NEW line \in Seq(Entries), queue' = queue \o line,
         UNCHANGED <<fs, thrown, meddled>>
  PROVE  /\ Stuck' /\ NothingThrows' /\ \A old : Tried(old) => Tried(old)'
         /\ thrown => Head(queue') = Head(queue)
<1>1. queue \in Seq(Entries) /\ Stuck /\ NothingThrows /\ thrown \in BOOLEAN
  BY DEF TypeInv, RoomInv
<1>2. queue # <<>> => queue' # <<>> /\ Head(queue') = Head(queue)
  BY <1>1
<1>3. thrown => queue # <<>>
  BY <1>1 DEF Stuck
<1>4. Crowded' = Crowded
  BY DEF Crowded, UserStock
<1> QED BY <1>1, <1>2, <1>3, <1>4 DEF Stuck, NothingThrows, Tried

\* Nothing has thrown when the head is not an entry of the churn.
LEMMA Calm ==
  ASSUME TypeInv, RoomInv, queue # <<>>, Head(queue).by # "churn"
  PROVE  thrown = FALSE /\ fs.files \in MapsOn(ChipNames) /\ \A old : Tried(old) => old = fs.files
<1>1. thrown \in BOOLEAN /\ Stuck /\ fs \in Chips
  BY DEF TypeInv, RoomInv
<1>2. thrown = FALSE
  BY <1>1 DEF Stuck
<1> QED BY <1>1, <1>2, ChipFields DEF Tried

LEMMA RoomInit == Init => RoomInv
<1> SUFFICES ASSUME Init PROVE RoomInv
  OBVIOUS
<1>1. OracleInv /\ TypeInv
  BY OracleInit DEF OracleInv
<1>2. queue = Boot /\ fs.files = <<>> /\ fs.mounted = FALSE /\ thrown = FALSE /\ churn = Pristine
  BY DEF Init
<1>3. queue \in Seq(Entries) /\ Orderly(queue)
  BY <1>2, LinesOrderly
<1>4. PICK P : IsPlay(P, <<>>, queue) /\ After(<<>>, queue) = P[Len(queue)]
  BY <1>3, NoFiles, PlayExists
<1>5. Serves(P, queue)
  <2>1. \A i \in 1 .. Len(queue) : queue[i].by # "churn"
    BY <1>2 DEF Boot, BootOp
  <2> QED BY <2>1 DEF Serves, Served
<1>6. P[0] = <<>>
  BY <1>4 DEF IsPlay
<1>7. P[Len(queue)] = Files(churn)
  <2>1. <<>> \in Seq(Entries) /\ <<>> \o Boot = Boot
    BY DEF Boot
  <2>2. After(<<>>, <<>> \o Boot) = <<>>
    BY <2>1, NoFiles, BootPlayed
  <2> QED BY <1>2, <1>4, <2>1, <2>2, PristineIs
<1>8. Within(Bytes(<<>>))
  <2>1. Bytes(<<>>) = 0
    BY NoFiles, SumOfNothing DEF Bytes
  <2> QED BY <2>1, AskedAre DEF Within
<1>9. Stocked(P)
  BY <1>4, <1>5, <1>6, <1>7, <1>8, NoFiles DEF Stocked, StockOf, Single
<1>10. Stores(P[0], fs.files, meddled) /\ Tried(fs.files)
  BY <1>2, <1>6, NoChurnFile, NoFiles DEF Stores, Tried
<1>11. Ready(queue, fs.mounted)
  BY <1>2 DEF Ready, Boot, BootOp, IsOp
<1>12. Stuck /\ NothingThrows
  BY <1>2 DEF Stuck, NothingThrows
<1> QED BY <1>2, <1>3, <1>9, <1>10, <1>11, <1>12 DEF RoomInv

\* The coordinator appends an entry that is served.
LEMMA RoomLonger ==
  ASSUME TypeInv, RoomInv, NEW e \in Entries, ~Leads(e), Served(Files(churn), e),
         queue' = Append(queue, e), Files(churn') = Play(Files(churn), e),
         UNCHANGED <<fs, thrown, meddled>>
  PROVE  RoomInv'
<1>1. PICK P, old : Stocked(P) /\ Tried(old) /\ Stores(P[0], old, meddled)
  BY DEF RoomInv
<1>2. PICK R : Stocked(R)' /\ R[0] = P[0]
  BY <1>1, StockedLonger
<1>3. Stores(R[0], old, meddled')
  BY <1>1, <1>2
<1>4. queue \in Seq(Entries)
  BY DEF TypeInv
<1>5. Append(queue, e) = queue \o <<e>> /\ <<e>> \in Seq(Entries)
  BY <1>4
<1>6. Orderly(<<e>>)
  BY LinesOrderly
<1>7. Orderly(queue') /\ Ready(queue', fs'.mounted)
  BY <1>5, <1>6, QueueKeeps
<1>8. Tried(old)' /\ Stuck' /\ NothingThrows'
  BY <1>1, <1>5, HeadStays
<1> QED BY <1>2, <1>3, <1>7, <1>8 DEF RoomInv

LEMMA GcHasRoom ==
  ASSUME TypeInv, RoomInv, GenerateGc
  PROVE  RoomInv'
<1> DEFINE e == ChurnEntry([type |-> "gc"])
<1>1. queue' = Append(queue, e) /\ UNCHANGED <<churn, fs, thrown, meddled>>
  BY DEF GenerateGc
<1>2. e \in Entries /\ e # ResetMsg /\ e.by = "churn" /\ e.event.type = "gc"
  BY DEF ChurnEntry, ResetMsg, Entries, ChurnEntries
<1> HIDE DEF e
<1>3. ~Leads(e) /\ Served(Files(churn), e)
  BY <1>2 DEF Leads, IsOp, Served
<1>4. Files(churn') = Play(Files(churn), e)
  BY <1>1, <1>2, PlayCases DEF Effect
<1> QED BY <1>1, <1>2, <1>3, <1>4, RoomLonger

\* What next() gives can be executed where the model's files are.
LEMMA EventServed ==
  ASSUME NEW c, ChurnOK(c), Balanced(c), NEW o, Follows(o, c)
  PROVE  Served(Files(c), ChurnEntry(o.event))
<1> DEFINE e == o.event
<1>1. Fits(e, c) /\ e \in Events /\ c \in ChurnStates /\ Named(c)
  BY DEF Follows, Fits, ChurnOK
<1>2. /\ DOMAIN Files(c) = {c.slots[s].name : s \in DOMAIN c.slots}
      /\ Files(c) \in FileMaps
  BY <1>1, FilesAre
<1>3. ChurnEntry(e).event = e
  BY DEF ChurnEntry
<1> HIDE DEF e
<1>4. ASSUME e.type = "delete" PROVE e.name \in DOMAIN Files(c)
  BY <1>1, <1>2, <1>4 DEF Fits
<1>5. ASSUME e.type = "write" PROVE Within(Bytes(Files(c)) + e.size)
  <2>1. /\ e.size \in Sizes /\ e.size \in Nat
        /\ DOMAIN c.slots = {} \/ c.liveBytes + e.size <= Limit
    BY <1>1, <1>5, AskedAre DEF Fits
  <2>2. Bytes(Files(c)) = c.liveBytes
    BY DEF Balanced, Bytes
  <2>3. CASE DOMAIN c.slots = {}
    <3>1. DOMAIN Files(c) = {}
      BY <1>2, <2>3
    <3>2. Bytes(Files(c)) = 0
      BY <3>1, SumOfNothing DEF Bytes
    <3>3. e.size \in Asked /\ 0 + e.size <= e.size
      BY <2>1 DEF Asked
    <3> QED BY <3>2, <3>3 DEF Within
  <2>4. CASE c.liveBytes + e.size <= Limit
    BY <2>2, <2>4, AskedAre DEF Within
  <2> QED BY <2>1, <2>3, <2>4
<1>6. ASSUME e.type = "write" PROVE Alone(Files(c), e.name)
  <2> SUFFICES ASSUME NEW s \in DOMAIN c.slots, c.slots[s].name[1] = e.name[1]
               PROVE  c.slots[s].name = e.name
    BY <1>2 DEF Alone
  <2>1. c.slots[s].name[1] = s
    BY <1>1 DEF Named
  <2>2. CASE e.replacing
    <3>1. e.slot \in DOMAIN c.slots /\ e.name = c.slots[e.slot].name
      BY <1>1, <1>6, <2>2 DEF Fits
    <3>2. e.name[1] = e.slot
      BY <1>1, <3>1 DEF Named
    <3> QED BY <2>1, <3>1, <3>2
  <2>3. CASE ~e.replacing
    <3>1. e.slot \notin DOMAIN c.slots /\ e.name[1] = e.slot
      BY <1>1, <1>6, <2>3 DEF Fits
    <3> QED BY <2>1, <3>1
  <2> QED BY <2>2, <2>3
<1> QED BY <1>3, <1>4, <1>5, <1>6 DEF Served, e

LEMMA EventHasRoom ==
  ASSUME OracleInv, RoomInv, GenerateEvent
  PROVE  RoomInv'
<1>1. UNCHANGED <<fs, thrown, meddled>>
  BY DEF GenerateEvent
<1>2. PICK o \in NextEvents(churn) :
        churn' = Apply(o.churn, o.event) /\ queue' = Append(queue, ChurnEntry(o.event))
  BY DEF GenerateEvent
<1>3. TypeInv /\ ChurnOK(churn) /\ Balanced(churn)
  BY DEF OracleInv, TypeInv
<1>4. Follows(o, churn)
  BY <1>3, NextFollows
<1> DEFINE e == ChurnEntry(o.event)
<1>5. Served(Files(churn), e)
  BY <1>3, <1>4, EventServed
<1>6. e \in Entries /\ e # ResetMsg /\ e.by = "churn" /\ e.event = o.event
  <2>1. o.event \in Events
    BY <1>4 DEF Follows, Fits
  <2> QED BY <2>1 DEF ChurnEntry, ResetMsg, Entries, ChurnEntries
<1>7. queue' = Append(queue, e)
  BY <1>2
<1> HIDE DEF e
<1>8. ~Leads(e)
  BY <1>6 DEF Leads, IsOp
<1>9. Files(churn') = Play(Files(churn), e)
  BY <1>2, <1>3, <1>4, <1>6, ApplyFiles, PlayCases
<1> QED BY <1>1, <1>3, <1>5, <1>6, <1>7, <1>8, <1>9, RoomLonger

\* Entries that are not the churn's are always served.
LEMMA StockLonger ==
  ASSUME NEW q \in Seq(Entries), NEW f, NEW P, StockOf(P, q, f), NEW e \in Entries, e.by # "churn"
  PROVE  /\ Append(q, e) \in Seq(Entries)
         /\ \E R : StockOf(R, Append(q, e), Play(f, e)) /\ R[0] = P[0]
<1>1. /\ P[0] \in FileMaps /\ IsPlay(P, P[0], q) /\ Serves(P, q) /\ P[Len(q)] = f
      /\ Within(Bytes(P[0])) /\ Single(P[0])
  BY DEF StockOf
<1>2. PICK b \in FileMaps : b = P[0]
  BY <1>1
<1>3. IsPlay(P, b, q) /\ Served(P[Len(q)], e)
  BY <1>1, <1>2 DEF Served
<1>4. Append(q, e) \in Seq(Entries) /\ Len(Append(q, e)) = Len(q) + 1
  OBVIOUS
<1>5. PICK R : /\ IsPlay(R, b, Append(q, e)) /\ Serves(R, Append(q, e))
               /\ R[Len(q) + 1] = Play(P[Len(q)], e)
  BY <1>1, <1>3, ServesLonger
<1>6. R[0] = b
  BY <1>5 DEF IsPlay
<1>7. StockOf(R, Append(q, e), Play(f, e))
  BY <1>1, <1>2, <1>4, <1>5, <1>6 DEF StockOf
<1> QED BY <1>2, <1>4, <1>6, <1>7

LEMMA BroadcastHasRoom ==
  ASSUME TypeInv, RoomInv, Broadcast
  PROVE  RoomInv'
<1>1. UNCHANGED <<churn, fs, thrown, meddled>>
  BY DEF Broadcast
<1>2. PICK line \in Lines : queue' = queue \o line
  BY DEF Broadcast
<1>3. PICK P, old : Stocked(P) /\ Tried(old) /\ Stores(P[0], old, meddled)
  BY DEF RoomInv
<1>4. line \in Seq(Entries) /\ Orderly(line) /\ queue \in Seq(Entries)
  BY LinesOrderly DEF TypeInv
<1>5. Orderly(queue') /\ Ready(queue', fs'.mounted)
  BY <1>1, <1>2, <1>4, QueueKeeps
<1> DEFINE Ops == {ConsoleOp("write"), ConsoleOp("delete"), ConsoleOp("format"), ConsoleOp("mount")}
           f == Files(churn)
<1>6. \A e \in Ops : e \in Entries /\ e.by # "churn" /\ \A g : Play(g, e) = g
  BY DEF Entries, OtherEntries, ConsoleOp, BootOp, Play
<1>7. (\E e \in Ops : line = <<e>>) \/ (\E e \in Ops, g \in Ops : line = <<e, g>>)
  BY DEF Lines
<1>8. \E R : StockOf(R, queue', f) /\ R[0] = P[0]
  <2>0. StockOf(P, queue, f)
    BY <1>3 DEF Stocked
  <2> HIDE DEF Ops, f
  <2>1. CASE \E e \in Ops : line = <<e>>
    <3>1. PICK e \in Ops : line = <<e>>
      BY <2>1
    <3>2. queue' = Append(queue, e)
      BY <1>2, <1>4, <3>1
    <3> QED BY <1>4, <1>6, <2>0, <3>2, StockLonger
  <2>2. CASE \E e \in Ops, g \in Ops : line = <<e, g>>
    <3>1. PICK e \in Ops, g \in Ops : line = <<e, g>>
      BY <2>2
    <3>2. e \in Entries /\ g \in Entries /\ e.by # "churn" /\ g.by # "churn"
          /\ Play(f, e) = f /\ Play(f, g) = f
      BY <1>6
    <3>3. queue' = Append(Append(queue, e), g)
      BY <1>2, <1>4, <3>1, <3>2
    <3>4. Append(queue, e) \in Seq(Entries) /\ \E R : StockOf(R, Append(queue, e), f) /\ R[0] = P[0]
      BY <1>4, <2>0, <3>2, StockLonger
    <3>5. PICK q \in Seq(Entries) : q = Append(queue, e)
      BY <3>4
    <3>6. PICK R : StockOf(R, q, f) /\ R[0] = P[0]
      BY <3>4, <3>5
    <3>7. PICK S : StockOf(S, Append(q, g), Play(f, g)) /\ S[0] = R[0]
      BY <3>2, <3>6, StockLonger
    <3> QED BY <3>2, <3>3, <3>5, <3>6, <3>7
  <2> QED BY <1>7, <2>1, <2>2
<1>9. PICK R : StockOf(R, queue', f) /\ R[0] = P[0]
  BY <1>8
<1>10. Stocked(R)'
  BY <1>1, <1>9 DEF Stocked
<1>11. Tried(old)' /\ Stuck' /\ NothingThrows' /\ Stores(R[0], old, meddled')
  BY <1>1, <1>2, <1>3, <1>4, <1>9, HeadStays
<1> QED BY <1>5, <1>10, <1>11 DEF RoomInv

LEMMA ResetHasRoom ==
  ASSUME TypeInv, RoomInv, Reset
  PROVE  RoomInv'
<1>1. /\ UNCHANGED <<fs, thrown, meddled>> /\ churn' = Pristine
      /\ queue' = (queue \o <<ResetMsg>>) \o Boot
  BY DEF Reset, Restart
<1>2. PICK P, old : Stocked(P) /\ Tried(old) /\ Stores(P[0], old, meddled)
  BY DEF RoomInv
<1>3. queue \in Seq(Entries)
  BY DEF TypeInv
<1>4. PICK r \in Entries, e \in Entries, g \in Entries :
        r = ResetMsg /\ e = BootOp("format") /\ g = BootOp("mount")
  BY DEF Entries, OtherEntries
<1>5. /\ r.by # "churn" /\ e.by # "churn" /\ g.by # "churn"
      /\ \A f : Play(f, r) = <<>> /\ Play(f, e) = <<>> /\ Play(f, g) = f
  BY <1>4, PlayCases DEF ResetMsg, BootOp
<1>6. queue' = Append(Append(Append(queue, r), e), g)
  <2>1. queue' = (queue \o <<r>>) \o <<e, g>>
    BY <1>1, <1>4 DEF Boot
  <2>2. queue \o <<r>> = Append(queue, r) /\ Append(queue, r) \in Seq(Entries)
    BY <1>3
  <2>3. \A q \in Seq(Entries) : q \o <<e, g>> = Append(Append(q, e), g)
    OBVIOUS
  <2> QED BY <2>1, <2>2, <2>3
<1>7. Orderly(queue') /\ Ready(queue', fs'.mounted) /\ Tried(old)' /\ Stuck' /\ NothingThrows'
  <2>1. PICK line \in Seq(Entries) : line = <<ResetMsg>> \o Boot /\ Orderly(line)
    BY LinesOrderly
  <2>2. queue' = queue \o line
    <3>1. <<ResetMsg>> \in Seq(Entries) /\ Boot \in Seq(Entries)
      BY <1>4, LinesOrderly
    <3> HIDE DEF Boot
    <3>2. (queue \o <<ResetMsg>>) \o Boot = queue \o (<<ResetMsg>> \o Boot)
      BY <1>3, <3>1
    <3> QED BY <1>1, <2>1, <3>2
  <2>3. Orderly(queue') /\ Ready(queue', fs'.mounted)
    BY <1>1, <2>1, <2>2, QueueKeeps
  <2>4. Tried(old)' /\ Stuck' /\ NothingThrows'
    BY <1>1, <1>2, <2>2, HeadStays
  <2> QED BY <2>3, <2>4
<1>8. \E R : StockOf(R, queue', <<>>) /\ R[0] = P[0]
  <2>1. StockOf(P, queue, Files(churn))
    BY <1>2 DEF Stocked
  <2>2. Append(queue, r) \in Seq(Entries) /\ \E R : StockOf(R, Append(queue, r), <<>>) /\ R[0] = P[0]
    <3>1. Play(Files(churn), r) = <<>>
      BY <1>5
    <3> QED BY <1>3, <1>5, <2>1, <3>1, StockLonger
  <2>3. PICK q \in Seq(Entries) : q = Append(queue, r)
    BY <2>2
  <2>4. PICK R : StockOf(R, q, <<>>) /\ R[0] = P[0]
    BY <2>2, <2>3
  <2>5. /\ Append(q, e) \in Seq(Entries)
        /\ \E S : StockOf(S, Append(q, e), Play(<<>>, e)) /\ S[0] = R[0]
    BY <1>5, <2>4, StockLonger
  <2>6. PICK t \in Seq(Entries) : t = Append(q, e)
    BY <2>5
  <2>7. PICK S : StockOf(S, t, <<>>) /\ S[0] = R[0]
    BY <1>5, <2>5, <2>6
  <2>8. PICK T : StockOf(T, Append(t, g), Play(<<>>, g)) /\ T[0] = S[0]
    BY <1>5, <2>7, StockLonger
  <2> QED BY <1>5, <1>6, <2>3, <2>4, <2>6, <2>7, <2>8
<1>9. PICK R : StockOf(R, queue', <<>>) /\ R[0] = P[0]
  BY <1>8
<1>10. Stocked(R)'
  BY <1>1, <1>9, PristineIs DEF Stocked
<1> QED BY <1>1, <1>2, <1>7, <1>9, <1>10 DEF RoomInv

\* What an entry makes of the chip follows what it makes of the files it should hold.
Carries(e, f, g, m, n) ==
  \A b \in FileMaps : Served(b, e) /\ Stores(b, f, m) => Stores(Play(b, e), g, n)

LEMMA RoomHead ==
  ASSUME TypeInv, RoomInv, queue # <<>>, queue' = Tail(queue), churn' = churn,
         fs'.files \in MapsOn(ChipNames),
         \A old : Tried(old) => Carries(Head(queue), old, fs'.files, meddled, meddled'),
         Ready(queue', fs'.mounted), thrown' = FALSE
  PROVE  RoomInv'
<1>1. PICK P, old : Stocked(P) /\ Tried(old) /\ Stores(P[0], old, meddled)
  BY DEF RoomInv
<1>2. P[0] \in FileMaps /\ Served(P[0], Head(queue))
  BY <1>1, StockedIs
<1>3. PICK R : Stocked(R)' /\ R[0] = Play(P[0], Head(queue))
  BY <1>1, StockedTail
<1>4. Stores(R[0], fs'.files, meddled')
  BY <1>1, <1>2, <1>3 DEF Carries
<1>5. Orderly(queue')
  BY QueueKeeps
<1>6. Tried(fs.files)' /\ Stuck' /\ NothingThrows'
  BY DEF Tried, Stuck, NothingThrows
<1> QED BY <1>3, <1>4, <1>5, <1>6 DEF RoomInv

\* A line of the console, or the boot's, is done.
LEMMA RoomLine ==
  ASSUME TypeInv, RoomInv, queue # <<>>, Head(queue).by # "churn", queue' = Tail(queue),
         churn' = churn, thrown' = thrown, fs' \in Chips,
         Carries(Head(queue), fs.files, fs'.files, meddled, meddled'), Ready(queue', fs'.mounted)
  PROVE  RoomInv'
<1>1. thrown = FALSE /\ \A old : Tried(old) => old = fs.files
  BY Calm
<1>2. \A old : Tried(old) => Carries(Head(queue), old, fs'.files, meddled, meddled')
  BY <1>1
<1>3. fs'.files \in MapsOn(ChipNames)
  BY ChipFields
<1> QED BY <1>1, <1>2, <1>3, RoomHead

\* A chip that stores what it should does so after a write, a delete and a format, and
\* with fewer files once the console has meddled.
LEMMA StoresWrite ==
  ASSUME NEW f \in MapsOn(ChipNames), NEW b \in FileMaps, NEW m, Stores(b, f, m),
         NEW n \in Names, NEW v \in Nat
  PROVE  Stores(Put(b, n, v), Put(f, n, v), m)
<1> DEFINE c == ChurnOf(f)
           p == Put(b, n, v)
           q == Put(c, n, v)
<1>1. IsPut(p, b, n, v) /\ IsPut(q, c, n, v)
  BY PutIsPut
<1>2. ChurnOf(Put(f, n, v)) = q
  BY ChurnOfPut
<1>3. DOMAIN c \subseteq DOMAIN b /\ (\A x \in DOMAIN c : c[x] = b[x]) /\ (~m => c = b)
  BY DEF Stores
<1>4. ~m => q = p
  BY <1>3
<1> HIDE DEF p, q, c
<1>5. DOMAIN q \subseteq DOMAIN p /\ \A x \in DOMAIN q : q[x] = p[x]
  BY <1>1, <1>3 DEF IsPut
<1> QED BY <1>2, <1>4, <1>5 DEF Stores, p

LEMMA StoresDelete ==
  ASSUME NEW f \in MapsOn(ChipNames), NEW b \in FileMaps, NEW m, Stores(b, f, m),
         NEW n \in Names
  PROVE  Stores(Restrict(b, DOMAIN b \ {n}), Restrict(f, DOMAIN f \ {n}), m)
<1> DEFINE c == ChurnOf(f)
           p == Restrict(b, DOMAIN b \ {n})
           q == Restrict(c, DOMAIN c \ {n})
<1>1. IsRest(p, b, n) /\ IsRest(q, c, n)
  BY RestrictIsRest
<1>2. ChurnOf(Restrict(f, DOMAIN f \ {n})) = q
  BY ChurnOfRestrict
<1>3. DOMAIN c \subseteq DOMAIN b /\ (\A x \in DOMAIN c : c[x] = b[x]) /\ (~m => c = b)
  BY DEF Stores
<1>4. ~m => q = p
  BY <1>3
<1> HIDE DEF p, q, c
<1>5. DOMAIN q \subseteq DOMAIN p /\ \A x \in DOMAIN q : q[x] = p[x]
  BY <1>1, <1>3 DEF IsRest
<1> QED BY <1>2, <1>4, <1>5 DEF Stores, p

LEMMA StoresFewer ==
  ASSUME NEW f \in MapsOn(ChipNames), NEW b \in FileMaps, NEW m, Stores(b, f, m), NEW n
  PROVE  Stores(b, Restrict(f, DOMAIN f \ {n}), TRUE)
<1> DEFINE g == Restrict(f, DOMAIN f \ {n})
<1>1. /\ g \in MapsOn(ChipNames) /\ DOMAIN g = DOMAIN f \ {n}
      /\ \A x \in DOMAIN f \ {n} : g[x] = f[x]
  <2>1. DOMAIN f \ {n} \subseteq DOMAIN f
    OBVIOUS
  <2> QED BY <2>1, RestrictIn
<1> HIDE DEF g
<1>2. /\ DOMAIN ChurnOf(f) = DOMAIN f \ UserNames /\ DOMAIN ChurnOf(g) = DOMAIN g \ UserNames
      /\ \A x \in DOMAIN f \ UserNames : ChurnOf(f)[x] = f[x]
      /\ \A x \in DOMAIN g \ UserNames : ChurnOf(g)[x] = g[x]
  BY <1>1, ChurnOfType
<1>3. /\ DOMAIN ChurnOf(f) \subseteq DOMAIN b
      /\ \A x \in DOMAIN ChurnOf(f) : ChurnOf(f)[x] = b[x]
  BY DEF Stores
<1>4. /\ DOMAIN ChurnOf(g) \subseteq DOMAIN b
      /\ \A x \in DOMAIN ChurnOf(g) : ChurnOf(g)[x] = b[x]
  BY <1>1, <1>2, <1>3
<1> QED BY <1>4 DEF Stores, g

LEMMA StoresSame ==
  ASSUME NEW f \in MapsOn(ChipNames), NEW g \in MapsOn(ChipNames), NEW b, NEW m,
         NEW u \in UserNames, SameBut(f, g, u), Stores(b, f, m)
  PROVE  Stores(b, g, m)
<1>1. ChurnOf(g) = ChurnOf(f)
  BY UserFileOnly
<1> QED BY <1>1 DEF Stores

LEMMA StoresNone ==
  \A b : Stores(b, <<>>, TRUE) /\ \A m : Stores(<<>>, <<>>, m)
BY NoChurnFile, NoFiles DEF Stores

\* A write of the churn that was tried in vain is done over what it then left.
LEMMA ExecWrite ==
  ASSUME TypeInv, RoomInv, ExecEntry, Head(queue).event.type = "write", fs.mounted = TRUE
  PROVE  RoomInv'
<1> DEFINE e == Head(queue)
<1>1. queue # <<>> /\ e.by = "churn" /\ UNCHANGED <<churn, meddled>>
  BY DEF ExecEntry
<1>2. queue \in Seq(Entries) /\ fs \in Chips /\ thrown \in BOOLEAN /\ meddled \in BOOLEAN
  BY DEF TypeInv
<1>3. fs.files \in MapsOn(ChipNames) /\ e \in Entries
  BY <1>1, <1>2, ChipFields, Shorter
<1>4. PICK P, old : Stocked(P) /\ Tried(old) /\ Stores(P[0], old, meddled)
  BY DEF RoomInv
<1>5. P[0] \in FileMaps /\ Served(P[0], e) /\ Single(P[0])
  BY <1>1, <1>4, StockedIs
<1>6. Orderly(queue) /\ Ready(queue, fs.mounted) /\ Stuck /\ NothingThrows
  BY DEF RoomInv
<1>7. PICK out \in WriteOutcomes(fs, e.event.name, e.event.size) :
        fs' = out.fs /\ thrown' = ~out.ok /\ queue' = IF out.ok THEN Tail(queue) ELSE queue
  BY DEF ExecEntry
<1>8. PICK n \in Names : n = e.event.name
  BY <1>1, <1>3, EntriesAre, EventsAre
<1>9. PICK v \in Nat : v = e.event.size
  BY <1>1, <1>3, EntriesAre, EventsAre
<1>10. n \in ChipNames /\ out \in WriteOutcomes(fs, n, v)
  BY <1>7, <1>8, <1>9 DEF ChipNames
<1>11. /\ out.fs \in Chips /\ out.ok \in BOOLEAN /\ out.fs.mounted = fs.mounted
       /\ SameBut(fs.files, out.fs.files, n)
       /\ out.ok => out.fs.files = Put(fs.files, n, v)
       /\ (fs.mounted /\ HasRoom(fs, n, v)) => out.ok
  BY <1>2, <1>10, WriteOutcome
<1>12. fs' \in Chips /\ fs'.files \in MapsOn(ChipNames) /\ fs'.mounted = TRUE
  BY <1>7, <1>11, ChipFields
<1>13. \A x : Tried(x) => x \in MapsOn(ChipNames) /\ SameBut(x, fs.files, n)
  BY <1>8 DEF Tried, SameBut
<1>14. Play(P[0], e) = Effect(P[0], e.event) /\ \A b : Play(b, e) = Put(b, n, v)
  BY <1>1, <1>3, <1>8, <1>9, PlayCases DEF Effect
<1>15. CASE out.ok
  <2>1. queue' = Tail(queue) /\ thrown' = FALSE /\ fs'.files = Put(fs.files, n, v)
    BY <1>7, <1>11, <1>15
  <2>2. ASSUME NEW x, Tried(x) PROVE Carries(e, x, fs'.files, meddled, meddled')
    <3> SUFFICES ASSUME NEW b \in FileMaps, Stores(b, x, meddled)
                 PROVE  Stores(Put(b, n, v), fs'.files, meddled')
      BY <1>14 DEF Carries
    <3>1. x \in MapsOn(ChipNames) /\ SameBut(x, fs.files, n)
      BY <1>13, <2>2
    <3>2. PICK m : m = meddled
      OBVIOUS
    <3>3. Stores(Put(b, n, v), Put(x, n, v), m)
      BY <3>1, <3>2, StoresWrite
    <3>4. ChurnOf(Put(fs.files, n, v)) = ChurnOf(Put(x, n, v))
      BY <1>3, <3>1, ChurnOfPut, PutForgets
    <3>5. Stores(Put(b, n, v), Put(fs.files, n, v), m)
      BY <3>3, <3>4 DEF Stores
    <3> QED BY <1>1, <2>1, <3>2, <3>5
  <2>3. Ready(queue', fs'.mounted)
    BY <1>12 DEF Ready
  <2> QED BY <1>1, <1>12, <2>1, <2>2, <2>3, RoomHead
<1>16. CASE ~out.ok
  <2>1. queue' = queue /\ thrown' = TRUE
    BY <1>7, <1>11, <1>16
  <2>2. Tried(old)'
    <3>1. SameBut(old, fs'.files, n)
      <4>1. SameBut(old, fs.files, n) /\ SameBut(fs.files, fs'.files, n)
        BY <1>4, <1>7, <1>11, <1>13
      <4> QED BY <4>1 DEF SameBut
    <3>2. old \in MapsOn(ChipNames)
      BY <1>4 DEF Tried
    <3> QED BY <1>8, <2>1, <3>1, <3>2 DEF Tried
  <2>3. Stocked(P)'
    BY <1>1, <1>4, <2>1 DEF Stocked
  <2>4. Crowded' = Crowded
    BY <1>2, <1>7, <1>11, <1>12, CrowdedStays
  <2>5. meddled \/ Crowded
    <3>1. CASE thrown
      BY <1>6, <3>1 DEF NothingThrows
    <3>2. CASE ~thrown
      <4>1. Stores(P[0], fs.files, meddled)
        BY <1>4, <3>2 DEF Tried
      <4>2. Alone(P[0], n) /\ Within(Bytes(P[0]) + v)
        BY <1>1, <1>5, <1>8, <1>9 DEF Served
      <4>3. ~HasRoom(fs, n, v)
        BY <1>11, <1>16
      <4>4. PICK b \in FileMaps : b = P[0]
        BY <1>5
      <4>5. PICK m : m = meddled
        OBVIOUS
      <4>6. Crowded
        BY <1>2, <1>5, <4>1, <4>2, <4>3, <4>4, <4>5, NoRoomIsCrowded
      <4> QED BY <4>6
    <3> QED BY <3>1, <3>2
  <2>6. Stuck' /\ NothingThrows'
    BY <1>1, <2>1, <2>4, <2>5 DEF Stuck, NothingThrows
  <2>7. Orderly(queue') /\ Ready(queue', fs'.mounted) /\ Stores(P[0], old, meddled')
    BY <1>1, <1>4, <1>6, <1>12, <2>1 DEF Ready
  <2> QED BY <2>2, <2>3, <2>6, <2>7 DEF RoomInv
<1> QED BY <1>11, <1>15, <1>16

\* A delete finds its file unless the console has taken it.
LEMMA ExecDelete ==
  ASSUME TypeInv, RoomInv, ExecEntry, Head(queue).event.type = "delete", fs.mounted = TRUE
  PROVE  RoomInv'
<1> DEFINE e == Head(queue)
<1>1. queue # <<>> /\ e.by = "churn" /\ UNCHANGED <<churn, meddled>>
  BY DEF ExecEntry
<1>2. queue \in Seq(Entries) /\ fs \in Chips /\ thrown \in BOOLEAN /\ meddled \in BOOLEAN
  BY DEF TypeInv
<1>3. fs.files \in MapsOn(ChipNames) /\ e \in Entries
  BY <1>1, <1>2, ChipFields, Shorter
<1>4. PICK P, old : Stocked(P) /\ Tried(old) /\ Stores(P[0], old, meddled)
  BY DEF RoomInv
<1>5. P[0] \in FileMaps /\ Served(P[0], e)
  BY <1>1, <1>4, StockedIs
<1>6. Orderly(queue) /\ Ready(queue, fs.mounted)
  BY DEF RoomInv
<1>7. \A x : Tried(x) => x = fs.files
  BY DEF Tried
<1>8. PICK out \in RemoveOutcomes(fs, e.event.name) :
        fs' = out.fs /\ thrown' = ~out.ok /\ queue' = IF out.ok THEN Tail(queue) ELSE queue
  BY DEF ExecEntry
<1>9. PICK n \in Names : n = e.event.name
  BY <1>1, <1>3, EntriesAre, EventsAre
<1>10. n \in ChipNames /\ out \in RemoveOutcomes(fs, n)
  BY <1>8, <1>9 DEF ChipNames
<1>11. /\ out.fs \in Chips /\ out.fs.mounted = fs.mounted
       /\ SameBut(fs.files, out.fs.files, n)
       /\ n \in DOMAIN fs.files =>
             out.ok = TRUE /\ out.fs.files = Restrict(fs.files, DOMAIN fs.files \ {n})
       /\ n \notin DOMAIN fs.files => out.ok = FALSE /\ out.fs = fs
  <2>1. out.fs \in Chips /\ out.fs.mounted = fs.mounted /\ SameBut(fs.files, out.fs.files, n)
    BY <1>2, <1>10, RemoveKeeps
  <2>2. n \in DOMAIN fs.files =>
          out.ok = TRUE /\ out.fs.files = Restrict(fs.files, DOMAIN fs.files \ {n})
    BY <1>2, <1>10, RemoveOutcome, ZenonT(60)
  <2>3. n \notin DOMAIN fs.files => out.ok = FALSE /\ out.fs = fs
    BY <1>2, <1>10, RemoveOutcome
  <2> QED BY <2>1, <2>2, <2>3
<1>12. \A b : Play(b, e) = Restrict(b, DOMAIN b \ {n})
  BY <1>1, <1>3, <1>9, PlayCases DEF Effect
<1>13. CASE n \in DOMAIN fs.files
  <2>1. /\ queue' = Tail(queue) /\ thrown' = FALSE /\ fs' = out.fs
        /\ fs'.files = Restrict(fs.files, DOMAIN fs.files \ {n})
    BY <1>8, <1>11, <1>13
  <2>2. fs'.files \in MapsOn(ChipNames) /\ fs'.mounted = TRUE
    BY <1>11, <2>1, ChipFields
  <2>3. Carries(e, fs.files, fs'.files, meddled, meddled')
    <3> SUFFICES ASSUME NEW b \in FileMaps, Stores(b, fs.files, meddled)
                 PROVE  Stores(Restrict(b, DOMAIN b \ {n}), fs'.files, meddled')
      BY <1>12 DEF Carries
    <3>1. PICK m : m = meddled
      OBVIOUS
    <3>2. Stores(Restrict(b, DOMAIN b \ {n}), Restrict(fs.files, DOMAIN fs.files \ {n}), m)
      BY <1>3, <3>1, StoresDelete
    <3> QED BY <1>1, <2>1, <3>1, <3>2
  <2>4. Ready(queue', fs'.mounted)
    BY <2>2 DEF Ready
  <2>5. \A x : Tried(x) => Carries(e, x, fs'.files, meddled, meddled')
    BY <1>7, <2>3
  <2> QED BY <1>1, <2>1, <2>2, <2>4, <2>5, RoomHead
<1>14. CASE n \notin DOMAIN fs.files
  <2>1. queue' = queue /\ fs' = fs /\ thrown' = TRUE
    BY <1>8, <1>11, <1>14
  <2>2. Stores(P[0], fs.files, meddled)
    BY <1>4, <1>7
  <2>3. meddled = TRUE
    <3> SUFFICES ASSUME ~meddled PROVE FALSE
      BY <1>2
    <3>1. ChurnOf(fs.files) = P[0]
      BY <2>2 DEF Stores
    <3>2. n \in DOMAIN P[0]
      BY <1>1, <1>5, <1>9 DEF Served
    <3>3. DOMAIN ChurnOf(fs.files) \subseteq DOMAIN fs.files
      BY <1>3, ChurnOfType
    <3> QED BY <1>14, <3>1, <3>2, <3>3
  <2>4. Stocked(P)' /\ Tried(fs.files)' /\ Stores(P[0], fs.files, meddled)'
    <3>1. Stocked(P)'
      BY <1>1, <1>4, <2>1 DEF Stocked
    <3>2. Tried(fs.files)'
      BY <1>3, <2>1 DEF Tried
    <3> QED BY <1>1, <2>1, <2>2, <3>1, <3>2
  <2>5. Stuck' /\ NothingThrows'
    BY <1>1, <2>1, <2>3 DEF Stuck, NothingThrows
  <2> QED BY <1>6, <2>1, <2>4, <2>5 DEF RoomInv
<1> QED BY <1>13, <1>14

LEMMA ExecHasRoom ==
  ASSUME TypeInv, RoomInv, ExecEntry
  PROVE  RoomInv' /\ fs.mounted = TRUE /\ fs'.mounted = TRUE
<1> DEFINE e == Head(queue)
<1>1. queue # <<>> /\ e.by = "churn" /\ UNCHANGED <<churn, meddled>>
  BY DEF ExecEntry
<1>2. /\ queue \in Seq(Entries) /\ fs \in Chips /\ e \in Entries
      /\ fs.mounted \in BOOLEAN /\ fs.files \in MapsOn(ChipNames)
  BY <1>1, ChipFields, Shorter DEF TypeInv
<1>3. ~IsOp(e, "format") /\ ~IsOp(e, "mount") /\ Ready(queue, fs.mounted)
  BY <1>1 DEF IsOp, RoomInv
<1>4. fs.mounted = TRUE
  <2>1. queue[1] = e
    BY <1>1, <1>2
  <2> QED BY <1>2, <1>3, <2>1 DEF Ready
<1>5. CASE e.event.type = "write"
  <2>1. PICK out \in WriteOutcomes(fs, e.event.name, e.event.size) : fs' = out.fs
    BY <1>5 DEF ExecEntry
  <2>2. PICK n \in ChipNames : n = e.event.name
    BY <1>1, <1>2, <1>5, EntriesAre, EventsAre DEF ChipNames
  <2>3. PICK v \in Nat : v = e.event.size
    BY <1>1, <1>2, <1>5, EntriesAre, EventsAre
  <2>4. out \in WriteOutcomes(fs, n, v)
    BY <2>1, <2>2, <2>3
  <2>5. fs'.mounted = TRUE
    BY <1>2, <1>4, <2>1, <2>4, WriteOutcome
  <2> QED BY <1>4, <1>5, <2>5, ExecWrite
<1>6. CASE e.event.type = "delete"
  <2>1. PICK out \in RemoveOutcomes(fs, e.event.name) : fs' = out.fs
    BY <1>6 DEF ExecEntry
  <2>2. PICK n \in ChipNames : n = e.event.name
    BY <1>1, <1>2, <1>6, EntriesAre, EventsAre DEF ChipNames
  <2>3. out \in RemoveOutcomes(fs, n)
    BY <2>1, <2>2
  <2>4. fs'.mounted = TRUE
    BY <1>2, <1>4, <2>1, <2>3, RemoveKeeps
  <2> QED BY <1>4, <1>6, <2>4, ExecDelete
<1>7. CASE e.event.type \notin {"write", "delete"}
  <2>0. PICK out \in {[fs |-> fs, ok |-> TRUE]} :
          fs' = out.fs /\ thrown' = ~out.ok /\ queue' = IF out.ok THEN Tail(queue) ELSE queue
    BY <1>7 DEF ExecEntry
  <2>1. fs' = fs /\ thrown' = FALSE /\ queue' = Tail(queue)
    <3>1. out.fs = fs /\ out.ok = TRUE
      OBVIOUS
    <3> QED BY <2>0, <3>1
  <2>2. \A b : Play(b, e) = b
    BY <1>1, <1>2, <1>7, PlayCases DEF Effect
  <2>3. \A x : Tried(x) => x = fs.files
    BY <1>7 DEF Tried
  <2>4. \A x : Tried(x) => Carries(e, x, fs'.files, meddled, meddled')
    BY <1>1, <2>1, <2>2, <2>3 DEF Carries
  <2>5. Ready(queue', fs'.mounted) /\ fs'.files \in MapsOn(ChipNames)
    BY <1>2, <1>4, <2>1 DEF Ready
  <2>6. RoomInv'
    BY <1>1, <2>1, <2>4, <2>5, RoomHead
  <2> QED BY <1>4, <2>1, <2>6
<1> QED BY <1>5, <1>6, <1>7

LEMMA ConsoleWriteHasRoom ==
  ASSUME TypeInv, RoomInv, ConsoleWrite
  PROVE  RoomInv' /\ fs.mounted = TRUE /\ fs'.mounted = TRUE
<1>1. /\ queue # <<>> /\ Head(queue) = ConsoleOp("write") /\ queue' = Tail(queue)
      /\ UNCHANGED <<churn, thrown, meddled>>
  BY DEF ConsoleWrite, Executes
<1>2. PICK name \in FreshNames(fs), size \in UserSizes :
        \E out \in WriteOutcomes(fs, name, size) : fs' = out.fs
  BY DEF ConsoleWrite
<1>a. PICK out \in WriteOutcomes(fs, name, size) : fs' = out.fs
  BY <1>2
<1>3. fs \in Chips /\ name \in UserNames /\ name \in ChipNames /\ size \in Nat
  BY WorkloadAssumption DEF TypeInv, ChipNames, FreshNames
<1>4. /\ fs' \in Chips /\ SameBut(fs.files, fs'.files, name) /\ fs'.mounted = fs.mounted
  BY <1>a, <1>3, WriteOutcome
<1>6. fs.mounted = TRUE
  <2>1. ~IsOp(Head(queue), "format") /\ ~IsOp(Head(queue), "mount")
    BY <1>1 DEF IsOp, ConsoleOp
  <2> QED BY <1>1, <2>1, QueueKeeps
<1>7. Carries(Head(queue), fs.files, fs'.files, meddled, meddled')
  <2> SUFFICES ASSUME NEW b \in FileMaps, Stores(b, fs.files, meddled)
               PROVE  Stores(Play(b, Head(queue)), fs'.files, meddled')
    BY DEF Carries
  <2>1. Play(b, Head(queue)) = b
    BY <1>1, OpsPlay
  <2>2. PICK m : m = meddled
    OBVIOUS
  <2>3. Stores(b, fs'.files, m)
    <3>1. fs.files \in MapsOn(ChipNames) /\ fs'.files \in MapsOn(ChipNames)
      BY <1>3, <1>4, ChipFields
    <3> QED BY <1>3, <1>4, <2>2, <3>1, StoresSame
  <2> QED BY <1>1, <2>1, <2>2, <2>3
<1>8. Ready(queue', fs'.mounted) /\ Head(queue).by # "churn"
  BY <1>1, <1>4, <1>6 DEF Ready, ConsoleOp
<1> QED BY <1>1, <1>4, <1>6, <1>7, <1>8, RoomLine

LEMMA ConsoleDeleteHasRoom ==
  ASSUME TypeInv, RoomInv, ConsoleDelete
  PROVE  RoomInv' /\ fs.mounted = TRUE
<1>1. /\ queue # <<>> /\ Head(queue) = ConsoleOp("delete") /\ queue' = Tail(queue)
      /\ UNCHANGED <<churn, thrown>> /\ Head(queue).by # "churn"
  BY DEF ConsoleDelete, Executes, ConsoleOp
<1>2. fs \in Chips /\ fs.files \in MapsOn(ChipNames) /\ meddled \in BOOLEAN
  BY ChipFields DEF TypeInv, RoomInv
<1>3. fs.mounted = TRUE
  <2>1. ~IsOp(Head(queue), "format") /\ ~IsOp(Head(queue), "mount")
    BY <1>1 DEF IsOp, ConsoleOp
  <2> QED BY <1>1, <2>1, QueueKeeps
<1>4. \A b : Play(b, Head(queue)) = b
  BY <1>1, OpsPlay
<1>5. CASE UNCHANGED <<fs, meddled>>
  <2>1. Carries(Head(queue), fs.files, fs'.files, meddled, meddled')
    BY <1>4, <1>5 DEF Carries
  <2>2. Ready(queue', fs'.mounted) /\ fs' \in Chips
    BY <1>2, <1>3, <1>5 DEF Ready
  <2> QED BY <1>1, <1>3, <2>1, <2>2, RoomLine
<1>6. CASE \E name \in fs.tracked :
             /\ \E out \in RemoveOutcomes(fs, name) : fs' = out.fs
             /\ meddled' = (meddled \/ name \notin UserNames)
  <2>0. PICK name \in fs.tracked :
          /\ \E out \in RemoveOutcomes(fs, name) : fs' = out.fs
          /\ meddled' = (meddled \/ name \notin UserNames)
    BY <1>6
  <2>1. PICK out \in RemoveOutcomes(fs, name) : fs' = out.fs
    BY <2>0
  <2>2. name \in ChipNames
    BY <1>2, ChipFields
  <2>3. /\ fs' \in Chips /\ SameBut(fs.files, fs'.files, name) /\ fs'.mounted = fs.mounted
    BY <1>2, <2>1, <2>2, RemoveOutcome, ZenonT(60)
  <2>4. fs' = fs \/ fs'.files = Restrict(fs.files, DOMAIN fs.files \ {name})
    <3>1. CASE name \in DOMAIN fs.files
      BY <1>2, <2>1, <2>2, <3>1, RemoveOutcome, ZenonT(60)
    <3>2. CASE name \notin DOMAIN fs.files
      BY <1>2, <2>1, <2>2, <3>2, RemoveOutcome
    <3> QED BY <3>1, <3>2
  <2>6. Carries(Head(queue), fs.files, fs'.files, meddled, meddled')
    <3> SUFFICES ASSUME NEW b \in FileMaps, Stores(b, fs.files, meddled)
                 PROVE  Stores(b, fs'.files, meddled')
      BY <1>4 DEF Carries
    <3>1. PICK m : m = meddled
      OBVIOUS
    <3>2. CASE name \in UserNames
      <4>1. fs'.files \in MapsOn(ChipNames) /\ SameBut(fs.files, fs'.files, name)
        BY <2>3, ChipFields
      <4>2. Stores(b, fs'.files, m)
        BY <1>2, <3>1, <3>2, <4>1, StoresSame
      <4>3. ~m \/ meddled'
        BY <2>0, <3>1
      <4>4. meddled' => m
        BY <1>2, <2>0, <3>1, <3>2
      <4> QED BY <4>2, <4>4, <4>3 DEF Stores
    <3>3. CASE name \notin UserNames
      <4>1. meddled'
        BY <2>0, <3>3
      <4>2. CASE fs' = fs
        BY <4>1, <4>2 DEF Stores
      <4>3. CASE fs'.files = Restrict(fs.files, DOMAIN fs.files \ {name})
        <5>1. Stores(b, Restrict(fs.files, DOMAIN fs.files \ {name}), TRUE)
          BY <1>2, <3>1, StoresFewer
        <5> QED BY <4>1, <4>3, <5>1 DEF Stores
      <4> QED BY <2>4, <4>2, <4>3
    <3> QED BY <3>2, <3>3
  <2>7. Ready(queue', fs'.mounted)
    BY <1>3, <2>3 DEF Ready
  <2> QED BY <1>1, <1>3, <2>3, <2>6, <2>7, RoomLine
<1> QED BY <1>5, <1>6 DEF ConsoleDelete

LEMMA FormatHasRoom ==
  ASSUME TypeInv, RoomInv, FormatOp
  PROVE  RoomInv'
<1>1. PICK by \in {"boot", "console"} :
        /\ queue # <<>> /\ Head(queue) = [by |-> by, op |-> "format"]
        /\ meddled' = (meddled \/ by = "console")
  BY DEF FormatOp, Executes
<1>2. /\ fs' = Format(fs) /\ queue' = Tail(queue) /\ UNCHANGED <<churn, thrown>>
      /\ Head(queue).by # "churn"
  BY <1>1 DEF FormatOp
<1>3. fs'.files = <<>> /\ fs'.mounted = FALSE /\ fs' \in Chips
  BY <1>2, NoChurnFile DEF Format, Chips
<1>4. Ready(queue', fs'.mounted)
  <2>1. IsOp(Head(queue), "format")
    BY <1>1 DEF IsOp
  <2> QED BY <1>1, <1>2, <1>3, <2>1, QueueKeeps
<1>5. Carries(Head(queue), fs.files, fs'.files, meddled, meddled')
  <2> SUFFICES ASSUME NEW b \in FileMaps PROVE Stores(Play(b, Head(queue)), <<>>, meddled')
    BY <1>3 DEF Carries
  <2>1. CASE by = "boot"
    <3>1. Head(queue) = BootOp("format") /\ BootOp("format") \in Entries
      BY <1>1, <2>1 DEF BootOp, Entries, OtherEntries
    <3>2. Play(b, Head(queue)) = <<>>
      BY <3>1, PlayCases
    <3>3. PICK m : m = meddled'
      OBVIOUS
    <3>4. Stores(<<>>, <<>>, m)
      BY StoresNone
    <3> QED BY <3>2, <3>3, <3>4
  <2>2. CASE by = "console"
    <3>1. meddled'
      BY <1>1, <2>2
    <3>2. Stores(Play(b, Head(queue)), <<>>, TRUE)
      BY StoresNone
    <3> QED BY <3>1, <3>2 DEF Stores
  <2> QED BY <2>1, <2>2
<1> QED BY <1>1, <1>2, <1>3, <1>4, <1>5, RoomLine

LEMMA MountHasRoom ==
  ASSUME TypeInv, RoomInv, MountOp
  PROVE  RoomInv'
<1>1. PICK by \in {"boot", "console"} :
        queue # <<>> /\ Head(queue) = [by |-> by, op |-> "mount"]
  BY DEF MountOp, Executes
<1>2. /\ fs' = Mount(fs) /\ queue' = Tail(queue) /\ UNCHANGED <<churn, thrown, meddled>>
      /\ Head(queue).by # "churn" /\ fs \in Chips
  BY <1>1 DEF MountOp, TypeInv
<1>3. fs'.files = fs.files /\ fs'.mounted = TRUE /\ fs' \in Chips
  BY <1>2 DEF Mount, Chips
<1>4. Carries(Head(queue), fs.files, fs'.files, meddled, meddled')
  <2>1. \A b : Play(b, Head(queue)) = b
    BY <1>1, OpsPlay
  <2> QED BY <1>2, <1>3, <2>1 DEF Carries
<1>5. Ready(queue', fs'.mounted)
  BY <1>2, <1>3 DEF Ready
<1> QED BY <1>1, <1>2, <1>3, <1>4, <1>5, RoomLine

LEMMA HandleResetHasRoom ==
  ASSUME TypeInv, RoomInv, HandleReset
  PROVE  RoomInv' /\ Len(queue') > 0 /\ IsOp(queue'[1], "format")
<1>1. fs' = Blank(fs) /\ thrown' = FALSE /\ meddled' = FALSE /\ churn' = churn
  BY DEF HandleReset
<1>2. PICK k \in DOMAIN queue : queue[k] = ResetMsg /\ queue' = SubSeq(queue, k + 1, Len(queue))
  BY DEF HandleReset
<1>3. PICK P : Stocked(P)
  BY DEF RoomInv
<1>4. /\ queue \in Seq(Entries) /\ Len(queue) \in Nat
      /\ P[0] \in FileMaps /\ IsPlay(P, P[0], queue) /\ Serves(P, queue)
      /\ P[Len(queue)] = Files(churn)
  BY <1>3, StockedIs
<1>5. PICK b \in FileMaps : b = P[0]
  BY <1>4
<1>6. k \in 1 .. Len(queue) /\ k \in 0 .. Len(queue) /\ IsPlay(P, b, queue) /\ Orderly(queue)
  BY <1>2, <1>4, <1>5 DEF RoomInv
<1>7. PICK R : IsPlay(R, P[k], queue') /\ Serves(R, queue') /\ R[Len(queue) - k] = P[Len(queue)]
  BY <1>2, <1>4, <1>6, ServesLater
<1>8. /\ Len(queue') = Len(queue) - k /\ \A i \in 1 .. Len(queue) - k : queue'[i] = queue[i + k]
  BY <1>2, <1>4, <1>6, PlayLater
<1>9. P[k] = <<>>
  <2>1. P[k] = Play(P[k - 1], ResetMsg) /\ ResetMsg \in Entries
    BY <1>2, <1>6 DEF IsPlay, Entries, OtherEntries
  <2> QED BY <2>1, PlayCases
<1>10. R[0] = <<>>
  BY <1>7, <1>9 DEF IsPlay
<1>11. Within(Bytes(<<>>))
  <2>1. Bytes(<<>>) = 0
    BY NoFiles, SumOfNothing DEF Bytes
  <2> QED BY <2>1, AskedAre DEF Within
<1>a. Single(<<>>)
  BY NoFiles DEF Single
<1>12. Stocked(R)'
  <2>1. /\ R[0] \in FileMaps /\ IsPlay(R, R[0], queue') /\ Serves(R, queue')
        /\ R[Len(queue')] = Files(churn') /\ Within(Bytes(R[0])) /\ Single(R[0])
    BY <1>1, <1>4, <1>7, <1>8, <1>9, <1>10, <1>11, <1>a, NoFiles
  <2> QED BY <2>1 DEF Stocked, StockOf
<1>13. fs'.files = <<>> /\ fs'.mounted = FALSE
  <2>1. fs \in Chips
    BY DEF TypeInv
  <2> QED BY <1>1, <2>1, NoFiles DEF Blank, Chips
<1>14. Stores(R[0], fs'.files, meddled')
  <2>1. PICK m : m = meddled'
    OBVIOUS
  <2>2. Stores(<<>>, <<>>, m)
    BY StoresNone
  <2> QED BY <1>10, <1>13, <2>1, <2>2
<1>15. Orderly(queue')
  BY <1>2, <1>4, <1>6, OrderlyLater
<1>16. Len(queue') > 0 /\ IsOp(queue'[1], "format")
  <2>1. k < Len(queue) /\ Follow(queue[k], queue[k + 1])
    BY <1>2, <1>6 DEF Orderly, Leads
  <2>2. 1 \in 1 .. Len(queue) - k
    BY <1>4, <1>6, <2>1
  <2>3. queue'[1] = queue[k + 1]
    <3>1. queue'[1] = queue[1 + k] /\ 1 + k = k + 1
      BY <1>6, <1>8, <2>2
    <3> QED BY <3>1
  <2> QED BY <1>2, <1>4, <1>6, <1>8, <2>1, <2>3 DEF Follow
<1>17. Ready(queue', fs'.mounted)
  BY <1>16 DEF Ready
<1>18. Tried(fs.files)' /\ Stuck' /\ NothingThrows'
  BY <1>1, <1>13, NoChurnFile DEF Tried, Stuck, NothingThrows
<1> QED BY <1>12, <1>14, <1>15, <1>16, <1>17, <1>18 DEF RoomInv

LEMMA RoomNext ==
  ASSUME OracleInv, RoomInv, [Next]_vars
  PROVE  RoomInv'
<1>0. TypeInv
  BY DEF OracleInv
<1>1. CASE GenerateGc
  BY <1>0, <1>1, GcHasRoom
<1>2. CASE GenerateEvent
  BY <1>2, EventHasRoom
<1>3. CASE Broadcast
  BY <1>0, <1>3, BroadcastHasRoom
<1>4. CASE Reset
  BY <1>0, <1>4, ResetHasRoom
<1>5. CASE ExecEntry
  BY <1>0, <1>5, ExecHasRoom
<1>6. CASE ConsoleWrite
  BY <1>0, <1>6, ConsoleWriteHasRoom
<1>7. CASE ConsoleDelete
  BY <1>0, <1>7, ConsoleDeleteHasRoom
<1>8. CASE FormatOp
  BY <1>0, <1>8, FormatHasRoom
<1>9. CASE MountOp
  BY <1>0, <1>9, MountHasRoom
<1>10. CASE HandleReset
  BY <1>0, <1>10, HandleResetHasRoom
<1>11. CASE UNCHANGED vars
  <2>1. \A P : Stocked(P) => Stocked(P)'
    BY <1>11 DEF vars, Stocked
  <2>2. /\ \A old : Tried(old) => Tried(old)'
        /\ Stuck => Stuck'
        /\ NothingThrows => NothingThrows'
    BY <1>11 DEF vars, Tried, Stuck, NothingThrows, Crowded, UserStock
  <2> QED BY <1>11, <2>1, <2>2 DEF vars, RoomInv
<1> QED BY <1>1, <1>2, <1>3, <1>4, <1>5, <1>6, <1>7, <1>8, <1>9, <1>10, <1>11
        DEF Next, Execute

\* A churn operation throws out of pump() (session-worker.js), which stalls the field, only
\* after the console took or wiped a file of the churn since the last reset, or when next
\* to the console's files the chip has no room for target, slack and one file for each
\* slot, and then it is a write that throws.  For every size of the chip.
THEOREM WorkloadNeverThrows == Spec => []NothingThrows
<1>1. Init => OracleInv /\ RoomInv
  BY OracleInit, RoomInit
<1>2. OracleInv /\ RoomInv /\ [Next]_vars => OracleInv' /\ RoomInv'
  BY OracleNext, RoomNext
<1>3. RoomInv => NothingThrows
  BY DEF RoomInv
<1> QED BY <1>1, <1>2, <1>3, PTL DEF Spec

-----------------------------------------------------------------------------
(* What the runner tracks *)

\* Mounted, the tracked names are the chip's but for the file of a churn entry that threw,
\* and the chip's are tracked but for that and the console's stumps.  Not mounted, there is
\* no file, and no name is tracked once the format is done; a reset leaves names behind
\* that the format drops.
Tracks(f, gap) ==
  f.tracked \subseteq DOMAIN f.files \cup gap /\ DOMAIN f.files \subseteq f.tracked \cup UserNames \cup gap

TrackInv ==
  /\ fs.mounted => Tracks(fs, Unsettled)
  /\ ~fs.mounted => /\ fs.files = <<>>
                    /\ IsOp(queue[1], "mount") => fs.tracked = {}

LEMMA TrackInit == Init => TrackInv
BY DEF Init, TrackInv

\* A longer queue has the same first entry.
LEMMA SameHead ==
  ASSUME TypeInv, RoomInv, TrackInv, UNCHANGED <<fs, thrown, meddled>>,
         NEW line \in Seq(Entries), queue' = queue \o line
  PROVE  TrackInv'
<1>1. queue \in Seq(Entries) /\ Len(queue) \in Nat
  BY DEF TypeInv
<1>2. ASSUME ~fs.mounted PROVE queue'[1] = queue[1]
  <2>1. Len(queue) > 0
    BY <1>2 DEF RoomInv, Ready
  <2>2. 1 \in 1 .. Len(queue)
    BY <1>1, <2>1
  <2> QED BY <1>1, <2>2
<1>3. Unsettled' = Unsettled
  BY HeadStays DEF Unsettled
<1> QED BY <1>2, <1>3 DEF TrackInv, Tracks

LEMMA CoordinatorTracks ==
  ASSUME OracleInv, RoomInv, TrackInv,
         GenerateGc \/ GenerateEvent \/ Broadcast \/ Reset
  PROVE  TrackInv'
<1>0. TypeInv /\ queue \in Seq(Entries) /\ OracleInv'
  BY OracleNext DEF OracleInv, TypeInv, Next
<1>1. CASE GenerateGc \/ GenerateEvent
  <2>1. UNCHANGED <<fs, thrown, meddled>> /\ \E e : queue' = Append(queue, e)
    BY <1>1 DEF GenerateGc, GenerateEvent
  <2>2. PICK e : queue' = Append(queue, e)
    BY <2>1
  <2>3. e \in Entries
    <3>1. queue' \in Seq(Entries)
      BY <1>0 DEF OracleInv, TypeInv
    <3>2. Len(queue) + 1 \in 1 .. Len(queue') /\ queue'[Len(queue) + 1] = e
      BY <1>0, <2>2
    <3> QED BY <3>1, <3>2
  <2>4. queue' = queue \o <<e>> /\ <<e>> \in Seq(Entries)
    BY <1>0, <2>2, <2>3
  <2> QED BY <1>0, <2>1, <2>4, SameHead
<1>2. CASE Broadcast
  <2>1. PICK line \in Lines : queue' = queue \o line
    BY <1>2 DEF Broadcast
  <2>2. line \in Seq(Entries) /\ UNCHANGED <<fs, thrown, meddled>>
    BY <1>2, LinesOrderly DEF Broadcast
  <2> QED BY <1>0, <2>1, <2>2, SameHead
<1>3. CASE Reset
  <2>1. UNCHANGED <<fs, thrown, meddled>> /\ queue' = (queue \o <<ResetMsg>>) \o Boot
    BY <1>3 DEF Reset
  <2>2. PICK line \in Seq(Entries) : line = <<ResetMsg>> \o Boot
    BY LinesOrderly
  <2>3. queue' = queue \o line
    <3>1. <<ResetMsg>> \in Seq(Entries) /\ Boot \in Seq(Entries)
      BY LinesOrderly DEF Entries, OtherEntries
    <3> HIDE DEF Boot
    <3>2. (queue \o <<ResetMsg>>) \o Boot = queue \o (<<ResetMsg>> \o Boot)
      BY <1>0, <3>1
    <3> QED BY <2>1, <2>2, <3>2
  <2> QED BY <1>0, <2>1, <2>3, SameHead
<1> QED BY <1>1, <1>2, <1>3

\* remove() drops the name with the file.
LEMMA RemoveTracks ==
  ASSUME NEW f \in Chips, NEW n \in ChipNames, NEW o \in RemoveOutcomes(f, n),
         NEW gap, Tracks(f, gap)
  PROVE  /\ o.ok  => Tracks(o.fs, gap \ {n})
         /\ ~o.ok => o.fs = f
<1>1. CASE n \in DOMAIN f.files
  <2>1. /\ o.fs.files = Restrict(f.files, DOMAIN f.files \ {n})
        /\ o.fs.tracked = f.tracked \ {n} /\ o.ok = TRUE
    BY <1>1, RemoveOutcome
  <2>2. IsRest(o.fs.files, f.files, n)
    BY <2>1, RestrictIsRest
  <2> QED BY <2>1, <2>2 DEF IsRest, Tracks
<1>2. CASE n \notin DOMAIN f.files
  BY <1>2, RemoveOutcome
<1> QED BY <1>1, <1>2

\* What the churn leaves untracked, or tracks though it is gone, is the file it failed on.
LEMMA ExecTracks ==
  ASSUME TypeInv, RoomInv, TrackInv, ExecEntry
  PROVE  TrackInv'
<1> DEFINE e == Head(queue)
<1>1. fs.mounted = TRUE /\ fs'.mounted = TRUE
  BY ExecHasRoom
<1>2. Tracks(fs, Unsettled) /\ fs \in Chips /\ thrown \in BOOLEAN /\ Stuck
  BY <1>1 DEF TrackInv, TypeInv, RoomInv
<1>3. queue # <<>> /\ e.by = "churn" /\ e \in Entries
  <2>1. queue # <<>> /\ e.by = "churn"
    BY DEF ExecEntry
  <2> QED BY <2>1, Shorter DEF TypeInv
<1>4. Unsettled \subseteq {e.event.name} /\ (thrown => e.event.type \in {"write", "delete"})
  BY <1>2 DEF Unsettled, Stuck
<1>5. CASE e.event.type = "write"
  <2>1. PICK out \in WriteOutcomes(fs, e.event.name, e.event.size) :
          fs' = out.fs /\ thrown' = ~out.ok /\ queue' = IF out.ok THEN Tail(queue) ELSE queue
    BY <1>5 DEF ExecEntry
  <2>2. PICK n \in ChipNames : n = e.event.name
    BY <1>3, <1>5, EntriesAre, EventsAre DEF ChipNames
  <2>3. PICK v \in Nat : v = e.event.size
    BY <1>3, <1>5, EntriesAre, EventsAre
  <2>4. out \in WriteOutcomes(fs, n, v)
    BY <2>1, <2>2, <2>3
  <2>5. /\ out.ok \in BOOLEAN /\ SameBut(fs.files, out.fs.files, n)
        /\ out.ok => out.fs.files = Put(fs.files, n, v) /\ out.fs.tracked = fs.tracked \cup {n}
        /\ ~out.ok => out.fs.tracked = fs.tracked
    BY <1>2, <2>4, WriteOutcome
  <2>6. CASE out.ok
    <3>1. Unsettled' = {}
      BY <2>1, <2>6 DEF Unsettled
    <3>2. fs'.files = Put(fs.files, n, v) /\ fs'.tracked = fs.tracked \cup {n}
      BY <2>1, <2>5, <2>6
    <3>3. DOMAIN fs'.files = DOMAIN fs.files \cup {n}
      BY <3>2, PutIsPut DEF Put
    <3>4. Tracks(fs', Unsettled')
      BY <1>2, <1>4, <2>2, <3>1, <3>2, <3>3 DEF Tracks
    <3> QED BY <1>1, <3>4 DEF TrackInv
  <2>7. CASE ~out.ok
    <3>1. Unsettled' = {n}
      BY <2>1, <2>2, <2>7 DEF Unsettled
    <3>2. DOMAIN fs'.files \ {n} = DOMAIN fs.files \ {n} /\ fs'.tracked = fs.tracked
      BY <2>1, <2>5, <2>7 DEF SameBut
    <3>3. Tracks(fs', Unsettled')
      BY <1>2, <1>4, <2>2, <3>1, <3>2 DEF Tracks
    <3> QED BY <1>1, <3>3 DEF TrackInv
  <2> QED BY <2>6, <2>7
<1>6. CASE e.event.type = "delete"
  <2>1. PICK out \in RemoveOutcomes(fs, e.event.name) :
          fs' = out.fs /\ thrown' = ~out.ok /\ queue' = IF out.ok THEN Tail(queue) ELSE queue
    BY <1>6 DEF ExecEntry
  <2>2. PICK n \in ChipNames : n = e.event.name
    BY <1>3, <1>6, EntriesAre, EventsAre DEF ChipNames
  <2>3. out \in RemoveOutcomes(fs, n)
    BY <2>1, <2>2
  <2>4. PICK gap : gap = Unsettled
    OBVIOUS
  <2>5. (out.ok => Tracks(out.fs, gap \ {n})) /\ (~out.ok => out.fs = fs)
    BY <1>2, <2>2, <2>3, <2>4, RemoveTracks
  <2>6. CASE out.ok
    <3>1. gap \ {n} = {} /\ Unsettled' = {}
      BY <1>4, <2>1, <2>2, <2>4, <2>6 DEF Unsettled
    <3>2. Tracks(fs', Unsettled')
      BY <2>1, <2>5, <2>6, <3>1
    <3> QED BY <1>1, <3>2 DEF TrackInv
  <2>7. CASE ~out.ok
    <3>1. Unsettled' = {n} /\ fs' = fs
      BY <2>1, <2>2, <2>5, <2>7 DEF Unsettled
    <3>2. Tracks(fs', Unsettled')
      BY <1>2, <1>4, <2>2, <3>1 DEF Tracks
    <3> QED BY <1>1, <3>2 DEF TrackInv
  <2> QED BY <2>6, <2>7
<1>7. CASE e.event.type \notin {"write", "delete"}
  <2>0. PICK out \in {[fs |-> fs, ok |-> TRUE]} : fs' = out.fs /\ thrown' = ~out.ok
    BY <1>7 DEF ExecEntry
  <2>1. fs' = fs /\ thrown' = FALSE
    <3>1. out.fs = fs /\ out.ok = TRUE
      OBVIOUS
    <3> QED BY <2>0, <3>1
  <2>2. Unsettled = {} /\ Unsettled' = {}
    BY <1>4, <1>7, <2>1 DEF Unsettled
  <2> QED BY <1>1, <1>2, <2>1, <2>2 DEF TrackInv
<1> QED BY <1>5, <1>6, <1>7

\* A write of the console that is refused leaves no name behind that could be tracked: the
\* name is fresh.
LEMMA ConsoleTracks ==
  ASSUME TypeInv, RoomInv, TrackInv, ConsoleWrite \/ ConsoleDelete
  PROVE  TrackInv'
<1>0. /\ fs \in Chips /\ queue # <<>> /\ Head(queue).by # "churn"
      /\ thrown' = thrown
  BY DEF TypeInv, ConsoleWrite, ConsoleDelete, Executes, ConsoleOp
<1>1. Unsettled = {} /\ Unsettled' = {}
  BY <1>0, Calm DEF Unsettled
<1>2. CASE ConsoleWrite
  <2>1. fs.mounted = TRUE /\ fs'.mounted = TRUE
    BY <1>2, ConsoleWriteHasRoom
  <2>2. PICK name \in FreshNames(fs), size \in UserSizes :
          \E out \in WriteOutcomes(fs, name, size) : fs' = out.fs
    BY <1>2 DEF ConsoleWrite
  <2>3. PICK out \in WriteOutcomes(fs, name, size) : fs' = out.fs
    BY <2>2
  <2>4. name \in UserNames /\ name \in ChipNames /\ name \notin fs.tracked /\ size \in Nat
    BY WorkloadAssumption DEF ChipNames, FreshNames
  <2>5. Tracks(fs, {})
    BY <1>1, <2>1 DEF TrackInv
  <2>6. /\ out.ok \in BOOLEAN /\ SameBut(fs.files, out.fs.files, name)
        /\ out.ok => /\ out.fs.files = Put(fs.files, name, size)
                     /\ out.fs.tracked = fs.tracked \cup {name}
        /\ ~out.ok => out.fs.tracked = fs.tracked
    BY <1>0, <2>3, <2>4, WriteOutcome
  <2>7. CASE out.ok
    <3>1. fs'.files = Put(fs.files, name, size) /\ fs'.tracked = fs.tracked \cup {name}
      BY <2>3, <2>6, <2>7
    <3>2. DOMAIN fs'.files = DOMAIN fs.files \cup {name}
      BY <3>1, PutIsPut DEF Put
    <3>3. Tracks(fs', {})
      BY <2>5, <3>1, <3>2 DEF Tracks
    <3> QED BY <1>1, <2>1, <3>3 DEF TrackInv
  <2>8. CASE ~out.ok
    <3>1. DOMAIN fs'.files \ {name} = DOMAIN fs.files \ {name} /\ fs'.tracked = fs.tracked
      BY <2>3, <2>6, <2>8 DEF SameBut
    <3>2. Tracks(fs', {})
      BY <2>4, <2>5, <3>1 DEF Tracks
    <3> QED BY <1>1, <2>1, <3>2 DEF TrackInv
  <2> QED BY <2>7, <2>8
<1>3. CASE ConsoleDelete
  <2>1. fs.mounted = TRUE
    BY <1>3, ConsoleDeleteHasRoom
  <2>2. Tracks(fs, {})
    BY <1>1, <2>1 DEF TrackInv
  <2>3. CASE UNCHANGED <<fs, meddled>>
    BY <1>1, <2>1, <2>2, <2>3 DEF TrackInv
  <2>4. CASE \E name \in fs.tracked : \E out \in RemoveOutcomes(fs, name) : fs' = out.fs
    <3>1. PICK name \in fs.tracked : \E out \in RemoveOutcomes(fs, name) : fs' = out.fs
      BY <2>4
    <3>2. PICK out \in RemoveOutcomes(fs, name) : fs' = out.fs
      BY <3>1
    <3>3. name \in ChipNames
      BY <1>0, ChipFields
    <3>4. (out.ok => Tracks(out.fs, {} \ {name})) /\ (~out.ok => out.fs = fs)
      BY <1>0, <2>2, <3>2, <3>3, RemoveTracks
    <3>5. out.fs.mounted = fs.mounted
      BY <1>0, <3>2, <3>3, RemoveKeeps
    <3>6. {} \ {name} = {}
      OBVIOUS
    <3>7. Tracks(fs', {})
      BY <2>2, <3>2, <3>4, <3>6
    <3> QED BY <1>1, <2>1, <3>2, <3>5, <3>7 DEF TrackInv
  <2> QED BY <1>3, <2>3, <2>4 DEF ConsoleDelete
<1> QED BY <1>2, <1>3

LEMMA TrackNext ==
  ASSUME OracleInv, RoomInv, TrackInv, [Next]_vars
  PROVE  TrackInv'
<1>0. TypeInv /\ fs \in Chips
  BY DEF OracleInv, TypeInv
<1>1. CASE GenerateGc \/ GenerateEvent \/ Broadcast \/ Reset
  BY <1>1, CoordinatorTracks
<1>2. CASE ExecEntry
  BY <1>0, <1>2, ExecTracks
<1>3. CASE ConsoleWrite \/ ConsoleDelete
  BY <1>0, <1>3, ConsoleTracks
<1>4. CASE FormatOp
  BY <1>4 DEF FormatOp, Format, TrackInv
<1>5. CASE MountOp
  <2>1. PICK by \in {"boot", "console"} :
          queue # <<>> /\ Head(queue) = [by |-> by, op |-> "mount"]
    BY <1>5 DEF MountOp, Executes
  <2>2. /\ fs'.mounted = TRUE /\ fs'.files = fs.files /\ fs'.tracked = fs.tracked
        /\ fs.mounted \in BOOLEAN
    BY <1>0, <1>5 DEF MountOp, Mount, Chips
  <2>3. IsOp(queue[1], "mount")
    <3>1. Head(queue) = queue[1]
      BY <1>0, <2>1 DEF TypeInv
    <3> QED BY <2>1, <3>1 DEF IsOp
  <2>4. thrown = FALSE /\ thrown' = FALSE
    <3>1. Head(queue).by # "churn"
      BY <2>1
    <3> QED BY <1>0, <1>5, <2>1, <3>1, Calm DEF MountOp
  <2>5. Unsettled = {} /\ Unsettled' = {}
    BY <2>4 DEF Unsettled
  <2>6. Tracks(fs', {})
    <3>1. CASE fs.mounted = TRUE
      BY <2>2, <2>5, <3>1 DEF TrackInv, Tracks
    <3>2. CASE fs.mounted = FALSE
      BY <2>2, <2>3, <3>2, NoFiles DEF TrackInv, Tracks
    <3> QED BY <2>2, <3>1, <3>2
  <2> QED BY <2>2, <2>5, <2>6 DEF TrackInv
<1>6. CASE HandleReset
  <2>1. fs'.files = <<>> /\ fs'.mounted = FALSE
    BY <1>0, <1>6 DEF HandleReset, Blank, Chips
  <2>2. ~IsOp(queue'[1], "mount")
    BY <1>0, <1>6, HandleResetHasRoom DEF IsOp
  <2> QED BY <2>1, <2>2 DEF TrackInv
<1>7. CASE UNCHANGED vars
  BY <1>7 DEF vars, TrackInv, Unsettled
<1> QED BY <1>1, <1>2, <1>3, <1>4, <1>5, <1>6, <1>7 DEF Next, Execute

\* The runner's tracked set against the chip, whatever is refused: deleteFile() and
\* readFile() pick a file that exists, across formats and resets, and only the stump of a
\* write of the console that was refused is on the chip without being tracked; but for the
\* file of a churn operation that threw, as long as its entry waits to be tried again.
THEOREM RunnerTracksTheChip == Spec => []TrackedIsTheChip
<1>1. Init => OracleInv /\ RoomInv /\ TrackInv
  BY OracleInit, RoomInit, TrackInit
<1>2. OracleInv /\ RoomInv /\ TrackInv /\ [Next]_vars => OracleInv' /\ RoomInv' /\ TrackInv'
  BY OracleNext, RoomNext, TrackNext
<1>3. TrackInv => TrackedIsTheChip
  BY DEF TrackInv, Tracks, TrackedIsTheChip
<1> QED BY <1>1, <1>2, <1>3, PTL DEF Spec
=============================================================================
