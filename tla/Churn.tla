------------------------------- MODULE Churn --------------------------------
(***************************************************************************)
(* The churn generator (web/src/churn.js): the one model that decides what *)
(* every session writes and deletes.                                       *)
(*                                                                         *)
(* The model's fields are a record, next() is the set of events the next   *)
(* draws of the generator may give, each with the model it leaves, and     *)
(* apply() is an operator.  A slot of the table that is not live holds     *)
(* nothing that is read again, so the table is a function on the live      *)
(* slots.  slotChosen and pendingReplacing are set and used within one     *)
(* call of next() and are not kept.                                        *)
(***************************************************************************)
EXTENDS Integers, FiniteSets, FiniteSetsExt, Functions

CONSTANTS
  slotCount,
  Draws,                 \* what the profile may draw: [large, size]
  FORCED_LARGE_SIZE,
  protectFirstLarge,
  targetLiveBytes, targetSlackBytes, targetWrittenBytes,
  forceLargeAfterBytes,
  U32                    \* totalWritten wraps here

ASSUME ChurnAssumption ==
  /\ slotCount \in Nat \ {0}
  /\ Draws \subseteq [large : BOOLEAN, size : Nat \ {0}] /\ Draws # {}
  /\ {FORCED_LARGE_SIZE, U32} \subseteq Nat \ {0}
  /\ {targetLiveBytes, targetSlackBytes, targetWrittenBytes, forceLargeAfterBytes} \subseteq Nat
  /\ protectFirstLarge \in BOOLEAN

\* f with the value v at x
Put(f, x, v) == [y \in DOMAIN f \cup {x} |-> IF y = x THEN v ELSE f[y]]

Slots  == 0 .. slotCount - 1
NoSlot == -1
NoWrite == [large |-> FALSE, size |-> 0]

\* reset()
Pristine ==
  [totalWritten |-> 0, liveBytes |-> 0, slots |-> <<>>, forcedLargeWritten |-> FALSE,
   pending |-> NoWrite, optionalDeleteChecked |-> FALSE, pendingSlot |-> NoSlot,
   protectedLargeSlot |-> NoSlot]

Done(c) == c.pending = NoWrite /\ c.totalWritten >= targetWrittenBytes

\* The slots that _chooseLiveSlot() and _chooseDeleteSlot() may return.
Candidates(c) ==
  LET unprotected == DOMAIN c.slots \ {c.protectedLargeSlot}
  IN  IF unprotected # {} THEN unprotected ELSE DOMAIN c.slots

Delete(c, s) == [type |-> "delete", slot |-> s, name |-> c.slots[s].name]

\* A name is a slot and the seed of the write, which is the bytes written so far.
NewName(c, s, replacing) == <<s, c.totalWritten>>

\* A replaced file keeps its name.
NameFor(c, s, replacing) == IF replacing THEN c.slots[s].name ELSE NewName(c, s, replacing)

Write(c, s, replacing) ==
  [type |-> "write", slot |-> s, large |-> c.pending.large, size |-> c.pending.size,
   replacing |-> replacing, name |-> NameFor(c, s, replacing)]

Outcome(event, c) == [event |-> event, churn |-> c]

\* The pending write is drawn, unless a delete has held it up.
Drawn(c) ==
  LET pend(d) == [c EXCEPT !.pending = d, !.optionalDeleteChecked = FALSE,
                           !.pendingSlot = NoSlot]
  IN  IF c.pending # NoWrite THEN {c}
      ELSE IF ~c.forcedLargeWritten /\ c.totalWritten >= forceLargeAfterBytes
      THEN {[pend([large |-> TRUE, size |-> FORCED_LARGE_SIZE])
               EXCEPT !.forcedLargeWritten = TRUE]}
      ELSE {pend(d) : d \in Draws}

\* (fault) the ceiling leaves the pending write out
OverCeilingAlready(c) == c.liveBytes > targetLiveBytes + targetSlackBytes

OverCeiling(c) == c.liveBytes + c.pending.size > targetLiveBytes + targetSlackBytes

\* (fault) the loop over the ceiling does not end when nothing is left to delete
ShedsForEver(c) == OverCeiling(c)

Sheds(c) == OverCeiling(c) /\ DOMAIN c.slots # {}

\* The slot given up is where the write goes, unless the next draw replaces.
Evicted(c) == {Outcome(Delete(c, s), [c EXCEPT !.pendingSlot = s]) : s \in Candidates(c)}

\* Replace, else the slot evicted before, else a free one, else evict.
Placed(c) ==
  LET free == Slots \ DOMAIN c.slots
  IN  {Outcome(Write(c, s, TRUE), c) : s \in Candidates(c)} \cup
      (IF c.pendingSlot # NoSlot THEN {Outcome(Write(c, c.pendingSlot, FALSE), c)}
       ELSE IF free # {}         THEN {Outcome(Write(c, Min(free), FALSE), c)}
       ELSE Evicted(c))

\* next(), with a write pending.
NextFor(c) ==
  LET checked == [c EXCEPT !.optionalDeleteChecked = TRUE]
  IN  IF Sheds(c)
      THEN {Outcome(Delete(c, s), c) : s \in Candidates(c)}
      ELSE Placed(checked) \cup
           (IF ~c.optionalDeleteChecked /\ c.liveBytes > targetLiveBytes
            THEN {Outcome(Delete(c, s), checked) : s \in Candidates(c)} ELSE {})

\* next()
NextEvents(c) ==
  IF Done(c) THEN {Outcome([type |-> "done"], c)}
  ELSE UNION {NextFor(d) : d \in Drawn(c)}

Freed(c, event) == IF event.replacing THEN c.slots[event.slot].size ELSE 0

\* (fault) the counter of bytes written has no width
Unbounded(total, size) == total + size

\* matches C
Advanced(total, size) == (total + size) % U32

\* apply()
Apply(c, event) ==
  CASE event.type = "delete" ->
         [c EXCEPT !.liveBytes = @ - c.slots[event.slot].size,
                   !.slots     = Restrict(@, DOMAIN @ \ {event.slot})]
    [] event.type = "write" ->
         [c EXCEPT !.liveBytes    = @ - Freed(c, event) + event.size,
                   !.slots        = Put(@, event.slot, [name |-> event.name, size |-> event.size]),
                   !.totalWritten = Advanced(@, event.size),
                   !.pending      = NoWrite,
                   !.pendingSlot  = NoSlot,
                   !.protectedLargeSlot =
                      IF protectFirstLarge /\ event.large /\ @ = NoSlot THEN event.slot ELSE @]
    [] event.type = "done" -> c

\* What the model says exists: the files of its live slots by name.
Files(c) ==
  [n \in {c.slots[s].name : s \in DOMAIN c.slots} |->
     c.slots[CHOOSE s \in DOMAIN c.slots : c.slots[s].name = n].size]
=============================================================================
