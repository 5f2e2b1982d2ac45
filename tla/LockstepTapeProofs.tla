------------------------- MODULE LockstepTapeProofs -------------------------
(***************************************************************************)
(* Proofs about the content of Lockstep's messages: which entries a worker *)
(* holds and where it stands on the tape they make, and, in a field that   *)
(* stays in one mode, how far its cursors and its played time come apart.  *)
(*                                                                         *)
(* LockstepProofs proves how the ports are ordered and that acks are of    *)
(* the past (its invariant IInv); what is proved here stands on that.      *)
(***************************************************************************)
EXTENDS LockstepProofs

\* y begins with x.
Begins(x, y) == Len(x) <= Len(y) /\ \A i \in 1 .. Len(x) : x[i] = y[i]

\* list is what es holds behind its first "from" entries.
SubRun(list, from, es) ==
  /\ from + Len(list) <= Len(es)
  /\ \A i \in 1 .. Len(list) : list[i] = es[from + i]

\* No entry ends before an earlier one does.
Rising(es) ==
  \A t \in Session : \A m, n \in 0 .. Len(es) :
    m <= n => TapeEnd(es, t, m) <= TapeEnd(es, t, n)

\* es can have been the canonical sequence of epoch e, as far as s can tell: s
\* holds a prefix of it and what is on the way to s are pieces of it.
TapeOf(s, e, es) ==
  /\ Rising(es)
  /\ e = epoch => es = sequence
  /\ e = wEpoch[s] => Begins(entries[s], es)
  /\ \A i \in 1 .. Len(toWorker[s]) :
       /\ toWorker[s][i].type = "ENTRIES"
       /\ toWorker[s][i].epoch = e
       => SubRun(toWorker[s][i].list, toWorker[s][i].from, es)

Canonical == \A s \in Session, e \in Nat : \E es \in Seq(Entry) : TapeOf(s, e, es)

\* Where a worker may be on the tape of es, with the cursor at c, b for a command
\* in flight, the tape recorded up to x and played up to p, and drained up to d.
Settled(es, s, c, b, x, p, d) ==
  /\ -1 <= d /\ d < c /\ c <= Len(es)
  /\ TapeEnd(es, s, d + 1) <= p /\ p <= x
  /\ b => /\ c < Len(es)
          /\ TapeEnd(es, s, c) <= x /\ x <= TapeEnd(es, s, c + 1)
  /\ ~b => x = TapeEnd(es, s, c)

Stands(s) == Settled(entries[s], s, cursor[s], busy[s], executed[s], playback[s],
                     drained[s])

\* An ack never reports an entry as drained without the whole of its tape.
AckedWasPlayed ==
  \A s \in Session :
    /\ -1 <= acked[s].drained
    /\ Current(s) => TapeEnd(entries[s], s, acked[s].drained + 1) <= acked[s].playback
    /\ \A i \in 1 .. Len(toMain[s]) : toMain[s][i].epoch = wEpoch[s] =>
         /\ -1 <= toMain[s][i].ack.drained
         /\ TapeEnd(entries[s], s, toMain[s][i].ack.drained + 1)
              <= toMain[s][i].ack.playback

TInv ==
  /\ IInv
  /\ Canonical
  /\ \A s \in Session : Stands(s)
  /\ AckedWasPlayed

-----------------------------------------------------------------------------
(* The operators *)

LEMMA BeginsTapeEnd ==
  ASSUME NEW x \in Seq(Entry), NEW y \in Seq(Entry), Begins(x, y), NEW s \in Session
  PROVE  /\ Len(x) \in Nat /\ Len(y) \in Nat /\ Len(x) <= Len(y)
         /\ \A n \in 0 .. Len(x) : TapeEnd(y, s, n) = TapeEnd(x, s, n)
<1>1. Len(x) \in Nat /\ Len(y) \in Nat
  OBVIOUS
<1>2. ASSUME NEW n \in 0 .. Len(x)
      PROVE  TapeEnd(y, s, n) = TapeEnd(x, s, n)
  <2>1. n # 0 => y[n] = x[n]
    BY <1>1 DEF Begins
  <2> QED
    BY <2>1 DEF TapeEnd
<1> QED
  BY <1>1, <1>2 DEF Begins

\* Of a rising sequence whatever it begins with is rising.
LEMMA BeginsRising ==
  ASSUME NEW x \in Seq(Entry), NEW y \in Seq(Entry), Begins(x, y), Rising(y)
  PROVE  Rising(x)
<1> SUFFICES ASSUME NEW t \in Session, NEW m \in 0 .. Len(x), NEW n \in 0 .. Len(x),
                    m <= n
             PROVE  TapeEnd(x, t, m) <= TapeEnd(x, t, n)
  BY DEF Rising
<1>1. /\ TapeEnd(y, t, m) = TapeEnd(x, t, m) /\ TapeEnd(y, t, n) = TapeEnd(x, t, n)
      /\ m \in 0 .. Len(y) /\ n \in 0 .. Len(y)
  BY BeginsTapeEnd
<1> QED
  BY <1>1 DEF Rising

LEMMA BeginsTransitive ==
  ASSUME NEW x \in Seq(Entry), NEW y \in Seq(Entry), NEW z \in Seq(Entry),
         Begins(x, y), Begins(y, z)
  PROVE  Begins(x, z)
BY DEF Begins

LEMMA BeginsItself ==
  ASSUME NEW x \in Seq(Entry)
  PROVE  Begins(x, x)
BY DEF Begins

\* A new entry ends no earlier than what it is put behind.
LEMMA AppendRises ==
  ASSUME NEW es \in Seq(Entry), Rising(es), NEW kind \in {"churn", "command"},
         NEW cost \in Costs
  PROVE  /\ Append(es, NewEntry(es, kind, cost)) \in Seq(Entry)
         /\ Begins(es, Append(es, NewEntry(es, kind, cost)))
         /\ Rising(Append(es, NewEntry(es, kind, cost)))
<1> DEFINE new == NewEntry(es, kind, cost)
           y   == Append(es, new)
<1>1. new \in Entry /\ cost \in [Session -> Nat]
  <2>1. PICK s \in Session : TRUE
    BY ConstantsAssumption
  <2> QED
    BY <2>1, EntryTypes, ConstantsAssumption
<1>2. \A t \in Session : new.end[t] = TapeEnd(es, t, Len(es)) + cost[t]
  BY DEF NewEntry
<1> HIDE DEF new
<1>3. /\ y \in Seq(Entry) /\ Len(y) = Len(es) + 1 /\ Len(es) \in Nat
      /\ \A i \in 1 .. Len(es) : y[i] = es[i]
      /\ y[Len(es) + 1] = new
  BY <1>1
<1> HIDE DEF y
<1>4. Begins(es, y)
  BY <1>3 DEF Begins
<1>5. ASSUME NEW t \in Session, NEW m \in 0 .. Len(y), NEW n \in 0 .. Len(y), m <= n
      PROVE  TapeEnd(y, t, m) <= TapeEnd(y, t, n)
  <2>1. \A i \in 0 .. Len(es) : /\ TapeEnd(y, t, i) = TapeEnd(es, t, i)
                                /\ TapeEnd(es, t, i) \in Nat
    BY <1>3, <1>4, BeginsTapeEnd, EntryTypes
  <2>2. TapeEnd(y, t, Len(y)) = TapeEnd(es, t, Len(es)) + cost[t]
    BY <1>2, <1>3 DEF TapeEnd
  <2>3. cost[t] \in Nat
    BY <1>1
  <2>4. CASE n \in 0 .. Len(es)
    <3>1. m \in 0 .. Len(es)
      BY <1>3, <1>5, <2>4
    <3> QED
      BY <1>5, <2>1, <2>4, <3>1 DEF Rising
  <2>5. CASE n = Len(y) /\ m \in 0 .. Len(es)
    <3>1. TapeEnd(es, t, m) <= TapeEnd(es, t, Len(es))
      BY <1>3, <2>5 DEF Rising
    <3>2. Len(es) \in 0 .. Len(es)
      BY <1>3
    <3>3. PICK a \in Nat, b \in Nat, c \in Nat :
            a = TapeEnd(es, t, m) /\ b = TapeEnd(es, t, Len(es)) /\ c = cost[t]
      BY <2>1, <2>3, <2>5, <3>2
    <3>4. a <= b + c
      BY <3>1, <3>3
    <3> QED
      BY <2>1, <2>2, <2>5, <3>3, <3>4
  <2>6. CASE n = Len(y) /\ m = Len(y)
    <3>1. PICK a \in Nat : a = TapeEnd(y, t, m)
      BY <1>3, <2>6, EntryTypes
    <3> QED
      BY <2>6, <3>1
  <2> QED
    BY <1>3, <1>5, <2>4, <2>5, <2>6
<1>6. Rising(y)
  BY <1>5 DEF Rising
<1> QED
  BY <1>3, <1>4, <1>6 DEF y, new

LEMMA EnsuredRises ==
  ASSUME NEW es \in Seq(Entry), Rising(es), NEW n \in Int, NEW y \in Ensured(es, n)
  PROVE  y \in Seq(Entry) /\ Begins(es, y) /\ Rising(y)
BY AppendRises, BeginsItself DEF Ensured

\* What is shipped of a sequence is a piece of it.
LEMMA ShipmentIsSubRun ==
  ASSUME NEW es \in Seq(Entry), NEW from \in Nat, from < Len(es)
  PROVE  SubRun(SubSeq(es, from + 1, Len(es)), from, es)
<1> DEFINE list == SubSeq(es, from + 1, Len(es))
<1>1. Len(es) \in Nat /\ \A i \in from + 1 .. Len(es) : es[i] \in Entry
  BY ElementOfSeq
<1>2. /\ Len(list) = Len(es) - from
      /\ \A i \in 1 .. Len(es) - from : list[i] = es[from + i]
  <2>1. /\ Len(list) = Len(es) - (from + 1) + 1
        /\ \A i \in 1 .. Len(es) - (from + 1) + 1 : list[i] = es[(from + 1) + i - 1]
    BY <1>1, SubSeqProperties
  <2>2. Len(es) - (from + 1) + 1 = Len(es) - from
    BY <1>1
  <2>3. \A i \in 1 .. Len(es) - from : (from + 1) + i - 1 = from + i
    BY <1>1
  <2> QED
    BY <2>1, <2>2, <2>3
<1> QED
  BY <1>1, <1>2 DEF SubRun

LEMMA SubRunExtends ==
  ASSUME NEW x \in Seq(Entry), NEW y \in Seq(Entry), Begins(x, y),
         NEW list \in Seq(Entry), NEW from \in Nat, SubRun(list, from, x)
  PROVE  SubRun(list, from, y)
<1>1. Len(x) \in Nat /\ Len(y) \in Nat /\ Len(list) \in Nat
  OBVIOUS
<1>2. \A i \in 1 .. Len(list) : from + i \in 1 .. Len(x)
  BY <1>1 DEF SubRun
<1> QED
  BY <1>1, <1>2 DEF SubRun, Begins

\* handleEntries(): of a piece of es, what lies beyond a prefix of es makes a longer one.
LEMMA KeptIsPrefix ==
  ASSUME NEW x \in Seq(Entry), NEW es \in Seq(Entry), Begins(x, es),
         NEW list \in Seq(Entry), NEW from \in Nat, SubRun(list, from, es),
         from <= Len(x)
  PROVE  /\ x \o SubSeq(list, Len(x) - from + 1, Len(list)) \in Seq(Entry)
         /\ Begins(x, x \o SubSeq(list, Len(x) - from + 1, Len(list)))
         /\ Begins(x \o SubSeq(list, Len(x) - from + 1, Len(list)), es)
<1> DEFINE a   == Len(x) - from + 1
           new == SubSeq(list, a, Len(list))
           y   == x \o new
<1>1. /\ Len(x) \in Nat /\ Len(es) \in Nat /\ Len(list) \in Nat
      /\ a \in Nat /\ a >= 1 /\ a = Len(x) - from + 1
  OBVIOUS
<1> HIDE DEF a
<1>2. \A i \in a .. Len(list) : list[i] \in Entry
  BY <1>1
<1>3. /\ new \in Seq(Entry)
      /\ Len(new) = IF a <= Len(list) THEN Len(list) - a + 1 ELSE 0
      /\ \A i \in 1 .. Len(list) - a + 1 : new[i] = list[a + i - 1]
  BY <1>1, <1>2, SubSeqProperties
<1>4. Len(new) \in Nat
  BY <1>3
<1> HIDE DEF new
<1>5. /\ y \in Seq(Entry) /\ Len(y) = Len(x) + Len(new)
      /\ \A i \in 1 .. Len(x) + Len(new) :
           y[i] = IF i <= Len(x) THEN x[i] ELSE new[i - Len(x)]
  BY <1>1, <1>3, ConcatProperties
<1> HIDE DEF y
<1>6. Begins(x, y)
  BY <1>1, <1>4, <1>5 DEF Begins
<1>7. Len(y) <= Len(es)
  BY <1>1, <1>3, <1>5 DEF SubRun, Begins
<1>8. ASSUME NEW i \in 1 .. Len(y)
      PROVE  y[i] = es[i]
  <2>1. CASE i <= Len(x)
    BY <1>1, <1>4, <1>5, <2>1 DEF Begins
  <2>2. CASE i > Len(x)
    <3>1. PICK k \in Nat : k = i - Len(x)
      BY <1>1, <2>2
    <3>2. k \in 1 .. Len(new) /\ k \in 1 .. Len(list) - a + 1
      BY <1>1, <1>3, <1>4, <1>5, <2>2, <3>1
    <3>3. y[i] = new[k] /\ new[k] = list[a + k - 1]
      BY <1>1, <1>3, <1>4, <1>5, <2>2, <3>1, <3>2
    <3>4. a + k - 1 \in 1 .. Len(list) /\ from + (a + k - 1) = i
      BY <1>1, <3>1, <3>2
    <3>5. list[a + k - 1] = es[from + (a + k - 1)]
      BY <3>4 DEF SubRun
    <3> QED
      BY <3>3, <3>4, <3>5
  <2> QED
    BY <1>1, <1>4, <1>5, <2>1, <2>2
<1>9. Begins(y, es)
  BY <1>7, <1>8 DEF Begins
<1> QED
  BY <1>5, <1>6, <1>9 DEF y, new, a

-----------------------------------------------------------------------------
(* The worker on its tape *)

LEMMA TapeRises ==
  ASSUME NEW es \in Seq(Entry), Rising(es), NEW s \in Session,
         NEW m \in 0 .. Len(es), NEW n \in 0 .. Len(es), m <= n
  PROVE  /\ TapeEnd(es, s, m) \in Nat /\ TapeEnd(es, s, n) \in Nat
         /\ TapeEnd(es, s, m) <= TapeEnd(es, s, n)
BY EntryTypes DEF Rising

\* More entries behind the ones it has change nothing for a worker.
LEMMA MoreEntriesSettle ==
  ASSUME NEW x \in Seq(Entry), NEW y \in Seq(Entry), Begins(x, y), NEW s \in Session,
         NEW c \in Nat, NEW b \in BOOLEAN, NEW e \in Nat, NEW p \in Nat, NEW d \in Int,
         Settled(x, s, c, b, e, p, d)
  PROVE  Settled(y, s, c, b, e, p, d)
<1>1. /\ Len(x) \in Nat /\ Len(y) \in Nat /\ Len(x) <= Len(y)
      /\ \A n \in 0 .. Len(x) : TapeEnd(y, s, n) = TapeEnd(x, s, n)
  BY BeginsTapeEnd
<1>2. d + 1 \in 0 .. Len(x) /\ c \in 0 .. Len(x)
  BY <1>1 DEF Settled
<1>3. b => c + 1 \in 0 .. Len(x)
  BY <1>1 DEF Settled
<1> QED
  BY <1>1, <1>2, <1>3 DEF Settled

\* What pump() does to the cursor: nothing while a command is in flight, and never
\* to more than one past what may be executed.
LEMMA PumpStops ==
  ASSUME NEW es \in Seq(Entry), NEW s \in Session, NEW g \in Grant, NEW q,
         NEW c \in Nat, NEW b \in BOOLEAN, NEW n \in c .. Len(es), NEW b2 \in BOOLEAN,
         Pump(s, es, g, q, b, c, n, b2)
  PROVE  /\ b => n = c /\ b2
         /\ ~b => /\ n > c => n <= g.entryLimit
                  /\ b2 => n < Len(es) /\ n < g.entryLimit
<1>1. g.entryLimit \in Nat /\ Len(es) \in Nat
  BY DEF Grant
<1>2. ASSUME ~b, n > c
      PROVE  n <= g.entryLimit
  <2>1. n - 1 \in c .. n - 1
    BY <1>1, <1>2
  <2>2. MayExecute(s, es, g, q, n - 1)
    BY <1>2, <2>1 DEF Pump
  <2>3. n - 1 < g.entryLimit
    BY <2>2 DEF MayExecute
  <2> QED
    BY <1>1, <2>3
<1>3. ASSUME ~b, b2
      PROVE  n < Len(es) /\ n < g.entryLimit
  BY <1>3 DEF Pump, MayExecute
<1> QED
  BY <1>2, <1>3 DEF Pump

\* What pump() leaves executed is where the worker stands.
LEMMA PumpSettles ==
  ASSUME NEW es \in Seq(Entry), Rising(es), NEW s \in Session, NEW g \in Grant, NEW q,
         NEW c \in Nat, NEW b \in BOOLEAN, NEW x \in Nat, NEW p \in Nat, NEW d \in Int,
         Settled(es, s, c, b, x, p, d),
         NEW n \in c .. Len(es), NEW b2 \in BOOLEAN, Pump(s, es, g, q, b, c, n, b2)
  PROVE  Settled(es, s, n, b2, IF b THEN x ELSE TapeEnd(es, s, n), p, d)
<1>0. /\ b => n = c /\ b2
      /\ ~b => (b2 => n < Len(es))
  BY PumpStops
<1>1. CASE b
  <2>1. n = c /\ b2
    BY <1>0, <1>1
  <2> QED
    BY <1>1, <2>1
<1>2. CASE ~b
  <2>1. b2 => n < Len(es)
    BY <1>0, <1>2
  <2>2. Len(es) \in Nat /\ c \in 0 .. Len(es) /\ n \in 0 .. Len(es) /\ c <= n
    BY DEF Settled
  <2>3. x = TapeEnd(es, s, c) /\ p <= x /\ d < n
    BY <1>2, <2>2 DEF Settled
  <2>4. /\ TapeEnd(es, s, n) \in Nat /\ TapeEnd(es, s, c) \in Nat
        /\ TapeEnd(es, s, c) <= TapeEnd(es, s, n)
    BY <2>2, TapeRises
  <2>5. p <= TapeEnd(es, s, n)
    BY <2>3, <2>4
  <2>6. ASSUME b2
        PROVE  TapeEnd(es, s, n) <= TapeEnd(es, s, n + 1)
    <3>1. n + 1 \in 0 .. Len(es) /\ n <= n + 1
      BY <2>1, <2>2, <2>6
    <3> QED
      BY <2>2, <3>1, TapeRises
  <2>7. TapeEnd(es, s, n) <= TapeEnd(es, s, n)
    BY <2>4
  <2>8. -1 <= d /\ TapeEnd(es, s, d + 1) <= p /\ n <= Len(es)
    BY <2>2 DEF Settled
  <2> QED
    BY <1>2, <2>1, <2>3, <2>5, <2>6, <2>7, <2>8 DEF Settled
<1> QED
  BY <1>1, <1>2

\* What drain() plays and closes was executed and played.
LEMMA DrainSettles ==
  ASSUME TypeOK, NEW s \in Session, NEW g \in Grant, NEW n \in Nat, NEW b \in BOOLEAN,
         NEW x \in Nat, Settled(entries[s], s, n, b, x, playback[s], drained[s]),
         NEW p \in playback[s] .. x, NEW d \in drained[s] .. n - 1, Drain(s, g, n, x, p, d)
  PROVE  Settled(entries[s], s, n, b, x, p, d)
<1>1. /\ playback[s] \in Nat /\ drained[s] \in Int /\ entries[s] \in Seq(Entry)
      /\ p \in Nat /\ d \in Int /\ playback[s] <= p /\ p <= x
      /\ drained[s] <= d /\ d < n
  BY WorkerTypes
<1>2. TapeEnd(entries[s], s, d + 1) <= p
  <2>1. CASE d = drained[s]
    <3>1. Len(entries[s]) \in Nat /\ d + 1 \in 0 .. Len(entries[s])
      BY <1>1, <2>1, SMTT(30) DEF Settled
    <3>2. TapeEnd(entries[s], s, d + 1) \in Nat
      BY <1>1, <3>1, EntryTypes
    <3> QED
      BY <1>1, <2>1, <3>2 DEF Settled
  <2>2. CASE d # drained[s]
    <3>1. d \in drained[s] + 1 .. d
      BY <1>1, <2>2
    <3>2. \A k \in drained[s] + 1 .. d : PlayedOut(s, k, p)
      BY <2>2 DEF Drain
    <3> QED
      BY <3>1, <3>2 DEF PlayedOut
  <2> QED
    BY <2>1, <2>2
<1>3. -1 <= d
  BY <1>1 DEF Settled
<1> QED
  BY <1>1, <1>2, <1>3 DEF Settled

\* What the proofs need to know of a worker's step: what s holds only grows, s
\* stands where it should, its cursor obeys the grant it runs under but for the
\* command it finishes, and an ack reports where it stands.
WorksOn(s) ==
  /\ entries'[s] \in Seq(Entry) /\ Begins(entries[s], entries'[s])
  /\ \A es \in Seq(Entry) :
       TapeOf(s, wEpoch[s], es) => Begins(entries'[s], es)
  /\ Stands(s)'
  /\ \A t \in Session \ {s} :
       /\ entries'[t] = entries[t] /\ cursor'[t] = cursor[t] /\ busy'[t] = busy[t]
       /\ executed'[t] = executed[t] /\ playback'[t] = playback[t]
       /\ drained'[t] = drained[t]
  /\ \/ cursor'[s] = cursor[s]
     \/ cursor'[s] <= limits'[s].entryLimit
     \/ busy[s] /\ cursor'[s] = cursor[s] + 1
  /\ busy'[s] => \/ busy[s] /\ cursor'[s] = cursor[s]
                 \/ cursor'[s] < limits'[s].entryLimit

\* pump(); drain(); pump(), from a cursor at which the worker may stand.
LEMMA ServeWorksOn ==
  ASSUME TypeOK, NEW s \in Session, Rising(entries[s]), NEW g \in Grant,
         limits'[s] = g, entries' = entries,
         NEW inFlight \in BOOLEAN, NEW from \in Nat,
         Settled(entries[s], s, from, inFlight, executed[s], playback[s], drained[s]),
         \/ inFlight = busy[s] /\ from = cursor[s]
         \/ busy[s] /\ ~inFlight /\ from = cursor[s] + 1,
         Serve(s, g, inFlight, from)
  PROVE  WorksOn(s)
<1>1. /\ playback[s] \in Nat /\ drained[s] \in Int /\ executed[s] \in Nat
      /\ entries[s] \in Seq(Entry) /\ Len(entries[s]) \in Nat /\ cursor[s] \in Nat
  BY WorkerTypes
<1>2. PICK n \in from .. Len(entries[s]), m \in from .. Len(entries[s]),
           started \in BOOLEAN, b \in BOOLEAN :
        /\ Pump(s, entries[s], g, playback[s], inFlight, from, n, started)
        /\ LET x == IF inFlight THEN executed[s] ELSE TapeEnd(entries[s], s, n)
           IN  \E p \in playback[s] .. x, d \in drained[s] .. n - 1 :
                 /\ Drain(s, g, n, x, p, d)
                 /\ Pump(s, entries[s], g, p, started, n, m, b)
                 /\ playback' = [playback EXCEPT ![s] = p]
                 /\ drained' = [drained EXCEPT ![s] = d]
                 /\ toMain' = [toMain EXCEPT ![s] =
                      Append(@, AckMsg(wEpoch[s],
                                       [round |-> g.round, playback |-> p,
                                        cursor |-> m, drained |-> d]))]
        /\ cursor' = [cursor EXCEPT ![s] = m]
        /\ busy' = [busy EXCEPT ![s] = b]
        /\ executed' = [executed EXCEPT ![s] =
                          IF inFlight THEN @ ELSE TapeEnd(entries[s], s, m)]
  BY DEF Serve
<1> DEFINE x == IF inFlight THEN executed[s] ELSE TapeEnd(entries[s], s, n)
           y == IF inFlight THEN executed[s] ELSE TapeEnd(entries[s], s, m)
<1>3. n \in Nat /\ m \in Nat /\ n \in 0 .. Len(entries[s]) /\ m \in 0 .. Len(entries[s])
  BY <1>1, <1>2
<1>4. x \in Nat /\ y \in Nat
  BY <1>1, <1>3, EntryTypes
<1>5. PICK p \in playback[s] .. x, d \in drained[s] .. n - 1 :
        /\ Drain(s, g, n, x, p, d)
        /\ Pump(s, entries[s], g, p, started, n, m, b)
        /\ playback' = [playback EXCEPT ![s] = p]
        /\ drained' = [drained EXCEPT ![s] = d]
  BY <1>2
<1>6. Settled(entries[s], s, n, started, x, playback[s], drained[s])
  BY <1>1, <1>2, PumpSettles, SMTT(30)
<1>7. p \in Nat /\ d \in Int
  BY <1>1, <1>3, <1>4, <1>5
<1>8. executed' = [executed EXCEPT ![s] = y]
  BY <1>2
<1>9. x = y \/ ~started
  BY <1>2, <1>3, <1>5, <1>1 DEF Pump
<1>10. ~inFlight => y = TapeEnd(entries[s], s, m)
  OBVIOUS
<1>11. inFlight => started
  BY <1>2 DEF Pump
<1>12. PICK ex \in Nat, ey \in Nat : ex = x /\ ey = y
  BY <1>4
<1> HIDE DEF x, y
<1>13. Settled(entries[s], s, n, started, ex, p, d)
  BY <1>3, <1>5, <1>6, <1>12, DrainSettles
<1>14. n <= m
  BY <1>3, <1>5 DEF Pump
<1>15. m \in n .. Len(entries[s])
  BY <1>3, <1>14
<1>16. Settled(entries[s], s, m, b,
               IF started THEN ex ELSE TapeEnd(entries[s], s, m), p, d)
  BY <1>1, <1>3, <1>5, <1>7, <1>13, <1>15, PumpSettles
<1>17. Settled(entries[s], s, m, b, ey, p, d)
  <2>1. CASE started
    <3>1. ex = ey
      BY <1>9, <1>12, <2>1
    <3> QED
      BY <1>16, <2>1, <3>1
  <2>2. CASE ~started
    <3>1. ey = TapeEnd(entries[s], s, m)
      BY <1>10, <1>11, <1>12, <2>2
    <3> QED
      BY <1>16, <2>2, <3>1
  <2> QED
    BY <2>1, <2>2
<1>18. /\ cursor'[s] = m /\ busy'[s] = b /\ executed'[s] = ey
       /\ playback'[s] = p /\ drained'[s] = d /\ entries'[s] = entries[s]
       /\ \A t \in Session \ {s} :
            /\ entries'[t] = entries[t] /\ cursor'[t] = cursor[t] /\ busy'[t] = busy[t]
            /\ executed'[t] = executed[t] /\ playback'[t] = playback[t]
            /\ drained'[t] = drained[t]
  BY <1>2, <1>5, <1>8, <1>12 DEF TypeOK, WorkerTypeOK
<1>19. Stands(s)'
  BY <1>17, <1>18 DEF Stands
<1>20. /\ inFlight => n = from /\ started
       /\ ~inFlight => /\ n > from => n <= g.entryLimit
                       /\ started => n < g.entryLimit
  BY <1>1, <1>2, PumpStops, SMTT(30)
<1>21. /\ started => m = n /\ b
       /\ ~started => /\ m > n => m <= g.entryLimit
                      /\ b => m < g.entryLimit
  BY <1>1, <1>3, <1>5, <1>15, PumpStops
<1>22. /\ m = from \/ m <= g.entryLimit
       /\ b => (inFlight /\ m = from) \/ m < g.entryLimit
  <2>1. g.entryLimit \in Nat /\ from <= n
    BY <1>2 DEF Grant
  <2> QED
    BY <1>3, <1>20, <1>21, <2>1
<1>23. /\ entries'[s] \in Seq(Entry) /\ Begins(entries[s], entries'[s])
       /\ \A es \in Seq(Entry) :
            TapeOf(s, wEpoch[s], es) => Begins(entries'[s], es)
  BY <1>1, <1>18, BeginsItself DEF TapeOf
<1> QED
  BY <1>1, <1>18, <1>19, <1>22, <1>23 DEF WorksOn

\* pump() alone, on what the worker holds now.
LEMMA PumpOnlyWorksOn ==
  ASSUME TypeOK, NEW s \in Session, Stands(s), NEW es \in Seq(Entry), Rising(es),
         Begins(entries[s], es), entries' = [entries EXCEPT ![s] = es],
         \A z \in Seq(Entry) : TapeOf(s, wEpoch[s], z) => Begins(es, z), PumpOnly(s, es)
  PROVE  WorksOn(s)
<1>1. /\ playback[s] \in Nat /\ drained[s] \in Int /\ executed[s] \in Nat
      /\ entries[s] \in Seq(Entry) /\ cursor[s] \in Nat /\ busy[s] \in BOOLEAN
      /\ limits[s] \in Grant
  BY WorkerTypes
<1>2. PICK n \in cursor[s] .. Len(es), b \in BOOLEAN :
        /\ Pump(s, es, limits[s], playback[s], busy[s], cursor[s], n, b)
        /\ cursor' = [cursor EXCEPT ![s] = n]
        /\ busy' = [busy EXCEPT ![s] = b]
        /\ executed' = [executed EXCEPT ![s] =
                          IF busy[s] THEN @ ELSE TapeEnd(es, s, n)]
        /\ UNCHANGED <<wEpoch, playback, drained, limits, toMain>>
  BY DEF PumpOnly
<1>3. Settled(es, s, cursor[s], busy[s], executed[s], playback[s], drained[s])
  BY <1>1, MoreEntriesSettle DEF Stands
<1>4. Settled(es, s, n, b, IF busy[s] THEN executed[s] ELSE TapeEnd(es, s, n),
              playback[s], drained[s])
  BY <1>1, <1>2, <1>3, PumpSettles
<1>5. /\ entries'[s] = es /\ cursor'[s] = n /\ busy'[s] = b
      /\ executed'[s] = IF busy[s] THEN executed[s] ELSE TapeEnd(es, s, n)
      /\ playback'[s] = playback[s] /\ drained'[s] = drained[s]
      /\ limits'[s] = limits[s]
  BY <1>2 DEF TypeOK, WorkerTypeOK
<1>6. \A t \in Session \ {s} :
        /\ entries'[t] = entries[t] /\ cursor'[t] = cursor[t] /\ busy'[t] = busy[t]
        /\ executed'[t] = executed[t] /\ playback'[t] = playback[t]
        /\ drained'[t] = drained[t]
  BY <1>2 DEF TypeOK, WorkerTypeOK
<1>7. Stands(s)'
  BY <1>4, <1>5 DEF Stands
<1>8. /\ busy[s] => n = cursor[s] /\ b
      /\ ~busy[s] => /\ n > cursor[s] => n <= limits[s].entryLimit
                     /\ b => n < limits[s].entryLimit
  BY <1>1, <1>2, PumpStops
<1>9. n = cursor[s] \/ n > cursor[s]
  BY <1>1, <1>2
<1> QED
  BY <1>5, <1>6, <1>7, <1>8, <1>9 DEF WorksOn

LEMMA HandleGrantWorksOn ==
  ASSUME TInv, NEW s \in Session, Rising(entries[s]), HandleGrant(s)
  PROVE  WorksOn(s)
<1> DEFINE g == Head(toWorker[s]).grant
<1>1. TypeOK /\ Stands(s) /\ cursor[s] \in Nat /\ busy[s] \in BOOLEAN
  BY WorkerTypes DEF TInv, IInv
<1>2. /\ toWorker[s] # <<>> /\ Head(toWorker[s]).type = "GRANT"
      /\ entries' = entries
      /\ limits' = [limits EXCEPT ![s] = g]
      /\ Serve(s, limits'[s], busy[s], cursor[s])
  BY DEF HandleGrant, Receives
<1>3. g \in Grant /\ limits'[s] = g
  BY <1>1, <1>2, HeadIsMsg DEF ToWorkerMsg, TypeOK, WorkerTypeOK
<1> HIDE DEF g
<1>4. Settled(entries[s], s, cursor[s], busy[s], executed[s], playback[s], drained[s])
  BY <1>1 DEF Stands
<1> QED
  BY <1>1, <1>2, <1>3, <1>4, ServeWorksOn

LEMMA CommandQuiescedWorksOn ==
  ASSUME TInv, NEW s \in Session, Rising(entries[s]), CommandQuiesced(s)
  PROVE  WorksOn(s)
<1>1. TypeOK /\ Stands(s) /\ cursor[s] \in Nat /\ busy[s] \in BOOLEAN
      /\ entries[s] \in Seq(Entry) /\ Len(entries[s]) \in Nat
      /\ drained[s] \in Int /\ executed[s] \in Nat
  BY WorkerTypes DEF TInv, IInv
<1>2. /\ busy[s] /\ executed[s] = TapeEnd(entries[s], s, cursor[s] + 1)
      /\ entries' = entries /\ limits' = limits
      /\ Serve(s, limits[s], FALSE, cursor[s] + 1)
  BY DEF CommandQuiesced
<1>3. Settled(entries[s], s, cursor[s] + 1, FALSE, executed[s], playback[s], drained[s])
  BY <1>1, <1>2 DEF Stands, Settled
<1>4. cursor[s] + 1 \in Nat /\ limits[s] \in Grant /\ FALSE \in BOOLEAN
  BY <1>1, WorkerTypes
<1> QED
  BY <1>1, <1>2, <1>3, <1>4, ServeWorksOn

LEMMA CommandOpWorksOn ==
  ASSUME TInv, NEW s \in Session, CommandOp(s)
  PROVE  WorksOn(s)
<1>1. TypeOK /\ Stands(s) /\ executed[s] \in Nat /\ entries[s] \in Seq(Entry)
      /\ cursor[s] \in Nat /\ Len(entries[s]) \in Nat /\ playback[s] \in Nat
  BY WorkerTypes DEF TInv, IInv
<1>2. PICK x \in executed[s] + 1 .. TapeEnd(entries[s], s, cursor[s] + 1) :
        executed' = [executed EXCEPT ![s] = x]
  BY DEF CommandOp
<1>3. /\ busy[s]
      /\ UNCHANGED <<coordinator, toWorker, toMain, wEpoch, ready, entries, cursor,
                     busy, playback, drained, limits>>
  BY DEF CommandOp
<1>4. executed'[s] = x /\ \A t \in Session \ {s} : executed'[t] = executed[t]
  BY <1>1, <1>2 DEF TypeOK, WorkerTypeOK
<1>5. /\ TapeEnd(entries[s], s, cursor[s]) \in Nat
      /\ TapeEnd(entries[s], s, cursor[s] + 1) \in Nat
  <2>1. cursor[s] \in 0 .. Len(entries[s]) /\ cursor[s] + 1 \in 0 .. Len(entries[s])
    BY <1>1, <1>3 DEF Stands, Settled
  <2> QED
    BY <1>1, <2>1, EntryTypes
<1>6. x \in Nat /\ executed[s] <= x /\ x <= TapeEnd(entries[s], s, cursor[s] + 1)
  BY <1>1, <1>2, <1>5
<1>7. Settled(entries[s], s, cursor[s], busy[s], x, playback[s], drained[s])
  BY <1>1, <1>3, <1>5, <1>6 DEF Stands, Settled
<1>8. Stands(s)'
  BY <1>3, <1>4, <1>7 DEF Stands
<1>9. /\ entries'[s] \in Seq(Entry) /\ Begins(entries[s], entries'[s])
      /\ \A es \in Seq(Entry) :
           TapeOf(s, wEpoch[s], es) => Begins(entries'[s], es)
  BY <1>1, <1>3, BeginsItself DEF TapeOf
<1> QED
  BY <1>3, <1>4, <1>8, <1>9 DEF WorksOn

LEMMA RunnerReadyWorksOn ==
  ASSUME TInv, NEW s \in Session, Rising(entries[s]), RunnerReady(s)
  PROVE  WorksOn(s)
<1>1. TypeOK /\ Stands(s) /\ entries[s] \in Seq(Entry)
  BY WorkerTypes DEF TInv, IInv
<1>2. PumpOnly(s, entries[s]) /\ entries' = [entries EXCEPT ![s] = entries[s]]
  BY <1>1 DEF RunnerReady, TypeOK, WorkerTypeOK
<1>3. \A z \in Seq(Entry) : TapeOf(s, wEpoch[s], z) => Begins(entries[s], z)
  BY DEF TapeOf
<1> QED
  BY <1>1, <1>2, <1>3, BeginsItself, PumpOnlyWorksOn

\* I6: what handleEntries() keeps of a message continues what the worker holds.
LEMMA HandleEntriesWorksOn ==
  ASSUME TInv, NEW s \in Session, HandleEntries(s)
  PROVE  WorksOn(s)
<1> DEFINE m    == Head(toWorker[s])
           have == Len(entries[s])
           new  == IF m.from <= have THEN SubSeq(m.list, have - m.from + 1, Len(m.list))
                                     ELSE <<>>
           kept == entries[s] \o new
<1>1. TypeOK /\ Stands(s) /\ entries[s] \in Seq(Entry) /\ have \in Nat
      /\ wEpoch[s] \in Nat /\ entries \in [Session -> Seq(Entry)]
  BY WorkerTypes DEF TInv, IInv, TypeOK, WorkerTypeOK
<1>2. /\ toWorker[s] # <<>> /\ m.type = "ENTRIES" /\ m.epoch = wEpoch[s]
      /\ entries' = [entries EXCEPT ![s] = kept]
      /\ PumpOnly(s, kept)
  BY <1>1 DEF HandleEntries, Receives
<1>3. m.from \in Nat /\ m.list \in Seq(Entry) /\ m = toWorker[s][1]
      /\ 1 \in 1 .. Len(toWorker[s])
  <2>1. m \in ToWorkerMsg /\ m = toWorker[s][1] /\ 1 \in 1 .. Len(toWorker[s])
    <3>1. TypeOK /\ toWorker[s] # <<>>
      BY <1>1, <1>2
    <3>2. /\ Head(toWorker[s]) \in ToWorkerMsg /\ Head(toWorker[s]) = toWorker[s][1]
          /\ Len(toWorker[s]) \in Nat \ {0}
      BY ONLY <3>1, s \in Session, HeadIsMsg
    <3> QED BY <3>2
  <2> QED
    BY <1>2, <2>1 DEF ToWorkerMsg
<1>4. ASSUME NEW es \in Seq(Entry), TapeOf(s, wEpoch[s], es)
      PROVE  kept \in Seq(Entry) /\ Begins(entries[s], kept) /\ Begins(kept, es)
  <2>1. Begins(entries[s], es) /\ SubRun(m.list, m.from, es)
    BY <1>2, <1>3, <1>4 DEF TapeOf
  <2>2. CASE m.from <= have
    <3>1. new = SubSeq(m.list, have - m.from + 1, Len(m.list))
      BY <2>2
    <3> QED
      BY <1>1, <1>3, <2>1, <2>2, <3>1, KeptIsPrefix
  <2>3. CASE ~(m.from <= have)
    <3>1. kept = entries[s]
      BY <1>1, <2>3
    <3> HIDE DEF kept
    <3> QED
      BY <1>1, <2>1, <3>1, BeginsItself
  <2> QED
    BY <2>2, <2>3
<1>5. PICK es \in Seq(Entry) : TapeOf(s, wEpoch[s], es)
  BY <1>1 DEF TInv, Canonical
<1> HIDE DEF kept
<1>6. Rising(kept)
  BY <1>4, <1>5, BeginsRising DEF TapeOf
<1> QED
  BY <1>1, <1>2, <1>4, <1>5, <1>6, PumpOnlyWorksOn

LEMMA WorkerWorksOn ==
  ASSUME TInv, NEW s \in Session, Worker(s)
  PROVE  \/ HandleReset(s)
         \/ Advances(s) /\ WorksOn(s)
<1>1. Rising(entries[s])
  <2>1. wEpoch[s] \in Nat /\ entries[s] \in Seq(Entry)
    BY DEF TInv, IInv, TypeOK, WorkerTypeOK
  <2>2. PICK es \in Seq(Entry) : TapeOf(s, wEpoch[s], es)
    BY <2>1 DEF TInv, Canonical
  <2> QED
    BY <2>1, <2>2, BeginsRising DEF TapeOf
<1>2. TypeOK /\ WorkerInv
  BY DEF TInv, IInv
<1> QED
  BY <1>1, <1>2, HandleGrantWorksOn, HandleEntriesWorksOn, RunnerReadyWorksOn,
     CommandOpWorksOn, CommandQuiescedWorksOn, HandleGrantAdvances,
     HandleEntriesAdvances, RunnerReadyAdvances, CommandOpAdvances,
     CommandQuiescedAdvances
  DEF Worker

-----------------------------------------------------------------------------
(* What the coordinator posts *)

\* A piece of the sequence of the epoch, the grant that is kept, or a reset.
IsPost(s, m) ==
  /\ m \in ToWorkerMsg
  /\ m.type = "ENTRIES" => m.epoch = epoch' /\ SubRun(m.list, m.from, sequence')
  /\ m.type = "GRANT" => m.grant = cached'[s]

\* q is the port of s with some posts behind what was already on it.
Posted(s, q) ==
  /\ Len(q) \in Nat /\ Len(toWorker[s]) <= Len(q)
  /\ q \in Seq(ToWorkerMsg)
  /\ \A i \in 1 .. Len(toWorker[s]) : q[i] = toWorker[s][i]
  /\ \A i \in Len(toWorker[s]) + 1 .. Len(q) : IsPost(s, q[i])

LEMMA PortIsPosted ==
  ASSUME TypeOK, NEW s \in Session
  PROVE  Posted(s, toWorker[s])
<1>1. toWorker[s] \in Seq(ToWorkerMsg) /\ Len(toWorker[s]) \in Nat
  BY DEF TypeOK, PortsTypeOK
<1> QED
  BY <1>1 DEF Posted

LEMMA PostIsPosted ==
  ASSUME TypeOK, NEW s \in Session, NEW q, Posted(s, q), NEW m, IsPost(s, m)
  PROVE  Posted(s, q \o <<m>>)
<1>1. /\ q \in Seq(ToWorkerMsg) /\ m \in ToWorkerMsg
      /\ Len(toWorker[s]) \in Nat /\ Len(q) \in Nat
  BY DEF Posted, IsPost, TypeOK, PortsTypeOK
<1>2. /\ q \o <<m>> \in Seq(ToWorkerMsg) /\ Len(q \o <<m>>) = Len(q) + 1
      /\ \A i \in 1 .. Len(q) + 1 :
           (q \o <<m>>)[i] = IF i <= Len(q) THEN q[i] ELSE m
  BY <1>1
<1> QED
  BY <1>1, <1>2 DEF Posted

LEMMA ShipmentIsPosted ==
  ASSUME TypeOK, NEW s \in Session, NEW q, Posted(s, q), epoch' = epoch,
         NEW es \in Seq(Entry), NEW from \in Nat,
         sequence' \in Seq(Entry), Begins(es, sequence')
  PROVE  Posted(s, q \o Shipment(es, from))
<1> DEFINE list == SubSeq(es, from + 1, Len(es))
           m    == EntriesMsg(epoch, from, list)
<1>1. CASE from < Len(es)
  <2>1. list \in Seq(Entry)
    <3>1. \A i \in from + 1 .. Len(es) : es[i] \in Entry
      BY ElementOfSeq
    <3> QED
      BY <3>1, SubSeqProperties, LenProperties
  <2>2. SubRun(list, from, es)
    BY <1>1, ShipmentIsSubRun
  <2>3. SubRun(list, from, sequence')
    <3> HIDE DEF list
    <3>1. PICK z \in Seq(Entry) : z = sequence'
      OBVIOUS
    <3> QED
      BY <2>1, <2>2, <3>1, SubRunExtends
  <2>4. epoch \in Nat
    BY DEF TypeOK, CoordinatorTypeOK
  <2>5. IsPost(s, m)
    <3> HIDE DEF list
    <3>1. /\ m.type = "ENTRIES" /\ m.epoch = epoch /\ m.list = list /\ m.from = from
          /\ m \in ToWorkerMsg
      BY <2>1, <2>4 DEF EntriesMsg, ToWorkerMsg
    <3> QED
      BY <2>3, <3>1 DEF IsPost
  <2>6. Shipment(es, from) = <<m>>
    BY <1>1 DEF Shipment
  <2> HIDE DEF m
  <2> QED
    BY <2>5, <2>6, PostIsPosted
<1>2. CASE ~(from < Len(es))
  <2>1. Shipment(es, from) = <<>> /\ q \in Seq(ToWorkerMsg)
    BY <1>2 DEF Shipment, Posted
  <2>2. q \o <<>> = q
    BY <2>1
  <2> QED
    BY <2>1, <2>2
<1> QED
  BY <1>1, <1>2

\* Every grant is derived afresh, and only a nudge in Race derives one of rule "step".
DerivesGrants ==
  \E es \in Seq(Entry), r \in Int, force \in BOOLEAN, stepLimit \in Nat \cup {-1} :
    /\ Len(sequence) <= Len(es)
    /\ stepLimit = -1 \/ ("step" \in UserOps /\ mode = "race")
    /\ computeGrants(r, es, force, stepLimit)
    /\ UNCHANGED <<epoch, mode, scale, acked>>

\* What every step of the coordinator leaves: pieces of one sequence on the ports,
\* which within an epoch only grows.
CoordinatorPosts ==
  /\ UNCHANGED worker
  /\ \A s \in Session : Posted(s, toWorker'[s])
  /\ sequence' \in Seq(Entry) /\ Rising(sequence')
  /\ \/ epoch' = epoch /\ Begins(sequence, sequence')
     \/ epoch' = epoch + 1
  /\ \/ UNCHANGED <<epoch, mode, scale, sharedIndex, cached>>
     \/ Reset
     \/ DerivesGrants

LEMMA SequenceRises ==
  ASSUME TInv
  PROVE  sequence \in Seq(Entry) /\ Rising(sequence) /\ epoch \in Nat
<1>1. PICK s \in Session : TRUE
  BY ConstantsAssumption
<1>2. epoch \in Nat /\ sequence \in Seq(Entry)
  BY DEF TInv, IInv, TypeOK, CoordinatorTypeOK
<1>3. PICK es \in Seq(Entry) : TapeOf(s, epoch, es)
  BY <1>2 DEF TInv, Canonical
<1> QED
  BY <1>2, <1>3 DEF TapeOf

LEMMA ComputeGrantsRises ==
  ASSUME TypeOK, NEW es \in Seq(Entry), Rising(es), NEW r \in Int,
         NEW force \in BOOLEAN, NEW stepLimit, computeGrants(r, es, force, stepLimit)
  PROVE  sequence' \in Seq(Entry) /\ Begins(es, sequence') /\ Rising(sequence')
<1>1. sharedIndex \in Nat /\ Len(es) \in Nat
  BY DEF TypeOK, CoordinatorTypeOK
<1>2. CASE PaceAdvance(es, force)
  <2>1. PICK k \in sharedIndex .. Len(es) :
          sequence' \in Ensured(es, IF running \/ force THEN k + 1 ELSE 0)
    BY <1>2 DEF PaceAdvance
  <2> QED
    BY <1>1, <2>1, EnsuredRises
<1>3. CASE RaceAdvance(es)
  <2>1. PICK b \in 0 .. Len(es) :
          sequence' \in Ensured(es, IF running THEN b + RACE_LOOKAHEAD ELSE 0)
    BY <1>3 DEF RaceAdvance
  <2> QED
    BY <1>1, <2>1, EnsuredRises DEF RACE_LOOKAHEAD
<1> QED
  BY <1>2, <1>3 DEF computeGrants

LEMMA FramePosts ==
  ASSUME TInv, NEW es \in Seq(Entry), Begins(sequence, es), Rising(es),
         NEW force \in BOOLEAN, NEW stepLimit \in Nat \cup {-1}, NEW last,
         stepLimit = -1 \/ ("step" \in UserOps /\ mode = "race"),
         cached' \in [Session -> Grant], FrameWith(es, force, stepLimit, last)
  PROVE  CoordinatorPosts
<1>1. TypeOK /\ CoordinatorTypeOK
  BY DEF TInv, IInv, TypeOK
<1>2. /\ toWorker' = [s \in Session |->
                        toWorker[s] \o Shipment(es, shipped[s])
                                    \o Shipment(sequence', Len(es))
                                    \o <<GrantMsg(epoch, cached'[s])>>]
      /\ UNCHANGED <<epoch, mode, running, scale, acked, toMain, worker>>
  BY DEF FrameWith
<1>3. \/ UNCHANGED <<sharedIndex, cached>> /\ sequence' = es
      \/ \E r \in Int : computeGrants(r, es, force, stepLimit)
  <2>1. round \in Int /\ round + 1 \in Int
    BY <1>1 DEF CoordinatorTypeOK
  <2> QED
    BY <2>1 DEF FrameWith
<1>4. sequence' \in Seq(Entry) /\ Begins(es, sequence') /\ Rising(sequence')
  <2>1. CASE sequence' = es
    BY <2>1, BeginsItself
  <2>2. ASSUME NEW r \in Int, computeGrants(r, es, force, stepLimit)
        PROVE  sequence' \in Seq(Entry) /\ Begins(es, sequence') /\ Rising(sequence')
    BY <1>1, <2>2, ComputeGrantsRises
  <2> QED
    BY <1>3, <2>1, <2>2
<1>5. PICK z \in Seq(Entry) : z = sequence'
  BY <1>4
<1>6. Begins(sequence, sequence') /\ Len(sequence) <= Len(es)
  <2>1. sequence \in Seq(Entry)
    BY <1>1 DEF CoordinatorTypeOK
  <2> QED
    BY <1>4, <1>5, <2>1, BeginsTransitive DEF Begins
<1>7. ASSUME NEW s \in Session
      PROVE  Posted(s, toWorker'[s])
  <2> DEFINE x == toWorker[s] \o Shipment(es, shipped[s])
             y == x \o Shipment(z, Len(es))
             m == GrantMsg(epoch, cached'[s])
  <2>1. epoch' = epoch /\ epoch \in Nat /\ shipped[s] \in Nat /\ Len(es) \in Nat
    BY <1>1, <1>2 DEF CoordinatorTypeOK
  <2>2. Posted(s, x)
    BY <1>1, <1>4, <2>1, PortIsPosted, ShipmentIsPosted
  <2> HIDE DEF x
  <2>3. Posted(s, y)
    BY <1>1, <1>4, <1>5, <2>1, <2>2, BeginsItself, ShipmentIsPosted
  <2> HIDE DEF y
  <2>4. IsPost(s, m)
    BY <2>1 DEF IsPost, GrantMsg, ToWorkerMsg
  <2>5. toWorker'[s] = y \o <<m>>
    BY <1>2, <1>5 DEF x, y
  <2> HIDE DEF m
  <2> QED
    BY <1>1, <2>3, <2>4, <2>5, PostIsPosted
<1>8. UNCHANGED <<epoch, mode, scale, sharedIndex, cached>> \/ DerivesGrants
  BY <1>2, <1>3, <1>6 DEF DerivesGrants
<1> QED
  BY <1>2, <1>4, <1>6, <1>7, <1>8 DEF CoordinatorPosts

LEMMA BroadcastPosts ==
  ASSUME TInv, Broadcast
  PROVE  CoordinatorPosts
<1>1. TypeOK /\ CoordinatorTypeOK
  BY DEF TInv, IInv, TypeOK
<1>2. PICK cost \in Costs :
        sequence' = Append(sequence, NewEntry(sequence, "command", cost))
  BY DEF Broadcast
<1>3. /\ toWorker' = [s \in Session |->
                        toWorker[s] \o Shipment(sequence', shipped[s])]
      /\ epoch' = epoch /\ UNCHANGED <<epoch, mode, scale, sharedIndex, cached>>
      /\ UNCHANGED worker
  BY DEF Broadcast
<1>4. /\ sequence' \in Seq(Entry) /\ Begins(sequence, sequence')
      /\ Rising(sequence')
  BY <1>2, SequenceRises, AppendRises
<1>5. PICK z \in Seq(Entry) : z = sequence'
  BY <1>4
<1>6. ASSUME NEW s \in Session
      PROVE  Posted(s, toWorker'[s])
  <2>1. shipped[s] \in Nat
    BY <1>1 DEF CoordinatorTypeOK
  <2>2. Posted(s, toWorker[s] \o Shipment(z, shipped[s]))
    BY <1>1, <1>3, <1>4, <1>5, <2>1, PortIsPosted, BeginsItself, ShipmentIsPosted
  <2> QED
    BY <1>3, <1>5, <2>2
<1> QED
  BY <1>3, <1>4, <1>6 DEF CoordinatorPosts

LEMMA ResetPosts ==
  ASSUME TInv, Reset
  PROVE  CoordinatorPosts
<1>1. TypeOK /\ CoordinatorTypeOK /\ PortsTypeOK
  BY DEF TInv, IInv, TypeOK
<1>2. /\ epoch' = epoch + 1 /\ sequence' = <<>>
      /\ cached' = [s \in Session |-> NoGrant]
      /\ toWorker' = [s \in Session |-> Append(toWorker[s], ResetMsg(epoch'))]
      /\ UNCHANGED worker
  BY DEF Reset
<1>3. sequence' \in Seq(Entry) /\ Rising(sequence')
  BY <1>2 DEF Rising, TapeEnd
<1>4. ASSUME NEW s \in Session
      PROVE  Posted(s, toWorker'[s])
  <2> DEFINE m == ResetMsg(epoch')
  <2>1. epoch' \in Nat
    BY <1>1, <1>2 DEF CoordinatorTypeOK
  <2>2. IsPost(s, m)
    BY <2>1 DEF IsPost, ResetMsg, ToWorkerMsg
  <2>3. toWorker'[s] = Append(toWorker[s], m) /\ toWorker[s] \in Seq(ToWorkerMsg)
    BY <1>1, <1>2 DEF PortsTypeOK
  <2>4. m \in ToWorkerMsg
    BY <2>2 DEF IsPost
  <2> HIDE DEF m
  <2>5. toWorker'[s] = toWorker[s] \o <<m>>
    BY <2>3, <2>4
  <2> QED
    BY <1>1, <2>2, <2>5, PortIsPosted, PostIsPosted
<1> QED
  BY <1>2, <1>3, <1>4 DEF CoordinatorPosts

-----------------------------------------------------------------------------
(* The invariant *)

LEMMA PostsKeepCanonical ==
  ASSUME TInv, CoordinatorPosts
  PROVE  Canonical'
<1>1. /\ TypeOK /\ PortsTypeOK /\ WorkerTypeOK /\ PortsInv
  BY DEF TInv, IInv, TypeOK
<1>2. /\ wEpoch' = wEpoch /\ entries' = entries
      /\ sequence' \in Seq(Entry) /\ Rising(sequence')
      /\ \/ epoch' = epoch /\ Begins(sequence, sequence')
         \/ epoch' = epoch + 1
  BY DEF CoordinatorPosts, worker
<1>3. sequence \in Seq(Entry) /\ epoch \in Nat
  BY SequenceRises
<1> SUFFICES ASSUME NEW s \in Session, NEW e \in Nat
             PROVE  \E es \in Seq(Entry) : TapeOf(s, e, es)'
  BY DEF Canonical
<1> DEFINE n == Len(toWorker[s])
<1>4. /\ n \in Nat /\ Len(toWorker'[s]) \in Nat /\ n <= Len(toWorker'[s])
      /\ \A i \in 1 .. n : toWorker'[s][i] = toWorker[s][i]
      /\ \A i \in n + 1 .. Len(toWorker'[s]) : IsPost(s, toWorker'[s][i])
  BY <1>1 DEF CoordinatorPosts, Posted, PortsTypeOK
<1>5. PICK es \in Seq(Entry) : TapeOf(s, e, es)
  BY DEF TInv, Canonical
<1>6. /\ wEpoch[s] \in Nat /\ wEpoch[s] <= epoch
      /\ \A i \in 1 .. n : toWorker[s][i].epoch <= epoch
      /\ entries[s] \in Seq(Entry)
  BY <1>1 DEF PortsInv, ResetsInOrder, WorkerTypeOK
<1>7. ASSUME NEW i \in 1 .. n, toWorker[s][i].type = "ENTRIES"
      PROVE  toWorker[s][i].list \in Seq(Entry) /\ toWorker[s][i].from \in Nat
  <2>1. toWorker[s][i] \in ToWorkerMsg
    BY <1>1 DEF PortsTypeOK
  <2> QED
    BY <1>7, <2>1 DEF ToWorkerMsg
<1> HIDE DEF n
<1>8. CASE e = epoch'
  <2>1. PICK z \in Seq(Entry) : z = sequence'
    BY <1>2
  <2>2. e = wEpoch[s] => Begins(entries[s], z)
    <3>1. CASE epoch' = epoch /\ Begins(sequence, sequence')
      <4>1. es = sequence
        BY <1>5, <1>8, <3>1 DEF TapeOf
      <4> QED
        BY <1>3, <1>5, <1>6, <2>1, <3>1, <4>1, BeginsTransitive DEF TapeOf
    <3>2. CASE epoch' = epoch + 1
      BY <1>3, <1>6, <1>8, <3>2
    <3> QED
      BY <1>2, <3>1, <3>2
  <2>3. ASSUME NEW i \in 1 .. Len(toWorker'[s]), toWorker'[s][i].type = "ENTRIES",
               toWorker'[s][i].epoch = e
        PROVE  SubRun(toWorker'[s][i].list, toWorker'[s][i].from, z)
    <3>1. CASE i \in 1 .. n
      <4>1. toWorker'[s][i] = toWorker[s][i]
        BY <1>4, <3>1
      <4>2. epoch' = epoch /\ Begins(sequence, sequence')
        <5>1. toWorker[s][i].epoch <= epoch
          BY <1>6, <3>1 DEF n
        <5> QED
          BY <1>2, <1>3, <1>8, <2>3, <4>1, <5>1
      <4>3. es = sequence
        BY <1>5, <1>8, <4>2 DEF TapeOf
      <4>4. SubRun(toWorker[s][i].list, toWorker[s][i].from, es)
        BY <1>5, <2>3, <3>1, <4>1 DEF TapeOf, n
      <4> QED
        BY <1>3, <1>7, <2>1, <2>3, <3>1, <4>1, <4>2, <4>3, <4>4, SubRunExtends
    <3>2. CASE i \notin 1 .. n
      <4>1. i \in n + 1 .. Len(toWorker'[s])
        BY <1>4, <3>2
      <4> QED
        BY <1>4, <2>1, <2>3, <4>1 DEF IsPost
    <3> QED
      BY <3>1, <3>2
  <2>4. TapeOf(s, e, z)'
    BY <1>2, <2>1, <2>2, <2>3 DEF TapeOf, Rising, Begins, SubRun, TapeEnd
  <2> QED
    BY <2>4
<1>9. CASE e # epoch'
  <2>1. ASSUME NEW i \in 1 .. Len(toWorker'[s]), toWorker'[s][i].type = "ENTRIES",
               toWorker'[s][i].epoch = e
        PROVE  SubRun(toWorker'[s][i].list, toWorker'[s][i].from, es)
    <3>1. CASE i \in 1 .. n
      BY <1>4, <1>5, <2>1, <3>1 DEF TapeOf, n
    <3>2. CASE i \notin 1 .. n
      <4>1. i \in n + 1 .. Len(toWorker'[s])
        BY <1>4, <3>2
      <4> QED
        BY <1>4, <1>9, <2>1, <4>1 DEF IsPost
    <3> QED
      BY <3>1, <3>2
  <2>2. TapeOf(s, e, es)'
    BY <1>2, <1>5, <1>9, <2>1 DEF TapeOf
  <2> QED
    BY <2>2
<1> QED
  BY <1>8, <1>9

\* A worker takes its mail in order; what is left is still of the same sequences.
LEMMA WorkerKeepsCanonical ==
  ASSUME TInv, NEW s \in Session, UNCHANGED <<epoch, sequence>>,
         \A t \in Session \ {s} :
           /\ toWorker'[t] = toWorker[t] /\ wEpoch'[t] = wEpoch[t]
           /\ entries'[t] = entries[t],
         \/ toWorker'[s] = toWorker[s]
         \/ toWorker[s] # <<>> /\ toWorker'[s] = Tail(toWorker[s]),
         \A e \in Nat, es \in Seq(Entry) :
           TapeOf(s, e, es) /\ e = wEpoch'[s] => Begins(entries'[s], es)
  PROVE  Canonical'
<1>1. TypeOK
  BY DEF TInv, IInv
<1> SUFFICES ASSUME NEW t \in Session, NEW e \in Nat
             PROVE  \E es \in Seq(Entry) : TapeOf(t, e, es)'
  BY DEF Canonical
<1>2. PICK es \in Seq(Entry) : TapeOf(t, e, es)
  BY DEF TInv, Canonical
<1>3. e = wEpoch'[t] => Begins(entries'[t], es)
  BY <1>2 DEF TapeOf
<1>4. ASSUME NEW i \in 1 .. Len(toWorker'[t]), toWorker'[t][i].type = "ENTRIES",
             toWorker'[t][i].epoch = e
      PROVE  SubRun(toWorker'[t][i].list, toWorker'[t][i].from, es)
  <2>1. CASE toWorker'[t] = toWorker[t]
    BY <1>2, <1>4, <2>1 DEF TapeOf
  <2>2. CASE t = s /\ toWorker[s] # <<>> /\ toWorker'[s] = Tail(toWorker[s])
    <3>1. toWorker'[s][i] = toWorker[s][i + 1] /\ i + 1 \in 1 .. Len(toWorker[s])
      BY <1>1, <1>4, <2>2, HeadIsMsg
    <3> QED
      BY <1>2, <1>4, <2>2, <3>1 DEF TapeOf
  <2> QED
    BY <2>1, <2>2
<1>5. TapeOf(t, e, es)'
  BY <1>2, <1>3, <1>4 DEF TapeOf
<1> QED
  BY <1>5

LEMMA WorksOnKeepsTInv ==
  ASSUME TInv, IInv', NEW s \in Session, Advances(s), WorksOn(s)
  PROVE  TInv'
<1>1. TypeOK /\ WorkerTypeOK /\ PortsTypeOK /\ CoordinatorTypeOK /\ TypeOK'
  BY DEF TInv, IInv, TypeOK
<1>2. /\ UNCHANGED coordinator /\ wEpoch' = wEpoch
      /\ \A t \in Session \ {s} : toWorker'[t] = toWorker[t] /\ toMain'[t] = toMain[t]
      /\ \/ toWorker'[s] = toWorker[s]
         \/ toWorker[s] # <<>> /\ toWorker'[s] = Tail(toWorker[s])
      /\ \/ toMain'[s] = toMain[s]
         \/ toMain'[s] =
              Append(toMain[s],
                     AckMsg(wEpoch[s],
                            [round |-> limits'[s].round, playback |-> playback'[s],
                             cursor |-> cursor'[s], drained |-> drained'[s]]))
  BY <1>1, AdvancesFacts
<1>3. epoch' = epoch /\ sequence' = sequence /\ acked' = acked
  BY <1>2 DEF coordinator
<1>4. Canonical'
  <2>1. \A t \in Session \ {s} : entries'[t] = entries[t]
    BY DEF WorksOn
  <2>2. \A e \in Nat, es \in Seq(Entry) :
          TapeOf(s, e, es) /\ e = wEpoch'[s] => Begins(entries'[s], es)
    BY <1>2 DEF WorksOn
  <2> QED
    BY <1>2, <1>3, <2>1, <2>2, WorkerKeepsCanonical
<1>5. \A t \in Session : Stands(t)'
  <2>1. \A t \in Session \ {s} : Stands(t)'
    BY DEF WorksOn, TInv, Stands
  <2> QED
    BY <2>1 DEF WorksOn
<1>6. ASSUME NEW d \in Int, -1 <= d, d <= drained[s]
      PROVE  TapeEnd(entries'[s], s, d + 1) = TapeEnd(entries[s], s, d + 1)
  <2>1. /\ entries[s] \in Seq(Entry) /\ Len(entries[s]) \in Nat
        /\ cursor[s] \in Nat /\ drained[s] \in Int
    BY <1>1, WorkerTypes
  <2>2. d + 1 \in 0 .. Len(entries[s])
    BY <1>6, <2>1 DEF TInv, Stands, Settled
  <2> QED
    BY <2>1, <2>2, BeginsTapeEnd DEF WorksOn
<1>7. AckedWasPlayed'
  <2> SUFFICES ASSUME NEW t \in Session
               PROVE  /\ -1 <= acked[t].drained
                      /\ Current(t)' => TapeEnd(entries'[t], t, acked[t].drained + 1)
                                          <= acked[t].playback
                      /\ \A i \in 1 .. Len(toMain'[t]) : toMain'[t][i].epoch = wEpoch[t] =>
                           /\ -1 <= toMain'[t][i].ack.drained
                           /\ TapeEnd(entries'[t], t, toMain'[t][i].ack.drained + 1)
                                <= toMain'[t][i].ack.playback
    BY <1>2, <1>3 DEF AckedWasPlayed
  <2>1. Current(t)' <=> Current(t)
    BY <1>2, <1>3 DEF Current
  <2>2. CASE t # s
    BY <1>2, <2>1, <2>2 DEF TInv, AckedWasPlayed, WorksOn
  <2>3. CASE t = s
    <3>1. -1 <= acked[s].drained /\ acked[s].drained \in Int
      BY <1>1 DEF TInv, AckedWasPlayed, CoordinatorTypeOK, Ack
    <3>2. ASSUME Current(s)
          PROVE  TapeEnd(entries'[s], s, acked[s].drained + 1) <= acked[s].playback
      <4>1. acked[s].drained <= drained[s]
        BY <3>2 DEF TInv, IInv, AckedIsPast, DrainedOf
      <4>2. TapeEnd(entries'[s], s, acked[s].drained + 1)
              = TapeEnd(entries[s], s, acked[s].drained + 1)
        BY <1>6, <3>1, <4>1
      <4> QED
        BY <3>2, <4>2 DEF TInv, AckedWasPlayed
    <3>3. ASSUME NEW i \in 1 .. Len(toMain[s]), toMain[s][i].epoch = wEpoch[s]
          PROVE  /\ -1 <= toMain[s][i].ack.drained
                 /\ TapeEnd(entries'[s], s, toMain[s][i].ack.drained + 1)
                      <= toMain[s][i].ack.playback
      <4>1. toMain[s][i].ack.drained \in Int
        <5>1. toMain[s][i] \in ToMainMsg
          BY <1>1 DEF PortsTypeOK
        <5> QED
          BY <5>1 DEF ToMainMsg, Ack
      <4>2. toMain[s][i].ack.drained <= drained[s]
        BY <3>3 DEF TInv, IInv, AcksArePast
      <4>3. /\ -1 <= toMain[s][i].ack.drained
            /\ TapeEnd(entries[s], s, toMain[s][i].ack.drained + 1)
                 <= toMain[s][i].ack.playback
        BY <3>3 DEF TInv, AckedWasPlayed
      <4>4. TapeEnd(entries'[s], s, toMain[s][i].ack.drained + 1)
              = TapeEnd(entries[s], s, toMain[s][i].ack.drained + 1)
        BY <1>6, <4>1, <4>2, <4>3
      <4> QED
        BY <4>3, <4>4
    <3>4. CASE toMain'[s] = toMain[s]
      BY <2>1, <2>3, <3>1, <3>2, <3>3, <3>4
    <3>5. CASE toMain'[s] # toMain[s]
      <4> DEFINE a == AckMsg(wEpoch[s],
                             [round |-> limits'[s].round, playback |-> playback'[s],
                              cursor |-> cursor'[s], drained |-> drained'[s]])
      <4>1. toMain'[s] = Append(toMain[s], a)
        BY <1>2, <3>5
      <4>2. a.ack.drained = drained'[s] /\ a.ack.playback = playback'[s]
        BY DEF AckMsg
      <4> HIDE DEF a
      <4>3. /\ Len(toMain[s]) \in Nat /\ Len(toMain'[s]) = Len(toMain[s]) + 1
            /\ \A i \in 1 .. Len(toMain[s]) : toMain'[s][i] = toMain[s][i]
            /\ toMain'[s][Len(toMain[s]) + 1] = a
        <5>1. toMain[s] \in Seq(ToMainMsg) /\ toMain'[s] \in Seq(ToMainMsg)
          BY <1>1 DEF TypeOK, PortsTypeOK
        <5> QED
          BY <4>1, <5>1
      <4>4. /\ -1 <= a.ack.drained
            /\ TapeEnd(entries'[s], s, a.ack.drained + 1) <= a.ack.playback
        BY <4>2 DEF WorksOn, Stands, Settled
      <4>5. ASSUME NEW i \in 1 .. Len(toMain'[s]), toMain'[s][i].epoch = wEpoch[s]
            PROVE  /\ -1 <= toMain'[s][i].ack.drained
                   /\ TapeEnd(entries'[s], s, toMain'[s][i].ack.drained + 1)
                        <= toMain'[s][i].ack.playback
        <5>1. i \in 1 .. Len(toMain[s]) \/ i = Len(toMain[s]) + 1
          BY <4>3
        <5> QED
          BY <3>3, <4>3, <4>4, <4>5, <5>1
      <4> QED
        BY <2>1, <2>3, <3>1, <3>2, <4>5
    <3> QED
      BY <3>4, <3>5
  <2> QED
    BY <2>2, <2>3
<1> QED
  BY <1>4, <1>5, <1>7 DEF TInv

LEMMA HandleResetKeepsTInv ==
  ASSUME TInv, IInv', NEW s \in Session, HandleReset(s)
  PROVE  TInv'
<1> DEFINE e == Head(toWorker[s]).epoch
<1>1. TypeOK /\ WorkerTypeOK /\ PortsTypeOK /\ CoordinatorTypeOK
  BY DEF TInv, IInv, TypeOK
<1>2. /\ toWorker[s] # <<>> /\ Head(toWorker[s]).type = "RESET"
      /\ toWorker' = [toWorker EXCEPT ![s] = Tail(@)]
      /\ UNCHANGED coordinator
      /\ wEpoch' = [wEpoch EXCEPT ![s] = e]
      /\ entries' = [entries EXCEPT ![s] = <<>>]
      /\ cursor' = [cursor EXCEPT ![s] = 0]
      /\ busy' = [busy EXCEPT ![s] = FALSE]
      /\ executed' = [executed EXCEPT ![s] = 0]
      /\ playback' = [playback EXCEPT ![s] = 0]
      /\ drained' = [drained EXCEPT ![s] = -1]
      /\ toMain' = toMain
  BY DEF HandleReset, Receives, NoEntries
<1>3. epoch' = epoch /\ sequence' = sequence /\ acked' = acked
  BY <1>2 DEF coordinator
<1>4. e \in Nat /\ wEpoch[s] < e /\ e <= epoch /\ wEpoch[s] \in Nat /\ epoch \in Nat
  <2>1. /\ Head(toWorker[s]) = toWorker[s][1] /\ 1 \in 1 .. Len(toWorker[s])
        /\ Head(toWorker[s]) \in ToWorkerMsg
    BY <1>1, <1>2, HeadIsMsg
  <2>2. e \in Nat
    BY <1>2, <2>1 DEF ToWorkerMsg
  <2> QED
    BY <1>1, <1>2, <2>1, <2>2
    DEF TInv, IInv, PortsInv, ResetsInOrder, CoordinatorTypeOK, WorkerTypeOK
<1> HIDE DEF e
<1>5. /\ wEpoch'[s] = e /\ entries'[s] = <<>> /\ cursor'[s] = 0 /\ busy'[s] = FALSE
      /\ executed'[s] = 0 /\ playback'[s] = 0 /\ drained'[s] = -1
      /\ toWorker'[s] = Tail(toWorker[s])
  BY <1>1, <1>2 DEF WorkerTypeOK, PortsTypeOK
<1>6. \A t \in Session \ {s} :
        /\ wEpoch'[t] = wEpoch[t] /\ entries'[t] = entries[t]
        /\ cursor'[t] = cursor[t] /\ busy'[t] = busy[t]
        /\ executed'[t] = executed[t] /\ playback'[t] = playback[t]
        /\ drained'[t] = drained[t] /\ toWorker'[t] = toWorker[t]
  BY <1>1, <1>2 DEF WorkerTypeOK, PortsTypeOK
<1>7. Canonical'
  <2>1. \A es \in Seq(Entry) : Begins(entries'[s], es)
    BY <1>5 DEF Begins
  <2> QED
    BY <1>2, <1>3, <1>5, <1>6, <2>1, WorkerKeepsCanonical
<1>8. \A t \in Session : Stands(t)'
  <2>1. \A t \in Session \ {s} : Stands(t)'
    BY <1>6 DEF TInv, Stands
  <2>2. Settled(<<>>, s, 0, FALSE, 0, 0, -1)
    BY DEF Settled, TapeEnd
  <2>3. Stands(s)'
    BY <1>5, <2>2 DEF Stands
  <2> QED
    BY <2>1, <2>3
<1>9. AckedWasPlayed'
  <2> SUFFICES ASSUME NEW t \in Session
               PROVE  /\ -1 <= acked[t].drained
                      /\ Current(t)' => TapeEnd(entries'[t], t, acked[t].drained + 1)
                                          <= acked[t].playback
                      /\ \A i \in 1 .. Len(toMain[t]) : toMain[t][i].epoch = wEpoch'[t] =>
                           /\ -1 <= toMain[t][i].ack.drained
                           /\ TapeEnd(entries'[t], t, toMain[t][i].ack.drained + 1)
                                <= toMain[t][i].ack.playback
    BY <1>2, <1>3 DEF AckedWasPlayed
  <2>1. CASE t # s
    <3>1. Current(t)' <=> Current(t)
      BY <1>3, <1>6, <2>1 DEF Current
    <3> QED
      BY <1>6, <2>1, <3>1 DEF TInv, AckedWasPlayed
  <2>2. CASE t = s
    <3>1. ~Current(s)
      BY <1>4 DEF Current
    <3>2. acked[s] \in Ack /\ acked[s].drained <= -1 /\ -1 <= acked[s].drained
      BY <1>1, <3>1 DEF TInv, IInv, AckedIsPast, DrainedOf, AckedWasPlayed, CoordinatorTypeOK
    <3>3. acked[s].drained + 1 = 0 /\ acked[s].playback >= 0
      BY <3>2 DEF Ack
    <3>4. \A i \in 1 .. Len(toMain[s]) : toMain[s][i].epoch # e
      <4> SUFFICES ASSUME NEW i \in 1 .. Len(toMain[s])
                   PROVE  toMain[s][i].epoch # e
        OBVIOUS
      <4>1. toMain[s][i] \in ToMainMsg
        BY <1>1 DEF PortsTypeOK
      <4>2. toMain[s][i].epoch \in Nat /\ toMain[s][i].epoch <= wEpoch[s]
        BY <4>1 DEF ToMainMsg, TInv, IInv, AcksArePast
      <4> QED
        BY <1>4, <4>2
    <3> QED
      BY <1>5, <2>2, <3>2, <3>3, <3>4 DEF TapeEnd
  <2> QED
    BY <2>1, <2>2
<1> QED
  BY <1>7, <1>8, <1>9 DEF TInv

\* The max-merge takes the playback along with the drained entries.
LEMMA ReceiveAckKeepsTInv ==
  ASSUME TInv, IInv', NEW s \in Session, ReceiveAck(s)
  PROVE  TInv'
<1> DEFINE m == Head(toMain[s])
<1>1. TypeOK /\ WorkerTypeOK /\ PortsTypeOK /\ CoordinatorTypeOK
  BY DEF TInv, IInv, TypeOK
<1>2. /\ toMain[s] # <<>>
      /\ acked' = IF m.epoch = epoch
                  THEN [acked EXCEPT ![s] =
                          [round    |-> Larger(@.round, m.ack.round),
                           playback |-> Larger(@.playback, m.ack.playback),
                           cursor   |-> Larger(@.cursor, m.ack.cursor),
                           drained  |-> Larger(@.drained, m.ack.drained)]]
                  ELSE acked
      /\ toMain' = [toMain EXCEPT ![s] = Tail(@)]
      /\ UNCHANGED <<epoch, sequence, toWorker, worker>>
  BY DEF ReceiveAck, OfThisEpoch
<1>3. /\ m \in ToMainMsg /\ m = toMain[s][1] /\ 1 \in 1 .. Len(toMain[s])
      /\ Len(Tail(toMain[s])) = Len(toMain[s]) - 1 /\ Len(toMain[s]) \in Nat
      /\ \A i \in 1 .. Len(Tail(toMain[s])) : Tail(toMain[s])[i] = toMain[s][i + 1]
  <2>1. toMain[s] \in Seq(ToMainMsg)
    BY <1>1 DEF PortsTypeOK
  <2>2. Len(toMain[s]) \in Nat \ {0}
    BY <1>2, <2>1, EmptySeq
  <2> QED
    BY <1>2, <2>1, <2>2, HeadTailProperties
<1>4. m.ack \in Ack /\ m.epoch \in Nat
  BY <1>3 DEF ToMainMsg
<1> HIDE DEF m
<1>5. /\ wEpoch' = wEpoch /\ entries' = entries /\ cursor' = cursor /\ busy' = busy
      /\ executed' = executed /\ playback' = playback /\ drained' = drained
      /\ epoch' = epoch /\ sequence' = sequence /\ toWorker' = toWorker
  BY <1>2 DEF worker
<1>6. Canonical' /\ \A t \in Session : Stands(t)'
  BY <1>5, ZenonT(60) DEF TInv, Canonical, TapeOf, Stands
<1>7. AckedWasPlayed'
  <2> SUFFICES ASSUME NEW t \in Session
               PROVE  /\ -1 <= acked'[t].drained
                      /\ Current(t) => TapeEnd(entries[t], t, acked'[t].drained + 1)
                                         <= acked'[t].playback
                      /\ \A i \in 1 .. Len(toMain'[t]) : toMain'[t][i].epoch = wEpoch[t] =>
                           /\ -1 <= toMain'[t][i].ack.drained
                           /\ TapeEnd(entries[t], t, toMain'[t][i].ack.drained + 1)
                                <= toMain'[t][i].ack.playback
    BY <1>5 DEF AckedWasPlayed, Current
  <2>1. CASE t # s
    <3>1. acked'[t] = acked[t] /\ toMain'[t] = toMain[t]
      BY <1>1, <1>2, <2>1 DEF CoordinatorTypeOK, PortsTypeOK
    <3> QED
      BY <2>1, <3>1 DEF TInv, AckedWasPlayed
  <2>2. CASE t = s
    <3>1. toMain'[s] = Tail(toMain[s])
      BY <1>1, <1>2 DEF PortsTypeOK
    <3>2. \A i \in 1 .. Len(toMain'[s]) : toMain'[s][i].epoch = wEpoch[s] =>
            /\ -1 <= toMain'[s][i].ack.drained
            /\ TapeEnd(entries[s], s, toMain'[s][i].ack.drained + 1)
                 <= toMain'[s][i].ack.playback
      <4> SUFFICES ASSUME NEW i \in 1 .. Len(toMain'[s])
                   PROVE  toMain'[s][i] = toMain[s][i + 1] /\ i + 1 \in 1 .. Len(toMain[s])
        BY DEF TInv, AckedWasPlayed
      <4> QED
        BY <1>3, <3>1
    <3>3. CASE m.epoch = epoch
      <4>1. PICK d1 \in Int, d2 \in Int, p1 \in Nat, p2 \in Nat :
              /\ d1 = acked[s].drained /\ d2 = m.ack.drained
              /\ p1 = acked[s].playback /\ p2 = m.ack.playback
        BY <1>1, <1>4 DEF CoordinatorTypeOK, Ack
      <4>2. acked'[s].drained = Larger(d1, d2) /\ acked'[s].playback = Larger(p1, p2)
        BY <1>1, <1>2, <3>3, <4>1 DEF CoordinatorTypeOK
      <4>3. wEpoch[s] = epoch
        <5>1. m.epoch <= wEpoch[s]
          BY <1>3 DEF TInv, IInv, AcksArePast
        <5>2. wEpoch[s] <= epoch /\ wEpoch[s] \in Nat /\ epoch \in Nat
          BY <1>1 DEF TInv, IInv, PortsInv, ResetsInOrder, WorkerTypeOK, CoordinatorTypeOK
        <5> QED
          BY <3>3, <5>1, <5>2
      <4>4. -1 <= d1 /\ TapeEnd(entries[s], s, d1 + 1) <= p1
        BY <4>1, <4>3 DEF TInv, AckedWasPlayed, Current
      <4>5. -1 <= d2 /\ TapeEnd(entries[s], s, d2 + 1) <= p2
        BY <1>3, <3>3, <4>1, <4>3 DEF TInv, AckedWasPlayed
      <4>6. d1 <= drained[s] /\ d2 <= drained[s]
        BY <1>3, <3>3, <4>1, <4>3
        DEF TInv, IInv, AckedIsPast, AcksArePast, DrainedOf, Current
      <4>7. /\ entries[s] \in Seq(Entry) /\ Len(entries[s]) \in Nat
            /\ cursor[s] \in Nat /\ drained[s] \in Int
        BY <1>1, WorkerTypes
      <4>8. d1 + 1 \in 0 .. Len(entries[s]) /\ d2 + 1 \in 0 .. Len(entries[s])
        <5>1. drained[s] < cursor[s] /\ cursor[s] <= Len(entries[s])
          BY DEF TInv, Stands, Settled
        <5> QED
          BY <4>4, <4>5, <4>6, <4>7, <5>1
      <4>9. /\ TapeEnd(entries[s], s, d1 + 1) \in Nat
            /\ TapeEnd(entries[s], s, d2 + 1) \in Nat
        BY <4>7, <4>8, EntryTypes
      <4>10. /\ -1 <= Larger(d1, d2)
             /\ TapeEnd(entries[s], s, Larger(d1, d2) + 1) <= Larger(p1, p2)
        BY <4>4, <4>5, <4>9 DEF Larger
      <4> QED
        BY <2>2, <3>2, <4>2, <4>10
    <3>4. CASE m.epoch # epoch
      BY <1>2, <2>2, <3>2, <3>4 DEF TInv, AckedWasPlayed
    <3> QED
      BY <3>3, <3>4
  <2> QED
    BY <2>1, <2>2
<1> QED
  BY <1>6, <1>7 DEF TInv

\* The coordinator's own steps, which leave the workers and the acks alone, or start
\* an epoch in which nothing is acknowledged.
LEMMA PostsKeepTInv ==
  ASSUME TInv, IInv', CoordinatorPosts, toMain' = toMain,
         \/ epoch' = epoch /\ acked' = acked
         \/ epoch' = epoch + 1 /\ acked' = [s \in Session |-> NothingAcked]
  PROVE  TInv'
<1>1. Canonical'
  BY PostsKeepCanonical
<1>2. /\ wEpoch' = wEpoch /\ entries' = entries /\ cursor' = cursor /\ busy' = busy
      /\ executed' = executed /\ playback' = playback /\ drained' = drained
  BY DEF CoordinatorPosts, worker
<1>3. \A t \in Session : Stands(t)'
  BY <1>2 DEF TInv, Stands
<1>4. CASE epoch' = epoch /\ acked' = acked
  BY <1>1, <1>2, <1>3, <1>4 DEF TInv, AckedWasPlayed, Current
<1>5. CASE epoch' = epoch + 1 /\ acked' = [s \in Session |-> NothingAcked]
  <2>1. \A t \in Session : acked'[t].drained = -1
    BY <1>5 DEF NothingAcked
  <2>2. \A t \in Session : ~Current(t)'
    <3>1. \A t \in Session : wEpoch[t] \in Nat /\ epoch \in Nat /\ wEpoch[t] <= epoch
      BY DEF TInv, IInv, PortsInv, ResetsInOrder, TypeOK, WorkerTypeOK, CoordinatorTypeOK
    <3> QED
      BY <1>2, <1>5, <3>1 DEF Current
  <2>3. AckedWasPlayed'
    BY <1>2, <2>1, <2>2 DEF TInv, AckedWasPlayed
  <2> QED
    BY <1>1, <1>3, <2>3 DEF TInv
<1> QED
  BY <1>4, <1>5

\* Modes, speeds and the run state are nothing to a worker, nor is a stutter.
LEMMA SettingsKeepTInv ==
  ASSUME TInv, IInv', UNCHANGED <<epoch, sequence, acked, toWorker, toMain, worker>>
  PROVE  TInv'
<1>1. /\ epoch' = epoch /\ sequence' = sequence /\ acked' = acked
      /\ toWorker' = toWorker /\ toMain' = toMain
      /\ wEpoch' = wEpoch /\ entries' = entries /\ cursor' = cursor /\ busy' = busy
      /\ executed' = executed /\ playback' = playback /\ drained' = drained
  BY DEF worker
<1>2. Canonical'
  BY <1>1, ZenonT(60) DEF TInv, Canonical, TapeOf
<1>3. \A t \in Session : Stands(t)'
  BY <1>1 DEF TInv, Stands
<1>4. AckedWasPlayed'
  BY <1>1 DEF TInv, AckedWasPlayed, Current
<1> QED
  BY <1>2, <1>3, <1>4 DEF TInv

LEMMA InitEstablishesTInv == Init => TInv
<1> SUFFICES ASSUME Init
             PROVE  TInv
  OBVIOUS
<1>1. IInv
  BY InitEstablishesIInv
<1>2. \A s \in Session : toWorker[s] = <<>> /\ toMain[s] = <<>> /\ entries[s] = <<>>
  BY DEF Init
<1>3. Rising(<<>>) /\ <<>> \in Seq(Entry)
  BY DEF Rising, TapeEnd
<1>4. ASSUME NEW s \in Session, NEW e \in Nat
      PROVE  TapeOf(s, e, <<>>)
  <2>1. sequence = <<>>
    BY DEF Init
  <2>2. Begins(entries[s], <<>>)
    BY <1>2 DEF Begins
  <2> QED
    BY <1>2, <1>3, <2>1, <2>2 DEF TapeOf
<1>5. Canonical
  BY <1>3, <1>4 DEF Canonical
<1>6. ASSUME NEW s \in Session
      PROVE  Stands(s)
  <2>1. Settled(<<>>, s, 0, FALSE, 0, 0, -1)
    BY DEF Settled, TapeEnd
  <2>2. /\ entries[s] = <<>> /\ cursor[s] = 0 /\ busy[s] = FALSE /\ executed[s] = 0
        /\ playback[s] = 0 /\ drained[s] = -1
    BY DEF Init
  <2> QED
    BY <2>1, <2>2 DEF Stands
<1>7. AckedWasPlayed
  <2>1. \A s \in Session : acked[s] = NothingAcked
    BY DEF Init
  <2>2. NothingAcked.drained = -1 /\ NothingAcked.playback = 0
    BY DEF NothingAcked
  <2> SUFFICES ASSUME NEW s \in Session
               PROVE  /\ -1 <= acked[s].drained
                      /\ TapeEnd(entries[s], s, acked[s].drained + 1)
                           <= acked[s].playback
                      /\ \A i \in 1 .. Len(toMain[s]) : FALSE
    BY DEF AckedWasPlayed
  <2>3. PICK d \in Int, p \in Nat :
          d = acked[s].drained /\ p = acked[s].playback /\ d = -1 /\ p = 0
    BY <2>1, <2>2
  <2>4. TapeEnd(entries[s], s, d + 1) = 0
    BY <2>3 DEF TapeEnd
  <2>5. \A i \in 1 .. Len(toMain[s]) : FALSE
    <3>1. toMain[s] = <<>>
      BY <1>2
    <3> QED
      BY ONLY <3>1
  <2> QED
    BY <2>3, <2>4, <2>5
<1> QED
  BY <1>1, <1>5, <1>6, <1>7 DEF TInv

\* A frame posts, whoever asked for it.
LEMMA FrameOrStepPosts ==
  ASSUME TInv, Frame \/ ("step" \in UserOps /\ Step)
  PROVE  CoordinatorPosts /\ toMain' = toMain /\ epoch' = epoch /\ acked' = acked
<1>1. /\ sequence \in Seq(Entry) /\ Rising(sequence) /\ Len(sequence) \in Nat
      /\ Begins(sequence, sequence) /\ Len(sequence) <= Len(sequence)
  BY SequenceRises, BeginsItself
<1>2. IInv
  BY DEF TInv
<1>3. ASSUME NEW force \in BOOLEAN, NEW last \in {-1, lastComputedRound},
             FrameWith(sequence, force, -1, last)
      PROVE  CoordinatorPosts
  <2>1. -1 \in Nat \cup {-1}
    OBVIOUS
  <2>2. cached' \in [Session -> Grant]
    BY <1>1, <1>2, <1>3, <2>1, FrameWithEffect DEF FrameEffect
  <2>3. PICK n \in Nat \cup {-1} : n = -1
    BY <2>1
  <2>4. FrameWith(sequence, force, n, last)
    BY <1>3, <2>3
  <2> QED
    BY ONLY <1>1, <2>2, <2>3, <2>4, FramePosts, TInv, force \in BOOLEAN
<1>4. ASSUME NEW b \in 0 .. Len(sequence), NEW es \in Ensured(sequence, b + 1),
             FrameWith(es, FALSE, b + 1, -1), "step" \in UserOps, mode = "race"
      PROVE  CoordinatorPosts
  <2>1. b + 1 \in Nat \cup {-1} /\ b + 1 \in Int
    BY <1>1
  <2>2. es \in Seq(Entry) /\ Begins(sequence, es) /\ Rising(es)
    BY <1>1, <2>1, EnsuredRises
  <2>3. Len(sequence) <= Len(es)
    BY <2>2 DEF Begins
  <2>4. cached' \in [Session -> Grant]
    BY <1>2, <1>4, <2>1, <2>2, <2>3, FrameWithEffect DEF FrameEffect
  <2> QED
    BY <1>4, <2>1, <2>2, <2>4, FramePosts
<1>5. CoordinatorPosts
  BY <1>3, <1>4 DEF Frame, Step
<1>6. toMain' = toMain /\ epoch' = epoch /\ acked' = acked
  BY DEF Frame, Step, FrameWith
<1> QED
  BY <1>5, <1>6

LEMMA NextKeepsTInv == TInv /\ [Next]_vars => TInv'
<1> SUFFICES ASSUME TInv, [Next]_vars
             PROVE  TInv'
  OBVIOUS
<1>0. IInv /\ IInv'
  BY NextKeepsIInv DEF TInv
<1>1. ASSUME NEW m \in Modes, SetMode(m)
      PROVE  TInv'
  BY <1>0, <1>1, SettingsKeepTInv DEF SetMode
<1>2. CASE (\E v \in Scales : SetSpeed(v)) \/ Start \/ Stop
  BY <1>0, <1>2, SettingsKeepTInv DEF SetSpeed, Start, Stop
<1>3. CASE Frame \/ ("step" \in UserOps /\ Step)
  BY <1>0, <1>3, FrameOrStepPosts, PostsKeepTInv
<1>4. CASE Broadcast
  <2>1. toMain' = toMain /\ epoch' = epoch /\ acked' = acked
    BY <1>4 DEF Broadcast
  <2> QED
    BY <1>0, <1>4, <2>1, BroadcastPosts, PostsKeepTInv
<1>5. CASE Reset
  <2>1. /\ toMain' = toMain /\ epoch' = epoch + 1
        /\ acked' = [s \in Session |-> NothingAcked]
    BY <1>5 DEF Reset
  <2> QED
    BY <1>0, <1>5, <2>1, ResetPosts, PostsKeepTInv
<1>6. ASSUME NEW s \in Session, ReceiveAck(s)
      PROVE  TInv'
  BY <1>0, <1>6, ReceiveAckKeepsTInv
<1>7. ASSUME NEW s \in Session, Worker(s)
      PROVE  TInv'
  BY <1>0, <1>7, WorkerWorksOn, WorksOnKeepsTInv, HandleResetKeepsTInv
<1>8. CASE UNCHANGED vars
  <2>1. UNCHANGED <<epoch, sequence, acked, toWorker, toMain, worker>>
    BY <1>8 DEF vars, coordinator
  <2> QED
    BY <1>0, <2>1, SettingsKeepTInv
<1>9. CASE User
  BY <1>1, <1>2, <1>3, <1>4, <1>5, <1>9 DEF User
<1>10. CASE Frame
  BY <1>3, <1>10
<1> QED
  BY <1>6, <1>7, <1>8, <1>9, <1>10 DEF Next

LEMMA TapeInvariance == Spec => []TInv
BY InitEstablishesTInv, NextKeepsTInv, PTL DEF Spec

-----------------------------------------------------------------------------
(* What follows in any mode *)

\* I5, I6: whatever crossed on the way, what a worker holds in the coordinator's
\* epoch is a prefix of the one canonical sequence, so all of them replay the same
\* workload.
THEOREM PrefixIsCanonical == Spec => []CanonicalPrefix
<1>1. TInv => CanonicalPrefix
  <2> SUFFICES ASSUME TInv, NEW s \in Session, Current(s)
               PROVE  Begins(entries[s], sequence)
    BY DEF CanonicalPrefix, Begins
  <2>1. epoch \in Nat
    BY SequenceRises
  <2>2. PICK es \in Seq(Entry) : TapeOf(s, epoch, es)
    BY <2>1 DEF TInv, Canonical
  <2> QED
    BY <2>2 DEF TapeOf, Current
<1> QED
  BY <1>1, TapeInvariance, PTL

\* What a worker reports as drained it has executed, and it has played the whole of
\* its tape; nothing is played that was not executed (I3).
THEOREM DrainedIsPlayed == Spec => []DrainedWasPlayed
<1>1. TInv => DrainedWasPlayed
  BY DEF TInv, Stands, Settled, DrainedWasPlayed
<1> QED
  BY <1>1, TapeInvariance, PTL

-----------------------------------------------------------------------------
(* The grants of a step *)

\* What the coordinator posts adds to the grants in force the one it keeps; in a new
\* epoch there is no other.
LEMMA PostsAddGrants ==
  ASSUME TInv, CoordinatorPosts, NEW s \in Session, NEW g \in GrantsInForce(s)'
  PROVE  g = cached'[s] \/ (epoch' = epoch /\ g \in GrantsInForce(s))
<1>1. /\ TypeOK /\ PortsTypeOK /\ PortsInv /\ epoch \in Nat
      /\ toWorker[s] \in Seq(ToWorkerMsg) /\ wEpoch[s] \in Nat
      /\ epoch' = epoch \/ epoch' = epoch + 1
      /\ wEpoch' = wEpoch /\ limits' = limits
  BY DEF TInv, IInv, TypeOK, CoordinatorTypeOK, PortsTypeOK, WorkerTypeOK,
         CoordinatorPosts, worker
<1> DEFINE n == Len(toWorker[s])
<1>2. /\ n \in Nat /\ Len(toWorker'[s]) \in Nat
      /\ toWorker'[s] \in Seq(ToWorkerMsg)
      /\ \A i \in 1 .. n : toWorker'[s][i] = toWorker[s][i]
      /\ \A i \in n + 1 .. Len(toWorker'[s]) : IsPost(s, toWorker'[s][i])
  BY <1>1 DEF CoordinatorPosts, Posted
<1>3. /\ wEpoch[s] <= epoch
      /\ \A i \in 1 .. n : toWorker[s][i].epoch <= epoch
  BY <1>1 DEF PortsInv, ResetsInOrder
<1>4. CASE Current(s)' /\ g = limits'[s]
  <2>1. epoch' = epoch
    BY <1>1, <1>3, <1>4 DEF Current
  <2> QED
    BY <1>1, <1>4, <2>1 DEF GrantsInForce, Current
<1>5. ASSUME NEW i \in DOMAIN toWorker'[s], toWorker'[s][i].type = "GRANT",
             toWorker'[s][i].epoch = epoch', g = toWorker'[s][i].grant
      PROVE  g = cached'[s] \/ (epoch' = epoch /\ g \in GrantsInForce(s))
  <2>1. i \in 1 .. Len(toWorker'[s])
    BY <1>2, <1>5
  <2>2. CASE i \in 1 .. n
    <3>1. toWorker'[s][i] = toWorker[s][i] /\ i \in DOMAIN toWorker[s]
      BY <1>1, <1>2, <2>2
    <3>2. epoch' = epoch
      BY <1>1, <1>3, <1>5, <2>2, <3>1
    <3> QED
      BY <1>5, <3>1, <3>2 DEF GrantsInForce
  <2>3. CASE i \notin 1 .. n
    <3>1. i \in n + 1 .. Len(toWorker'[s])
      BY <1>2, <2>1, <2>3
    <3> QED
      BY <1>2, <1>5, <3>1 DEF IsPost
  <2> QED
    BY <2>2, <2>3
<1> HIDE DEF n
<1> QED
  BY <1>4, <1>5 DEF GrantsInForce

LEMMA HandleResetGrants ==
  ASSUME TInv, NEW u \in Session, HandleReset(u),
         NEW s \in Session, NEW g \in GrantsInForce(s)'
  PROVE  g = NoGrant \/ g \in GrantsInForce(s)
<1>1. TypeOK /\ PortsTypeOK /\ WorkerTypeOK
  BY DEF TInv, IInv, TypeOK
<1>2. /\ toWorker[u] # <<>>
      /\ toWorker' = [toWorker EXCEPT ![u] = Tail(@)]
      /\ UNCHANGED coordinator
      /\ wEpoch' = [wEpoch EXCEPT ![u] = Head(toWorker[u]).epoch]
      /\ limits' = [limits EXCEPT ![u] = NoGrant]
  BY DEF HandleReset, Receives
<1>3. epoch' = epoch /\ cached' = cached
  BY <1>2 DEF coordinator
<1>4. CASE g = cached'[s]
  BY <1>3, <1>4 DEF GrantsInForce
<1>5. CASE Current(s)' /\ g = limits'[s]
  <2>1. CASE s = u
    BY <1>1, <1>2, <1>5, <2>1 DEF WorkerTypeOK
  <2>2. CASE s # u
    <3>1. limits'[s] = limits[s] /\ wEpoch'[s] = wEpoch[s]
      BY <1>1, <1>2, <2>2 DEF WorkerTypeOK
    <3> QED
      BY <1>3, <1>5, <3>1 DEF GrantsInForce, Current
  <2> QED
    BY <2>1, <2>2
<1>6. ASSUME NEW i \in DOMAIN toWorker'[s], toWorker'[s][i].type = "GRANT",
             toWorker'[s][i].epoch = epoch', g = toWorker'[s][i].grant
      PROVE  g \in GrantsInForce(s)
  <2>1. \E j \in DOMAIN toWorker[s] : toWorker[s][j] = toWorker'[s][i]
    <3>1. CASE s # u
      <4>1. toWorker'[s] = toWorker[s]
        BY <1>1, <1>2, <3>1 DEF PortsTypeOK
      <4> QED
        BY <4>1
    <3>2. CASE s = u
      <4>1. toWorker'[s] = Tail(toWorker[s]) /\ toWorker[s] # <<>>
        BY <1>1, <1>2, <3>2 DEF PortsTypeOK
      <4>2. i \in 1 .. Len(Tail(toWorker[s]))
        BY <1>1, <4>1, HeadIsMsg
      <4>3. toWorker'[s][i] = toWorker[s][i + 1] /\ i + 1 \in DOMAIN toWorker[s]
        BY <1>1, <4>1, <4>2, HeadIsMsg DEF PortsTypeOK
      <4> QED
        BY <4>3
    <3> QED
      BY <3>1, <3>2
  <2> QED
    BY <1>3, <1>6, <2>1 DEF GrantsInForce
<1> QED
  BY <1>4, <1>5, <1>6 DEF GrantsInForce

\* Steps that touch neither the ports nor the grants.
LEMMA SettingsKeepGrants ==
  ASSUME UNCHANGED <<epoch, cached, toWorker, worker>>,
         NEW s \in Session, NEW g \in GrantsInForce(s)'
  PROVE  g \in GrantsInForce(s)
BY DEF GrantsInForce, Current, worker

\* The kinds of steps of a field that stays in the mode it has.
LEMMA NextKinds ==
  ASSUME TInv, [Next]_vars, \A m \in Modes : m = mode
  PROVE  \/ CoordinatorPosts
         \/ /\ UNCHANGED <<epoch, mode, sharedIndex, cached, toWorker, worker>>
            /\ scale' = scale \/ "speed" \in UserOps
         \/ \E s \in Session : /\ Advances(s) /\ WorksOn(s)
                               /\ UNCHANGED coordinator
         \/ \E s \in Session : HandleReset(s)
<1>1. \A m \in Modes : ~SetMode(m)
  BY DEF SetMode
<1>2. CASE ("speed" \in UserOps /\ \E v \in Scales : SetSpeed(v)) \/ Start \/ Stop
  <2>1. /\ UNCHANGED <<epoch, mode, sharedIndex, cached, toWorker, worker>>
        /\ scale' = scale \/ "speed" \in UserOps
    BY <1>2 DEF SetSpeed, Start, Stop
  <2> QED
    BY <2>1
<1>3. CASE Frame
  BY <1>3, FrameOrStepPosts
<1>4. CASE "step" \in UserOps /\ Step
  BY <1>4, FrameOrStepPosts
<1>5. CASE Broadcast
  BY <1>5, BroadcastPosts
<1>6. CASE Reset
  BY <1>6, ResetPosts
<1>7. CASE User
  BY <1>1, <1>2, <1>4, <1>5, <1>6, <1>7 DEF User
<1>8. ASSUME NEW s \in Session, ReceiveAck(s)
      PROVE  /\ UNCHANGED <<epoch, mode, sharedIndex, cached, toWorker, worker>>
             /\ scale' = scale
  BY <1>8 DEF ReceiveAck
<1>9. ASSUME NEW s \in Session, Worker(s)
      PROVE  HandleReset(s) \/ (Advances(s) /\ WorksOn(s) /\ UNCHANGED coordinator)
  <2>1. TypeOK
    BY DEF TInv, IInv
  <2> QED
    BY <1>9, <2>1, WorkerWorksOn, AdvancesFacts
<1>10. CASE UNCHANGED vars
  <2>1. /\ UNCHANGED <<epoch, mode, sharedIndex, cached, toWorker, worker>>
        /\ scale' = scale
    BY <1>10 DEF vars, coordinator
  <2> QED
    BY <2>1
<1>11. CASE \E s \in Session : ReceiveAck(s) \/ Worker(s)
  BY <1>8, <1>9, <1>11
<1> QED
  BY <1>3, <1>7, <1>10, <1>11 DEF Next

-----------------------------------------------------------------------------
(* A field that stays in Pace *)

\* The shared index stands at the step that is being executed: nobody may go, or is,
\* past the end of it, and a command in flight is that step or an earlier one.
PaceInv ==
  /\ TInv
  /\ mode = "pace"
  /\ \A s \in Session :
       /\ CursorOf(s) <= sharedIndex + 1
       /\ Current(s) /\ busy[s] => cursor[s] <= sharedIndex
       /\ \A g \in GrantsInForce(s) : g.entryLimit <= sharedIndex + 1

LEMMA PaceDerives ==
  ASSUME PaceInv, DerivesGrants
  PROVE  /\ UNCHANGED <<epoch, mode>>
         /\ sharedIndex' \in Nat /\ sharedIndex <= sharedIndex'
         /\ \A s \in Session : cached'[s].entryLimit <= sharedIndex' + 1
<1>1. /\ IInv /\ TypeOK /\ CoordinatorTypeOK /\ mode = "pace"
  BY DEF PaceInv, TInv, IInv, TypeOK
<1>2. PICK es \in Seq(Entry), r \in Int, force \in BOOLEAN, stepLimit \in Nat \cup {-1} :
        /\ Len(sequence) <= Len(es)
        /\ stepLimit = -1
        /\ computeGrants(r, es, force, stepLimit)
        /\ UNCHANGED <<epoch, mode, scale, acked>>
  BY <1>1 DEF DerivesGrants
<1>3. /\ sequence' \in Seq(Entry) /\ sharedIndex' \in Nat
      /\ baseline' \in [Session -> Nat]
      /\ cached' \in [Session -> Grant]
      /\ \A s \in Session : cached'[s].rule = "pace"
  BY <1>1, <1>2, ComputeGrantsTypes
<1>4. sharedIndex <= sharedIndex'
  <2>1. PaceAdvance(es, force)
    BY <1>1, <1>2 DEF computeGrants
  <2>2. sharedIndex \in Nat /\ Len(es) \in Nat
    BY <1>1 DEF CoordinatorTypeOK
  <2> QED
    BY <2>1, <2>2 DEF PaceAdvance
<1>5. ASSUME NEW s \in Session
      PROVE  cached'[s].entryLimit <= sharedIndex' + 1
  <2>1. PICK hi, lo \in {Rel(u) : u \in Session} :
          cached' = [u \in Session |-> DerivedGrant(u, r, hi, lo, stepLimit)]
    BY <1>2 DEF computeGrants
  <2>2. cached'[s].entryLimit = SharedStep(s)
    <3>1. cached'[s] = DerivedGrant(s, r, hi, lo, -1)
      BY <1>2, <2>1
    <3> QED
      BY <1>1, <3>1 DEF DerivedGrant
  <2>3. PICK k \in Nat, i \in Nat, c \in Nat :
          /\ k = sharedIndex' /\ i = sharedIndex /\ c = acked[s].cursor
          /\ i <= k /\ c <= i + 1
    <3>1. CursorOf(s) \in Nat /\ acked[s] \in Ack /\ sharedIndex \in Nat
      BY <1>1, ProgressTypes DEF CoordinatorTypeOK
    <3>2. acked[s].cursor <= CursorOf(s) /\ CursorOf(s) <= sharedIndex + 1
      BY <1>1 DEF PaceInv, IInv, AckedIsPast
    <3>3. acked[s].cursor \in Nat
      BY <3>1 DEF Ack
    <3>4. acked[s].cursor <= sharedIndex + 1
      BY <3>1, <3>2, <3>3
    <3> QED
      BY <1>3, <1>4, <3>1, <3>3, <3>4
  <2>4. SharedStep(s) <= k + 1
    BY <2>3 DEF SharedStep, Larger
  <2> QED
    BY <2>2, <2>3, <2>4
<1> QED
  BY <1>2, <1>3, <1>4, <1>5

LEMMA PostsKeepPaceInv ==
  ASSUME PaceInv, TInv', CoordinatorPosts
  PROVE  PaceInv'
<1>1. /\ TInv /\ TypeOK /\ CoordinatorTypeOK /\ mode = "pace" /\ sharedIndex \in Nat
      /\ epoch \in Nat /\ \A s \in Session : wEpoch[s] \in Nat /\ wEpoch[s] <= epoch
  BY DEF PaceInv, TInv, IInv, TypeOK, CoordinatorTypeOK, WorkerTypeOK, PortsInv,
         ResetsInOrder
<1>2. wEpoch' = wEpoch /\ cursor' = cursor /\ busy' = busy
  BY DEF CoordinatorPosts, worker
<1>3. ASSUME epoch' = epoch, sharedIndex' \in Nat, sharedIndex <= sharedIndex',
             mode' = mode,
             \A s \in Session : cached'[s].entryLimit <= sharedIndex' + 1
      PROVE  PaceInv'
  <2> SUFFICES ASSUME NEW s \in Session
               PROVE  /\ CursorOf(s)' <= sharedIndex' + 1
                      /\ Current(s)' /\ busy'[s] => cursor'[s] <= sharedIndex'
                      /\ \A g \in GrantsInForce(s)' : g.entryLimit <= sharedIndex' + 1
    BY <1>1, <1>3 DEF PaceInv
  <2>1. PICK k \in Nat, i \in Nat : k = sharedIndex' /\ i = sharedIndex /\ i <= k
    BY <1>1, <1>3
  <2>2. CursorOf(s) \in Nat /\ cursor[s] \in Nat
    BY <1>1, ProgressTypes, WorkerTypes
  <2>3. CursorOf(s)' = CursorOf(s) /\ (Current(s)' <=> Current(s))
    BY <1>2, <1>3 DEF CursorOf, Current
  <2>4. CursorOf(s)' <= k + 1
    <3>1. CursorOf(s) <= i + 1
      BY <2>1 DEF PaceInv
    <3> QED
      BY <2>1, <2>2, <2>3, <3>1
  <2>5. Current(s)' /\ busy'[s] => cursor'[s] <= k
    <3>1. Current(s) /\ busy[s] => cursor[s] <= i
      BY <2>1 DEF PaceInv
    <3> QED
      BY <1>2, <2>1, <2>2, <2>3, <3>1
  <2>6. ASSUME NEW g \in GrantsInForce(s)'
        PROVE  g.entryLimit <= k + 1
    <3>1. CASE g = cached'[s]
      BY <1>3, <2>1, <3>1
    <3>2. CASE g \in GrantsInForce(s)
      <4>1. g.entryLimit <= i + 1
        BY <2>1, <3>2 DEF PaceInv
      <4>2. g.entryLimit \in Nat
        BY <1>1, <3>2, GrantsInForceTypes DEF Grant
      <4> QED
        BY <2>1, <4>1, <4>2
    <3> QED
      BY <1>1, <2>6, <3>1, <3>2, PostsAddGrants
  <2> QED
    BY <2>1, <2>4, <2>5, <2>6
<1>4. CASE UNCHANGED <<epoch, mode, scale, sharedIndex, cached>>
  <2>1. \A s \in Session : cached[s].entryLimit <= sharedIndex + 1
    BY DEF PaceInv, GrantsInForce
  <2> QED
    BY <1>1, <1>3, <1>4, <2>1
<1>5. CASE DerivesGrants
  BY <1>3, <1>5, PaceDerives
<1>6. CASE Reset
  <2>1. /\ epoch' = epoch + 1 /\ mode' = mode /\ sharedIndex' = 0
        /\ cached' = [s \in Session |-> NoGrant]
    BY <1>6 DEF Reset
  <2>2. \A s \in Session : ~Current(s)'
    BY <1>1, <1>2, <2>1 DEF Current
  <2>3. ASSUME NEW s \in Session, NEW g \in GrantsInForce(s)'
        PROVE  g.entryLimit = 0
    <3>1. g = cached'[s]
      BY <1>1, <2>1, <2>3, PostsAddGrants
    <3> QED
      BY <2>1, <3>1 DEF NoGrant
  <2>4. \A s \in Session : CursorOf(s)' = 0
    BY <2>2 DEF CursorOf
  <2>5. sharedIndex' + 1 = 1 /\ 0 <= 1
    BY <2>1
  <2> QED
    BY <1>1, <2>1, <2>2, <2>3, <2>4, <2>5 DEF PaceInv
<1> QED
  BY <1>4, <1>5, <1>6 DEF CoordinatorPosts

LEMMA WorkKeepsPaceInv ==
  ASSUME PaceInv, TInv', NEW s \in Session, Advances(s), WorksOn(s)
  PROVE  PaceInv'
<1>1. TypeOK /\ TypeOK'
  BY DEF PaceInv, TInv, IInv
<1>2. /\ epoch' = epoch /\ mode' = mode /\ sharedIndex' = sharedIndex
      /\ wEpoch' = wEpoch /\ mode = "pace" /\ sharedIndex \in Nat
  BY <1>1, AdvancesFacts DEF coordinator, PaceInv, TypeOK, CoordinatorTypeOK
<1> SUFFICES ASSUME NEW t \in Session
             PROVE  /\ CursorOf(t)' <= sharedIndex + 1
                    /\ Current(t)' /\ busy'[t] => cursor'[t] <= sharedIndex
                    /\ \A g \in GrantsInForce(t)' : g.entryLimit <= sharedIndex + 1
  BY <1>2 DEF PaceInv
<1>3. \A g \in GrantsInForce(t)' : g.entryLimit <= sharedIndex + 1
  <2>1. GrantsInForce(t)' \subseteq GrantsInForce(t)
    BY <1>1, AdvancesMonotone
  <2> QED
    BY <2>1 DEF PaceInv
<1>4. Current(t)' <=> Current(t)
  BY <1>2 DEF Current
<1>5. CASE t # s
  <2>1. cursor'[t] = cursor[t] /\ busy'[t] = busy[t]
    BY <1>5 DEF WorksOn
  <2> QED
    BY <1>3, <1>4, <2>1 DEF PaceInv, CursorOf
<1>6. CASE t = s /\ Current(s)
  <2>1. PICK i \in Nat, c \in Nat, d \in Nat, l \in Nat :
          /\ i = sharedIndex /\ c = cursor[s] /\ d = cursor'[s]
          /\ l = limits'[s].entryLimit
    <3>1. cursor'[s] \in Nat /\ limits'[s] \in Grant
      BY <1>1 DEF TypeOK, WorkerTypeOK
    <3> QED
      BY <1>1, <1>2, <3>1, WorkerTypes DEF Grant
  <2>2. l <= i + 1
    <3>1. limits'[s] \in GrantsInForce(s)'
      BY <1>4, <1>6 DEF GrantsInForce
    <3> QED
      BY <1>3, <1>6, <2>1, <3>1
  <2>3. /\ c <= i + 1
        /\ busy[s] => c <= i
    BY <1>6, <2>1 DEF PaceInv, CursorOf
  <2>4. /\ d = c \/ d <= l \/ (busy[s] /\ d = c + 1)
        /\ busy'[s] => (busy[s] /\ d = c) \/ d < l
    BY <2>1 DEF WorksOn
  <2>5. d <= i + 1 /\ (busy'[s] => d <= i)
    BY <2>1, <2>2, <2>3, <2>4
  <2> QED
    BY <1>3, <1>4, <1>6, <2>1, <2>5 DEF CursorOf
<1>7. CASE t = s /\ ~Current(s)
  BY <1>2, <1>3, <1>4, <1>7 DEF CursorOf
<1> QED
  BY <1>5, <1>6, <1>7

LEMMA HandleResetKeepsPaceInv ==
  ASSUME PaceInv, TInv', NEW s \in Session, HandleReset(s)
  PROVE  PaceInv'
<1>1. TypeOK /\ WorkerTypeOK /\ TInv
  BY DEF PaceInv, TInv, IInv, TypeOK
<1>2. /\ UNCHANGED coordinator
      /\ cursor' = [cursor EXCEPT ![s] = 0]
      /\ busy' = [busy EXCEPT ![s] = FALSE]
      /\ wEpoch' = [wEpoch EXCEPT ![s] = Head(toWorker[s]).epoch]
  BY DEF HandleReset, Receives
<1>3. /\ epoch' = epoch /\ mode' = mode /\ sharedIndex' = sharedIndex
      /\ mode = "pace" /\ sharedIndex \in Nat
  BY <1>1, <1>2 DEF coordinator, PaceInv, TypeOK, CoordinatorTypeOK
<1> SUFFICES ASSUME NEW t \in Session
             PROVE  /\ CursorOf(t)' <= sharedIndex + 1
                    /\ Current(t)' /\ busy'[t] => cursor'[t] <= sharedIndex
                    /\ \A g \in GrantsInForce(t)' : g.entryLimit <= sharedIndex + 1
  BY <1>3 DEF PaceInv
<1>4. ASSUME NEW g \in GrantsInForce(t)'
      PROVE  g.entryLimit <= sharedIndex + 1
  <2>1. NoGrant.entryLimit = 0 /\ 0 <= sharedIndex + 1
    BY <1>3 DEF NoGrant
  <2> QED
    BY <1>1, <1>4, <2>1, HandleResetGrants DEF PaceInv
<1>5. CASE t = s
  <2>1. cursor'[s] = 0 /\ ~busy'[s]
    BY <1>1, <1>2 DEF WorkerTypeOK
  <2> QED
    BY <1>3, <1>4, <1>5, <2>1 DEF CursorOf
<1>6. CASE t # s
  <2>1. cursor'[t] = cursor[t] /\ busy'[t] = busy[t] /\ wEpoch'[t] = wEpoch[t]
    BY <1>1, <1>2, <1>6 DEF WorkerTypeOK
  <2> QED
    BY <1>3, <1>4, <2>1 DEF PaceInv, CursorOf, Current
<1> QED
  BY <1>5, <1>6

LEMMA NextKeepsPaceInv ==
  ASSUME Modes = {"pace"}, PaceInv, [Next]_vars
  PROVE  PaceInv'
<1>1. TInv /\ TInv' /\ \A m \in Modes : m = mode
  BY NextKeepsTInv DEF PaceInv
<1>2. CASE UNCHANGED <<epoch, mode, sharedIndex, cached, toWorker, worker>>
  <2>1. \A s \in Session : GrantsInForce(s)' \subseteq GrantsInForce(s)
    BY <1>2, SettingsKeepGrants
  <2>2. \A s \in Session : CursorOf(s)' = CursorOf(s) /\ (Current(s)' <=> Current(s))
    BY <1>2 DEF CursorOf, Current, worker
  <2>3. sharedIndex' = sharedIndex /\ mode' = mode /\ busy' = busy /\ cursor' = cursor
    BY <1>2 DEF worker
  <2> QED
    BY <1>1, <2>1, <2>2, <2>3 DEF PaceInv
<1> QED
  BY <1>1, <1>2, NextKinds, PostsKeepPaceInv, WorkKeepsPaceInv, HandleResetKeepsPaceInv

LEMMA InitEstablishesPaceInv ==
  ASSUME Modes = {"pace"}, Init
  PROVE  PaceInv
<1>1. TInv
  BY InitEstablishesTInv
<1>2. mode = "pace" /\ sharedIndex = 0 /\ 0 <= 0 + 1
  BY DEF Init
<1>3. \A s \in Session : cursor[s] = 0 /\ busy[s] = FALSE /\ CursorOf(s) = 0
  BY DEF Init, CursorOf
<1>4. ASSUME NEW s \in Session, NEW g \in GrantsInForce(s)
      PROVE  g.entryLimit = 0
  <2>1. g = NoGrant
    BY <1>4 DEF Init, GrantsInForce
  <2> QED
    BY <2>1 DEF NoGrant
<1> QED
  BY <1>1, <1>2, <1>3, <1>4 DEF PaceInv

LEMMA PaceInvariance ==
  ASSUME Modes = {"pace"}
  PROVE  Spec => []PaceInv
<1>1. Init => PaceInv
  BY InitEstablishesPaceInv
<1>2. PaceInv /\ [Next]_vars => PaceInv'
  BY NextKeepsPaceInv
<1> QED
  BY <1>1, <1>2, PTL DEF Spec

\* A session that acknowledged the shared step as drained has nothing left to do.
LEMMA DrainedStandsStill ==
  ASSUME PaceInv, NEW s \in Session, sharedIndex <= acked[s].drained
  PROVE  acked[s].playback = PlayedOf(s)
<1>1. /\ TInv /\ IInv /\ TypeOK /\ sharedIndex \in Nat /\ acked[s] \in Ack
  BY DEF PaceInv, TInv, IInv, TypeOK, CoordinatorTypeOK
<1>2. PICK i \in Nat, a \in Int, p \in Nat :
        i = sharedIndex /\ a = acked[s].drained /\ p = acked[s].playback
  BY <1>1 DEF Ack
<1>3. a <= DrainedOf(s) /\ p <= PlayedOf(s)
  BY <1>1, <1>2 DEF IInv, AckedIsPast
<1>4. Current(s)
  BY <1>2, <1>3 DEF DrainedOf
<1>5. PICK c \in Nat, d \in Int, q \in Nat, x \in Nat :
        c = cursor[s] /\ d = drained[s] /\ q = playback[s] /\ x = executed[s]
  BY <1>1, WorkerTypes
<1>6. a <= d /\ d < c /\ c <= i + 1 /\ (busy[s] => c <= i)
  BY <1>1, <1>2, <1>3, <1>4, <1>5 DEF PaceInv, CursorOf, DrainedOf, IInv, WorkerInv
<1>7. a = d /\ c = d + 1 /\ ~busy[s]
  BY <1>2, <1>6
<1>8. q <= x /\ x = TapeEnd(entries[s], s, d + 1)
  BY <1>1, <1>5, <1>7 DEF TInv, Stands, Settled
<1>9. TapeEnd(entries[s], s, d + 1) <= p
  BY <1>1, <1>2, <1>4, <1>7 DEF TInv, AckedWasPlayed
<1>10. p <= q
  BY <1>3, <1>4, <1>5 DEF PlayedOf
<1>11. q = p
  <2>1. x <= p
    BY <1>8, <1>9
  <2> QED
    BY <1>2, <1>5, <1>8, <1>10, <2>1
<1> QED
  BY <1>2, <1>4, <1>5, <1>11 DEF PlayedOf

LEMMA StepKeepsRebase ==
  ASSUME Modes = {"pace"}, PaceInv, [Next]_vars, sharedIndex' > sharedIndex
  PROVE  \A s \in Session : baseline'[s] = PlayedOf(s)
<1>1. /\ TInv /\ IInv /\ TypeOK /\ CoordinatorTypeOK /\ mode = "pace"
      /\ \A m \in Modes : m = mode
      /\ sharedIndex \in Nat
  BY DEF PaceInv, TInv, IInv, TypeOK, CoordinatorTypeOK
<1>2. DerivesGrants
  <2>1. ~(sharedIndex' = sharedIndex)
    BY <1>1
  <2>2. ~Reset
    BY <1>1 DEF Reset
  <2>3. ASSUME NEW s \in Session, HandleReset(s)
        PROVE  FALSE
    BY <2>1, <2>3 DEF HandleReset, Receives, coordinator
  <2> QED
    BY <1>1, <2>1, <2>2, <2>3, NextKinds DEF CoordinatorPosts, coordinator
<1>3. PICK es \in Seq(Entry), force \in BOOLEAN : PaceAdvance(es, force)
  BY <1>1, <1>2 DEF DerivesGrants, computeGrants
<1>4. PICK k \in sharedIndex .. Len(es) :
        /\ k > sharedIndex => \A s \in Session : acked[s].drained >= k - 1
        /\ sharedIndex' = k
        /\ baseline' = IF k > sharedIndex
                       THEN [s \in Session |-> acked[s].playback] ELSE baseline
  BY <1>3 DEF PaceAdvance
<1>5. k > sharedIndex /\ k \in Int
  BY <1>1, <1>4
<1>6. ASSUME NEW s \in Session
      PROVE  baseline'[s] = PlayedOf(s)
  <2>1. PICK a \in Int : a = acked[s].drained
    BY <1>1 DEF CoordinatorTypeOK, Ack
  <2>2. a >= k - 1
    BY <1>4, <1>5, <2>1
  <2>3. sharedIndex <= a
    BY <1>1, <1>5, <2>1, <2>2
  <2>4. baseline'[s] = acked[s].playback
    BY <1>4, <1>5
  <2> QED
    BY <2>1, <2>3, <2>4, DrainedStandsStill
<1> QED
  BY <1>6

\* I1: in a field that stays in Pace, whenever the shared index moves on every
\* session stands still at the playback it acknowledged, so that the baselines are
\* rebased to exactly what was played and no session gains on another.
THEOREM RebaseIsExact ==
  ASSUME Modes = {"pace"}
  PROVE  Spec => RebaseExact
<1>1. PaceInv /\ [Next]_vars =>
        [sharedIndex' > sharedIndex =>
           \A s \in Session : baseline'[s] = PlayedOf(s)]_vars
  BY StepKeepsRebase
<1>2. Spec => []PaceInv
  BY PaceInvariance
<1> QED
  BY <1>1, <1>2, PTL DEF Spec, RebaseExact

\* One quantity of one session advances, and of no other.
LEMMA AdvanceIsJoinStep ==
  ASSUME PaceInv, PaceInv', NEW s \in Session, Advances(s), WorksOn(s)
  PROVE  Join!Next \/ UNCHANGED [t \in Session |-> CursorOf(t)]
<1>1. TypeOK /\ TypeOK' /\ IInv
  BY DEF PaceInv, TInv, IInv
<1>2. /\ epoch' = epoch /\ wEpoch' = wEpoch /\ sharedIndex' = sharedIndex
      /\ sharedIndex \in Nat /\ mode = "pace"
  BY <1>1, AdvancesFacts DEF coordinator, TypeOK, CoordinatorTypeOK, PaceInv
<1>3. \A t \in Session : Current(t)' <=> Current(t)
  BY <1>2 DEF Current
<1>4. \A t \in Session \ {s} : CursorOf(t)' = CursorOf(t)
  BY <1>3 DEF CursorOf, WorksOn
<1>5. PICK c \in Nat, d \in Nat : c = CursorOf(s) /\ d = CursorOf(s)'
  <2>1. cursor'[s] \in Nat
    BY <1>1 DEF TypeOK, WorkerTypeOK
  <2> QED
    BY <1>1, <2>1, ProgressTypes DEF CursorOf
<1>6. c <= d
  BY <1>1, <1>5, AdvancesMonotone
<1>7. CASE c = d
  <2>1. \A t \in Session : CursorOf(t)' = CursorOf(t)
    BY <1>4, <1>5, <1>7
  <2> QED
    BY <2>1
<1>8. CASE c < d
  <2>1. ASSUME NEW t \in Session
        PROVE  d <= CursorOf(t) + 1
    <3>1. PICK i \in Nat, u \in Nat : i = sharedIndex /\ u = CursorOf(t)
      BY <1>1, <1>2, ProgressTypes
    <3>2. i <= u
      BY <1>1, <1>2, <3>1 DEF IInv, SharedIndexReached
    <3>3. d <= i + 1
      BY <1>2, <1>5, <3>1 DEF PaceInv
    <3>4. d <= u + 1
      BY <3>2, <3>3
    <3> QED
      BY <3>1, <3>4
  <2>2. [t \in Session |-> CursorOf(t)]' = [[t \in Session |-> CursorOf(t)] EXCEPT ![s] = d]
    BY <1>4, <1>5
  <2>3. d > c
    BY <1>8
  <2> QED
    BY <1>5, <2>1, <2>2, <2>3 DEF Join!Next, Join!Advance
<1> QED
  BY <1>5, <1>6, <1>7, <1>8

\* A worker that is behind its epoch counts as one that has done nothing in it, and
\* that is what it has done when it gets there.
LEMMA HandleResetKeepsProgress ==
  ASSUME TInv, NEW s \in Session, HandleReset(s), NEW t \in Session
  PROVE  CursorOf(t)' = CursorOf(t) /\ PlayedOf(t)' = PlayedOf(t)
<1> DEFINE e == Head(toWorker[s]).epoch
<1>1. /\ toWorker[s] # <<>> /\ Head(toWorker[s]).type = "RESET"
      /\ UNCHANGED coordinator
      /\ wEpoch' = [wEpoch EXCEPT ![s] = e]
      /\ cursor' = [cursor EXCEPT ![s] = 0]
      /\ playback' = [playback EXCEPT ![s] = 0]
  BY DEF HandleReset, Receives
<1>2. epoch' = epoch /\ TypeOK /\ WorkerTypeOK /\ IInv
  BY <1>1 DEF coordinator, TInv, IInv, TypeOK
<1>3. CASE t = s
  <2>1. e <= epoch /\ wEpoch[s] < e /\ e \in Nat /\ wEpoch[s] \in Nat /\ epoch \in Nat
    <3>1. Head(toWorker[s]) = toWorker[s][1] /\ 1 \in 1 .. Len(toWorker[s])
          /\ Head(toWorker[s]) \in ToWorkerMsg
      BY <1>1, <1>2, HeadIsMsg
    <3> QED
      BY <1>1, <1>2, <3>1 DEF IInv, PortsInv, ResetsInOrder, TypeOK, CoordinatorTypeOK,
                        WorkerTypeOK, ToWorkerMsg
  <2> HIDE DEF e
  <2>2. ~Current(s)
    BY <2>1 DEF Current
  <2>3. cursor'[s] = 0 /\ playback'[s] = 0
    BY <1>1, <1>2 DEF WorkerTypeOK
  <2> QED
    BY <1>3, <2>2, <2>3 DEF CursorOf, PlayedOf
<1>4. CASE t # s
  <2>1. cursor'[t] = cursor[t] /\ playback'[t] = playback[t] /\ wEpoch'[t] = wEpoch[t]
    BY <1>1, <1>2, <1>4 DEF WorkerTypeOK
  <2> QED
    BY <1>2, <2>1 DEF CursorOf, PlayedOf, Current
<1> QED
  BY <1>3, <1>4

\* Nor does what the coordinator posts move a session, except that a new epoch takes
\* the whole field back.
LEMMA PostsKeepProgress ==
  ASSUME TInv, CoordinatorPosts
  PROVE  \/ epoch' = epoch /\ \A t \in Session : /\ CursorOf(t)' = CursorOf(t)
                                                /\ PlayedOf(t)' = PlayedOf(t)
         \/ \A t \in Session : CursorOf(t)' = 0 /\ PlayedOf(t)' = 0
<1>1. /\ wEpoch' = wEpoch /\ cursor' = cursor /\ playback' = playback
      /\ epoch' = epoch \/ epoch' = epoch + 1
  BY DEF CoordinatorPosts, worker
<1>2. CASE epoch' = epoch
  BY <1>1, <1>2 DEF CursorOf, PlayedOf, Current
<1>3. CASE epoch' = epoch + 1
  <2>1. \A t \in Session : wEpoch[t] <= epoch /\ wEpoch[t] \in Nat /\ epoch \in Nat
    BY DEF TInv, IInv, PortsInv, ResetsInOrder, TypeOK, CoordinatorTypeOK, WorkerTypeOK
  <2>2. \A t \in Session : ~Current(t)'
    BY <1>1, <1>3, <2>1 DEF Current
  <2> QED
    BY <2>2 DEF CursorOf, PlayedOf
<1> QED
  BY <1>1, <1>2, <1>3

LEMMA NextIsJoinStep ==
  ASSUME Modes = {"pace"}, PaceInv, PaceInv', [Next]_vars
  PROVE  Join!Next \/ UNCHANGED [t \in Session |-> CursorOf(t)]
<1>1. TInv /\ \A m \in Modes : m = mode
  BY DEF PaceInv
<1>2. CASE CoordinatorPosts
  <2>1. CASE \A t \in Session : CursorOf(t)' = CursorOf(t)
    BY <2>1
  <2>2. CASE \A t \in Session : CursorOf(t)' = 0
    <3>1. [t \in Session |-> CursorOf(t)]' = [t \in Session |-> 0]
      BY <2>2
    <3> QED
      BY <3>1 DEF Join!Next, Join!Reset
  <2> QED
    BY <1>1, <1>2, <2>1, <2>2, PostsKeepProgress
<1>3. CASE UNCHANGED <<epoch, worker>>
  BY <1>3 DEF CursorOf, Current, worker
<1>4. ASSUME NEW s \in Session, HandleReset(s)
      PROVE  UNCHANGED [t \in Session |-> CursorOf(t)]
  BY <1>1, <1>4, HandleResetKeepsProgress
<1>5. ASSUME NEW s \in Session, Advances(s), WorksOn(s)
      PROVE  Join!Next \/ UNCHANGED [t \in Session |-> CursorOf(t)]
  BY <1>5, AdvanceIsJoinStep
<1> QED
  BY <1>1, <1>2, <1>3, <1>4, <1>5, NextKinds

\* The join: a field that stays in Pace implements the bounded lead with a lead of
\* one.  Nobody ever executes two entries ahead of anybody, through pauses, nudges,
\* commands, slow runners and resets.
THEOREM FieldImplementsJoin ==
  ASSUME Modes = {"pace"}
  PROVE  Spec => JoinSpec
<1>1. Init => Join!Init
  <2> SUFFICES ASSUME Init
               PROVE  Join!Init
    OBVIOUS
  <2>1. \A s \in Session : CursorOf(s) = 0
    BY DEF Init, CursorOf
  <2> QED
    BY <2>1 DEF Join!Init
<1>2. PaceInv /\ PaceInv' /\ [Next]_vars
        => [Join!Next]_[s \in Session |-> CursorOf(s)]
  BY NextIsJoinStep
<1>3. Spec => []PaceInv
  BY PaceInvariance
<1> QED
  BY <1>1, <1>2, <1>3, PTL DEF Spec, JoinSpec, Join!Spec

-----------------------------------------------------------------------------
(* A field that stays in Race, at one speed and without nudges *)

\* No grant in force is looser than the bound.
RaceInv ==
  /\ TInv
  /\ mode = "race"
  /\ scale = InitScale
  /\ \A s \in Session : \A g \in GrantsInForce(s) :
       g = NoGrant \/ (g.rule = "race" /\ g.scale = InitScale)

\* What no user does in such a field.
PlainRace == Modes = {"race"} /\ UserOps \cap {"speed", "step"} = {}

LEMMA RaceDerives ==
  ASSUME PlainRace, RaceInv, DerivesGrants
  PROVE  /\ UNCHANGED <<epoch, mode, scale>>
         /\ \A s \in Session : cached'[s].rule = "race" /\ cached'[s].scale = InitScale
<1>1. /\ IInv /\ TypeOK /\ CoordinatorTypeOK /\ mode = "race" /\ scale = InitScale
  BY DEF RaceInv, TInv, IInv, TypeOK
<1>2. PICK es \in Seq(Entry), r \in Int, force \in BOOLEAN, stepLimit \in Nat \cup {-1} :
        /\ Len(sequence) <= Len(es)
        /\ stepLimit = -1
        /\ computeGrants(r, es, force, stepLimit)
        /\ UNCHANGED <<epoch, mode, scale, acked>>
  BY DEF DerivesGrants, PlainRace
<1>3. PICK hi, lo \in {Rel(u) : u \in Session} :
        cached' = [u \in Session |-> DerivedGrant(u, r, hi, lo, stepLimit)]
  BY <1>2 DEF computeGrants
<1>4. ASSUME NEW s \in Session
      PROVE  cached'[s].rule = "race" /\ cached'[s].scale = InitScale
  <2>1. cached'[s] = DerivedGrant(s, r, hi, lo, -1)
    BY <1>2, <1>3
  <2> QED
    BY <1>1, <2>1 DEF DerivedGrant
<1> QED
  BY <1>2, <1>4

LEMMA NextKeepsRaceInv ==
  ASSUME PlainRace, RaceInv, [Next]_vars
  PROVE  RaceInv'
<1> DEFINE Tight(g) == g = NoGrant \/ (g.rule = "race" /\ g.scale = InitScale)
<1>1. /\ TInv /\ TInv' /\ \A m \in Modes : m = mode
      /\ mode = "race" /\ scale = InitScale /\ TypeOK
      /\ \A s \in Session : \A g \in GrantsInForce(s) : Tight(g)
  BY NextKeepsTInv DEF RaceInv, PlainRace, TInv, IInv
<1>2. ASSUME mode' = mode, scale' = scale,
             \A s \in Session : \A g \in GrantsInForce(s)' : Tight(g)
      PROVE  RaceInv'
  BY <1>1, <1>2 DEF RaceInv
<1>3. CASE CoordinatorPosts
  <2>1. /\ mode' = mode /\ scale' = scale
        /\ \A s \in Session : Tight(cached'[s])
    <3>1. CASE UNCHANGED <<epoch, mode, scale, sharedIndex, cached>>
      <4>1. \A s \in Session : cached[s] \in GrantsInForce(s)
        BY DEF GrantsInForce
      <4> QED
        BY <1>1, <3>1, <4>1
    <3>2. CASE Reset
      BY <3>2 DEF Reset
    <3>3. CASE DerivesGrants
      BY <3>3, RaceDerives
    <3> QED
      BY <1>3, <3>1, <3>2, <3>3 DEF CoordinatorPosts
  <2>2. \A s \in Session : \A g \in GrantsInForce(s)' :
          g = cached'[s] \/ g \in GrantsInForce(s)
    BY <1>1, <1>3, PostsAddGrants
  <2> HIDE DEF Tight
  <2> QED
    BY <1>1, <1>2, <2>1, <2>2
<1>4. CASE /\ UNCHANGED <<epoch, mode, sharedIndex, cached, toWorker, worker>>
           /\ scale' = scale \/ "speed" \in UserOps
  <2>1. scale' = scale /\ mode' = mode
    BY <1>4 DEF PlainRace
  <2>2. \A s \in Session : GrantsInForce(s)' \subseteq GrantsInForce(s)
    BY <1>4, SettingsKeepGrants
  <2> HIDE DEF Tight
  <2> QED
    BY <1>1, <1>2, <2>1, <2>2
<1>5. ASSUME NEW s \in Session, Advances(s)
      PROVE  RaceInv'
  <2>1. scale' = scale /\ mode' = mode
    BY <1>1, <1>5, AdvancesFacts DEF coordinator
  <2>2. \A t \in Session : GrantsInForce(t)' \subseteq GrantsInForce(t)
    BY <1>1, <1>5, AdvancesMonotone
  <2> HIDE DEF Tight
  <2> QED
    BY <1>1, <1>2, <2>1, <2>2
<1>6. ASSUME NEW s \in Session, HandleReset(s)
      PROVE  RaceInv'
  <2>1. scale' = scale /\ mode' = mode
    BY <1>6 DEF HandleReset, Receives, coordinator
  <2>2. \A t \in Session : \A g \in GrantsInForce(t)' : g = NoGrant \/ g \in GrantsInForce(t)
    BY <1>1, <1>6, HandleResetGrants
  <2> QED
    BY <1>1, <1>2, <2>1, <2>2
<1> HIDE DEF Tight
<1> QED
  BY <1>1, <1>3, <1>4, <1>5, <1>6, NextKinds

LEMMA RaceInvariance ==
  ASSUME PlainRace
  PROVE  Spec => []RaceInv
<1>1. Init => RaceInv
  <2> SUFFICES ASSUME Init
               PROVE  RaceInv
    OBVIOUS
  <2>1. TInv
    BY InitEstablishesTInv
  <2>2. mode = "race" /\ scale = InitScale
    BY DEF Init, PlainRace
  <2>3. \A s \in Session : \A g \in GrantsInForce(s) : g = NoGrant
    BY DEF Init, GrantsInForce
  <2> QED
    BY <2>1, <2>2, <2>3 DEF RaceInv
<1>2. RaceInv /\ [Next]_vars => RaceInv'
  BY NextKeepsRaceInv
<1> QED
  BY <1>1, <1>2, PTL DEF Spec

LEMMA AdvanceIsLeadCapStep ==
  ASSUME RaceInv, RaceInv', [Next]_vars, NEW s \in Session, Advances(s)
  PROVE  LeadCap!Next \/ UNCHANGED [t \in Session |-> PlayedOf(t)]
<1>1. TypeOK /\ TypeOK' /\ IInv
  BY DEF RaceInv, TInv, IInv
<1>2. epoch' = epoch /\ wEpoch' = wEpoch
  BY <1>1, AdvancesFacts DEF coordinator
<1>3. \A t \in Session : Current(t)' <=> Current(t)
  BY <1>2 DEF Current
<1>4. \A t \in Session \ {s} : PlayedOf(t)' = PlayedOf(t)
  BY <1>1, <1>3, AdvancesFacts DEF PlayedOf
<1>5. PICK p \in Nat, q \in Nat : p = PlayedOf(s) /\ q = PlayedOf(s)'
  <2>1. playback'[s] \in Nat
    BY <1>1 DEF TypeOK, WorkerTypeOK
  <2> QED
    BY <1>1, <2>1, ProgressTypes DEF PlayedOf
<1>6. p <= q
  BY <1>1, <1>5, AdvancesMonotone
<1>7. CASE p = q
  <2>1. \A t \in Session : PlayedOf(t)' = PlayedOf(t)
    BY <1>4, <1>5, <1>7
  <2> QED
    BY <2>1
<1>8. CASE p < q
  <2>1. /\ Current(s) /\ p = playback[s] /\ q = playback'[s]
    BY <1>3, <1>5, <1>8 DEF PlayedOf
  <2>2. limits'[s].rule = "race" /\ limits'[s].scale = InitScale
    <3>1. limits'[s] \in GrantsInForce(s)'
      BY <1>3, <2>1 DEF GrantsInForce
    <3>2. limits'[s] # NoGrant
      <4>1. q > p /\ Within(q, limits'[s].playLimit)
        BY <1>1, <1>5, <1>8, <2>1, AdvancesFacts
      <4>2. NoGrant.playLimit = 0 /\ 0 # Infinity
        BY ConstantsAssumption DEF NoGrant
      <4> QED
        BY <1>5, <4>1, <4>2 DEF Within
    <3> QED
      BY <3>1, <3>2 DEF RaceInv
  <2>3. ASSUME NEW t \in Session
        PROVE  q <= PlayedOf(t) + RACE_LEAD_BOUND_FRAMES * InitScale
    <3>1. playback'[s] > playback[s]
      BY <1>8, <2>1
    <3> QED
      BY <1>1, <1>2, <2>1, <2>2, <3>1, StepKeepsRaceLead
  <2>4. [t \in Session |-> PlayedOf(t)]' = [[t \in Session |-> PlayedOf(t)] EXCEPT ![s] = q]
    BY <1>4, <1>5
  <2>5. q > p
    BY <1>8
  <2> QED
    BY <1>5, <2>3, <2>4, <2>5 DEF LeadCap!Next, LeadCap!Advance
<1> QED
  BY <1>5, <1>6, <1>7, <1>8

LEMMA NextIsLeadCapStep ==
  ASSUME PlainRace, RaceInv, RaceInv', [Next]_vars
  PROVE  LeadCap!Next \/ UNCHANGED [t \in Session |-> PlayedOf(t)]
<1>1. TInv /\ \A m \in Modes : m = mode
  BY DEF RaceInv, PlainRace
<1>2. CASE CoordinatorPosts
  <2>1. CASE \A t \in Session : PlayedOf(t)' = PlayedOf(t)
    BY <2>1
  <2>2. CASE \A t \in Session : PlayedOf(t)' = 0
    <3>1. [t \in Session |-> PlayedOf(t)]' = [t \in Session |-> 0]
      BY <2>2
    <3> QED
      BY <3>1 DEF LeadCap!Next, LeadCap!Reset
  <2> QED
    BY <1>1, <1>2, <2>1, <2>2, PostsKeepProgress
<1>3. CASE UNCHANGED <<epoch, worker>>
  BY <1>3 DEF PlayedOf, Current, worker
<1>4. ASSUME NEW s \in Session, HandleReset(s)
      PROVE  UNCHANGED [t \in Session |-> PlayedOf(t)]
  BY <1>1, <1>4, HandleResetKeepsProgress
<1>5. ASSUME NEW s \in Session, Advances(s)
      PROVE  LeadCap!Next \/ UNCHANGED [t \in Session |-> PlayedOf(t)]
  BY <1>5, AdvanceIsLeadCapStep
<1> QED
  BY <1>1, <1>2, <1>3, <1>4, <1>5, NextKinds

\* The lead cap: a field that stays in Race implements the bounded lead in played
\* time, as long as neither a speed change nor a nudge loosens a grant.
THEOREM FieldImplementsLeadCap ==
  ASSUME PlainRace
  PROVE  Spec => LeadCapSpec
<1>1. Init => LeadCap!Init
  <2> SUFFICES ASSUME Init
               PROVE  LeadCap!Init
    OBVIOUS
  <2>1. \A s \in Session : PlayedOf(s) = 0
    BY DEF Init, PlayedOf
  <2> QED
    BY <2>1 DEF LeadCap!Init
<1>2. RaceInv /\ RaceInv' /\ [Next]_vars
        => [LeadCap!Next]_[s \in Session |-> PlayedOf(s)]
  BY NextIsLeadCapStep
<1>3. Spec => []RaceInv
  BY RaceInvariance
<1> QED
  BY <1>1, <1>2, <1>3, PTL DEF Spec, LeadCapSpec, LeadCap!Spec

=============================================================================
